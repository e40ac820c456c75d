---------------------------- MODULE DashboardProofs ----------------------------
(***************************************************************************)
(* Theorems about Dashboard, for every number of pages, writers and        *)
(* refreshes.                                                              *)
(***************************************************************************)
EXTENDS Dashboard, TLAPS

USE DashboardAssumption

\* One refresh of one page, replaced by another.
LEMMA Replaced ==
  ASSUME NEW f \in [Pages -> [Refreshes -> Call]], NEW b \in Pages, NEW k \in Refreshes,
         NEW c \in Call, NEW g, g = [f EXCEPT ![b][k] = c]
  PROVE  /\ g \in [Pages -> [Refreshes -> Call]]
         /\ g[b][k] = c
         /\ \A a \in Pages, j \in Refreshes : a # b \/ j # k => g[a][j] = f[a][j]
<1> HIDE DEF Call
<1>1. f[b] \in [Refreshes -> Call]
  OBVIOUS
<1> DEFINE h == [f[b] EXCEPT ![k] = c]
<1>2. h \in [Refreshes -> Call] /\ h[k] = c /\ \A j \in Refreshes : j # k => h[j] = f[b][j]
  BY <1>1
<1>3. g = [f EXCEPT ![b] = h]
  OBVIOUS
<1> HIDE DEF h
<1> QED
  BY <1>2, <1>3

Shown == [stage : PageStages, runs : Versions, stats : Versions]

\* A page goes to another stage, and shows another answer.
LEMMA PageTurns ==
  ASSUME NEW f \in [Pages -> Shown], NEW b \in Pages
  PROVE  /\ \A x \in PageStages : [f EXCEPT ![b].stage = x] \in [Pages -> Shown]
         /\ \A x \in PageStages, v \in Versions :
              [f EXCEPT ![b].stage = x, ![b].stats = v] \in [Pages -> Shown]
         /\ \A v \in Versions : /\ [f EXCEPT ![b].runs = v] \in [Pages -> Shown]
                               /\ [f EXCEPT ![b].stats = v] \in [Pages -> Shown]
<1> HIDE DEF PageStages
<1>1. ASSUME NEW x \in PageStages PROVE [f EXCEPT ![b].stage = x] \in [Pages -> Shown]
  BY <1>1 DEF Shown
<1>2. ASSUME NEW x \in PageStages, NEW v \in Versions
      PROVE  [f EXCEPT ![b].stage = x, ![b].stats = v] \in [Pages -> Shown]
  BY <1>2 DEF Shown
<1>3. ASSUME NEW v \in Versions
      PROVE  /\ [f EXCEPT ![b].runs = v] \in [Pages -> Shown]
             /\ [f EXCEPT ![b].stats = v] \in [Pages -> Shown]
  BY <1>3 DEF Shown
<1> QED
  BY <1>1, <1>2, <1>3

\* What a call becomes on its way.
LEMMA CallTurns ==
  ASSUME NEW c \in Call, NEW v \in Versions
  PROVE  /\ NoRefresh \in Call /\ NoRefresh.stage = "none" /\ NoRefresh.runs = 0
         /\ [NoRefresh EXCEPT !.stage = "runs"] \in Call
         /\ [stage |-> "stats", runs |-> v, stats |-> 0] \in Call
         /\ [c EXCEPT !.stage = "renderTable", !.stats = v] \in Call
         /\ [c EXCEPT !.stage = "renderStats"] \in Call
<1>1. 0 \in Versions
  BY DEF Versions
<1>2. NoRefresh \in Call /\ NoRefresh.stage = "none" /\ NoRefresh.runs = 0
  BY <1>1 DEF Call, RefreshStages, NoRefresh
<1>3. [NoRefresh EXCEPT !.stage = "runs"] \in Call
  BY <1>2 DEF Call, RefreshStages
<1>4. [stage |-> "stats", runs |-> v, stats |-> 0] \in Call
  BY <1>1 DEF Call, RefreshStages
<1>5. /\ [c EXCEPT !.stage = "renderTable", !.stats = v] \in Call
      /\ [c EXCEPT !.stage = "renderStats"] \in Call
  BY DEF Call, RefreshStages
<1> QED
  BY <1>2, <1>3, <1>4, <1>5

-----------------------------------------------------------------------------
(* What nobody can know before it has happened.                            *)

Known ==
  \A b \in Pages :
    /\ owed[b] <= version
    /\ page[b].runs <= version
    /\ \A k \in Refreshes : refreshes[b][k].runs <= version

\* The statistics of an answer are read after its runs.
Ordered ==
  \A b \in Pages, k \in Refreshes :
    RefreshAt(b, k, "renderTable") \/ RefreshAt(b, k, "renderStats")
      => refreshes[b][k].stats >= refreshes[b][k].runs

\* A page is a client of the Hub while its stream is open, and only then is anything
\* owed or written to it; its script runs once it is loaded.
Connected ==
  \A b \in Pages :
    /\ b \in clients <=> page[b].stage = "open"
    /\ b \notin clients => owed[b] = 0 /\ handler[b] = "none" /\ wire[b] = 0
    /\ page[b].stage \in {"closed", "listed"} => ~Refreshing(b)

\* A refresh that nothing disturbs is alone, brings no older table than the one that
\* is shown, and leaves statistics that cover its table.
Alone(b) ==
  \A j, k \in Refreshes : ~RefreshAt(b, j, "none") /\ ~RefreshAt(b, k, "none") => j = k
Fresh(b) ==
  \A k \in Refreshes :
    /\ RefreshAt(b, k, "stats") \/ RefreshAt(b, k, "renderTable")
         => refreshes[b][k].runs >= page[b].runs
    /\ RefreshAt(b, k, "renderStats") => page[b].runs = refreshes[b][k].runs
Covered(b) ==
  page[b].stage \in {"loaded", "open"} /\ ~Refreshing(b) => page[b].stats >= page[b].runs

Calm == \A b \in Pages \ disturbed : Alone(b) /\ Fresh(b) /\ Covered(b)

\* NoLostWakeup, with the table that is shown in place of the best one so far.
TableCurrent ==
  \A b \in Pages \ disturbed :
    b \in clients => page[b].runs >= owed[b] \/ Coming(b, owed[b])

\* The inductive invariant.
Inv == TypeOK /\ Known /\ Ordered /\ Connected /\ NoLostWakeup /\ Calm /\ TableCurrent

\* Nothing has happened yet.
LEMMA InitInv == Init => Inv
BY DEF Init, Inv, TypeOK, Known, Ordered, Connected, NoLostWakeup, Calm, Alone, Fresh, Covered,
       TableCurrent, Coming, Refreshing, Closed, NoRefresh, Call, RefreshAt, Versions, PageStages,
       RefreshStages

\* The types are kept by every step.
LEMMA TypeStep == TypeOK /\ [Next]_vars => TypeOK'
<1> SUFFICES ASSUME TypeOK, [Next]_vars PROVE TypeOK'
  OBVIOUS
<1> USE DEF TypeOK, Versions, PageStages, RefreshStages, hubVars, historyVars
<1>p. page \in [Pages -> Shown]
  BY DEF Shown
<1>1. ASSUME NEW w \in Writers, Write(w) PROVE TypeOK'
  BY <1>1 DEF Write
<1>2. ASSUME NEW w \in Writers, Notify(w) PROVE TypeOK'
  BY <1>2 DEF Notify
<1>3. ASSUME NEW b \in Pages, Subscribe(b) PROVE TypeOK'
  BY <1>3 DEF Subscribe
<1>4. ASSUME NEW b \in Pages, Take(b) PROVE TypeOK'
  BY <1>4 DEF Take
<1>5. ASSUME NEW b \in Pages, Send(b) PROVE TypeOK'
  BY <1>5 DEF Send
<1>5a. ASSUME NEW b \in Pages, NEW k \in Refreshes, NEW c \in Call, Becomes(b, k, c)
       PROVE  refreshes' \in [Pages -> [Refreshes -> Call]]
  BY <1>5a, Replaced DEF Becomes
<1>5b. ASSUME NEW b \in Pages, NEW k \in Refreshes
       PROVE  refreshes[b][k] \in Call
  OBVIOUS
<1>5c. version \in Versions /\ 0 \in Versions
  OBVIOUS
<1>6. ASSUME NEW b \in Pages, Refresh(b) PROVE TypeOK'
  <2>1. [NoRefresh EXCEPT !.stage = "runs"] \in Call
    BY DEF NoRefresh, Call
  <2>2. PICK k \in Refreshes : Becomes(b, k, [NoRefresh EXCEPT !.stage = "runs"])
    BY <1>6 DEF Refresh
  <2>3. refreshes' \in [Pages -> [Refreshes -> Call]]
    BY <1>5a, <2>1, <2>2
  <2>4. disturbed' \subseteq Pages /\ wire' \in [Pages -> 0..MaxWire]
    BY <1>6 DEF Refresh
  <2> QED
    BY <1>6, <2>3, <2>4 DEF Refresh
<1>7. ASSUME NEW b \in Pages, NEW k \in Refreshes, FetchRuns(b, k) PROVE TypeOK'
  <2>1. [stage |-> "stats", runs |-> version, stats |-> 0] \in Call
    BY DEF Call
  <2> QED
    BY <1>5a, <1>7, <2>1 DEF FetchRuns
<1>8. ASSUME NEW b \in Pages, NEW k \in Refreshes, FetchStats(b, k) PROVE TypeOK'
  <2>1. [refreshes[b][k] EXCEPT !.stage = "renderTable", !.stats = version] \in Call
    BY <1>5b, <1>5c, CallTurns
  <2> QED
    BY <1>5a, <1>8, <2>1 DEF FetchStats
<1>8a. NoRefresh \in Call
  BY DEF NoRefresh, Call
<1>9. ASSUME NEW b \in Pages, NEW k \in Refreshes, FetchFails(b, k) PROVE TypeOK'
  <2>1. owed' \in [Pages -> Versions] /\ disturbed' \subseteq Pages
    BY <1>9 DEF FetchFails
  <2> QED
    BY <1>5a, <1>8a, <1>9, <2>1 DEF FetchFails
<1>10. ASSUME NEW b \in Pages, NEW k \in Refreshes, RenderTable(b, k) PROVE TypeOK'
  <2>1. refreshes[b][k].runs \in Versions
    BY <1>5b DEF Call
  <2>2. page' \in [Pages -> Shown]
    BY <1>p, <1>10, <2>1, PageTurns DEF RenderTable
  <2>3. best' \in [Pages -> Versions]
    BY <1>10, <2>1 DEF RenderTable
  <2>4. [refreshes[b][k] EXCEPT !.stage = "renderStats"] \in Call
    BY <1>5b, <1>5c, CallTurns
  <2>5. refreshes' \in [Pages -> [Refreshes -> Call]]
    BY <1>5a, <1>10, <2>4 DEF RenderTable
  <2> QED
    BY <1>10, <2>2, <2>3, <2>5 DEF RenderTable, Shown
<1>10a. ASSUME NEW b \in Pages, NEW k \in Refreshes, RenderStats(b, k) PROVE TypeOK'
  <2>1. refreshes[b][k].stats \in Versions
    BY <1>5b DEF Call
  <2>2. page' \in [Pages -> Shown]
    BY <1>p, <1>10a, <2>1, PageTurns DEF RenderStats
  <2>3. refreshes' \in [Pages -> [Refreshes -> Call]]
    BY <1>5a, <1>8a, <1>10a DEF RenderStats
  <2> QED
    BY <1>10a, <2>2, <2>3 DEF RenderStats, Shown
<1>11. ASSUME NEW b \in Pages, LoadRuns(b) PROVE TypeOK'
  BY <1>11 DEF LoadRuns
<1>12. ASSUME NEW b \in Pages, LoadStats(b) PROVE TypeOK'
  <2>1. page' \in [Pages -> Shown]
    BY <1>p, <1>12, PageTurns DEF LoadStats
  <2> QED
    BY <1>12, <2>1 DEF LoadStats, Shown
<1>13. ASSUME NEW b \in Pages, Drop(b) PROVE TypeOK'
  <2>1. page' \in [Pages -> Shown]
    BY <1>p, <1>13, PageTurns DEF Drop
  <2>2. /\ clients' \subseteq Pages
        /\ slot' \in [Pages -> BOOLEAN]
        /\ handler' \in [Pages -> {"none", "select", "write"}]
        /\ wire' \in [Pages -> 0..MaxWire]
        /\ owed' \in [Pages -> Versions]
        /\ best' \in [Pages -> Versions]
    BY <1>13 DEF Drop, Disconnected
  <2> QED
    BY <1>13, <2>1, <2>2 DEF Drop, Shown
<1>14. ASSUME NEW b \in Pages, Close(b) PROVE TypeOK'
  BY <1>8a, <1>14 DEF Close, Disconnected, Closed
<1>15. CASE UNCHANGED vars
  BY <1>15 DEF vars
<1> QED
  BY <1>1, <1>2, <1>3, <1>4, <1>5, <1>6, <1>7, <1>8, <1>9, <1>10, <1>10a, <1>11, <1>12, <1>13,
     <1>14, <1>15 DEF Next, StreamStep, PageStep, RefreshStep

\* The variables keep their types; in particular the messages under way to a page
\* stay bounded, because handleEvents writes one at a time.
THEOREM TypeCorrect == Spec => []TypeOK
<1>1. Init => TypeOK
  BY InitInv DEF Inv
<1> QED
  BY <1>1, TypeStep, PTL DEF Spec

-----------------------------------------------------------------------------
(* What the steps of a refresh do to the calls and to the page.            *)

OtherCalls(b, k) ==
  \A a \in Pages, j \in Refreshes : a # b \/ j # k => refreshes'[a][j] = refreshes[a][j]
OtherPages(b) == \A a \in Pages : a # b => page'[a] = page[a]

LEMMA RefreshFacts ==
  ASSUME TypeOK, NEW b \in Pages
  PROVE  Refresh(b) =>
           \E k \in Refreshes : /\ RefreshAt(b, k, "none")
                                /\ refreshes'[b][k].stage = "runs"
                                /\ OtherCalls(b, k)
<1> SUFFICES ASSUME Refresh(b)
             PROVE  \E k \in Refreshes : /\ RefreshAt(b, k, "none")
                                         /\ refreshes'[b][k].stage = "runs"
                                         /\ OtherCalls(b, k)
  OBVIOUS
<1> DEFINE c == [NoRefresh EXCEPT !.stage = "runs"]
<1>1. c \in Call /\ c.stage = "runs"
  BY DEF NoRefresh, Call, Versions, RefreshStages
<1> HIDE DEF c
<1>2. PICK k \in Refreshes : RefreshAt(b, k, "none") /\ Becomes(b, k, c)
  BY DEF Refresh, c
<1> QED
  BY <1>1, <1>2, Replaced DEF Becomes, TypeOK, OtherCalls

LEMMA FetchFacts ==
  ASSUME TypeOK, NEW b \in Pages, NEW k \in Refreshes
  PROVE  /\ FetchRuns(b, k) => /\ refreshes'[b][k].stage = "stats"
                               /\ refreshes'[b][k].runs = version
                               /\ OtherCalls(b, k)
         /\ FetchStats(b, k) => /\ refreshes'[b][k].stage = "renderTable"
                                /\ refreshes'[b][k].runs = refreshes[b][k].runs
                                /\ refreshes'[b][k].stats = version
                                /\ OtherCalls(b, k)
         /\ FetchFails(b, k) => refreshes'[b][k].stage = "none" /\ OtherCalls(b, k)
<1>0. refreshes[b][k] \in Call /\ version \in Versions
  BY DEF TypeOK
<1>1. ASSUME NEW c \in Call, Becomes(b, k, c) PROVE refreshes'[b][k] = c /\ OtherCalls(b, k)
  BY <1>1, Replaced DEF Becomes, TypeOK, OtherCalls
<1>2. CASE FetchRuns(b, k)
  <2> DEFINE c == [stage |-> "stats", runs |-> version, stats |-> 0]
  <2>1. c \in Call /\ c.stage = "stats" /\ c.runs = version
    BY <1>0 DEF Call, RefreshStages, Versions
  <2>2. Becomes(b, k, c)
    BY <1>2 DEF FetchRuns
  <2> HIDE DEF c
  <2>3. refreshes'[b][k] = c /\ OtherCalls(b, k)
    BY <1>1, <2>1, <2>2
  <2>4. ~FetchStats(b, k) /\ (FetchFails(b, k) => refreshes'[b][k].stage = "none")
    <3>1. ~FetchStats(b, k)
      BY <1>2 DEF FetchStats, FetchRuns, RefreshAt
    <3>2. FetchFails(b, k) => Becomes(b, k, NoRefresh)
      BY DEF FetchFails
    <3> QED
      BY <1>0, <1>1, <3>1, <3>2, CallTurns
  <2> QED
    BY <2>1, <2>3, <2>4
<1>3. CASE FetchStats(b, k)
  <2> DEFINE c == [refreshes[b][k] EXCEPT !.stage = "renderTable", !.stats = version]
  <2>1. /\ c \in Call /\ c.stage = "renderTable"
        /\ c.runs = refreshes[b][k].runs /\ c.stats = version
    BY <1>0 DEF Call, RefreshStages
  <2>2. Becomes(b, k, c)
    BY <1>3 DEF FetchStats
  <2> HIDE DEF c
  <2>3. refreshes'[b][k] = c /\ OtherCalls(b, k)
    BY <1>1, <2>1, <2>2
  <2>4. ~FetchRuns(b, k) /\ (FetchFails(b, k) => refreshes'[b][k].stage = "none")
    <3>1. ~FetchRuns(b, k)
      BY <1>3 DEF FetchStats, FetchRuns, RefreshAt
    <3>2. FetchFails(b, k) => Becomes(b, k, NoRefresh)
      BY DEF FetchFails
    <3> QED
      BY <1>0, <1>1, <3>1, <3>2, CallTurns
  <2> QED
    BY <2>1, <2>3, <2>4
<1>4. FetchFails(b, k) => refreshes'[b][k].stage = "none" /\ OtherCalls(b, k)
  BY <1>0, <1>1, CallTurns DEF FetchFails
<1> QED
  BY <1>2, <1>3, <1>4

LEMMA RenderFacts ==
  ASSUME TypeOK, NEW b \in Pages, NEW k \in Refreshes
  PROVE  /\ RenderTable(b, k) => /\ refreshes'[b][k].stage = "renderStats"
                                 /\ refreshes'[b][k].runs = refreshes[b][k].runs
                                 /\ refreshes'[b][k].stats = refreshes[b][k].stats
                                 /\ OtherCalls(b, k)
                                 /\ page'[b].stage = page[b].stage
                                 /\ page'[b].runs = refreshes[b][k].runs
                                 /\ OtherPages(b)
         /\ RenderStats(b, k) => /\ refreshes'[b][k].stage = "none"
                                 /\ OtherCalls(b, k)
                                 /\ page'[b].stage = page[b].stage
                                 /\ page'[b].runs = page[b].runs
                                 /\ page'[b].stats = refreshes[b][k].stats
                                 /\ OtherPages(b)
<1>0. refreshes[b][k] \in Call /\ version \in Versions
  BY DEF TypeOK
<1>1. ASSUME NEW c \in Call, Becomes(b, k, c) PROVE refreshes'[b][k] = c /\ OtherCalls(b, k)
  BY <1>1, Replaced DEF Becomes, TypeOK, OtherCalls
<1>2. ASSUME RenderTable(b, k)
      PROVE  /\ refreshes'[b][k].stage = "renderStats"
             /\ refreshes'[b][k].runs = refreshes[b][k].runs
             /\ refreshes'[b][k].stats = refreshes[b][k].stats
             /\ OtherCalls(b, k)
             /\ page'[b].stage = page[b].stage
             /\ page'[b].runs = refreshes[b][k].runs
             /\ OtherPages(b)
  <2> DEFINE c == [refreshes[b][k] EXCEPT !.stage = "renderStats"]
  <2>1. /\ c \in Call /\ c.stage = "renderStats"
        /\ c.runs = refreshes[b][k].runs /\ c.stats = refreshes[b][k].stats
    BY <1>0 DEF Call, RefreshStages
  <2>2. Becomes(b, k, c)
    BY <1>2 DEF RenderTable
  <2> HIDE DEF c
  <2>3. refreshes'[b][k] = c /\ OtherCalls(b, k)
    BY <1>1, <2>1, <2>2
  <2>4. /\ page'[b].stage = page[b].stage
        /\ page'[b].runs = refreshes[b][k].runs
        /\ OtherPages(b)
    BY <1>2 DEF RenderTable, TypeOK, OtherPages
  <2> QED
    BY <2>1, <2>3, <2>4
<1>3. ASSUME RenderStats(b, k)
      PROVE  /\ refreshes'[b][k].stage = "none"
             /\ OtherCalls(b, k)
             /\ page'[b].stage = page[b].stage
             /\ page'[b].runs = page[b].runs
             /\ page'[b].stats = refreshes[b][k].stats
             /\ OtherPages(b)
  <2>1. refreshes'[b][k] = NoRefresh /\ OtherCalls(b, k)
    BY <1>0, <1>1, <1>3, CallTurns DEF RenderStats
  <2>2. /\ page'[b].stage = page[b].stage
        /\ page'[b].runs = page[b].runs
        /\ page'[b].stats = refreshes[b][k].stats
        /\ OtherPages(b)
    BY <1>3 DEF RenderStats, TypeOK, OtherPages
  <2> QED
    BY <1>0, <2>1, <2>2, CallTurns
<1> QED
  BY <1>2, <1>3

LEMMA CloseFacts ==
  ASSUME TypeOK, NEW b \in Pages, Close(b)
  PROVE  /\ page'[b] = Closed
         /\ \A k \in Refreshes : refreshes'[b][k] = NoRefresh
         /\ \A a \in Pages : a # b => /\ page'[a] = page[a]
                                      /\ refreshes'[a] = refreshes[a]
BY DEF Close, TypeOK

\* The steps that open or lose a page's stream leave its calls alone.
LEMMA StageFacts ==
  ASSUME TypeOK, NEW b \in Pages
  PROVE  /\ LoadRuns(b) => /\ page'[b].stage = "listed" /\ OtherPages(b)
         /\ LoadStats(b) => /\ page'[b].stage = "loaded"
                            /\ page'[b].runs = page[b].runs
                            /\ page'[b].stats = version /\ OtherPages(b)
         /\ Subscribe(b) => /\ page'[b].stage = "open"
                            /\ page'[b].runs = page[b].runs
                            /\ page'[b].stats = page[b].stats /\ OtherPages(b)
         /\ Drop(b) => /\ page'[b].stage = "loaded"
                       /\ page'[b].runs = page[b].runs
                       /\ page'[b].stats = page[b].stats /\ OtherPages(b)
<1> USE DEF OtherPages, TypeOK
<1>1. LoadRuns(b) => page'[b].stage = "listed" /\ OtherPages(b)
  BY DEF LoadRuns
<1>2. LoadStats(b) => /\ page'[b].stage = "loaded" /\ page'[b].runs = page[b].runs
                      /\ page'[b].stats = version /\ OtherPages(b)
  BY DEF LoadStats
<1>3. Subscribe(b) => /\ page'[b].stage = "open" /\ page'[b].runs = page[b].runs
                      /\ page'[b].stats = page[b].stats /\ OtherPages(b)
  BY DEF Subscribe
<1>4. Drop(b) => /\ page'[b].stage = "loaded" /\ page'[b].runs = page[b].runs
                 /\ page'[b].stats = page[b].stats /\ OtherPages(b)
  BY DEF Drop
<1> QED
  BY <1>1, <1>2, <1>3, <1>4

-----------------------------------------------------------------------------
(* The steps that keep the rest, one group of variables at a time.         *)

\* Versions only grow, and nobody reads more than there is.
LEMMA KnownStep == TypeOK /\ TypeOK' /\ Known /\ [Next]_vars => Known'
<1> SUFFICES ASSUME TypeOK, TypeOK', Known, [Next]_vars PROVE Known'
  OBVIOUS
<1> USE DEF Known, hubVars, historyVars
<1>t. /\ version \in Nat /\ version' \in Nat
      /\ \A b \in Pages : /\ owed[b] \in Nat
                          /\ page[b].runs \in Nat
                          /\ \A k \in Refreshes : refreshes[b][k].runs \in Nat
  BY DEF TypeOK, Call, Versions
<1>c. ASSUME NEW b \in Pages, NEW k \in Refreshes, NEW c \in Call, Becomes(b, k, c),
             c.runs <= version
      PROVE  \A a \in Pages, j \in Refreshes : refreshes'[a][j].runs <= version
  BY <1>c, Replaced DEF Becomes, TypeOK
<1>z. NoRefresh \in Call /\ NoRefresh.runs <= version
  BY <1>t DEF NoRefresh, Call, Versions, RefreshStages
<1>1. ASSUME NEW w \in Writers, Write(w) PROVE Known'
  BY <1>1, <1>t DEF Write
<1>2. ASSUME NEW w \in Writers, Notify(w) PROVE Known'
  BY <1>2, <1>t DEF Notify
<1>3. ASSUME NEW b \in Pages, Subscribe(b) PROVE Known'
  BY <1>3 DEF Subscribe, TypeOK
<1>4. ASSUME NEW b \in Pages, Take(b) \/ Send(b) PROVE Known'
  BY <1>4 DEF Take, Send
<1>6. ASSUME NEW b \in Pages, Refresh(b) PROVE Known'
  <2> DEFINE c == [NoRefresh EXCEPT !.stage = "runs"]
  <2>1. c \in Call /\ c.runs <= version
    BY <1>t DEF NoRefresh, Call, Versions, RefreshStages
  <2> HIDE DEF c
  <2>2. PICK k \in Refreshes : Becomes(b, k, c)
    BY <1>6 DEF Refresh, c
  <2> QED
    BY <1>c, <1>6, <2>1, <2>2 DEF Refresh
<1>7. ASSUME NEW b \in Pages, NEW k \in Refreshes, FetchRuns(b, k) PROVE Known'
  <2> DEFINE c == [stage |-> "stats", runs |-> version, stats |-> 0]
  <2>1. c \in Call /\ c.runs <= version
    BY <1>t DEF TypeOK, Call, Versions, RefreshStages
  <2> HIDE DEF c
  <2>2. Becomes(b, k, c)
    BY <1>7 DEF FetchRuns, c
  <2> QED
    BY <1>c, <1>7, <2>1, <2>2 DEF FetchRuns
<1>8. ASSUME NEW b \in Pages, NEW k \in Refreshes, FetchStats(b, k) PROVE Known'
  <2> DEFINE c == [refreshes[b][k] EXCEPT !.stage = "renderTable", !.stats = version]
  <2>0. refreshes[b][k] \in Call /\ version \in Versions
    BY DEF TypeOK
  <2>1. c \in Call /\ c.runs <= version
    BY <1>t, <2>0 DEF Call, RefreshStages
  <2> HIDE DEF c
  <2>2. Becomes(b, k, c)
    BY <1>8 DEF FetchStats, c
  <2> QED
    BY <1>c, <1>8, <2>1, <2>2 DEF FetchStats
<1>9. ASSUME NEW b \in Pages, NEW k \in Refreshes, FetchFails(b, k) PROVE Known'
  <2>1. \A a \in Pages : owed'[a] <= version
    BY <1>t, <1>9 DEF FetchFails, TypeOK
  <2> QED
    BY <1>c, <1>z, <1>9, <2>1 DEF FetchFails
<1>10. ASSUME NEW b \in Pages, NEW k \in Refreshes, RenderTable(b, k) PROVE Known'
  <2> DEFINE c == [refreshes[b][k] EXCEPT !.stage = "renderStats"]
  <2>0. refreshes[b][k] \in Call /\ version \in Versions
    BY DEF TypeOK
  <2>1. c \in Call /\ c.runs <= version
    BY <1>t, <2>0 DEF Call, RefreshStages
  <2> HIDE DEF c
  <2>2. Becomes(b, k, c)
    BY <1>10 DEF RenderTable, c
  <2>3. ASSUME NEW a \in Pages PROVE page'[a].runs <= version
    <3>1. page'[a].runs = IF a = b THEN refreshes[b][k].runs ELSE page[a].runs
      BY <1>10 DEF RenderTable, TypeOK
    <3> QED
      BY <3>1
  <2> QED
    BY <1>c, <1>10, <2>1, <2>2, <2>3 DEF RenderTable
<1>10a. ASSUME NEW b \in Pages, NEW k \in Refreshes, RenderStats(b, k) PROVE Known'
  <2>1. ASSUME NEW a \in Pages PROVE page'[a].runs = page[a].runs
    BY <1>10a DEF RenderStats, TypeOK
  <2> QED
    BY <1>c, <1>z, <1>10a, <2>1 DEF RenderStats
<1>11. ASSUME NEW b \in Pages, LoadRuns(b) PROVE Known'
  BY <1>11, <1>t DEF LoadRuns, TypeOK
<1>12. ASSUME NEW b \in Pages, LoadStats(b) PROVE Known'
  <2>1. ASSUME NEW a \in Pages PROVE page'[a].runs = page[a].runs
    BY <1>12 DEF LoadStats, TypeOK
  <2> QED
    BY <1>12, <2>1 DEF LoadStats
<1>13. ASSUME NEW b \in Pages, Drop(b) PROVE Known'
  <2>1. ASSUME NEW a \in Pages PROVE page'[a].runs <= version
    <3>1. page'[a].runs = page[a].runs
      BY <1>13 DEF Drop, TypeOK
    <3> QED
      BY <3>1
  <2> QED
    BY <1>13, <1>t, <2>1 DEF Drop, Disconnected, TypeOK
<1>14. ASSUME NEW b \in Pages, Close(b) PROVE Known'
  <2>1. \A a \in Pages : page'[a].runs <= version
    BY <1>14, <1>t DEF Close, Closed, TypeOK
  <2>2. \A a \in Pages, k \in Refreshes : refreshes'[a][k].runs <= version
    BY <1>14, <1>t DEF Close, NoRefresh, TypeOK
  <2> QED
    BY <1>14, <1>t, <2>1, <2>2 DEF Close, Disconnected, TypeOK
<1>15. CASE UNCHANGED vars
  BY <1>15 DEF vars
<1> QED
  BY <1>1, <1>2, <1>3, <1>4, <1>6, <1>7, <1>8, <1>9, <1>10, <1>10a, <1>11, <1>12, <1>13, <1>14, <1>15
  DEF Next, StreamStep, PageStep, RefreshStep

\* A stream opens and ends together with the entry of its page in the Hub.
LEMMA ConnectedStep == TypeOK /\ Connected /\ [Next]_vars => Connected'
<1> SUFFICES ASSUME TypeOK, Connected, [Next]_vars PROVE Connected'
  OBVIOUS
<1> USE DEF Connected, Refreshing, RefreshAt, hubVars, historyVars
<1>1. ASSUME NEW w \in Writers, Write(w) \/ Notify(w) PROVE Connected'
  BY <1>1 DEF Write, Notify, TypeOK
<1>2. ASSUME NEW b \in Pages, Subscribe(b) PROVE Connected'
  <2>1. /\ page[b].stage = "loaded" /\ clients' = clients \cup {b}
        /\ owed' = owed /\ wire' = wire /\ refreshes' = refreshes
        /\ \A a \in Pages : handler'[a] = IF a = b THEN "select" ELSE handler[a]
    BY <1>2 DEF Subscribe, TypeOK
  <2>2. page'[b].stage = "open" /\ OtherPages(b)
    BY <1>2, StageFacts
  <2> QED
    BY <2>1, <2>2 DEF OtherPages
<1>3. ASSUME NEW b \in Pages, Take(b) \/ Send(b) PROVE Connected'
  <2>1. /\ handler[b] # "none"
        /\ \A a \in Pages : a # b => handler'[a] = handler[a] /\ wire'[a] = wire[a]
        /\ UNCHANGED <<clients, page, owed, refreshes>>
    BY <1>3 DEF Take, Send, TypeOK
  <2> QED
    BY <2>1
<1>3a. ASSUME NEW b \in Pages, Refresh(b) PROVE Connected'
  <2>1. /\ wire[b] > 0
        /\ \A a \in Pages : a # b => wire'[a] = wire[a] /\ refreshes'[a] = refreshes[a]
        /\ UNCHANGED <<clients, handler, page, owed>>
    BY <1>3a DEF Refresh, Becomes, TypeOK
  <2>2. page[b].stage = "open" /\ b \in clients
    BY <2>1
  <2> QED
    BY <2>1, <2>2
<1>c. ASSUME NEW b \in Pages, NEW k \in Refreshes, ~RefreshAt(b, k, "none"), OtherCalls(b, k)
      PROVE  \A a \in Pages : ~Refreshing(a) => ~Refreshing(a)'
  BY <1>c DEF OtherCalls
<1>4. ASSUME NEW b \in Pages, NEW k \in Refreshes,
             FetchRuns(b, k) \/ FetchStats(b, k) \/ FetchFails(b, k)
      PROVE  Connected'
  <2>1. ~RefreshAt(b, k, "none") /\ OtherCalls(b, k)
    BY <1>4, FetchFacts DEF FetchRuns, FetchStats, FetchFails
  <2>2. /\ UNCHANGED <<hubVars, page>>
        /\ \A a \in Pages : owed[a] = 0 => owed'[a] = 0
    BY <1>4 DEF FetchRuns, FetchStats, FetchFails, TypeOK
  <2> HIDE DEF Refreshing, RefreshAt
  <2> QED
    BY <1>c, <2>1, <2>2
<1>6. ASSUME NEW b \in Pages, NEW k \in Refreshes, RenderTable(b, k) \/ RenderStats(b, k)
      PROVE  Connected'
  <2>1. /\ ~RefreshAt(b, k, "none") /\ OtherCalls(b, k)
        /\ page'[b].stage = page[b].stage /\ OtherPages(b)
    BY <1>6, RenderFacts DEF RenderTable, RenderStats
  <2>2. UNCHANGED <<hubVars, owed>>
    BY <1>6 DEF RenderTable, RenderStats
  <2>3. \A a \in Pages : page'[a].stage = page[a].stage
    BY <2>1 DEF OtherPages
  <2> HIDE DEF Refreshing, RefreshAt
  <2> QED
    BY <1>c, <2>1, <2>2, <2>3
<1>7. ASSUME NEW b \in Pages, LoadRuns(b) \/ LoadStats(b) PROVE Connected'
  <2>1. /\ page[b].stage \in {"closed", "listed"}
        /\ page'[b].stage \in {"listed", "loaded"} /\ OtherPages(b)
    BY <1>7, StageFacts DEF LoadRuns, LoadStats
  <2>2. UNCHANGED <<hubVars, owed, refreshes>>
    BY <1>7 DEF LoadRuns, LoadStats
  <2> QED
    BY <2>1, <2>2 DEF OtherPages
<1>d. ASSUME NEW b \in Pages, Disconnected(b)
      PROVE  /\ clients' = clients \ {b}
             /\ owed'[b] = 0 /\ handler'[b] = "none" /\ wire'[b] = 0
             /\ \A a \in Pages : a # b => /\ owed'[a] = owed[a] /\ handler'[a] = handler[a]
                                          /\ wire'[a] = wire[a]
  BY <1>d DEF Disconnected, TypeOK
<1>8. ASSUME NEW b \in Pages, Drop(b) PROVE Connected'
  <2>1. page'[b].stage = "loaded" /\ OtherPages(b)
    BY <1>8, StageFacts
  <2>2. refreshes' = refreshes /\ Disconnected(b)
    BY <1>8 DEF Drop
  <2> QED
    BY <1>d, <2>1, <2>2 DEF OtherPages
<1>9. ASSUME NEW b \in Pages, Close(b) PROVE Connected'
  <2>1. Disconnected(b)
    BY <1>9 DEF Close
  <2> QED
    BY <1>9, <1>d, <2>1, CloseFacts DEF Closed, NoRefresh
<1>10. CASE UNCHANGED vars
  BY <1>10 DEF vars
<1> QED
  BY <1>1, <1>2, <1>3, <1>3a, <1>4, <1>6, <1>7, <1>8, <1>9, <1>10
  DEF Next, StreamStep, PageStep, RefreshStep

\* The statistics of an answer are read after its runs.
LEMMA OrderedStep == TypeOK /\ Known /\ Ordered /\ [Next]_vars => Ordered'
<1> SUFFICES ASSUME TypeOK, Known, Ordered, [Next]_vars PROVE Ordered'
  OBVIOUS
<1> USE DEF Ordered, RefreshAt, hubVars, historyVars
<1>1. ASSUME NEW b \in Pages, Refresh(b) PROVE Ordered'
  BY <1>1, RefreshFacts DEF OtherCalls
<1>2. ASSUME NEW b \in Pages, NEW k \in Refreshes,
             FetchRuns(b, k) \/ FetchStats(b, k) \/ FetchFails(b, k)
      PROVE  Ordered'
  BY <1>2, FetchFacts DEF Known, OtherCalls
<1>3. ASSUME NEW b \in Pages, NEW k \in Refreshes, RenderTable(b, k) \/ RenderStats(b, k)
      PROVE  Ordered'
  <2>1. RenderTable(b, k) => refreshes[b][k].stats >= refreshes[b][k].runs
    BY DEF RenderTable
  <2> QED
    BY <1>3, <2>1, RenderFacts DEF OtherCalls
<1>5. ASSUME NEW b \in Pages, Close(b) PROVE Ordered'
  BY <1>5, CloseFacts DEF NoRefresh
<1>6. CASE UNCHANGED refreshes
  BY <1>6
<1> QED
  BY <1>1, <1>2, <1>3, <1>5, <1>6
  DEF Next, vars, StreamStep, PageStep, RefreshStep, Write, Notify, Subscribe, Take, Send,
      LoadRuns, LoadStats, Drop

\* A refresh that starts alone stays alone until another one starts, and what it renders
\* is one answer, no older than the page.
LEMMA CalmStep == TypeOK /\ Known /\ Ordered /\ Connected /\ Calm /\ [Next]_vars => Calm'
<1> SUFFICES ASSUME TypeOK, Known, Ordered, Connected, Calm, [Next]_vars,
                    NEW a \in Pages, a \notin disturbed'
             PROVE  (Alone(a) /\ Fresh(a) /\ Covered(a))'
  BY DEF Calm
<1> DEFINE Kept == (Alone(a) /\ Fresh(a) /\ Covered(a))'
<1>n. /\ version \in Nat /\ page[a].runs \in Nat
      /\ \A k \in Refreshes : refreshes[a][k].runs \in Nat /\ refreshes[a][k].stats \in Nat
  BY DEF TypeOK, Versions, Call
<1>old. a \notin disturbed => Alone(a) /\ Fresh(a) /\ Covered(a)
  BY DEF Calm
<1> USE DEF RefreshAt, Refreshing
<1>0. ASSUME a \notin disturbed, page'[a] = page[a],
             \A k \in Refreshes : refreshes'[a][k] = refreshes[a][k]
      PROVE  Kept
  BY <1>old, <1>0 DEF Alone, Fresh, Covered
<1> USE DEF hubVars, historyVars
<1>1. ASSUME NEW b \in Pages, Refresh(b) PROVE Kept
  <2>1. PICK k \in Refreshes : /\ RefreshAt(b, k, "none")
                               /\ refreshes'[b][k].stage = "runs"
                               /\ OtherCalls(b, k)
    BY <1>1, RefreshFacts
  <2>2. CASE a = b
    <3>1. ~Refreshing(a)
      BY <1>1, <2>2 DEF Refresh
    <3>2. \A j \in Refreshes : j # k => refreshes'[a][j].stage = "none"
      BY <2>1, <2>2, <3>1 DEF OtherCalls
    <3> QED
      BY <2>1, <2>2, <3>2 DEF Alone, Fresh, Covered
  <2>3. CASE a # b
    <3>1. a \notin disturbed /\ page' = page
      BY <1>1, <2>3 DEF Refresh
    <3> QED
      BY <1>0, <2>1, <2>3, <3>1 DEF OtherCalls
  <2> QED
    BY <2>2, <2>3
<1>2. ASSUME NEW b \in Pages, NEW k \in Refreshes, FetchRuns(b, k) \/ FetchStats(b, k)
      PROVE  Kept
  <2>1. /\ a \notin disturbed /\ page' = page /\ OtherCalls(b, k)
        /\ ~RefreshAt(b, k, "none")
    BY <1>2, FetchFacts DEF FetchRuns, FetchStats
  <2>2. CASE a = b
    <3>1. /\ refreshes'[a][k].stage \in {"stats", "renderTable"}
          /\ refreshes'[a][k].runs >= page[a].runs
      <4>1. CASE FetchRuns(b, k)
        BY <2>2, <4>1, FetchFacts DEF Known
      <4>2. CASE FetchStats(b, k)
        <5>1. refreshes[a][k].runs >= page[a].runs
          BY <1>old, <2>1, <2>2, <4>2 DEF FetchStats, Fresh
        <5> QED
          BY <2>2, <4>2, <5>1, FetchFacts
      <4> QED
        BY <1>2, <4>1, <4>2
    <3>2. \A j \in Refreshes : j # k => refreshes'[a][j] = refreshes[a][j]
      BY <2>1, <2>2 DEF OtherCalls
    <3>3. Alone(a)'
      BY <1>old, <2>1, <2>2, <3>2 DEF Alone
    <3> QED
      BY <1>old, <2>1, <3>1, <3>2, <3>3 DEF Fresh, Covered
  <2>3. CASE a # b
    BY <1>0, <2>1, <2>3 DEF OtherCalls
  <2> QED
    BY <2>2, <2>3
<1>3. ASSUME NEW b \in Pages, NEW k \in Refreshes, FetchFails(b, k) PROVE Kept
  <2>1. a # b /\ a \notin disturbed /\ page' = page /\ OtherCalls(b, k)
    BY <1>3, FetchFacts DEF FetchFails
  <2> QED
    BY <1>0, <2>1 DEF OtherCalls
<1>4. ASSUME NEW b \in Pages, NEW k \in Refreshes, RenderTable(b, k) PROVE Kept
  <2>1. a \notin disturbed /\ RefreshAt(b, k, "renderTable")
    BY <1>4 DEF RenderTable
  <2>2. CASE a = b
    <3>1. \A j \in Refreshes : j # k => RefreshAt(a, j, "none")
      BY <1>old, <2>1, <2>2 DEF Alone
    <3>2. \A j \in Refreshes : j # k => refreshes'[a][j].stage = "none"
      BY <1>4, <2>2, <3>1, RenderFacts DEF OtherCalls
    <3>3. /\ refreshes'[a][k].stage = "renderStats"
          /\ page'[a].runs = refreshes'[a][k].runs
      BY <1>4, <2>2, RenderFacts
    <3> QED
      BY <3>2, <3>3 DEF Alone, Fresh, Covered
  <2>3. CASE a # b
    BY <1>0, <1>4, <2>1, <2>3, RenderFacts DEF OtherCalls, OtherPages
  <2> QED
    BY <2>2, <2>3
<1>5. ASSUME NEW b \in Pages, NEW k \in Refreshes, RenderStats(b, k) PROVE Kept
  <2>1. a \notin disturbed /\ RefreshAt(b, k, "renderStats")
    BY <1>5 DEF RenderStats
  <2>2. CASE a = b
    <3>1. \A j \in Refreshes : j # k => RefreshAt(a, j, "none")
      BY <1>old, <2>1, <2>2 DEF Alone
    <3>2. \A j \in Refreshes : refreshes'[a][j].stage = "none"
      BY <1>5, <2>2, <3>1, RenderFacts DEF OtherCalls
    <3>3. /\ page[a].runs = refreshes[a][k].runs
          /\ refreshes[a][k].stats >= refreshes[a][k].runs
      BY <1>old, <2>1, <2>2 DEF Fresh, Ordered
    <3>4. page'[a].stats >= page'[a].runs
      BY <1>5, <2>2, <3>3, RenderFacts
    <3> QED
      BY <3>2, <3>4 DEF Alone, Fresh, Covered
  <2>3. CASE a # b
    BY <1>0, <1>5, <2>1, <2>3, RenderFacts DEF OtherCalls, OtherPages
  <2> QED
    BY <2>2, <2>3
<1>6. ASSUME NEW b \in Pages, LoadRuns(b) \/ LoadStats(b) \/ Subscribe(b) \/ Drop(b)
      PROVE  Kept
  <2>1. a \notin disturbed /\ refreshes' = refreshes
    BY <1>6 DEF LoadRuns, LoadStats, Subscribe, Drop
  <2>2. CASE a = b
    <3>1. Alone(a)'
      BY <1>old, <2>1 DEF Alone
    <3>2. CASE LoadRuns(b) \/ LoadStats(b)
      <4>1. ~Refreshing(a)'
        BY <2>1, <2>2, <3>2 DEF Connected, LoadRuns, LoadStats
      <4>2. LoadStats(b) => page'[a].stats >= page'[a].runs
        BY <2>2, StageFacts DEF Known
      <4>3. Covered(a)'
        BY <2>2, <3>2, <4>2, StageFacts DEF Covered
      <4> QED
        BY <3>1, <4>1, <4>3 DEF Fresh
    <3>3. CASE Subscribe(b) \/ Drop(b)
      <4>1. /\ page[a].stage \in {"loaded", "open"}
            /\ page'[a].runs = page[a].runs /\ page'[a].stats = page[a].stats
        BY <2>2, <3>3, StageFacts DEF Subscribe, Drop
      <4> QED
        BY <1>old, <2>1, <3>1, <4>1 DEF Fresh, Covered
    <3> QED
      BY <1>6, <3>2, <3>3
  <2>3. CASE a # b
    BY <1>0, <1>6, <2>1, <2>3, StageFacts DEF OtherPages
  <2> QED
    BY <2>2, <2>3
<1>7. ASSUME NEW b \in Pages, Close(b) PROVE Kept
  <2>1. CASE a = b
    <3>1. page'[a] = Closed /\ \A k \in Refreshes : refreshes'[a][k] = NoRefresh
      BY <1>7, <2>1, CloseFacts
    <3> QED
      BY <3>1 DEF Alone, Fresh, Covered, Closed, NoRefresh
  <2>2. CASE a # b
    <3>1. a \notin disturbed
      BY <1>7, <2>2 DEF Close
    <3> QED
      BY <1>0, <1>7, <2>2, <3>1, CloseFacts
  <2> QED
    BY <2>1, <2>2
<1>8. CASE UNCHANGED <<page, refreshes, disturbed>>
  BY <1>0, <1>8
<1> QED
  BY <1>1, <1>2, <1>3, <1>4, <1>5, <1>6, <1>7, <1>8
  DEF Next, vars, StreamStep, PageStep, RefreshStep, Write, Notify, Take, Send

\* A signal is handed on from the channel to the handler, the wire, a call and at last
\* the table; where it is dropped another one is ahead of it.  The steps other than
\* rendering, seen from a page that somebody owes the changes up to its debt.
LEMMA ComingStep ==
  ASSUME TypeOK, Known, Connected, NEW a \in Pages, a \in clients, Coming(a, owed[a]), [Next]_vars,
         a \in clients'
  PROVE  \/ Coming(a, owed[a])'
         \/ owed'[a] = 0
         \/ \E k \in Refreshes : /\ RenderTable(a, k)
                                 /\ refreshes[a][k].runs >= owed[a] /\ owed'[a] = owed[a]
<1> DEFINE Kept == Coming(a, owed[a])' \/ owed'[a] = 0
<1>n. /\ version \in Nat
      /\ owed[a] \in Nat
      /\ \A k \in Refreshes : refreshes[a][k].runs \in Nat
  BY DEF TypeOK, Versions, Call
<1> USE DEF RefreshAt, hubVars, historyVars
<1>0. ASSUME slot'[a] = slot[a], handler'[a] = handler[a], wire'[a] = wire[a],
             owed'[a] = owed[a],
             \A k \in Refreshes : refreshes'[a][k] = refreshes[a][k]
      PROVE  Kept
  BY <1>0 DEF Coming
<1>1. ASSUME NEW w \in Writers, Write(w) \/ Notify(w) PROVE Kept
  <2>1. CASE Write(w)
    BY <1>0, <2>1 DEF Write
  <2>2. CASE Notify(w)
    BY <2>2 DEF Notify, Coming
  <2> QED
    BY <1>1, <2>1, <2>2
<1>2. ASSUME NEW b \in Pages, Take(b) \/ Send(b) PROVE Kept
  <2>1. CASE a = b
    BY <1>2, <2>1 DEF Take, Send, Coming, TypeOK
  <2>2. CASE a # b
    BY <1>0, <1>2, <2>2 DEF Take, Send, TypeOK
  <2> QED
    BY <2>1, <2>2
<1>3. ASSUME NEW b \in Pages, Subscribe(b) PROVE Kept
  <2>1. CASE a = b
    <3>1. /\ refreshes' = refreshes /\ owed' = owed /\ wire' = wire
          /\ page[a].stage = "loaded"
      BY <1>3, <2>1 DEF Subscribe
    <3> QED
      BY <3>1 DEF Connected
  <2>2. CASE a # b
    BY <1>0, <1>3, <2>2 DEF Subscribe, TypeOK
  <2> QED
    BY <2>1, <2>2
<1>4. ASSUME NEW b \in Pages, Refresh(b) PROVE Kept
  <2>1. PICK k \in Refreshes : refreshes'[b][k].stage = "runs" /\ OtherCalls(b, k)
    BY <1>4, RefreshFacts
  <2>2. CASE a = b
    BY <2>1, <2>2 DEF Coming
  <2>3. CASE a # b
    BY <1>0, <1>4, <2>1, <2>3 DEF Refresh, TypeOK, OtherCalls
  <2> QED
    BY <2>2, <2>3
<1>5. ASSUME NEW b \in Pages, NEW k \in Refreshes, FetchRuns(b, k) PROVE Kept
  <2>1. CASE a = b
    <3>1. /\ refreshes'[a][k].stage = "stats" /\ refreshes'[a][k].runs = version
          /\ owed'[a] = owed[a] /\ owed[a] <= version
      BY <1>5, <2>1, FetchFacts DEF FetchRuns, Known
    <3> QED
      BY <1>n, <3>1 DEF Coming
  <2>2. CASE a # b
    <3>1. \A j \in Refreshes : refreshes'[a][j] = refreshes[a][j]
      BY <1>5, <2>2, FetchFacts DEF OtherCalls
    <3>2. UNCHANGED <<slot, handler, wire>> /\ owed'[a] = owed[a]
      BY <1>5, <2>2 DEF FetchRuns, TypeOK
    <3> QED
      BY <1>0, <3>1, <3>2
  <2> QED
    BY <2>1, <2>2
<1>6. ASSUME NEW b \in Pages, NEW k \in Refreshes, FetchStats(b, k) PROVE Kept
  <2>1. CASE a = b
    <3>1. \A j \in Refreshes :
            /\ refreshes'[a][j].runs = refreshes[a][j].runs
            /\ RefreshAt(a, j, "runs") => RefreshAt(a, j, "runs")'
            /\ RefreshAt(a, j, "stats") \/ RefreshAt(a, j, "renderTable")
                 => (RefreshAt(a, j, "stats") \/ RefreshAt(a, j, "renderTable"))'
      <4>1. /\ refreshes[a][k].stage = "stats"
            /\ refreshes'[a][k].stage = "renderTable"
            /\ refreshes'[a][k].runs = refreshes[a][k].runs
            /\ OtherCalls(a, k)
        BY <1>6, <2>1, FetchFacts DEF FetchStats
      <4> QED
        BY <4>1 DEF OtherCalls
    <3>2. UNCHANGED <<slot, handler, wire, owed>>
      BY <1>6 DEF FetchStats
    <3> QED
      BY <3>1, <3>2 DEF Coming
  <2>2. CASE a # b
    <3>1. \A j \in Refreshes : refreshes'[a][j] = refreshes[a][j]
      BY <1>6, <2>2, FetchFacts DEF OtherCalls
    <3>2. UNCHANGED <<slot, handler, wire>> /\ owed'[a] = owed[a]
      BY <1>6, <2>2 DEF FetchStats, TypeOK
    <3> QED
      BY <1>0, <3>1, <3>2
  <2> QED
    BY <2>1, <2>2
<1>e. ASSUME NEW k \in Refreshes, RefreshAt(a, k, "renderStats"), OtherCalls(a, k),
             UNCHANGED <<slot, handler, wire, owed>>
      PROVE  Kept
  BY <1>e DEF Coming, OtherCalls
<1>7. ASSUME NEW b \in Pages, NEW k \in Refreshes, FetchFails(b, k) PROVE Kept
  <2>1. CASE a = b
    <3>1. CASE RefreshAt(b, k, "renderStats")
      <4>1. UNCHANGED <<slot, handler, wire, owed>>
        BY <1>7, <3>1 DEF FetchFails
      <4> QED
        BY <1>e, <1>7, <2>1, <3>1, <4>1, FetchFacts
    <3>2. CASE ~RefreshAt(b, k, "renderStats")
      BY <1>7, <2>1, <3>2 DEF FetchFails, TypeOK
    <3> QED
      BY <3>1, <3>2
  <2>2. CASE a # b
    <3>1. \A j \in Refreshes : refreshes'[a][j] = refreshes[a][j]
      BY <1>7, <2>2, FetchFacts DEF OtherCalls
    <3>2. UNCHANGED <<slot, handler, wire>> /\ owed'[a] = owed[a]
      BY <1>7, <2>2 DEF FetchFails, TypeOK
    <3> QED
      BY <1>0, <3>1, <3>2
  <2> QED
    BY <2>1, <2>2
<1>8. ASSUME NEW b \in Pages, NEW k \in Refreshes, RenderStats(b, k) PROVE Kept
  <2>1. CASE a = b
    <3>1. RefreshAt(a, k, "renderStats") /\ UNCHANGED <<slot, handler, wire, owed>>
      BY <1>8, <2>1 DEF RenderStats
    <3> QED
      BY <1>e, <1>8, <2>1, <3>1, RenderFacts
  <2>2. CASE a # b
    <3>1. \A j \in Refreshes : refreshes'[a][j] = refreshes[a][j]
      BY <1>8, <2>2, RenderFacts DEF OtherCalls
    <3>2. UNCHANGED <<slot, handler, wire>> /\ owed'[a] = owed[a]
      BY <1>8, <2>2 DEF RenderStats, TypeOK
    <3> QED
      BY <1>0, <3>1, <3>2
  <2> QED
    BY <2>1, <2>2
<1>9. ASSUME NEW b \in Pages, NEW k \in Refreshes, RenderTable(b, k)
      PROVE  Kept \/ (a = b /\ refreshes[a][k].runs >= owed[a] /\ owed'[a] = owed[a])
  <2>1. CASE a = b
    <3>1. /\ RefreshAt(a, k, "renderTable") /\ OtherCalls(a, k)
          /\ UNCHANGED <<slot, handler, wire, owed>>
      BY <1>9, <2>1, RenderFacts DEF RenderTable
    <3>2. CASE refreshes[a][k].runs >= owed[a]
      BY <2>1, <3>1, <3>2
    <3>3. CASE ~(refreshes[a][k].runs >= owed[a])
      BY <3>1, <3>3 DEF Coming, OtherCalls
    <3> QED
      BY <3>2, <3>3
  <2>2. CASE a # b
    <3>1. \A j \in Refreshes : refreshes'[a][j] = refreshes[a][j]
      BY <1>9, <2>2, RenderFacts DEF OtherCalls
    <3>2. UNCHANGED <<slot, handler, wire>> /\ owed'[a] = owed[a]
      BY <1>9, <2>2 DEF RenderTable, TypeOK
    <3> QED
      BY <1>0, <3>1, <3>2
  <2> QED
    BY <2>1, <2>2
<1>10. ASSUME NEW b \in Pages, LoadRuns(b) \/ LoadStats(b) PROVE Kept
  BY <1>0, <1>10 DEF LoadRuns, LoadStats
<1>11. ASSUME NEW b \in Pages, Drop(b) \/ Close(b) PROVE Kept
  BY <1>0, <1>11 DEF Drop, Close, Disconnected, TypeOK
<1>12. CASE UNCHANGED vars
  BY <1>0, <1>12 DEF vars
<1> QED
  BY <1>1, <1>2, <1>3, <1>4, <1>5, <1>6, <1>7, <1>8, <1>9, <1>10, <1>11, <1>12
  DEF Next, StreamStep, PageStep, RefreshStep

\* What is owed to a page grows by Notify only, which leaves a signal.
LEMMA OwedStep ==
  ASSUME TypeOK, Connected, NEW a \in Pages, [Next]_vars, a \in clients'
  PROVE  \/ Coming(a, owed[a])'
         \/ owed'[a] = 0
         \/ a \in clients /\ owed'[a] = owed[a]
<1> DEFINE Kept == Coming(a, owed[a])' \/ owed'[a] = 0 \/ (a \in clients /\ owed'[a] = owed[a])
<1> USE DEF hubVars, historyVars
<1>1. ASSUME NEW w \in Writers, Notify(w) PROVE Kept
  BY <1>1 DEF Notify, Coming
<1>2. ASSUME NEW b \in Pages, Subscribe(b) PROVE Kept
  <2>1. owed' = owed /\ clients' = clients \cup {b} /\ page[b].stage = "loaded"
    BY <1>2 DEF Subscribe
  <2> QED
    BY <2>1 DEF Connected
<1>3. ASSUME NEW b \in Pages, Drop(b) \/ Close(b) PROVE Kept
  BY <1>3 DEF Drop, Close, Disconnected, TypeOK
<1>4. ASSUME NEW b \in Pages, NEW k \in Refreshes, FetchFails(b, k) PROVE Kept
  BY <1>4 DEF FetchFails, TypeOK
<1>5. CASE UNCHANGED <<clients, owed>>
  BY <1>5
<1> QED
  BY <1>1, <1>2, <1>3, <1>4, <1>5
  DEF Next, vars, StreamStep, PageStep, RefreshStep, Write, Take, Send, Refresh, FetchRuns,
      FetchStats, RenderTable, RenderStats, LoadRuns, LoadStats

\* The best table so far is forgotten with the stream only.
LEMMA BestStep ==
  ASSUME TypeOK, NEW a \in Pages, [Next]_vars, a \in clients'
  PROVE  /\ best'[a] >= best[a]
         /\ \A k \in Refreshes : RenderTable(a, k) => best'[a] >= refreshes[a][k].runs
<1>n. best[a] \in Nat /\ \A k \in Refreshes : refreshes[a][k].runs \in Nat
  BY DEF TypeOK, Versions, Call
<1>1. ASSUME NEW b \in Pages, NEW k \in Refreshes, RenderTable(b, k)
      PROVE  /\ best'[a] >= best[a]
             /\ a = b => best'[a] >= refreshes[a][k].runs
  BY <1>n, <1>1 DEF RenderTable, TypeOK
<1>2. ASSUME NEW b \in Pages, Drop(b) \/ Close(b) PROVE best'[a] = best[a]
  BY <1>2 DEF Drop, Close, Disconnected, TypeOK
<1>2a. best' = best => best'[a] >= best[a]
  BY <1>n
<1>3. best' = best \/ (\E b \in Pages, k \in Refreshes : RenderTable(b, k))
      \/ \E b \in Pages : Drop(b) \/ Close(b)
  BY DEF Next, vars, StreamStep, PageStep, RefreshStep, Write, Notify, Subscribe, Take, Send, Refresh,
      FetchRuns, FetchStats, FetchFails, RenderStats, LoadRuns, LoadStats, hubVars, historyVars
<1> QED
  BY <1>n, <1>1, <1>2, <1>2a, <1>3

LEMMA WakeupStep ==
  TypeOK /\ TypeOK' /\ Known /\ Connected /\ NoLostWakeup /\ [Next]_vars => NoLostWakeup'
<1> SUFFICES ASSUME TypeOK, TypeOK', Known, Connected, NoLostWakeup, [Next]_vars,
                    NEW a \in Pages, a \in clients'
             PROVE  best'[a] >= owed'[a] \/ Coming(a, owed[a])'
  BY DEF NoLostWakeup, TypeOK
<1>n. /\ owed[a] \in Nat /\ best[a] \in Nat /\ owed'[a] \in Nat /\ best'[a] \in Nat
      /\ \A k \in Refreshes : refreshes[a][k].runs \in Nat
  BY DEF TypeOK, Versions, Call
<1>1. CASE Coming(a, owed[a])' \/ owed'[a] = 0
  BY <1>n, <1>1
<1>2. CASE a \in clients /\ owed'[a] = owed[a]
  <2>1. CASE best[a] >= owed[a]
    BY <1>n, <1>2, <2>1, BestStep
  <2>2. CASE Coming(a, owed[a])
    BY <1>n, <1>2, <2>2, ComingStep, BestStep
  <2> QED
    BY <1>2, <2>1, <2>2 DEF NoLostWakeup
<1> QED
  BY <1>1, <1>2, OwedStep

\* The table of a page that nothing disturbs never goes back.
LEMMA TableStep ==
  TypeOK /\ TypeOK' /\ Known /\ Connected /\ Calm /\ TableCurrent /\ [Next]_vars
    => TableCurrent'
<1> SUFFICES ASSUME TypeOK, TypeOK', Known, Connected, Calm, TableCurrent, [Next]_vars,
                    NEW a \in Pages, a \notin disturbed', a \in clients'
             PROVE  page'[a].runs >= owed'[a] \/ Coming(a, owed[a])'
  BY DEF TableCurrent
<1>n. /\ owed[a] \in Nat /\ page[a].runs \in Nat /\ owed'[a] \in Nat /\ page'[a].runs \in Nat
      /\ \A k \in Refreshes : refreshes[a][k].runs \in Nat
  BY DEF TypeOK, Versions, Call
<1> USE DEF hubVars, historyVars
<1>1. ASSUME a \in disturbed PROVE Coming(a, owed[a])'
  <2>1. ASSUME NEW b \in Pages, Close(b) PROVE FALSE
    BY <1>1, <2>1 DEF Close, Disconnected
  <2>2. ASSUME NEW b \in Pages, Refresh(b) PROVE Coming(a, owed[a])'
    <3>1. a = b
      BY <1>1, <2>2 DEF Refresh
    <3> QED
      BY <2>2, <3>1, RefreshFacts DEF Coming, RefreshAt
  <2>3. ASSUME NEW b \in Pages, NEW k \in Refreshes, FetchFails(b, k) PROVE FALSE
    BY <1>1, <2>3 DEF FetchFails
  <2>4. CASE UNCHANGED disturbed
    BY <1>1, <2>4
  <2> QED
    BY <2>1, <2>2, <2>3, <2>4
    DEF Next, vars, StreamStep, PageStep, RefreshStep, Write, Notify, Subscribe, Take, Send,
        FetchRuns, FetchStats, RenderTable, RenderStats, LoadRuns, LoadStats, Drop
<1>2. ASSUME a \notin disturbed, a \in clients
      PROVE  /\ page'[a].runs >= page[a].runs
             /\ \A k \in Refreshes : RenderTable(a, k) => page'[a].runs = refreshes[a][k].runs
  <2>1. ASSUME NEW b \in Pages, NEW k \in Refreshes, RenderTable(b, k)
        PROVE  /\ page'[a].runs >= page[a].runs
               /\ a = b => page'[a].runs = refreshes[a][k].runs
    <3>1. CASE a = b
      <4>1. refreshes[a][k].runs >= page[a].runs
        BY <1>2, <2>1, <3>1 DEF RenderTable, Calm, Fresh
      <4> QED
        BY <2>1, <3>1, <4>1, RenderFacts
    <3>2. CASE a # b
      BY <1>n, <2>1, <3>2, RenderFacts DEF OtherPages
    <3> QED
      BY <3>1, <3>2
  <2>2. ASSUME NEW b \in Pages, NEW k \in Refreshes, RenderStats(b, k)
        PROVE  page'[a].runs = page[a].runs
    BY <2>2, RenderFacts DEF OtherPages
  <2>3. ASSUME NEW b \in Pages, LoadRuns(b) \/ LoadStats(b) \/ Subscribe(b) \/ Drop(b)
        PROVE  page'[a].runs = page[a].runs
    <3>1. page[a].stage = "open"
      BY <1>2 DEF Connected
    <3>2. LoadRuns(b) => a # b
      BY <3>1 DEF LoadRuns
    <3> QED
      BY <2>3, <3>2, StageFacts DEF OtherPages
  <2>4. ASSUME NEW b \in Pages, Close(b) PROVE page'[a].runs = page[a].runs
    <3>1. a # b
      BY <2>4 DEF Close, Disconnected
    <3> QED
      BY <2>4, <3>1, CloseFacts
  <2>5. CASE UNCHANGED page
    <3>1. \A k \in Refreshes : RenderTable(a, k) => page'[a].runs = refreshes[a][k].runs
      BY <2>1
    <3> QED
      BY <1>n, <2>5, <3>1
  <2>6. \/ UNCHANGED page
        \/ \E b \in Pages, k \in Refreshes : RenderTable(b, k) \/ RenderStats(b, k)
        \/ \E b \in Pages : LoadRuns(b) \/ LoadStats(b) \/ Subscribe(b) \/ Drop(b) \/ Close(b)
    BY DEF Next, vars, StreamStep, PageStep, RefreshStep, Write, Notify, Take, Send, Refresh,
        FetchRuns, FetchStats, FetchFails
  <2> QED
    BY <1>n, <2>1, <2>2, <2>3, <2>4, <2>5, <2>6
<1>3. CASE Coming(a, owed[a])' \/ owed'[a] = 0
  BY <1>n, <1>3
<1>4. CASE a \in clients /\ owed'[a] = owed[a] /\ a \notin disturbed
  <2>1. CASE page[a].runs >= owed[a]
    BY <1>n, <1>2, <1>4, <2>1
  <2>2. CASE Coming(a, owed[a])
    BY <1>n, <1>2, <1>4, <2>2, ComingStep
  <2> QED
    BY <1>4, <2>1, <2>2 DEF TableCurrent
<1> QED
  BY <1>1, <1>3, <1>4, OwedStep

-----------------------------------------------------------------------------
LEMMA Invariant == Spec => []Inv
<1>1. Inv /\ [Next]_vars => Inv'
  BY TypeStep, KnownStep, OrderedStep, ConnectedStep, CalmStep, WakeupStep, TableStep DEF Inv
<1> QED
  BY <1>1, InitInv, PTL DEF Spec

\* The one-slot channel of the Hub and the slow writes of handleEvents lose no
\* change: what Hub.Notify has announced to a page is rendered by its script or is
\* still on the way.
THEOREM WakeupsKept == Spec => []NoLostWakeup
<1>1. Inv => NoLostWakeup
  BY DEF Inv
<1> QED
  BY <1>1, Invariant, PTL

\* A page at rest whose last refreshes neither overlapped nor failed shows every change
\* that Hub.Notify has announced to it, and statistics that cover its table, although
\* the script awaits four answers one after the other and the store moves on meanwhile.
THEOREM RestCurrent == Spec => []RestingPageCurrent
<1>1. Inv => RestingPageCurrent
  <2> SUFFICES ASSUME Inv, NEW b \in Pages \ disturbed, AtRest(b)
               PROVE  page[b].runs >= owed[b] /\ page[b].stats >= page[b].runs
    BY DEF RestingPageCurrent
  <2>1. ~Coming(b, owed[b]) /\ b \in clients /\ ~Refreshing(b)
    BY DEF AtRest, Coming, Refreshing, RefreshAt
  <2>2. page[b].runs >= owed[b]
    BY <2>1 DEF Inv, TableCurrent
  <2>3. Covered(b) /\ page[b].stage = "open"
    BY <2>1 DEF Inv, Calm, Connected
  <2> QED
    BY <2>1, <2>2, <2>3 DEF Covered
<1> QED
  BY <1>1, Invariant, PTL
=============================================================================
