------------------------------- MODULE Dashboard -------------------------------
(***************************************************************************)
(* How a change of the store reaches an open page: internal/web/server.go, *)
(* its script included.  The manager writes to the store and then calls    *)
(* Hub.Notify, which puts a signal into the one-slot channel of every      *)
(* connected page.  handleEvents turns signals into messages, and for each *)
(* message the script fetches the runs, then the statistics, and renders   *)
(* the table, then the statistics, with an await before each of the four.  *)
(* Nothing waits for a refresh to end before the next one starts.          *)
(*                                                                         *)
(* The store is the number of changes made to it: an answer shows all the  *)
(* changes up to the moment it was read.                                   *)
(***************************************************************************)
EXTENDS Naturals

CONSTANTS
  Pages,        \* browser tabs
  Writers,      \* goroutines that store results
  Refreshes,    \* refreshes of a page that may be under way at once (a bound)
  MaxVersion,   \* bound on changes
  MaxWire,      \* messages a connection holds before a write blocks
  MaxFailures   \* bound on requests that fail

ASSUME DashboardAssumption ==
  /\ MaxVersion \in Nat
  /\ MaxWire \in Nat \ {0}
  /\ MaxFailures \in Nat

VARIABLES
  version,     \* changes made to the store
  writers,     \* has a writer changed something that it has not announced yet?
  clients,     \* the pages with a channel in the Hub
  slot,        \* is there a signal in the channel?
  handler,     \* handleEvents of each page
  wire,        \* messages on their way to the page
  page,        \* how far a page has come, and what it shows
  refreshes,   \* calls of refresh
  failures,    \* requests that may still fail
  \* History:
  owed,        \* the changes announced to a page since it connected
  best,        \* the latest table it has rendered since
  disturbed    \* the pages whose last refreshes overlapped or failed

hubVars == <<clients, slot, handler, wire>>
historyVars == <<owed, best, disturbed>>
vars == <<version, writers, hubVars, page, refreshes, failures, historyVars>>

Versions == 0..MaxVersion
PageStages == {"closed", "listed", "loaded", "open"}
RefreshStages == {"none", "runs", "stats", "renderTable", "renderStats"}
Closed == [stage |-> "closed", runs |-> 0, stats |-> 0]
Call == [stage : RefreshStages, runs : Versions, stats : Versions]
NoRefresh == [stage |-> "none", runs |-> 0, stats |-> 0]

TypeOK ==
  /\ version \in Versions
  /\ writers \in [Writers -> {"idle", "written"}]
  /\ clients \subseteq Pages
  /\ slot \in [Pages -> BOOLEAN]
  /\ handler \in [Pages -> {"none", "select", "write"}]
  /\ wire \in [Pages -> 0..MaxWire]
  /\ page \in [Pages -> [stage : PageStages, runs : Versions, stats : Versions]]
  /\ refreshes \in [Pages -> [Refreshes -> Call]]
  /\ failures \in 0..MaxFailures
  /\ owed \in [Pages -> Versions]
  /\ best \in [Pages -> Versions]
  /\ disturbed \subseteq Pages

Init ==
  /\ version = 0
  /\ writers = [w \in Writers |-> "idle"]
  /\ clients = {}
  /\ slot = [b \in Pages |-> FALSE]
  /\ handler = [b \in Pages |-> "none"]
  /\ wire = [b \in Pages |-> 0]
  /\ page = [b \in Pages |-> Closed]
  /\ refreshes = [b \in Pages |-> [k \in Refreshes |-> NoRefresh]]
  /\ failures = MaxFailures
  /\ owed = [b \in Pages |-> 0]
  /\ best = [b \in Pages |-> 0]
  /\ disturbed = {}

----------------------------------------------------------------------------
(* The manager.                                                            *)

\* saveTestResult stores a row, its logs and its screenshot; updateBootResult
\* completes a row.
Write(w) ==
  /\ version < MaxVersion
  /\ version' = version + 1
  /\ writers' = [writers EXCEPT ![w] = "written"]
  /\ UNCHANGED <<hubVars, page, refreshes, failures, historyVars>>

\* Hub.Notify; a channel that holds a signal is left alone.
Notify(w) ==
  /\ writers[w] = "written"
  /\ writers' = [writers EXCEPT ![w] = "idle"]
  /\ slot' = [b \in Pages |-> slot[b] \/ b \in clients]
  /\ owed' = [b \in Pages |-> IF b \in clients THEN version ELSE owed[b]]
  /\ UNCHANGED <<version, clients, handler, wire, page, refreshes, failures, best, disturbed>>

----------------------------------------------------------------------------
(* The server's side of a stream.                                          *)

\* handleEvents subscribes; the message it sends first triggers nothing.
Subscribe(b) ==
  /\ page[b].stage = "loaded"
  /\ clients' = clients \cup {b}
  /\ slot' = [slot EXCEPT ![b] = FALSE]
  /\ handler' = [handler EXCEPT ![b] = "select"]
  /\ page' = [page EXCEPT ![b].stage = "open"]
  /\ UNCHANGED <<version, writers, wire, refreshes, failures, historyVars>>

Take(b) ==
  /\ handler[b] = "select"
  /\ slot[b]
  /\ slot' = [slot EXCEPT ![b] = FALSE]
  /\ handler' = [handler EXCEPT ![b] = "write"]
  /\ UNCHANGED <<version, writers, clients, wire, page, refreshes, failures, historyVars>>

\* Mutant: the write does not wait for the client.
MutSendAtOnce(b) ==
  /\ handler[b] = "write"
  /\ wire' = [wire EXCEPT ![b] = @ + 1]
  /\ handler' = [handler EXCEPT ![b] = "select"]
  /\ UNCHANGED <<version, writers, clients, slot, page, refreshes, failures, historyVars>>

\* "data: refresh"; the write blocks while the client does not read.
Send(b) ==
  /\ handler[b] = "write"
  /\ wire[b] < MaxWire
  /\ wire' = [wire EXCEPT ![b] = @ + 1]
  /\ handler' = [handler EXCEPT ![b] = "select"]
  /\ UNCHANGED <<version, writers, clients, slot, page, refreshes, failures, historyVars>>

\* The connection of b ends, and with it handleEvents.
Disconnected(b) ==
  /\ clients' = clients \ {b}
  /\ slot' = [slot EXCEPT ![b] = FALSE]
  /\ handler' = [handler EXCEPT ![b] = "none"]
  /\ wire' = [wire EXCEPT ![b] = 0]
  /\ owed' = [owed EXCEPT ![b] = 0]
  /\ best' = [best EXCEPT ![b] = 0]

\* EventSource connects again by itself and reads nothing again.
Drop(b) ==
  /\ page[b].stage = "open"
  /\ Disconnected(b)
  /\ page' = [page EXCEPT ![b].stage = "loaded"]
  /\ UNCHANGED <<version, writers, refreshes, failures, disturbed>>

----------------------------------------------------------------------------
(* The page.                                                               *)

\* handleDashboard lists the runs first,
LoadRuns(b) ==
  /\ page[b].stage = "closed"
  /\ page' = [page EXCEPT ![b] = [stage |-> "listed", runs |-> version, stats |-> 0]]
  /\ UNCHANGED <<version, writers, hubVars, refreshes, failures, historyVars>>

\* then computes the statistics; the script of the page then opens the stream.
LoadStats(b) ==
  /\ page[b].stage = "listed"
  /\ page' = [page EXCEPT ![b].stage = "loaded", ![b].stats = version]
  /\ UNCHANGED <<version, writers, hubVars, refreshes, failures, historyVars>>

Close(b) ==
  /\ page[b].stage # "closed"
  /\ Disconnected(b)
  /\ page' = [page EXCEPT ![b] = Closed]
  /\ refreshes' = [refreshes EXCEPT ![b] = [k \in Refreshes |-> NoRefresh]]
  /\ disturbed' = disturbed \ {b}
  /\ UNCHANGED <<version, writers, failures>>

RefreshAt(b, k, stage) == refreshes[b][k].stage = stage
Becomes(b, k, call) == refreshes' = [refreshes EXCEPT ![b][k] = call]
Refreshing(b) == \E k \in Refreshes : ~RefreshAt(b, k, "none")

\* Mutant: a message that arrives during a refresh is dropped.
MutRefreshOnce(b) ==
  /\ wire[b] > 0
  /\ wire' = [wire EXCEPT ![b] = @ - 1]
  /\ IF Refreshing(b)
     THEN UNCHANGED refreshes
     ELSE \E k \in Refreshes : Becomes(b, k, [NoRefresh EXCEPT !.stage = "runs"])
  /\ UNCHANGED <<version, writers, clients, slot, handler, page, failures, historyVars>>

\* onmessage calls refresh, also while an earlier call is under way.
Refresh(b) ==
  /\ wire[b] > 0
  /\ wire' = [wire EXCEPT ![b] = @ - 1]
  /\ \E k \in Refreshes :
       /\ RefreshAt(b, k, "none")
       /\ Becomes(b, k, [NoRefresh EXCEPT !.stage = "runs"])
  /\ disturbed' = IF Refreshing(b) THEN disturbed \cup {b} ELSE disturbed \ {b}
  /\ UNCHANGED <<version, writers, clients, slot, handler, page, failures, owed, best>>

\* /api/runs
FetchRuns(b, k) ==
  /\ RefreshAt(b, k, "runs")
  /\ Becomes(b, k, [stage |-> "stats", runs |-> version, stats |-> 0])
  /\ UNCHANGED <<version, writers, hubVars, page, failures, historyVars>>

\* Mutant: the browser answers from its cache.
MutFetchStats(b, k) ==
  /\ RefreshAt(b, k, "stats")
  /\ Becomes(b, k, [refreshes[b][k] EXCEPT !.stage = "renderTable", !.stats = page[b].stats])
  /\ UNCHANGED <<version, writers, hubVars, page, failures, historyVars>>

\* /api/stats
FetchStats(b, k) ==
  /\ RefreshAt(b, k, "stats")
  /\ Becomes(b, k, [refreshes[b][k] EXCEPT !.stage = "renderTable", !.stats = version])
  /\ UNCHANGED <<version, writers, hubVars, page, failures, historyVars>>

\* A request or the reading of a body fails, and nobody tries again before the next
\* message; a table that has been rendered stays.
FetchFails(b, k) ==
  /\ ~RefreshAt(b, k, "none")
  /\ failures > 0
  /\ failures' = failures - 1
  /\ Becomes(b, k, NoRefresh)
  /\ owed' = IF RefreshAt(b, k, "renderStats") THEN owed ELSE [owed EXCEPT ![b] = 0]
  /\ disturbed' = disturbed \cup {b}
  /\ UNCHANGED <<version, writers, hubVars, page, best>>

\* Mutant: only the last of several refreshes renders its table.
MutRenderAlone(b, k) ==
  LET answer == refreshes[b][k]
      alone == \A j \in Refreshes \ {k} : RefreshAt(b, j, "none")
  IN
  /\ RefreshAt(b, k, "renderTable")
  /\ page' = IF alone THEN [page EXCEPT ![b].runs = answer.runs] ELSE page
  /\ best' = [best EXCEPT ![b] = IF alone /\ answer.runs > @ THEN answer.runs ELSE @]
  /\ Becomes(b, k, [answer EXCEPT !.stage = "renderStats"])
  /\ UNCHANGED <<version, writers, hubVars, failures, owed, disturbed>>

\* renderTable, once the body with the runs is read, even if a later refresh has
\* rendered before.
RenderTable(b, k) ==
  LET answer == refreshes[b][k] IN
  /\ RefreshAt(b, k, "renderTable")
  /\ page' = [page EXCEPT ![b].runs = answer.runs]
  /\ best' = [best EXCEPT ![b] = IF answer.runs > @ THEN answer.runs ELSE @]
  /\ Becomes(b, k, [answer EXCEPT !.stage = "renderStats"])
  /\ UNCHANGED <<version, writers, hubVars, failures, owed, disturbed>>

\* renderStats, once the body with the statistics is read.
RenderStats(b, k) ==
  /\ RefreshAt(b, k, "renderStats")
  /\ page' = [page EXCEPT ![b].stats = refreshes[b][k].stats]
  /\ Becomes(b, k, NoRefresh)
  /\ UNCHANGED <<version, writers, hubVars, failures, historyVars>>

StreamStep(b) == Subscribe(b) \/ Take(b) \/ Send(b)
RefreshStep(b, k) == FetchRuns(b, k) \/ FetchStats(b, k) \/ RenderTable(b, k) \/ RenderStats(b, k)
PageStep(b) == Refresh(b) \/ \E k \in Refreshes : RefreshStep(b, k) \/ FetchFails(b, k)

Next ==
  \/ \E w \in Writers : Write(w) \/ Notify(w)
  \/ \E b \in Pages : \/ StreamStep(b) \/ PageStep(b)
                      \/ LoadRuns(b) \/ LoadStats(b) \/ Drop(b) \/ Close(b)

Spec == Init /\ [][Next]_vars

\* Goroutines are scheduled, and a page that is open reads its stream and gets
\* its answers.
FairSpec ==
  /\ Spec
  /\ \A w \in Writers : WF_vars(Notify(w))
  /\ \A b \in Pages :
       /\ WF_vars(StreamStep(b))
       /\ WF_vars(Refresh(b))
       /\ \A k \in Refreshes : WF_vars(RefreshStep(b, k))

----------------------------------------------------------------------------
\* Something is under way to page b whose table will show every change up to v.
Coming(b, v) ==
  \/ slot[b] \/ handler[b] = "write" \/ wire[b] > 0
  \/ \E k \in Refreshes :
       \/ RefreshAt(b, k, "runs")
       \/ /\ RefreshAt(b, k, "stats") \/ RefreshAt(b, k, "renderTable")
          /\ refreshes[b][k].runs >= v

\* "drop if client is slow" (server.go 56) drops no change: of all those announced
\* while a page is connected each is rendered or still under way, although a
\* channel holds one signal only and the store moves on while the page fetches.
NoLostWakeup == \A b \in clients : best[b] >= owed[b] \/ Coming(b, owed[b])

\* A page at rest, open and with no message or refresh under way to it, shows every
\* change announced to it, and statistics that cover its table, unless its last
\* refreshes overlapped or failed (server.go 853-862): signals that were merged, the
\* store moving on between the two requests, and a stream that was lost and opened
\* again do not leave it behind.
AtRest(b) ==
  /\ b \in clients
  /\ ~slot[b] /\ handler[b] = "select" /\ wire[b] = 0
  /\ ~Refreshing(b)

RestingPageCurrent ==
  \A b \in Pages \ disturbed :
    AtRest(b) => page[b].runs >= owed[b] /\ page[b].stats >= page[b].runs

\* Every announced change is rendered, by a page whose stream stays open and whose
\* requests succeed.
ChangesShown ==
  \A b \in Pages, v \in 1..MaxVersion :
    owed[b] >= v ~> best[b] >= v \/ owed[b] = 0
=============================================================================
