---------------------------- MODULE HubRefinement ----------------------------
(***************************************************************************)
(* HubManager implements ResultLedger.  CheckPods claims a pod and stores  *)
(* its row, a goroutine of rebootAndReport completes it, and a restart     *)
(* closes whatever its run of the process had claimed; all other           *)
(* goroutines leave the ledger alone.                                      *)
(***************************************************************************)
EXTENDS HubManagerProofs

\* The conditions ClaimStage distinguishes, beside Owing.
Collecting(u) == cp.cur.uid = u /\ cp.pc \in {"collect", "delete", "save"}
Saved(u) == cp.cur.uid = u /\ cp.pc = "mark"

LEMMA StageIs ==
  ASSUME NEW e, NEW u
  PROVE  /\ ClaimStage(e, u) = IF e > epoch \/ (e = epoch /\ u \notin reported) THEN "open"
                               ELSE IF e < epoch THEN "closed"
                               ELSE IF Owing(u) THEN "rebooting"
                               ELSE IF Collecting(u) THEN "claimed"
                               ELSE IF Saved(u) THEN "stored"
                               ELSE "closed"
         /\ ClaimStage(e, u)' = IF e > epoch' \/ (e = epoch' /\ u \notin reported') THEN "open"
                                ELSE IF e < epoch' THEN "closed"
                                ELSE IF Owing(u)' THEN "rebooting"
                                ELSE IF Collecting(u)' THEN "claimed"
                                ELSE IF Saved(u)' THEN "stored"
                                ELSE "closed"
BY DEF ClaimStage, Owing, Collecting, Saved

\* A row that sqlite refused is never written: whoever still reports or reboots
\* for it has run id 0, and so it cannot find the row of another pod.
Rowless(u) == \A k \in 1..Len(runs) : runs[k].epoch = epoch => runs[k].uid # u

Unstored ==
  /\ cp.pc = "mark" /\ cp.run = 0 => Rowless(cp.cur.uid)
  /\ \A u \in Uids : Owing(u) /\ rebooters[u].run = 0 => Rowless(u)

RInv == Typed /\ LedgerInv /\ Unstored

----------------------------------------------------------------------------
(* Steps of the ledger.                                                    *)

LEMMA Advances ==
  ASSUME NEW e \in 1..MaxEpoch, e = epoch, epoch' = epoch, epoch \in Nat,
         NEW u \in Uids, NEW from, NEW to, from # to,
         ClaimStage(e, u) = from, ClaimStage(e, u)' = to,
         \A w \in Uids \ {u} : /\ Owing(w)' <=> Owing(w)
                               /\ Collecting(w)' <=> Collecting(w)
                               /\ Saved(w)' <=> Saved(w)
                               /\ w \in reported' <=> w \in reported
  PROVE  Results!Advance(<<e, u>>, from, to) /\ ClaimStages' # ClaimStages
<1> DEFINE c == <<e, u>>
<1>1. c \in Claims /\ c[1] = e /\ c[2] = u
  BY DEF Claims
<1>2. ClaimStages' = [d \in Claims |-> ClaimStage(d[1], d[2])']
  BY DEF ClaimStages
<1>3. ClaimStages[c] = from /\ ClaimStages'[c] = to
  BY <1>1, <1>2 DEF ClaimStages
<1>4. ASSUME NEW d \in Claims, d # c PROVE ClaimStage(d[1], d[2])' = ClaimStage(d[1], d[2])
  <2>1. PICK f \in 1..MaxEpoch, w \in Uids : d = <<f, w>>
    BY DEF Claims
  <2>2. f # e \/ w # u
    BY <1>4, <2>1
  <2>3. ClaimStage(f, w)' = ClaimStage(f, w)
    <3>1. CASE f # e
      <4>1. f \in Nat /\ e \in Nat
        BY HubAssumption
      <4> QED
        BY <3>1, <4>1, StageIs
    <3>2. CASE w # u
      BY <3>2, StageIs
    <3> QED
      BY <2>2, <3>1, <3>2
  <2> QED
    BY <2>1, <2>3
<1>5. \A d \in Claims : ClaimStages'[d] = IF d = c THEN to ELSE ClaimStages[d]
  <2>1. \A d \in Claims : /\ ClaimStages'[d] = ClaimStage(d[1], d[2])'
                          /\ ClaimStages[d] = ClaimStage(d[1], d[2])
    BY <1>2 DEF ClaimStages
  <2> QED
    BY <1>3, <1>4, <2>1
<1>6. ClaimStages' = [ClaimStages EXCEPT ![c] = to]
  <2>1. /\ ClaimStages' = [d \in Claims |-> ClaimStages'[d]]
        /\ ClaimStages = [d \in Claims |-> ClaimStages[d]]
    BY DEF ClaimStages
  <2> HIDE DEF ClaimStages, c
  <2> QED
    BY <1>5, <2>1
<1> QED
  BY <1>3, <1>6 DEF Results!Advance

\* Nothing about results changes.
LEMMA Stutters ==
  ASSUME UNCHANGED <<runs, reported, epoch>>,
         \A u \in Uids : /\ Owing(u)' <=> Owing(u)
                         /\ Collecting(u)' <=> Collecting(u)
                         /\ Saved(u)' <=> Saved(u)
  PROVE  UNCHANGED <<ClaimStages, LedgerRows>>
<1>1. \A e \in 1..MaxEpoch : \A u \in Uids : ClaimStage(e, u)' = ClaimStage(e, u)
  BY StageIs
<1>2. \A c \in Claims : c[1] \in 1..MaxEpoch /\ c[2] \in Uids
  BY DEF Claims
<1>3. \A c \in Claims : ClaimStage(c[1], c[2])' = ClaimStage(c[1], c[2])
  BY <1>1, <1>2
<1> QED
  BY <1>3 DEF ClaimStages, LedgerRows

----------------------------------------------------------------------------
(* CheckPods.                                                              *)

\* reported.LoadOrStore.  A pod it finds there is only deleted again.
LEMMA ClaimStep ==
  ASSUME RInv, NEW p \in cp.todo, Claim(p)
  PROVE  /\ Unstored'
         /\ \/ UNCHANGED <<ClaimStages, LedgerRows>>
            \/ ClaimStages' # ClaimStages /\ \E c \in Claims : Results!Claim(c)
<1>1. /\ UNCHANGED <<rebooters, runs, epoch>>
      /\ cp.pc = "scan" /\ reported' = reported \cup {p.uid}
  BY DEF Claim
<1>2. p \in Target /\ p.uid \in Uids
  BY CpTypes DEF RInv, CpType, Target
<1>3. \A u \in Uids : ~Collecting(u) /\ ~Saved(u) /\ (Owing(u)' <=> Owing(u))
  BY <1>1 DEF Collecting, Saved, Owing
<1>4. CASE p.uid \in reported /\ cp' = [cp EXCEPT !.pc = "purge", !.todo = @ \ {p}, !.cur = p]
  <2>1. cp'.pc = "purge"
    BY <1>4, CpTypes DEF RInv, CpType
  <2>2. reported' = reported
    BY <1>1, <1>4
  <2>3. UNCHANGED <<ClaimStages, LedgerRows>>
    BY <1>1, <1>3, <2>1, <2>2, Stutters DEF Collecting, Saved
  <2>4. Unstored'
    BY <1>1, <2>1 DEF RInv, Unstored, Rowless, Owing
  <2> QED
    BY <2>3, <2>4
<1>5. CASE p.uid \notin reported /\ cp' = [cp EXCEPT !.pc = "collect", !.todo = @ \ {p}, !.cur = p]
  <2>1. cp'.pc = "collect" /\ cp'.cur = p
    BY <1>5, CpTypes DEF RInv, CpType
  <2>2. PICK u \in Uids : u = p.uid
    BY <1>2
  <2>3. PICK e \in 1..MaxEpoch : e = epoch
    BY DEF RInv, Typed, ManagerType
  <2>4. epoch \in Nat /\ epoch' = epoch
    BY <1>1, CpTypes DEF RInv
  <2>5. ~Owing(u)
    BY <1>5, <2>2 DEF RInv, LedgerInv, RebootersClaimed, Owing
  <2>6. Collecting(u)' /\ \A w \in Uids \ {u} : ~Collecting(w)'
    BY <2>1, <2>2 DEF Collecting
  <2>7. \A w \in Uids : ~Saved(w)'
    BY <2>1 DEF Saved
  <2>8. u \notin reported /\ \A w \in Uids : w \in reported' <=> w \in reported \/ w = u
    BY <1>1, <1>5, <2>2
  <2>9. ClaimStage(e, u) = "open" /\ ClaimStage(e, u)' = "claimed"
    BY <1>3, <2>3, <2>4, <2>5, <2>6, <2>8, StageIs
  <2>10. Results!Advance(<<e, u>>, "open", "claimed") /\ ClaimStages' # ClaimStages
    BY <1>3, <2>3, <2>4, <2>6, <2>7, <2>8, <2>9, Advances
  <2>11. UNCHANGED LedgerRows
    BY <1>1 DEF LedgerRows
  <2>12. Unstored'
    BY <1>1, <2>1 DEF RInv, Unstored, Rowless, Owing
  <2>13. <<e, u>> \in Claims
    BY DEF Claims
  <2> QED
    BY <2>10, <2>11, <2>12, <2>13 DEF Results!Claim
<1> QED
  BY <1>4, <1>5 DEF Claim

\* The steps of CheckPods that neither claim nor store nor hand over.
LEMMA CpStutters ==
  ASSUME RInv, UNCHANGED <<rebooters, runs, reported, epoch>>,
         \/ /\ cp.pc \in {"idle", "scan", "purge"}
            /\ cp'.pc \in {"idle", "scan", "purge"}
         \/ /\ cp.pc \in {"collect", "delete"} /\ cp'.pc \in {"delete", "save"}
            /\ cp'.cur = cp.cur
  PROVE  Unstored' /\ UNCHANGED <<ClaimStages, LedgerRows>>
<1>1. \A u \in Uids : /\ Owing(u)' <=> Owing(u)
                      /\ Collecting(u)' <=> Collecting(u)
                      /\ Saved(u)' <=> Saved(u)
  BY DEF Owing, Collecting, Saved
<1>2. Unstored'
  BY DEF RInv, Unstored, Rowless, Owing
<1> QED
  BY <1>1, <1>2, Stutters

\* The ledger a table of rows shows.
Shown(table) ==
  [k \in DOMAIN table |-> [claim |-> <<table[k].epoch, table[k].uid>>, boot |-> table[k].boot]]

Shape == [claim : (1..MaxEpoch) \X (0..MaxUid), boot : {"none", "ok", "failed"}]

LEMMA LedgerShows ==
  ASSUME NEW table \in Seq(Row)
  PROVE  /\ Shown(table) \in Seq(Shape)
         /\ Len(Shown(table)) = Len(table)
         /\ \A k \in 1..Len(table) :
              Shown(table)[k] = [claim |-> <<table[k].epoch, table[k].uid>>,
                                 boot |-> table[k].boot]
<1>1. Len(table) \in Nat /\ DOMAIN table = 1..Len(table)
  OBVIOUS
<1>2. \A row \in Row : [claim |-> <<row.epoch, row.uid>>, boot |-> row.boot] \in Shape
  BY DEF Row, Shape
<1>3. \A k \in 1..Len(table) :
        /\ Shown(table)[k] = [claim |-> <<table[k].epoch, table[k].uid>>,
                              boot |-> table[k].boot]
        /\ Shown(table)[k] \in Shape
  BY <1>1, <1>2 DEF Shown
<1>4. Shown(table) \in [1..Len(table) -> Shape]
  BY <1>1, <1>3 DEF Shown
<1> QED
  BY <1>1, <1>3, <1>4

\* saveTestResult, in which sqlite may refuse the row.
LEMMA StoreStep ==
  ASSUME RInv, NEW e \in 1..MaxEpoch, e = epoch, NEW u \in Uids, u = cp.cur.uid,
         SaveTestResult
  PROVE  Unstored' /\ Results!Store(<<e, u>>) /\ ClaimStages' # ClaimStages
<1> DEFINE row == [serial |-> cp.cur.serial, uid |-> cp.cur.uid,
                   logs |-> cp.logs, epoch |-> epoch, boot |-> "none"]
           n == Len(runs)
<1>1. /\ UNCHANGED <<rebooters, reported, epoch>> /\ cp.pc = "save"
      /\ cp.run = 0 /\ u \in reported /\ rebooters[u].stage = "none" /\ Rowless(u)
      /\ epoch \in Nat /\ n \in Nat /\ runs \in Seq(Row)
  BY CpTypes DEF SaveTestResult, RInv, LedgerInv, CpClaimed, Rowless
<1>2. row \in Row
  BY <1>1, CpTypes DEF RInv, Row, Target, CpType, Typed, ManagerType, Uids
<1>3. row.uid = u /\ row.epoch = e /\ row.boot = "none"
  OBVIOUS
<1>4. /\ cp'.pc = "mark" /\ cp'.cur = cp.cur
      /\ \/ runs' = Append(runs, row) /\ cp'.run = n + 1
         \/ UNCHANGED runs /\ cp'.run = 0
  <2> HIDE DEF row, n
  <2>1. \/ runs' = Append(runs, row) /\ cp' = [cp EXCEPT !.pc = "mark", !.run = n + 1]
        \/ UNCHANGED runs /\ cp' = [cp EXCEPT !.pc = "mark"]
    BY DEF SaveTestResult, row, n
  <2> QED
    BY <1>1, <2>1, CpTypes DEF RInv, CpType
<1>5. \A w \in Uids : Owing(w)' <=> Owing(w)
  BY <1>1 DEF Owing
<1>6. /\ ~Owing(u) /\ Collecting(u) /\ ~Collecting(u)' /\ Saved(u)'
      /\ \A w \in Uids \ {u} : ~Collecting(w) /\ ~Collecting(w)' /\ ~Saved(w) /\ ~Saved(w)'
  BY <1>1, <1>4 DEF Owing, Collecting, Saved
<1>7. ClaimStage(e, u) = "claimed" /\ ClaimStage(e, u)' = "stored"
  BY <1>1, <1>5, <1>6, StageIs
<1>8. Results!Advance(<<e, u>>, "claimed", "stored") /\ ClaimStages' # ClaimStages
  BY <1>1, <1>5, <1>6, <1>7, Advances
<1> HIDE DEF row
<1>9. CASE UNCHANGED runs /\ cp'.run = 0
  <2>1. UNCHANGED LedgerRows
    BY <1>9 DEF LedgerRows
  <2>2. Unstored'
    BY <1>1, <1>4, <1>5, <1>9 DEF RInv, Unstored, Rowless
  <2> QED
    BY <1>8, <2>1, <2>2 DEF Results!Store
<1>10. CASE runs' = Append(runs, row) /\ cp'.run = n + 1
  <2>1. /\ runs' \in Seq(Row) /\ Len(runs') = n + 1 /\ runs'[n + 1] = row
        /\ \A k \in 1..n : runs'[k] = runs[k]
    BY <1>1, <1>2, <1>10, AppendProperties
  <2> DEFINE entry == [claim |-> <<e, u>>, boot |-> "none"]
  <2>2. entry \in Shape
    BY DEF Shape, Uids
  <2>3. entry = [claim |-> <<row.epoch, row.uid>>, boot |-> row.boot]
    BY <1>3
  <2> HIDE DEF entry
  <2>4. /\ LedgerRows \in Seq(Shape) /\ Len(LedgerRows) = n
        /\ \A k \in 1..n : LedgerRows[k] = [claim |-> <<runs[k].epoch, runs[k].uid>>,
                                           boot |-> runs[k].boot]
    <3>1. LedgerRows = Shown(runs)
      BY DEF LedgerRows, Shown
    <3> QED
      BY <1>1, <3>1, LedgerShows
  <2>5. /\ LedgerRows' \in Seq(Shape) /\ Len(LedgerRows') = n + 1
        /\ \A k \in 1..(n + 1) : LedgerRows'[k] = [claim |-> <<runs'[k].epoch, runs'[k].uid>>,
                                                  boot |-> runs'[k].boot]
    <3>1. LedgerRows' = Shown(runs')
      BY DEF LedgerRows, Shown
    <3> HIDE DEF n
    <3> QED
      BY <2>1, <3>1, LedgerShows
  <2>6. /\ Append(LedgerRows, entry) \in Seq(Shape)
        /\ Len(Append(LedgerRows, entry)) = n + 1
        /\ Append(LedgerRows, entry)[n + 1] = entry
        /\ \A k \in 1..n : Append(LedgerRows, entry)[k] = LedgerRows[k]
    BY <1>1, <2>2, <2>4
  <2>7. ASSUME NEW k \in 1..(n + 1)
        PROVE  LedgerRows'[k] = Append(LedgerRows, entry)[k]
    <3>1. CASE k \in 1..n
      BY <2>1, <2>4, <2>5, <2>6, <3>1
    <3>2. CASE k = n + 1
      BY <2>1, <2>3, <2>5, <2>6, <3>2
    <3>3. k \in 1..n \/ k = n + 1
      BY <1>1
    <3> QED
      BY <3>1, <3>2, <3>3
  <2>8. LedgerRows' = Append(LedgerRows, entry)
    BY <2>5, <2>6, <2>7, SeqEqual
  <2>9. Unstored'
    <3>1. \A w \in Uids \ {u} : Rowless(w) => Rowless(w)'
      BY <1>1, <1>3, <2>1 DEF Rowless
    <3>2. \A w \in Uids : Owing(w)' /\ rebooters'[w].run = 0 => Rowless(w)'
      BY <1>1, <1>5, <1>6, <3>1 DEF RInv, Unstored
    <3>3. cp'.run # 0
      BY <1>1, <1>10
    <3> QED
      BY <3>2, <3>3 DEF Unstored
  <2> QED
    BY <1>8, <2>8, <2>9 DEF Results!Store, entry
<1> QED
  BY <1>4, <1>9, <1>10

\* go rebootAndReport
LEMMA RebootStep ==
  ASSUME RInv, NEW e \in 1..MaxEpoch, e = epoch, NEW u \in Uids, u = cp.cur.uid,
         MarkRebooting
  PROVE  Unstored' /\ Results!Reboot(<<e, u>>) /\ ClaimStages' # ClaimStages
<1> DEFINE job == [stage |-> "request", serial |-> cp.cur.serial, run |-> cp.run]
<1>1. /\ UNCHANGED <<runs, reported, epoch>> /\ cp.pc = "mark" /\ epoch \in Nat
      /\ u \in reported /\ rebooters[u].stage = "none"
      /\ cp.run = 0 => Rowless(u)
      /\ rebooters' = [rebooters EXCEPT ![u] = job] /\ cp' = NextPod
  BY CpTypes DEF MarkRebooting, RInv, LedgerInv, CpClaimed, Unstored, ledgerVars
<1>2. job.stage = "request" /\ job.run = cp.run
  OBVIOUS
<1> HIDE DEF job
<1>3. rebooters'[u] = job /\ \A w \in Uids \ {u} : rebooters'[w] = rebooters[w]
  BY <1>1, CpTypes DEF RInv
<1>4. cp'.pc \in {"idle", "scan"}
  BY <1>1 DEF NextPod, CpIdle
<1>5. /\ ~Owing(u) /\ ~Collecting(u) /\ Saved(u) /\ Owing(u)'
      /\ \A w \in Uids \ {u} : Owing(w)' <=> Owing(w)
      /\ \A w \in Uids \ {u} : ~Collecting(w) /\ ~Collecting(w)' /\ ~Saved(w) /\ ~Saved(w)'
  BY <1>1, <1>2, <1>3, <1>4 DEF Owing, Collecting, Saved
<1>6. ClaimStage(e, u) = "stored" /\ ClaimStage(e, u)' = "rebooting"
  BY <1>1, <1>5, StageIs
<1>7. Results!Advance(<<e, u>>, "stored", "rebooting") /\ ClaimStages' # ClaimStages
  BY <1>1, <1>5, <1>6, Advances
<1>8. UNCHANGED LedgerRows
  BY <1>1 DEF LedgerRows
<1>9. Unstored'
  <2>1. \A w \in Uids : Owing(w)' /\ rebooters'[w].run = 0 => Rowless(w)
    BY <1>1, <1>2, <1>3, <1>5 DEF RInv, Unstored
  <2> QED
    BY <1>1, <1>4, <2>1 DEF Unstored, Rowless
<1> QED
  BY <1>7, <1>8, <1>9 DEF Results!Reboot

----------------------------------------------------------------------------
(* The goroutines of rebootAndReport.                                      *)

\* A verdict reaches the one row of its claim, if the claim has a row.
LEMMA VerdictRows ==
  ASSUME RInv, NEW u \in Uids, NEW v \in {"ok", "failed"}, Owing(u),
         UpdateBootResult(rebooters[u].run, v)
  PROVE  /\ runs' \in Seq(Row) /\ Len(runs') = Len(runs)
         /\ \A k \in 1..Len(runs) :
              runs'[k] = IF runs[k].epoch = epoch /\ runs[k].uid = u
                         THEN [runs[k] EXCEPT !.boot = v] ELSE runs[k]
<1> DEFINE n == rebooters[u].run
<1>1. runs \in Seq(Row) /\ n \in Nat /\ n <= Len(runs)
  BY CpTypes DEF RInv, Typed, ManagerType, WorkersKnowTheirJob
<1>2. n # 0 => Pending(n, u)
  BY DEF RInv, LedgerInv, RebootersClaimed
<1>3. n = 0 => Rowless(u)
  BY DEF RInv, Unstored
<1>4. UpdateBootResult(n, v)
  OBVIOUS
<1> HIDE DEF n
<1>5. /\ runs' \in Seq(Row) /\ Len(runs') = Len(runs)
      /\ \A k \in 1..Len(runs) :
           runs'[k] = IF k = n THEN [runs[k] EXCEPT !.boot = v] ELSE runs[k]
  BY <1>1, <1>4, UpdateBootType
<1>6. \A k \in 1..Len(runs) : k = n <=> runs[k].epoch = epoch /\ runs[k].uid = u
  <2>1. CASE n = 0
    BY <1>1, <1>3, <2>1 DEF Rowless
  <2>2. CASE n # 0
    <3>1. n \in 1..Len(runs) /\ runs[n].epoch = epoch /\ runs[n].uid = u
      BY <1>1, <1>2, <2>2 DEF Pending
    <3>2. DOMAIN runs = 1..Len(runs)
      BY <1>1
    <3> QED
      BY <3>1, <3>2 DEF RInv, LedgerInv, OneReportPerPod
  <2> QED
    BY <2>1, <2>2
<1> QED
  BY <1>5, <1>6

LEMMA FinishStep ==
  ASSUME RInv, NEW e \in 1..MaxEpoch, e = epoch, NEW u \in Uids, NEW v \in {"ok", "failed"},
         RebooterStep(u), Owing(u), ~Owing(u)', UpdateBootResult(rebooters[u].run, v)
  PROVE  Unstored' /\ Results!Finish(<<e, u>>, v) /\ ClaimStages' # ClaimStages
<1> DEFINE n == Len(runs)
           c == <<e, u>>
<1>1. /\ UNCHANGED <<cp, reported, epoch>> /\ epoch \in Nat
      /\ \A w \in Uids \ {u} : rebooters'[w] = rebooters[w]
  BY RebooterMoves, CpTypes DEF RInv
<1>2. /\ u \in reported /\ ~Collecting(u) /\ ~Saved(u)
      /\ \A w \in Uids : (Collecting(w)' <=> Collecting(w)) /\ (Saved(w)' <=> Saved(w))
      /\ \A w \in Uids \ {u} : Owing(w)' <=> Owing(w)
  BY <1>1 DEF RInv, LedgerInv, RebootersClaimed, CpClaimed, Owing, Collecting, Saved
<1>3. ClaimStage(e, u) = "rebooting" /\ ClaimStage(e, u)' = "closed"
  BY <1>1, <1>2, StageIs
<1>4. Results!Advance(c, "rebooting", "closed") /\ ClaimStages' # ClaimStages
  BY <1>1, <1>2, <1>3, Advances
<1>5. /\ runs \in Seq(Row) /\ runs' \in Seq(Row) /\ n \in Nat /\ Len(runs') = n
      /\ \A k \in 1..n : runs'[k] = IF runs[k].epoch = e /\ runs[k].uid = u
                                    THEN [runs[k] EXCEPT !.boot = v] ELSE runs[k]
  BY VerdictRows, CpTypes DEF RInv
<1>6. \A k \in 1..n : /\ runs[k] \in Row
                      /\ runs'[k].epoch = runs[k].epoch /\ runs'[k].uid = runs[k].uid
                      /\ runs'[k].boot = IF runs[k].epoch = e /\ runs[k].uid = u
                                         THEN v ELSE runs[k].boot
  <2>1. \A row \in Row : /\ [row EXCEPT !.boot = v].epoch = row.epoch
                         /\ [row EXCEPT !.boot = v].uid = row.uid
                         /\ [row EXCEPT !.boot = v].boot = v
    BY DEF Row
  <2> SUFFICES ASSUME NEW k \in 1..n
               PROVE  /\ runs[k] \in Row
                      /\ runs'[k].epoch = runs[k].epoch /\ runs'[k].uid = runs[k].uid
                      /\ runs'[k].boot = IF runs[k].epoch = e /\ runs[k].uid = u
                                         THEN v ELSE runs[k].boot
    OBVIOUS
  <2>2. runs[k] \in Row
    BY <1>5
  <2>3. runs'[k] = IF runs[k].epoch = e /\ runs[k].uid = u
                   THEN [runs[k] EXCEPT !.boot = v] ELSE runs[k]
    BY <1>5
  <2>4. CASE runs[k].epoch = e /\ runs[k].uid = u
    BY <2>1, <2>2, <2>3, <2>4
  <2>5. CASE ~(runs[k].epoch = e /\ runs[k].uid = u)
    BY <2>2, <2>3, <2>5
  <2> QED
    BY <2>4, <2>5
<1>7. /\ DOMAIN LedgerRows = 1..n /\ DOMAIN LedgerRows' = 1..n
      /\ \A k \in 1..n :
           /\ LedgerRows[k] = [claim |-> <<runs[k].epoch, runs[k].uid>>, boot |-> runs[k].boot]
           /\ LedgerRows'[k] = [claim |-> <<runs'[k].epoch, runs'[k].uid>>,
                                boot |-> runs'[k].boot]
  <2>1. DOMAIN runs = 1..n /\ DOMAIN runs' = 1..n
    BY <1>5
  <2> QED
    BY <2>1 DEF LedgerRows
<1> HIDE DEF n
<1>8. \A k \in 1..n :
        LedgerRows'[k] = IF LedgerRows[k].claim = c THEN [LedgerRows[k] EXCEPT !.boot = v]
                         ELSE LedgerRows[k]
  <2> SUFFICES ASSUME NEW k \in 1..n
               PROVE  LedgerRows'[k] = IF LedgerRows[k].claim = c
                                       THEN [LedgerRows[k] EXCEPT !.boot = v]
                                       ELSE LedgerRows[k]
    OBVIOUS
  <2>1. /\ LedgerRows[k] = [claim |-> <<runs[k].epoch, runs[k].uid>>, boot |-> runs[k].boot]
        /\ LedgerRows'[k] = [claim |-> <<runs[k].epoch, runs[k].uid>>,
                             boot |-> IF runs[k].epoch = e /\ runs[k].uid = u
                                      THEN v ELSE runs[k].boot]
    BY <1>6, <1>7
  <2>2. <<runs[k].epoch, runs[k].uid>> = c <=> runs[k].epoch = e /\ runs[k].uid = u
    OBVIOUS
  <2>3. CASE <<runs[k].epoch, runs[k].uid>> = c
    BY <2>1, <2>2, <2>3
  <2>4. CASE <<runs[k].epoch, runs[k].uid>> # c
    BY <2>1, <2>2, <2>4
  <2> QED
    BY <2>3, <2>4
<1>9. LedgerRows' = [k \in DOMAIN LedgerRows |->
                       IF LedgerRows[k].claim = c THEN [LedgerRows[k] EXCEPT !.boot = v]
                       ELSE LedgerRows[k]]
  <2>1. LedgerRows' = [k \in DOMAIN LedgerRows' |-> LedgerRows'[k]]
    BY DEF LedgerRows
  <2> HIDE DEF LedgerRows
  <2> QED
    BY <1>7, <1>8, <2>1
<1>10. Unstored'
  <2>1. \A w \in Uids : Rowless(w)' <=> Rowless(w)
    BY <1>1, <1>5, <1>6 DEF Rowless, n
  <2>2. \A w \in Uids : Owing(w)' /\ rebooters'[w].run = 0 => Rowless(w)'
    BY <1>1, <1>2, <2>1 DEF RInv, Unstored
  <2>3. cp.pc = "mark" /\ cp.run = 0 => \A k \in 1..Len(runs') : runs'[k].epoch = epoch => runs'[k].uid # cp.cur.uid
    BY <1>5, <1>6 DEF RInv, Unstored, Rowless, n
  <2> QED
    BY <1>1, <2>2, <2>3 DEF Unstored, Rowless
<1> QED
  BY <1>4, <1>9, <1>10 DEF Results!Finish

LEMMA RebooterRefines ==
  ASSUME RInv, NEW u \in Uids, RebooterStep(u)
  PROVE  /\ Unstored'
         /\ \/ UNCHANGED <<ClaimStages, LedgerRows>>
            \/ /\ ClaimStages' # ClaimStages
               /\ \E c \in Claims : \E v \in {"ok", "failed"} : Results!Finish(c, v)
<1>1. /\ UNCHANGED <<cp, reported, epoch>>
      /\ \A w \in Uids \ {u} : rebooters'[w] = rebooters[w]
      /\ \/ /\ UNCHANGED runs
            /\ \/ /\ Owing(u) /\ Owing(u)' /\ rebooters'[u].run = rebooters[u].run
               \/ ~Owing(u) /\ ~Owing(u)'
         \/ /\ Owing(u) /\ ~Owing(u)'
            /\ \E v \in {"ok", "failed"} : UpdateBootResult(rebooters[u].run, v)
  BY RebooterMoves DEF RInv
<1>2. CASE /\ UNCHANGED runs
           /\ \/ /\ Owing(u) /\ Owing(u)' /\ rebooters'[u].run = rebooters[u].run
              \/ ~Owing(u) /\ ~Owing(u)'
  <2>1. \A w \in Uids : /\ Owing(w)' <=> Owing(w)
                        /\ Collecting(w)' <=> Collecting(w)
                        /\ Saved(w)' <=> Saved(w)
                        /\ Owing(w) => rebooters'[w].run = rebooters[w].run
    BY <1>1, <1>2 DEF Owing, Collecting, Saved
  <2>2. Unstored'
    BY <1>1, <1>2, <2>1 DEF RInv, Unstored, Rowless
  <2> QED
    BY <1>1, <1>2, <2>1, <2>2, Stutters
<1>3. ASSUME NEW v \in {"ok", "failed"}, Owing(u), ~Owing(u)',
             UpdateBootResult(rebooters[u].run, v)
      PROVE  /\ Unstored' /\ ClaimStages' # ClaimStages
             /\ \E c \in Claims : Results!Finish(c, v)
  <2>1. PICK e \in 1..MaxEpoch : e = epoch
    BY DEF RInv, Typed, ManagerType
  <2>2. <<e, u>> \in Claims
    BY DEF Claims
  <2>3. Unstored' /\ Results!Finish(<<e, u>>, v) /\ ClaimStages' # ClaimStages
    BY <1>3, <2>1, FinishStep
  <2> QED
    BY <2>2, <2>3
<1> QED
  BY <1>1, <1>2, <1>3

----------------------------------------------------------------------------
(* A restart, and all steps together.                                      *)

\* The maps of the old process are gone, and with them its claims.
LEMMA RestartRefines ==
  ASSUME RInv, Restart
  PROVE  /\ Unstored'
         /\ UNCHANGED LedgerRows
         /\ \E life \in Lives : Results!Crash(life)
<1>1. /\ epoch' = epoch + 1 /\ runs' = runs /\ reported' = {} /\ cp' = CpIdle
      /\ rebooters' = [u \in Uids |-> NoRebooter] /\ epoch \in Nat
  BY CpTypes DEF Restart, RInv
<1>2. PICK e \in 1..MaxEpoch : e = epoch
  BY DEF RInv, Typed, ManagerType
<1> DEFINE life == {e} \X Uids
<1>3. life \in Lives
  BY DEF Lives
<1>4. \A c \in Claims : /\ c[1] \in 1..MaxEpoch /\ c[1] \in Nat
                        /\ c \in life <=> c[1] = e
  BY HubAssumption DEF Claims
<1>5. \A c \in Claims : ClaimStage(c[1], c[2])' = IF c \in life THEN "closed"
                                                 ELSE ClaimStage(c[1], c[2])
  <2> SUFFICES ASSUME NEW c \in Claims
               PROVE  ClaimStage(c[1], c[2])' = IF c \in life THEN "closed"
                                                ELSE ClaimStage(c[1], c[2])
    OBVIOUS
  <2>1. c[1] \in Nat /\ (c \in life <=> c[1] = epoch)
    BY <1>2, <1>4
  <2> HIDE DEF life
  <2>2. CASE c[1] = epoch
    BY <1>1, <2>1, <2>2, StageIs
  <2>3. CASE c[1] > epoch
    BY <1>1, <2>1, <2>3, StageIs
  <2>4. CASE c[1] < epoch
    BY <1>1, <2>1, <2>4, StageIs
  <2> QED
    BY <1>1, <2>1, <2>2, <2>3, <2>4
<1>6. /\ ClaimStages' = [c \in Claims |-> ClaimStage(c[1], c[2])']
      /\ \A c \in Claims : ClaimStages[c] = ClaimStage(c[1], c[2])
  BY DEF ClaimStages
<1>7. ClaimStages' = [c \in Claims |-> IF c \in life THEN "closed" ELSE ClaimStages[c]]
  <2> HIDE DEF life, ClaimStages
  <2> QED
    BY <1>5, <1>6
<1>8. UNCHANGED LedgerRows
  BY <1>1 DEF LedgerRows
<1>9. Unstored'
  BY <1>1 DEF Unstored, Owing, NoRebooter, CpIdle
<1> QED
  BY <1>3, <1>7, <1>8, <1>9 DEF Results!Crash

LEMMA CpRefines ==
  ASSUME RInv, CpStep
  PROVE  /\ Unstored'
         /\ \/ UNCHANGED <<ClaimStages, LedgerRows>>
            \/ /\ ClaimStages' # ClaimStages
               /\ \E c \in Claims : Results!Claim(c) \/ Results!Store(c) \/ Results!Reboot(c)
<1>1. PICK e \in 1..MaxEpoch : e = epoch
  BY DEF RInv, Typed, ManagerType
<1>2. ASSUME SaveTestResult \/ MarkRebooting
      PROVE  /\ Unstored' /\ ClaimStages' # ClaimStages
             /\ \E c \in Claims : Results!Store(c) \/ Results!Reboot(c)
  <2>1. cp.pc \in {"save", "mark"}
    BY <1>2 DEF SaveTestResult, MarkRebooting
  <2>2. PICK u \in Uids : u = cp.cur.uid
    BY <2>1, CpTypes DEF RInv
  <2>3. <<e, u>> \in Claims
    BY DEF Claims
  <2>4. CASE SaveTestResult
    BY <1>1, <2>2, <2>3, <2>4, StoreStep
  <2>5. CASE MarkRebooting
    BY <1>1, <2>2, <2>3, <2>5, RebootStep
  <2> QED
    BY <1>2, <2>4, <2>5
<1>3. CASE \E p \in cp.todo : Claim(p)
  BY <1>3, ClaimStep
<1>4. CASE CheckPods \/ Purge
  <2>1. UNCHANGED <<rebooters, runs, reported, epoch>> /\ cp.pc \in {"idle", "purge"}
    BY <1>4 DEF CheckPods, Purge, ledgerVars
  <2>2. cp'.pc \in {"idle", "scan", "purge"}
    <3>1. NextPod.pc \in {"idle", "scan"}
      BY DEF NextPod, CpIdle
    <3>2. \A todo : [CpIdle EXCEPT !.pc = "scan", !.todo = todo].pc = "scan"
      BY DEF CpIdle
    <3> QED
      BY <1>4, <2>1, <3>1, <3>2 DEF CheckPods, Purge
  <2> QED
    BY <2>1, <2>2, CpStutters
<1>5. CASE Collect \/ Delete
  <2>1. UNCHANGED <<rebooters, runs, reported, epoch>> /\ cp.pc \in {"collect", "delete"}
    BY <1>5 DEF Collect, Delete, ledgerVars
  <2>2. cp'.pc \in {"delete", "save"} /\ cp'.cur = cp.cur
    BY <1>5, CpTypes DEF RInv, Collect, Delete, CpType
  <2> QED
    BY <2>1, <2>2, CpStutters
<1> QED
  BY <1>2, <1>3, <1>4, <1>5 DEF CpStep

LEMMA NextRefines ==
  ASSUME RInv, [Next]_vars
  PROVE  Unstored' /\ [Results!Next]_(Results!ledgerSpecVars)
<1> USE DEF Results!Next, Results!ledgerSpecVars, Results!Verdicts
<1>1. CASE CpStep
  BY <1>1, CpRefines
<1>2. CASE \E u \in Uids : RebooterStep(u)
  BY <1>2, RebooterRefines
<1>3. CASE Restart
  <2>1. CASE ClaimStages' = ClaimStages
    BY <1>3, <2>1, RestartRefines
  <2>2. CASE ClaimStages' # ClaimStages
    BY <1>3, <2>2, RestartRefines
  <2> QED
    BY <2>1, <2>2
<1>4. CASE \/ WsStep \/ (\E k \in Settlers : SettlerStep(k)) \/ HubStep \/ Reconnected
           \/ (\E s \in Serials : PodStep(s)) \/ UNCHANGED vars
  <2>1. UNCHANGED <<cp, rebooters, runs, reported, epoch>>
    BY <1>4, OthersLeaveLedger
  <2>2. \A u \in Uids : /\ Owing(u)' <=> Owing(u)
                        /\ Collecting(u)' <=> Collecting(u)
                        /\ Saved(u)' <=> Saved(u)
    BY <2>1 DEF Owing, Collecting, Saved
  <2>3. Unstored'
    BY <2>1 DEF RInv, Unstored, Rowless, Owing
  <2> QED
    BY <2>1, <2>2, <2>3, Stutters
<1> QED
  BY <1>1, <1>2, <1>3, <1>4 DEF Next

LEMMA InitRefines == Init => Unstored /\ Results!Init
<1> SUFFICES ASSUME Init PROVE Unstored /\ Results!Init
  OBVIOUS
<1>1. /\ runs = <<>> /\ reported = {} /\ epoch = 1 /\ cp = CpIdle
      /\ rebooters = [u \in Uids |-> NoRebooter]
  BY DEF Init
<1>2. \A e \in 1..MaxEpoch : \A u \in Uids : ClaimStage(e, u) = "open"
  BY <1>1, HubAssumption, StageIs
<1>3. \A c \in Claims : c[1] \in 1..MaxEpoch /\ c[2] \in Uids
  BY DEF Claims
<1>4. ClaimStages = [c \in Claims |-> "open"]
  BY <1>2, <1>3 DEF ClaimStages
<1>5. LedgerRows = <<>>
  BY <1>1 DEF LedgerRows
<1>6. Unstored
  BY <1>1 DEF Unstored, Owing, NoRebooter, CpIdle
<1> QED
  BY <1>4, <1>5, <1>6 DEF Results!Init

\* Hub mode keeps the promise of ResultLedger, for any devices, restarts and
\* failing calls: CheckPods claims a pod before it stores the row, the row before
\* it starts the reboot, and the verdict goes to that row only, whichever runs of
\* the process come after (manager.go 494-535, 1018-1134).
THEOREM LedgerImplemented == Spec => ImplementsLedger
<1>1. Init => RInv /\ Results!Init
  BY InitTyped, InitLedger, InitRefines DEF RInv
<1>2. RInv /\ [Next]_vars => RInv' /\ [Results!Next]_(Results!ledgerSpecVars)
  BY NextKeepsTypes, NextKeepsLedger, NextRefines DEF RInv
<1> QED
  BY <1>1, <1>2, PTL DEF Spec, ImplementsLedger, Results!Spec
=============================================================================
