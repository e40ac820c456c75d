---------------------------- MODULE LocalRefinement ----------------------------
(***************************************************************************)
(* LocalManager implements ResultLedger.  The claim, the row and the       *)
(* verdict of a test are the steps of two reconcilers and of a goroutine   *)
(* of its own; everything else they do leaves the ledger alone.            *)
(***************************************************************************)
EXTENDS LocalManagerProofs

\* The conditions ClaimStage distinguishes.
Claimed(i) == \E r \in Reconcilers : rec[r].pc \in {"delete", "save"} /\ TestOf(rec[r]) = i
Stored(i) == \E r \in Reconcilers : rec[r].pc = "mark" /\ TestOf(rec[r]) = i
Active(i) == rebooters[i].stage \in {"request", "wait"}

LEMMA StageIs ==
  ASSUME NEW i \in TestIds
  PROVE  ClaimStage(i) = IF i \notin reported THEN "open"
                         ELSE IF Active(i) THEN "rebooting"
                         ELSE IF Claimed(i) THEN "claimed"
                         ELSE IF Stored(i) THEN "stored"
                         ELSE "closed"
BY DEF ClaimStage, Claimed, Stored, Active, At, Seen, Cur, TestOf

LEMMA StageBecomes ==
  ASSUME NEW i \in TestIds
  PROVE  ClaimStage(i)' = IF i \notin reported' THEN "open"
                          ELSE IF Active(i)' THEN "rebooting"
                          ELSE IF Claimed(i)' THEN "claimed"
                          ELSE IF Stored(i)' THEN "stored"
                          ELSE "closed"
BY DEF ClaimStage, Claimed, Stored, Active, At, Seen, Cur, TestOf

----------------------------------------------------------------------------
(* A row that sqlite refused is never written: whoever still reports or    *)
(* reboots for it has run id 0, and so it cannot find another test's row.  *)

Rowless(i) == \A k \in 1..Len(rows) : rows[k].test # i

Unstored ==
  /\ \A r \in Reconcilers :
       rec[r].pc = "mark" /\ rec[r].run = 0 => Rowless(TestOf(rec[r]))
  /\ \A i \in TestIds : Active(i) /\ rebooters[i].run = 0 => Rowless(i)

LInv == Typed /\ Ledger /\ Unstored

----------------------------------------------------------------------------
(* Steps of the ledger.                                                    *)

LEMMA Advances ==
  ASSUME NEW c \in TestIds, NEW from, NEW to, from # to,
         ClaimStage(c) = from, ClaimStage(c)' = to,
         \A i \in TestIds \ {c} : ClaimStage(i)' = ClaimStage(i)
  PROVE  Results!Advance(c, from, to) /\ ClaimStages' # ClaimStages
<1>1. ClaimStages' = [i \in TestIds |-> ClaimStage(i)']
  BY DEF ClaimStages
<1>2. ClaimStages'[c] = to /\ ClaimStages[c] = from
  BY <1>1 DEF ClaimStages
<1>3. \A i \in TestIds : ClaimStages'[i] = IF i = c THEN to ELSE ClaimStages[i]
  BY <1>1 DEF ClaimStages
<1>4. ClaimStages' = [ClaimStages EXCEPT ![c] = to]
  <2>1. /\ ClaimStages' = [i \in TestIds |-> ClaimStages'[i]]
        /\ ClaimStages = [i \in TestIds |-> ClaimStages[i]]
    BY DEF ClaimStages
  <2> HIDE DEF ClaimStages
  <2> QED
    BY <1>3, <2>1
<1> QED
  BY <1>2, <1>4 DEF Results!Advance

\* Nothing about results changes.
LEMMA Stutters ==
  ASSUME UNCHANGED <<rows, reported>>,
         \A i \in TestIds : /\ Active(i)' <=> Active(i)
                            /\ Claimed(i)' <=> Claimed(i)
                            /\ Stored(i)' <=> Stored(i)
  PROVE  UNCHANGED <<ClaimStages, LedgerRows>>
<1>1. \A i \in TestIds : ClaimStage(i)' = ClaimStage(i)
  BY StageIs, StageBecomes
<1> QED
  BY <1>1 DEF ClaimStages, LedgerRows

LEMMA Same ==
  ASSUME LInv, UNCHANGED <<rows, reported, rebooters>>,
         \A r \in Reconcilers : Reporting(rec[r]) \/ Reporting(rec'[r]) => rec'[r] = rec[r]
  PROVE  UNCHANGED <<ClaimStages, LedgerRows>> /\ Unstored'
<1>1. \A i \in TestIds : /\ Active(i)' <=> Active(i)
                         /\ Claimed(i)' <=> Claimed(i)
                         /\ Stored(i)' <=> Stored(i)
  BY DEF Active, Claimed, Stored, Reporting
<1>2. Unstored'
  BY DEF LInv, Unstored, Rowless, Active, Reporting
<1> QED
  BY <1>1, <1>2, Stutters

----------------------------------------------------------------------------
(* The four steps of a reconciler that are about results.                  *)

\* LoadOrStore
LEMMA ClaimStep ==
  ASSUME LInv, NEW r \in Reconcilers, NEW t \in TestIds,
         rec[r].pc = "test", TestOf(rec[r]) = t,
         t \notin reported, reported' = reported \cup {t},
         Goto(r, "delete"), UNCHANGED <<rows, rebooters>>
  PROVE  Unstored' /\ Results!Claim(t) /\ ClaimStages' # ClaimStages
<1>1. rec \in [Reconcilers -> ReconcilerType]
  BY DEF LInv, Typed, ManagerType
<1>2. /\ \A q \in Reconcilers \ {r} : rec'[q] = rec[q]
      /\ rec'[r].pc = "delete" /\ TestOf(rec'[r]) = t
  BY <1>1 DEF Goto, TestOf, ReconcilerType
<1>3. ~Active(t)'
  BY DEF LInv, Ledger, RebootersClaimed, Active
<1>4. Claimed(t)'
  BY <1>2 DEF Claimed
<1>5. \A i \in TestIds \ {t} : /\ Active(i)' <=> Active(i)
                               /\ Claimed(i)' <=> Claimed(i)
                               /\ Stored(i)' <=> Stored(i)
                               /\ i \in reported' <=> i \in reported
  BY <1>1, <1>2 DEF Active, Claimed, Stored
<1>6. \A i \in TestIds \ {t} : ClaimStage(i)' = ClaimStage(i)
  BY <1>5, StageIs, StageBecomes
<1>7. ClaimStage(t) = "open" /\ ClaimStage(t)' = "claimed"
  BY <1>3, <1>4, StageIs, StageBecomes
<1>8. Results!Advance(t, "open", "claimed") /\ ClaimStages' # ClaimStages
  BY <1>6, <1>7, Advances
<1>9. UNCHANGED LedgerRows
  BY DEF LedgerRows
<1>10. Unstored'
  BY <1>2 DEF LInv, Unstored, Rowless, Active
<1> QED
  BY <1>8, <1>9, <1>10 DEF Results!Claim

LEMMA CheckTestStep ==
  ASSUME LInv, NEW r \in Reconcilers, CheckTest(r)
  PROVE  /\ Unstored'
         /\ \/ UNCHANGED <<ClaimStages, LedgerRows>>
            \/ ClaimStages' # ClaimStages /\ \E c \in TestIds : Results!Claim(c)
<1>1. /\ rec \in [Reconcilers -> ReconcilerType]
      /\ rec[r].pc = "test"
      /\ Seen(r).test.status # "none" => TestOf(rec[r]) \in TestIds
  BY AtWork DEF LInv, CheckTest, At, Working, TestOf, Seen, Cur
<1>2. UNCHANGED <<rows, rebooters>>
  BY DEF CheckTest, goVars
<1>3. CASE (NextDevice(r) \/ Goto(r, "purge") \/ Goto(r, "replace")) /\ UNCHANGED reported
  <2>1. ~Reporting(rec[r])
    BY <1>1 DEF Reporting
  <2>2. \A q \in Reconcilers \ {r} : rec'[q] = rec[q]
    BY <1>1, <1>3 DEF NextDevice, Goto
  <2>3. ~Reporting(rec'[r])
    <3>1. ASSUME NEW pc \in {"purge", "replace"}, Goto(r, pc) PROVE rec'[r].pc = pc
      BY <1>1, <3>1 DEF Goto, ReconcilerType
    <3>2. ASSUME NextDevice(r) PROVE rec'[r].pc \in {"idle", "pass"}
      BY <1>1, <3>2 DEF NextDevice, Idle, ReconcilerType
    <3> QED
      BY <1>3, <3>1, <3>2 DEF Reporting
  <2> QED
    BY <1>2, <1>3, <2>1, <2>2, <2>3, Same
<1>4. CASE /\ TestOf(rec[r]) \in TestIds \ reported
           /\ reported' = reported \cup {TestOf(rec[r])}
           /\ Goto(r, "delete")
  <2>1. PICK t \in TestIds : t = TestOf(rec[r])
    BY <1>4
  <2> QED
    BY <1>1, <1>2, <1>4, <2>1, ClaimStep
<1> QED
  BY <1>1, <1>3, <1>4 DEF CheckTest, TestOf, Seen, Cur

\* The container goes; the claim stays where it is.
LEMMA DeleteStep ==
  ASSUME LInv, NEW r \in Reconcilers, Delete(r)
  PROVE  Unstored' /\ UNCHANGED <<ClaimStages, LedgerRows>>
<1>1. rec \in [Reconcilers -> ReconcilerType]
  BY DEF LInv, Typed, ManagerType
<1>2. /\ \A q \in Reconcilers \ {r} : rec'[q] = rec[q]
      /\ rec[r].pc = "delete" /\ rec'[r].pc = "save"
      /\ rec'[r].seen = rec[r].seen /\ rec'[r].cur = rec[r].cur
  BY <1>1 DEF Delete, At, Goto, ReconcilerType
<1>3. UNCHANGED <<rows, rebooters, reported>>
  BY DEF Delete, goVars, mapVars
<1>4. TestOf(rec'[r]) = TestOf(rec[r])
  BY <1>2 DEF TestOf
<1>5. \A i \in TestIds : /\ Active(i)' <=> Active(i)
                         /\ Claimed(i)' <=> Claimed(i)
                         /\ Stored(i)' <=> Stored(i)
  BY <1>2, <1>3, <1>4 DEF Active, Claimed, Stored
<1>6. Unstored'
  BY <1>2, <1>3 DEF LInv, Unstored, Rowless, Active
<1> QED
  BY <1>3, <1>5, <1>6, Stutters

\* The ledger as a sequence of entries, and the rows it shows.
Shown(table) == [k \in DOMAIN table |-> [claim |-> table[k].test, boot |-> table[k].boot]]

LEMMA LedgerShows ==
  ASSUME NEW table \in Seq(Row)
  PROVE  /\ Shown(table) \in Seq(Results!Entry)
         /\ Len(Shown(table)) = Len(table)
         /\ \A k \in 1..Len(table) :
              Shown(table)[k] = [claim |-> table[k].test, boot |-> table[k].boot]
<1>1. Len(table) \in Nat /\ DOMAIN table = 1..Len(table)
  OBVIOUS
<1>2. \A k \in 1..Len(table) :
        /\ Shown(table)[k] = [claim |-> table[k].test, boot |-> table[k].boot]
        /\ Shown(table)[k] \in Results!Entry
  <2>1. \A row \in Row : [claim |-> row.test, boot |-> row.boot] \in Results!Entry
    BY DEF Row, Results!Entry, Results!Verdicts
  <2> QED
    BY <1>1, <2>1 DEF Shown
<1>3. Shown(table) \in [1..Len(table) -> Results!Entry]
  BY <1>1, <1>2 DEF Shown
<1> QED
  BY <1>1, <1>2, <1>3

\* saveTestResult, in which sqlite may refuse the row.
LEMMA StoreStep ==
  ASSUME LInv, NEW r \in Reconcilers, NEW t \in TestIds,
         rec[r].pc = "save", TestOf(rec[r]) = t, SaveTestResult(r)
  PROVE  Unstored' /\ Results!Store(t) /\ ClaimStages' # ClaimStages
<1> DEFINE row == [test |-> t, boot |-> "none"]
           n == Len(rows)
<1>1. /\ rec \in [Reconcilers -> ReconcilerType] /\ rows \in Seq(Row) /\ n \in Nat
      /\ rec[r].run = 0
  BY AtWork DEF LInv, Working, Typed, ManagerType
<1>2. UNCHANGED <<rebooters, reported>>
  BY DEF SaveTestResult, goVars, mapVars
<1>3. \/ Goto(r, "mark") /\ UNCHANGED rows
      \/ /\ rows' = Append(rows, row)
         /\ rec' = [rec EXCEPT ![r].pc = "mark", ![r].run = n + 1]
  BY DEF SaveTestResult, TestOf, Seen, Cur
<1>4. /\ \A q \in Reconcilers \ {r} : rec'[q] = rec[q]
      /\ rec'[r].pc = "mark"
      /\ rec'[r].seen = rec[r].seen /\ rec'[r].cur = rec[r].cur
      /\ \/ rec'[r].run = 0 /\ UNCHANGED rows
         \/ rec'[r].run = n + 1 /\ rows' = Append(rows, row)
  <2>1. CASE Goto(r, "mark") /\ UNCHANGED rows
    <3> HIDE DEF row, n
    <3> QED
      BY <1>1, <2>1 DEF Goto, ReconcilerType
  <2>2. CASE /\ rows' = Append(rows, row)
             /\ rec' = [rec EXCEPT ![r].pc = "mark", ![r].run = n + 1]
    <3> HIDE DEF row
    <3> QED
      BY <1>1, <2>2 DEF ReconcilerType
  <2> QED
    BY <1>3, <2>1, <2>2
<1>5. TestOf(rec'[r]) = t
  BY <1>4 DEF TestOf
<1>6. /\ t \in reported /\ rebooters[t].stage = "none" /\ Rowless(t)
      /\ \A q \in Reconcilers \ {r} : Reporting(rec[q]) => TestOf(rec[q]) # t
  BY DEF LInv, Ledger, ReportersClaimed, ReportersDistinct, Reporting, Rowless
<1>7. \A i \in TestIds : Active(i)' <=> Active(i)
  BY <1>2 DEF Active
<1>8. /\ ~Active(t) /\ Claimed(t)
      /\ ~Claimed(t)' /\ Stored(t)'
  BY <1>4, <1>5, <1>6 DEF Active, Claimed, Stored, Reporting
<1>9. \A i \in TestIds \ {t} : /\ Claimed(i)' <=> Claimed(i)
                               /\ Stored(i)' <=> Stored(i)
  BY <1>4, <1>5 DEF Claimed, Stored
<1>10. \A i \in TestIds \ {t} : ClaimStage(i)' = ClaimStage(i)
  BY <1>2, <1>7, <1>9, StageIs, StageBecomes
<1>11. ClaimStage(t) = "claimed" /\ ClaimStage(t)' = "stored"
  BY <1>2, <1>6, <1>7, <1>8, StageIs, StageBecomes
<1>12. Results!Advance(t, "claimed", "stored") /\ ClaimStages' # ClaimStages
  BY <1>10, <1>11, Advances
<1>13. row \in Row /\ row.test = t /\ row.boot = "none"
  BY DEF Row
<1> HIDE DEF row
<1>14. CASE UNCHANGED rows /\ rec'[r].run = 0
  <2>1. UNCHANGED LedgerRows
    BY <1>14 DEF LedgerRows
  <2>2. Unstored'
    BY <1>2, <1>4, <1>5, <1>6, <1>14 DEF LInv, Unstored, Rowless, Active
  <2> QED
    BY <1>12, <2>1, <2>2 DEF Results!Store
<1>15. CASE rows' = Append(rows, row) /\ rec'[r].run = n + 1
  <2>1. /\ rows' \in Seq(Row)
        /\ Len(rows') = n + 1
        /\ rows'[n + 1] = row
        /\ \A k \in 1..n : rows'[k] = rows[k]
    BY <1>1, <1>13, <1>15
  <2> DEFINE entry == [claim |-> t, boot |-> "none"]
  <2>2. entry \in Results!Entry
    BY DEF Results!Entry
  <2>3. entry = [claim |-> row.test, boot |-> row.boot]
    BY <1>13
  <2> HIDE DEF entry
  <2>4. /\ LedgerRows \in Seq(Results!Entry)
        /\ Len(LedgerRows) = n
        /\ \A k \in 1..n : LedgerRows[k] = [claim |-> rows[k].test, boot |-> rows[k].boot]
    <3>1. LedgerRows = Shown(rows)
      BY DEF LedgerRows, Shown
    <3> QED
      BY <1>1, <3>1, LedgerShows
  <2>5. /\ LedgerRows' \in Seq(Results!Entry)
        /\ Len(LedgerRows') = n + 1
        /\ \A k \in 1..(n + 1) :
             LedgerRows'[k] = [claim |-> rows'[k].test, boot |-> rows'[k].boot]
    <3>1. LedgerRows' = Shown(rows')
      BY DEF LedgerRows, Shown
    <3> HIDE DEF n
    <3> QED
      BY <2>1, <3>1, LedgerShows
  <2>6. /\ Append(LedgerRows, entry) \in Seq(Results!Entry)
        /\ Len(Append(LedgerRows, entry)) = n + 1
        /\ Append(LedgerRows, entry)[n + 1] = entry
        /\ \A k \in 1..n : Append(LedgerRows, entry)[k] = LedgerRows[k]
    BY <1>1, <2>2, <2>4
  <2>7. \A k \in 1..(n + 1) : LedgerRows'[k] = Append(LedgerRows, entry)[k]
    <3>1. \A k \in 1..(n + 1) : k \in 1..n \/ k = n + 1
      BY <1>1
    <3> QED
      BY <2>1, <2>3, <2>4, <2>5, <2>6, <3>1
  <2>8. LedgerRows' = Append(LedgerRows, entry)
    BY <2>5, <2>6, <2>7, SeqEqual
  <2>9. Unstored'
    <3>1. \A i \in TestIds \ {t} : Rowless(i) => Rowless(i)'
      BY <1>1, <1>13, <2>1 DEF Rowless
    <3>2. \A q \in Reconcilers \ {r} : rec[q].pc = "mark" => TestOf(rec[q]) \in TestIds \ {t}
      BY <1>6 DEF LInv, Typed, WorkersKnowTheirJob, ReconcilerKnowsItsJob, Reporting, TestOf
    <3>3. \A q \in Reconcilers : rec'[q].pc = "mark" /\ rec'[q].run = 0 =>
            \A k \in 1..Len(rows') : rows'[k].test # TestOf(rec'[q])
      <4> SUFFICES ASSUME NEW q \in Reconcilers \ {r}, rec[q].pc = "mark", rec[q].run = 0
                   PROVE  \A k \in 1..Len(rows') : rows'[k].test # TestOf(rec[q])
        BY <1>1, <1>4, <1>15
      <4>1. PICK u \in TestIds \ {t} : u = TestOf(rec[q])
        BY <3>2
      <4>2. Rowless(u)
        BY <4>1 DEF LInv, Unstored
      <4> QED
        BY <3>1, <4>1, <4>2 DEF Rowless
    <3>4. \A i \in TestIds : Active(i)' /\ rebooters'[i].run = 0 => Rowless(i)'
      BY <1>2, <1>7, <1>8, <3>1 DEF LInv, Unstored
    <3> QED
      BY <3>3, <3>4 DEF Unstored, Rowless
  <2> QED
    BY <1>12, <2>8, <2>9 DEF Results!Store, entry
<1> QED
  BY <1>4, <1>14, <1>15

\* go rebootAndReport
LEMMA RebootStep ==
  ASSUME LInv, NEW r \in Reconcilers, NEW t \in TestIds,
         rec[r].pc = "mark", TestOf(rec[r]) = t, MarkRebooting(r)
  PROVE  /\ Unstored'
         /\ Results!Reboot(t)
         /\ ClaimStages' # ClaimStages
<1> DEFINE new == [stage |-> "request", serial |-> Cur(r), run |-> rec[r].run]
<1>1. /\ rec \in [Reconcilers -> ReconcilerType]
      /\ rebooters \in [TestIds -> RebooterType]
  BY DEF LInv, Typed, ManagerType
<1>2. /\ t \in reported /\ rebooters[t].stage = "none"
      /\ \A q \in Reconcilers \ {r} : Reporting(rec[q]) => TestOf(rec[q]) # t
      /\ rec[r].run = 0 => Rowless(t)
  BY DEF LInv, Ledger, ReportersClaimed, ReportersDistinct, Reporting, Unstored
<1>3. /\ UNCHANGED <<rows, reported>>
      /\ rebooters' = [rebooters EXCEPT ![t] = new]
  BY DEF MarkRebooting, TestOf, Seen, Cur
<1>4. \A q \in Reconcilers \ {r} : rec'[q] = rec[q]
  BY <1>1 DEF MarkRebooting, NextDevice
<1>5. rec'[r].pc \notin {"delete", "save", "mark"}
  BY <1>1 DEF MarkRebooting, NextDevice, Idle, ReconcilerType
<1>6. new.stage = "request" /\ new.run = rec[r].run
  OBVIOUS
<1> HIDE DEF new
<1>7. \A i \in TestIds : rebooters'[i] = IF i = t THEN new ELSE rebooters[i]
  BY <1>1, <1>3
<1>8. \A i \in TestIds \ {t} : /\ Active(i)' <=> Active(i)
                               /\ Claimed(i)' <=> Claimed(i)
                               /\ Stored(i)' <=> Stored(i)
  BY <1>4, <1>5, <1>7 DEF Active, Claimed, Stored
<1>9. /\ ~Active(t) /\ ~Claimed(t) /\ Stored(t)
      /\ Active(t)'
  BY <1>2, <1>6, <1>7 DEF Active, Claimed, Stored, Reporting
<1>10. \A i \in TestIds \ {t} : ClaimStage(i)' = ClaimStage(i)
  BY <1>3, <1>8, StageIs, StageBecomes
<1>11. ClaimStage(t) = "stored" /\ ClaimStage(t)' = "rebooting"
  BY <1>2, <1>3, <1>9, StageIs, StageBecomes
<1>12. Results!Advance(t, "stored", "rebooting") /\ ClaimStages' # ClaimStages
  BY <1>10, <1>11, Advances
<1>13. UNCHANGED LedgerRows
  BY <1>3 DEF LedgerRows
<1>14. Unstored'
  <2>1. \A q \in Reconcilers : rec'[q].pc = "mark" => rec'[q] = rec[q]
    BY <1>4, <1>5
  <2>2. \A i \in TestIds : Active(i)' /\ rebooters'[i].run = 0 => Rowless(i)
    BY <1>2, <1>6, <1>7, <1>8 DEF LInv, Unstored
  <2> QED
    BY <1>3, <2>1, <2>2 DEF LInv, Unstored, Rowless
<1> QED
  BY <1>12, <1>13, <1>14 DEF Results!Reboot

----------------------------------------------------------------------------
(* The steps of a rebooter.                                                *)

\* A verdict reaches the one row of its test, if the test has a row.
LEMMA VerdictRows ==
  ASSUME LInv, NEW i \in TestIds, NEW v \in {"ok", "failed"}, Gives(i, v)
  PROVE  /\ rows' \in Seq(Row)
         /\ Len(rows') = Len(rows)
         /\ \A k \in 1..Len(rows) :
              rows'[k] = IF rows[k].test = i THEN [rows[k] EXCEPT !.boot = v] ELSE rows[k]
<1> DEFINE n == rebooters[i].run
<1>1. rows \in Seq(Row) /\ n \in Nat /\ n <= Len(rows)
  BY DEF LInv, Typed, ManagerType, RebooterType, WorkersKnowTheirJob
<1>2. Active(i) /\ Pending(rows, n, i)
  BY DEF LInv, Gives, Ledger, RebootersClaimed, Active
<1>3. n = 0 => Rowless(i)
  BY <1>2 DEF LInv, Unstored
<1>4. UpdateBootResult(n, v)
  BY DEF Gives
<1> HIDE DEF n
<1>5. /\ rows' \in Seq(Row) /\ Len(rows') = Len(rows)
      /\ \A k \in 1..Len(rows) :
           rows'[k] = IF k = n THEN [rows[k] EXCEPT !.boot = v] ELSE rows[k]
  BY <1>1, <1>4, UpdateBootResultEffect
<1>6. \A k \in 1..Len(rows) : k = n <=> rows[k].test = i
  <2>1. CASE n = 0
    BY <1>1, <1>3, <2>1 DEF Rowless
  <2>2. CASE n # 0
    <3>1. n \in 1..Len(rows) /\ rows[n].test = i
      BY <1>1, <1>2, <2>2 DEF Pending
    <3> QED
      BY <3>1 DEF LInv, Ledger, RowsDistinct
  <2> QED
    BY <2>1, <2>2
<1> QED
  BY <1>5, <1>6

LEMMA FinishStep ==
  ASSUME LInv, NEW i \in TestIds, NEW v \in {"ok", "failed"}, Gives(i, v), RebooterStep(i)
  PROVE  /\ Unstored'
         /\ Results!Finish(i, v)
         /\ ClaimStages' # ClaimStages
<1>1. /\ \A j \in TestIds \ {i} : rebooters'[j] = rebooters[j]
      /\ UNCHANGED <<rec, reported>>
  BY RebooterSteps DEF LInv
<1>2. /\ Active(i) /\ ~Active(i)' /\ i \in reported
      /\ ~Claimed(i) /\ ~Stored(i)
  BY DEF LInv, Gives, Ledger, RebootersClaimed, ReportersClaimed, Reporting, Active,
         Claimed, Stored
<1>3. \A j \in TestIds \ {i} : Active(j)' <=> Active(j)
  BY <1>1 DEF Active
<1>4. \A j \in TestIds : (Claimed(j)' <=> Claimed(j)) /\ (Stored(j)' <=> Stored(j))
  BY <1>1 DEF Claimed, Stored
<1>5. \A j \in TestIds \ {i} : ClaimStage(j)' = ClaimStage(j)
  BY <1>1, <1>3, <1>4, StageIs, StageBecomes
<1>6. ClaimStage(i) = "rebooting" /\ ClaimStage(i)' = "closed"
  BY <1>1, <1>2, <1>4, StageIs, StageBecomes
<1>7. Results!Advance(i, "rebooting", "closed") /\ ClaimStages' # ClaimStages
  BY <1>5, <1>6, Advances
<1> DEFINE n == Len(rows)
<1>8. /\ rows \in Seq(Row) /\ rows' \in Seq(Row) /\ n \in Nat
      /\ Len(rows') = n
      /\ \A k \in 1..n :
           rows'[k] = IF rows[k].test = i THEN [rows[k] EXCEPT !.boot = v] ELSE rows[k]
  BY VerdictRows DEF LInv, Typed, ManagerType
<1> HIDE DEF n
<1>9. /\ DOMAIN LedgerRows = 1..n /\ DOMAIN LedgerRows' = 1..n
      /\ \A k \in 1..n :
           /\ LedgerRows[k] = [claim |-> rows[k].test, boot |-> rows[k].boot]
           /\ LedgerRows'[k] = [claim |-> rows'[k].test, boot |-> rows'[k].boot]
  BY <1>8 DEF LedgerRows, n
<1>10. \A row \in Row : /\ [row EXCEPT !.boot = v].test = row.test
                        /\ [row EXCEPT !.boot = v].boot = v
  BY DEF Row
<1>11. \A k \in 1..n :
         LedgerRows'[k] = IF LedgerRows[k].claim = i THEN [LedgerRows[k] EXCEPT !.boot = v]
                          ELSE LedgerRows[k]
  <2> SUFFICES ASSUME NEW k \in 1..n
               PROVE  LedgerRows'[k] = IF LedgerRows[k].claim = i
                                       THEN [LedgerRows[k] EXCEPT !.boot = v]
                                       ELSE LedgerRows[k]
    OBVIOUS
  <2>1. rows[k] \in Row
    BY <1>8 DEF n
  <2>2. LedgerRows[k] = [claim |-> rows[k].test, boot |-> rows[k].boot]
    BY <1>9
  <2>3. CASE rows[k].test = i
    <3>1. rows'[k].test = rows[k].test /\ rows'[k].boot = v
      BY <1>8, <1>10, <2>1, <2>3
    <3>2. LedgerRows'[k] = [claim |-> rows[k].test, boot |-> v]
      BY <1>9, <3>1
    <3> QED
      BY <2>2, <2>3, <3>2
  <2>4. CASE rows[k].test # i
    BY <1>8, <1>9, <2>2, <2>4
  <2> QED
    BY <2>3, <2>4
<1>12. LedgerRows' = [k \in DOMAIN LedgerRows |->
                        IF LedgerRows[k].claim = i THEN [LedgerRows[k] EXCEPT !.boot = v]
                        ELSE LedgerRows[k]]
  <2>1. LedgerRows' = [k \in DOMAIN LedgerRows' |-> LedgerRows'[k]]
    BY DEF LedgerRows
  <2> HIDE DEF LedgerRows
  <2> QED
    BY <1>9, <1>11, <2>1
<1>13. Unstored'
  <2>1. \A k \in 1..n : rows'[k].test = rows[k].test
    <3>1. \A k \in 1..n : rows[k] \in Row
      BY <1>8 DEF n
    <3> QED
      BY <1>8, <1>10, <3>1
  <2>2. \A j : Rowless(j)' <=> Rowless(j)
    BY <1>8, <2>1 DEF Rowless, n
  <2>3. \A r \in Reconcilers :
          rec[r].pc = "mark" /\ rec[r].run = 0 => \A k \in 1..Len(rows') : rows'[k].test # TestOf(rec[r])
    BY <1>8, <2>1 DEF LInv, Unstored, Rowless, n
  <2>4. \A j \in TestIds : Active(j)' /\ rebooters'[j].run = 0 => Rowless(j)'
    BY <1>1, <1>2, <1>3, <2>2 DEF LInv, Unstored
  <2> QED
    BY <1>1, <2>3, <2>4 DEF Unstored, Rowless
<1> QED
  BY <1>7, <1>12, <1>13 DEF Results!Finish

LEMMA RebooterKeepsLedger ==
  ASSUME LInv, NEW i \in TestIds, RebooterStep(i)
  PROVE  /\ Unstored'
         /\ \/ UNCHANGED <<ClaimStages, LedgerRows>>
            \/ ClaimStages' # ClaimStages /\ \E v \in {"ok", "failed"} : Results!Finish(i, v)
<1>1. /\ \A j \in TestIds \ {i} : rebooters'[j] = rebooters[j]
      /\ UNCHANGED <<rec, reported>>
      /\ Waits(i) \/ \E v \in {"ok", "failed"} : Gives(i, v)
  BY RebooterSteps DEF LInv
<1>2. CASE Waits(i)
  <2>1. UNCHANGED rows
    BY <1>2 DEF Waits
  <2>2. \/ rebooters[i].stage = "signal" /\ rebooters'[i].stage = "none"
        \/ /\ rebooters[i].stage = "request" /\ rebooters'[i].stage = "wait"
           /\ rebooters'[i].run = rebooters[i].run
    BY <1>2 DEF LInv, Typed, ManagerType, Waits, RebooterType
  <2>3. \A j \in TestIds : /\ Active(j)' <=> Active(j)
                           /\ Claimed(j)' <=> Claimed(j)
                           /\ Stored(j)' <=> Stored(j)
    BY <1>1, <2>2 DEF Active, Claimed, Stored
  <2>4. \A j \in TestIds : Active(j)' => rebooters'[j].run = rebooters[j].run
    BY <1>1, <2>2 DEF Active
  <2>5. Unstored'
    BY <1>1, <2>1, <2>3, <2>4 DEF LInv, Unstored, Rowless
  <2> QED
    BY <1>1, <2>1, <2>3, <2>5, Stutters
<1>3. ASSUME NEW v \in {"ok", "failed"}, Gives(i, v)
      PROVE  /\ Unstored'
             /\ ClaimStages' # ClaimStages /\ Results!Finish(i, v)
  BY <1>3, FinishStep
<1> QED
  BY <1>1, <1>2, <1>3

----------------------------------------------------------------------------
(* The other steps.                                                        *)

QuietStep(r) ==
  \/ Fetch(r) \/ List(r)
  \/ \E s \in rec[r].drop : RemoveDevice(r, s)
  \/ \E s \in rec[r].todo : StartDevice(r, s)
  \/ DropAppium(r) \/ CreateAppium(r) \/ StartAppium(r)
  \/ Purge(r) \/ Replace(r) \/ CreateTest(r) \/ StartTest(r)

LEMMA QuietKeepsLedger ==
  ASSUME LInv, NEW r \in Reconcilers, QuietStep(r)
  PROVE  UNCHANGED <<ClaimStages, LedgerRows>> /\ Unstored'
<1>1. QuietRec(r)
  BY QuietSteps DEF LInv, QuietStep
<1>2. ~Reporting(rec[r])
  BY DEF QuietStep, Fetch, List, RemoveDevice, StartDevice, DropAppium, CreateAppium,
         StartAppium, Purge, Replace, CreateTest, StartTest, At, Reporting
<1> QED
  BY <1>1, <1>2, Same DEF QuietRec

LEMMA BetweenKeepsLedger ==
  ASSUME LInv, Wake \/ Drain \/ Track
  PROVE  UNCHANGED <<ClaimStages, LedgerRows>> /\ Unstored'
<1>1. /\ rec \in [Reconcilers -> ReconcilerType]
      /\ "main" \in Reconcilers /\ "worker" \in Reconcilers
  BY DEF LInv, Typed, ManagerType, Reconcilers
<1>2. UNCHANGED <<rows, reported, rebooters>>
  BY DEF Wake, Drain, Track, goVars, mapVars
<1>3. ASSUME NEW r \in Reconcilers, ~Reporting(rec[r]), ~Reporting(rec'[r]),
             \A q \in Reconcilers \ {r} : rec'[q] = rec[q]
      PROVE  UNCHANGED <<ClaimStages, LedgerRows>> /\ Unstored'
  BY <1>2, <1>3, Same
<1>4. CASE UNCHANGED rec
  BY <1>2, <1>4, Same
<1>5. ASSUME NEW r \in Reconcilers, NEW pc \in {"debounce", "fetch"}, Goto(r, pc),
             ~Reporting(rec[r])
      PROVE  UNCHANGED <<ClaimStages, LedgerRows>> /\ Unstored'
  <2>1. rec'[r].pc = pc /\ \A q \in Reconcilers \ {r} : rec'[q] = rec[q]
    BY <1>1, <1>5 DEF Goto, ReconcilerType
  <2> QED
    BY <1>3, <1>5, <2>1 DEF Reporting
<1>6. ASSUME NEW list, ~Reporting(rec["main"]),
             rec' = [rec EXCEPT !["main"].pc = "list", !["main"].ready = Ready(list)]
      PROVE  UNCHANGED <<ClaimStages, LedgerRows>> /\ Unstored'
  <2>1. rec'["main"].pc = "list" /\ \A q \in Reconcilers \ {"main"} : rec'[q] = rec[q]
    BY <1>1, <1>6 DEF ReconcilerType
  <2> QED
    BY <1>1, <1>3, <1>6, <2>1 DEF Reporting
<1>7. CASE Wake \/ Drain
  BY <1>1, <1>5, <1>7 DEF Wake, Drain, At, Reporting
<1>8. CASE Track
  BY <1>1, <1>4, <1>5, <1>6, <1>8 DEF Track, At, Reporting
<1> QED
  BY <1>7, <1>8

\* Every step is a step of the ledger or leaves it alone.
LEMMA NextRefines ==
  ASSUME LInv, [Next]_vars
  PROVE  Unstored' /\ [Results!Next]_(Results!ledgerSpecVars)
<1> DEFINE Quiet == UNCHANGED <<ClaimStages, LedgerRows>>
           Moves == ClaimStages' # ClaimStages /\
                      \E c \in TestIds : \/ Results!Claim(c) \/ Results!Store(c)
                                         \/ Results!Reboot(c)
                                         \/ \E v \in {"ok", "failed"} : Results!Finish(c, v)
<1>1. ASSUME UNCHANGED <<rec, rows, rebooters, reported>> PROVE Unstored' /\ Quiet
  BY <1>1, Same
<1>2. ASSUME UNCHANGED vars PROVE Unstored' /\ Quiet
  BY <1>1, <1>2 DEF vars, goVars, mapVars
<1>3. ASSUME \/ Keepalive \/ DeviceStep
             \/ \E i \in TestIds : WaiterSignals(i)
             \/ \E s \in Serials : ContainerStep(s) \/ SetUSBInfo(s)
      PROVE  Unstored' /\ Quiet
  BY <1>1, <1>3
     DEF Keepalive, DeviceStep, WaiterSignals, ContainerStep, SetUSBInfo, goVars, mapVars
<1>4. ASSUME Track \/ Wake \/ Drain PROVE Unstored' /\ Quiet
  BY <1>4, BetweenKeepsLedger
<1>5. ASSUME NEW i \in TestIds, RebooterStep(i) PROVE Unstored' /\ (Quiet \/ Moves)
  BY <1>5, RebooterKeepsLedger
<1>6. ASSUME NEW r \in Reconcilers, ReconcileStep(r) PROVE Unstored' /\ (Quiet \/ Moves)
  <2>1. CASE CheckTest(r)
    BY <2>1, CheckTestStep
  <2>2. CASE Delete(r)
    BY <2>2, DeleteStep
  <2>3. CASE QuietStep(r)
    BY <2>3, QuietKeepsLedger
  <2>4. CASE SaveTestResult(r) \/ MarkRebooting(r)
    <3>1. rec[r].pc \in {"save", "mark"}
      BY <2>4 DEF SaveTestResult, MarkRebooting, At
    <3>2. PICK t \in TestIds : t = TestOf(rec[r])
      BY <3>1 DEF LInv, Typed, WorkersKnowTheirJob, ReconcilerKnowsItsJob, TestOf
    <3>3. CASE SaveTestResult(r)
      <4>1. rec[r].pc = "save"
        BY <3>3 DEF SaveTestResult, At
      <4> QED
        BY <3>2, <3>3, <4>1, StoreStep
    <3>4. CASE MarkRebooting(r)
      <4>1. rec[r].pc = "mark"
        BY <3>4 DEF MarkRebooting, At
      <4> QED
        BY <3>2, <3>4, <4>1, RebootStep
    <3> QED
      BY <2>4, <3>3, <3>4
  <2> QED
    BY <1>6, <2>1, <2>2, <2>3, <2>4 DEF ReconcileStep, QuietStep
<1>7. Unstored' /\ (Quiet \/ Moves)
  BY <1>2, <1>3, <1>4, <1>5, <1>6 DEF Next, MainStep, WorkerStep, Reconcilers
<1> QED
  BY <1>7 DEF Results!Next, Results!ledgerSpecVars, Results!Verdicts

LEMMA InitRefines == Init => Unstored /\ Results!Init
<1> SUFFICES ASSUME Init PROVE Unstored /\ Results!Init
  OBVIOUS
<1>1. rows = <<>> /\ reported = {}
  BY DEF Init
<1>2. \A i \in TestIds : ~Active(i)
  BY DEF Init, NoRebooter, Active
<1>3. \A r \in Reconcilers : rec[r].pc # "mark"
  BY DEF Init, Idle
<1>4. ClaimStages = [i \in TestIds |-> "open"]
  BY <1>1, StageIs DEF ClaimStages
<1>5. LedgerRows = <<>>
  BY <1>1 DEF LedgerRows
<1> QED
  BY <1>2, <1>3, <1>4, <1>5 DEF Unstored, Results!Init

\* Local mode keeps the promise of ResultLedger, for any devices and bounds: two
\* reconcilers and the goroutines of rebootAndReport claim, store and complete each
\* result in this order and once, and a refused row never gives its verdict to
\* another (manager.go 345-380, 870-970).
THEOREM LedgerImplemented == Spec => ImplementsLedger
<1>1. Init => LInv /\ Results!Init
  BY InitTyped, InitLedger, InitRefines DEF LInv
<1>2. LInv /\ [Next]_vars => LInv' /\ [Results!Next]_(Results!ledgerSpecVars)
  BY NextKeepsTypes, NextKeepsLedger, NextRefines DEF LInv
<1> QED
  BY <1>1, <1>2, PTL DEF Spec, ImplementsLedger, Results!Spec
=============================================================================
