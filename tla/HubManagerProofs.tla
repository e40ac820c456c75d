--------------------------- MODULE HubManagerProofs ---------------------------
(***************************************************************************)
(* Theorems about HubManager for every set of devices, every bound and     *)
(* every choice of the environment's freedoms.                             *)
(***************************************************************************)
EXTENDS HubManager, SequenceTheorems, TLAPS

----------------------------------------------------------------------------
(* Type correctness.  A goroutine that is at work has a device and a row:  *)
(* without that, MarkRebooting could flag None.                            *)

WorkersKnowTheirJob ==
  /\ cp.pc \notin {"idle", "scan"} => cp.cur \in Target
  /\ cp.run <= Len(runs)
  /\ \A k \in Settlers : settlers[k].stage # "free" => settlers[k].serial \in Serials
  /\ \A u \in Uids : /\ rebooters[u].stage # "none" => rebooters[u].serial \in Serials
                     /\ rebooters[u].run <= Len(runs)

\* A call that only fails leaves the pods alone.
LEMMA FailedCallType ==
  ASSUME PodTypeOK, CallFails \/ UNCHANGED podVars
  PROVE  PodTypeOK'
BY PodAssumption DEF PodTypeOK, CallFails, podVars

\* One API call, or one step of the kubelet, keeps the pods well-formed.
LEMMA PodCallsType ==
  ASSUME PodTypeOK, NEW s \in Serials,
         CreatePod(s) \/ DeletePod(s) \/ CallFails \/ Finish(s) \/ PodGone(s)
           \/ UNCHANGED podVars
  PROVE  PodTypeOK'
<1>0. MaxUid \in Nat /\ MaxFaults \in Nat  BY PodAssumption
<1> DEFINE PodOrNone == Pods \cup {NoPod}
<1>1. /\ pod \in [Serials -> PodOrNone]
      /\ nextUid \in 1..(MaxUid + 1)
      /\ faults \in 0..MaxFaults
  BY DEF PodTypeOK
<1>2. SUFFICES /\ pod' \in [Serials -> PodOrNone]
               /\ nextUid' \in 1..(MaxUid + 1)
               /\ faults' \in 0..MaxFaults
  BY DEF PodTypeOK
<1>3. pod[s] # NoPod => pod[s] \in Pods  BY <1>1
<1>4. CASE CallFails  BY <1>0, <1>1, <1>4 DEF CallFails
<1>5. CASE UNCHANGED podVars  BY <1>1, <1>5 DEF podVars
<1>6. CASE CreatePod(s)
  <2>1. CASE /\ nextUid <= MaxUid
             /\ pod' = [pod EXCEPT ![s] = [uid |-> nextUid, phase |-> "active", dying |-> FALSE]]
             /\ nextUid' = nextUid + 1
             /\ UNCHANGED faults
    <3>1. [uid |-> nextUid, phase |-> "active", dying |-> FALSE] \in PodOrNone
      BY <1>0, <1>1, <2>1 DEF Pods, Uids
    <3> HIDE DEF PodOrNone
    <3>2. pod' \in [Serials -> PodOrNone]  BY <1>1, <2>1, <3>1
    <3> QED  BY <1>0, <1>1, <2>1, <3>2
  <2> QED  BY <1>4, <1>5, <1>6, <2>1 DEF CreatePod
<1>7. CASE DeletePod(s)
  <2>1. CASE /\ Exists(s)
             /\ pod' = [pod EXCEPT ![s] = IF Graceful THEN [@ EXCEPT !.dying = TRUE] ELSE NoPod]
             /\ UNCHANGED <<nextUid, faults>>
    <3>1. [pod[s] EXCEPT !.dying = TRUE] \in PodOrNone  BY <1>3, <2>1 DEF Pods, Exists
    <3>2. NoPod \in PodOrNone  OBVIOUS
    <3> HIDE DEF PodOrNone
    <3>3. pod' \in [Serials -> PodOrNone]  BY <1>1, <2>1, <3>1, <3>2
    <3> QED  BY <1>1, <2>1, <3>3
  <2> QED  BY <1>4, <1>5, <1>7, <2>1 DEF DeletePod
<1>8. CASE Finish(s)
  <2>1. pod[s] # NoPod  BY <1>8 DEF Finish, NoPod
  <2>2. [pod[s] EXCEPT !.phase = "done"] \in PodOrNone  BY <1>3, <2>1 DEF Pods
  <2> HIDE DEF PodOrNone
  <2> QED  BY <1>1, <1>8, <2>2 DEF Finish
<1>9. CASE PodGone(s)
  <2>1. NoPod \in PodOrNone  OBVIOUS
  <2> HIDE DEF PodOrNone
  <2> QED  BY <1>1, <1>9, <2>1 DEF PodGone
<1> QED  BY <1>4, <1>5, <1>6, <1>7, <1>8, <1>9

\* Sending a message, and handing one over, keep the feed well-formed.
LEMMA FeedType ==
  ASSUME FeedTypeOK,
         Environment \/ Reconnect \/ (\E m \in Message : Receive(m)) \/ UNCHANGED feedVars
  PROVE  FeedTypeOK'
<1> USE DEF FeedTypeOK
<1>1. CASE Environment
  <2>1. PICK s \in Serials : \/ ComeOnline(s) \/ GoOffline(s) \/ Forget(s)
                             \/ \E l \in Levels : Battery(s, l)
    BY <1>1 DEF Environment
  <2>2. \A e \in Events, l \in InfoLevels : Msg(e, s, l) \in Message
    BY <2>1 DEF Msg, Message
  <2>3. \A m \in Message : Send(m) => inbox' \in Seq(Message)
    BY DEF Send
  <2>4. CASE ComeOnline(s)  BY <2>2, <2>3, <2>4 DEF ComeOnline, Events
  <2>5. CASE GoOffline(s)  BY <2>2, <2>3, <2>5 DEF GoOffline, Events, InfoLevels
  <2>6. CASE Forget(s)  BY <2>2, <2>3, <2>6 DEF Forget, Events, InfoLevels
  <2>7. CASE \E l \in Levels : Battery(s, l)  BY <2>2, <2>3, <2>7 DEF Battery, Events, InfoLevels
  <2> QED  BY <2>1, <2>4, <2>5, <2>6, <2>7
<1>2. CASE Reconnect  BY <1>2 DEF Reconnect, Connected, Online
<1>3. CASE \E m \in Message : Receive(m)
  <2>1. inbox # <<>> => Tail(inbox) \in Seq(Message)  BY HeadTailProperties
  <2>2. PICK m \in Message : Receive(m)  BY <1>3
  <2> QED  BY <2>1, <2>2 DEF Receive
<1>4. CASE UNCHANGED feedVars  BY <1>4 DEF feedVars
<1> QED  BY <1>1, <1>2, <1>3, <1>4

\* Giving a row its verdict keeps the rows well-formed, and touches no other.
LEMMA UpdateBootType ==
  ASSUME runs \in Seq(Row), NEW run \in Nat, run <= Len(runs), NEW v \in {"ok", "failed"},
         UpdateBootResult(run, v)
  PROVE  /\ runs' \in Seq(Row)
         /\ Len(runs') = Len(runs)
         /\ \A i \in 1..Len(runs) : runs'[i] = IF i = run THEN [runs[i] EXCEPT !.boot = v]
                                                          ELSE runs[i]
<1>1. CASE run = 0  BY <1>1 DEF UpdateBootResult
<1>2. CASE run # 0
  <2>1. runs' = [runs EXCEPT ![run] = [runs[run] EXCEPT !.boot = v]]
    BY <1>2 DEF UpdateBootResult
  <2>2. run \in 1..Len(runs)  BY <1>2
  <2>3. runs[run] \in Row  BY <2>2, ElementOfSeq
  <2>4. [runs[run] EXCEPT !.boot = v] \in Row  BY <2>3 DEF Row
  <2> QED  BY <2>1, <2>2, <2>4, ExceptSeq
<1> QED  BY <1>1, <1>2

\* What the steps of a goroutine do to the feed and to the pods is one of the
\* above; the rest is the manager's own.
ManagerType ==
  /\ rebooting \subseteq Serials
  /\ stabilizing \subseteq Serials
  /\ lowBattery \subseteq Serials
  /\ devices \subseteq Serials
  /\ battery \in [Serials -> InfoLevels]
  /\ reported \subseteq Uids
  /\ ws \in [pc : WsStages, serial : Serials \cup {None}]
  /\ cp \in [pc : CpStages, todo : SUBSET Target, cur : Target \cup {NoTarget},
             logs : 0..MaxUid, run : Nat]
  /\ settlers \in [Settlers -> [stage : SettlerStages, serial : Serials \cup {None}]]
  /\ rebooters \in [Uids -> [stage : RebooterStages,
                             serial : Serials \cup {None}, run : Nat]]
  /\ runs \in Seq(Row)
  /\ epoch \in 1..MaxEpoch
  /\ WorkersKnowTheirJob

Typed == FeedTypeOK /\ PodTypeOK /\ ManagerType

\* The handlers.
LEMMA WsKeepsTypes ==
  ASSUME Typed, WsStep
  PROVE  Typed'
<1> USE DEF Typed
<1>1. PICK s \in Serials :
        \/ \E l \in InfoLevels : \/ OnDeviceReady(s, l) \/ OnDeviceOffline(s, l)
                                 \/ OnDeviceDeleted(s, l) \/ OnBatteryUpdated(s, l)
        \/ ReadyList(s) \/ ReadyGate(s) \/ ReadyStabilize(s) \/ ReadyCreate(s)
        \/ DeletedList(s) \/ DeletedDelete(s) \/ BatteryList(s) \/ BatteryCreate(s)
  BY DEF WsStep
<1> USE DEF WsDone, WsGoto, WsIdle, WsStages
<1>2. CASE \E l \in InfoLevels : \/ OnDeviceReady(s, l) \/ OnDeviceOffline(s, l)
                                 \/ OnDeviceDeleted(s, l) \/ OnBatteryUpdated(s, l)
  <2>1. PICK l \in InfoLevels : \/ OnDeviceReady(s, l) \/ OnDeviceOffline(s, l)
                                \/ OnDeviceDeleted(s, l) \/ OnBatteryUpdated(s, l)
    BY <1>2
  <2>2. \A e \in Events : Msg(e, s, l) \in Message  BY DEF Msg, Message
  <2>3. \E m \in Message : Receive(m)
    BY <2>1, <2>2 DEF OnDeviceReady, OnDeviceOffline, OnDeviceDeleted, OnBatteryUpdated,
                      Handle, Events
  <2>4. FeedTypeOK'  BY <2>3, FeedType
  <2>5. UNCHANGED podVars
    BY <2>1 DEF OnDeviceReady, OnDeviceOffline, OnDeviceDeleted, OnBatteryUpdated
  <2>6. PodTypeOK'  BY <2>5, PodCallsType
  <2>7. ManagerType'
    <3>1. CASE OnDeviceReady(s, l)
      <4>1. battery' \in [Serials -> InfoLevels]  BY <3>1 DEF OnDeviceReady, ManagerType
      <4>2. devices' \subseteq Serials  BY <3>1 DEF OnDeviceReady, ManagerType
      <4>3. ws' \in [pc : WsStages, serial : Serials \cup {None}]
        <5>1. WsGoto("readyList", s) \/ UNCHANGED ws  BY <3>1 DEF OnDeviceReady
        <5> QED  BY <5>1 DEF ManagerType
      <4>4. UNCHANGED <<flagVars, ledgerVars, cp, settlers, rebooters, epoch>>
        BY <3>1 DEF OnDeviceReady
      <4> QED
        BY <4>1, <4>2, <4>3, <4>4 DEF ManagerType, WorkersKnowTheirJob, flagVars, ledgerVars
    <3>2. CASE OnDeviceOffline(s, l)
      BY <3>2 DEF OnDeviceOffline, ManagerType, WorkersKnowTheirJob, ledgerVars
    <3>3. CASE OnDeviceDeleted(s, l)
      BY <3>3 DEF OnDeviceDeleted, ManagerType, WorkersKnowTheirJob, flagVars, ledgerVars
    <3>4. CASE OnBatteryUpdated(s, l)
      <4>1. battery' \in [Serials -> InfoLevels]  BY <3>4 DEF OnBatteryUpdated, ManagerType
      <4>2. lowBattery' \subseteq Serials  BY <3>4 DEF OnBatteryUpdated, ManagerType
      <4>3. ws' \in [pc : WsStages, serial : Serials \cup {None}]
        <5>1. WsGoto("batteryList", s) \/ UNCHANGED ws  BY <3>4 DEF OnBatteryUpdated
        <5> QED  BY <5>1 DEF ManagerType
      <4>4. UNCHANGED <<rebooting, stabilizing, devices, ledgerVars, cp, settlers,
                        rebooters, epoch>>
        BY <3>4 DEF OnBatteryUpdated
      <4> QED
        BY <4>1, <4>2, <4>3, <4>4 DEF ManagerType, WorkersKnowTheirJob, ledgerVars
    <3> QED  BY <2>1, <3>1, <3>2, <3>3, <3>4
  <2> QED  BY <2>4, <2>6, <2>7
<1>3. CASE ReadyList(s) \/ ReadyCreate(s) \/ DeletedList(s) \/ DeletedDelete(s)
             \/ BatteryList(s) \/ BatteryCreate(s)
  <2>1. CreatePod(s) \/ DeletePod(s) \/ CallFails \/ UNCHANGED podVars
    BY <1>3 DEF ReadyList, ReadyCreate, DeletedList, DeletedDelete, BatteryList, BatteryCreate,
                ListedNone, ListedSome
  <2>2. PodTypeOK'  BY <2>1, PodCallsType
  <2>3. /\ UNCHANGED <<feedVars, flagVars, infoVars, ledgerVars, cp, settlers, rebooters, epoch>>
        /\ WsDone \/ WsGoto("readyGate", s) \/ WsGoto("deletedDelete", s) \/ WsGoto("batteryCreate", s)
    BY <1>3 DEF ReadyList, ReadyCreate, DeletedList, DeletedDelete, BatteryList, BatteryCreate
  <2>4. FeedTypeOK'  BY <2>3, FeedType
  <2>5. ManagerType'  BY <2>3 DEF ManagerType, WorkersKnowTheirJob, flagVars, infoVars, ledgerVars
  <2> QED  BY <2>2, <2>4, <2>5
<1>4. CASE ReadyGate(s)
  <2>1. UNCHANGED <<feedVars, podVars>>  BY <1>4 DEF ReadyGate
  <2>2. FeedTypeOK' /\ PodTypeOK'  BY <2>1, FeedType, PodCallsType
  <2>3. ManagerType'
    BY <1>4 DEF ReadyGate, ManagerType, WorkersKnowTheirJob, infoVars, ledgerVars
  <2> QED  BY <2>2, <2>3
<1>5. CASE ReadyStabilize(s)
  <2>1. UNCHANGED <<feedVars, podVars>>  BY <1>5 DEF ReadyStabilize
  <2>2. FeedTypeOK' /\ PodTypeOK'  BY <2>1, FeedType, PodCallsType
  <2>3. settlers' \in [Settlers -> [stage : SettlerStages, serial : Serials \cup {None}]]
    BY <1>5 DEF ReadyStabilize, ManagerType, SettlerStages
  <2>4. \A k \in Settlers : settlers'[k].stage # "free" => settlers'[k].serial \in Serials
    BY <1>5 DEF ReadyStabilize, ManagerType, WorkersKnowTheirJob
  <2>5. stabilizing' \subseteq Serials  BY <1>5 DEF ReadyStabilize, ManagerType
  <2>6. ManagerType'
    BY <1>5, <2>3, <2>4, <2>5 DEF ReadyStabilize, ManagerType, WorkersKnowTheirJob,
                                  infoVars, ledgerVars
  <2> QED  BY <2>2, <2>6
<1> QED  BY <1>1, <1>2, <1>3, <1>4, <1>5

CpType == [pc : CpStages, todo : SUBSET Target, cur : Target \cup {NoTarget},
           logs : 0..MaxUid, run : Nat]

\* CheckPods.
LEMMA CpKeepsTypes ==
  ASSUME Typed, CpStep
  PROVE  Typed'
<1> USE DEF Typed
<1>1. /\ FeedTypeOK /\ PodTypeOK
      /\ cp \in CpType /\ cp.run <= Len(runs)
      /\ runs \in Seq(Row) /\ Len(runs) \in Nat
      /\ MaxUid \in Nat
  BY PodAssumption DEF ManagerType, WorkersKnowTheirJob, CpType
<1>2. cp.pc \notin {"idle", "scan"} => cp.cur \in Target
  BY DEF ManagerType, WorkersKnowTheirJob
\* What a step must show if it changes only cp and the pods.
<1>3. ASSUME UNCHANGED <<feedVars, flagVars, infoVars, ledgerVars, ws, settlers, rebooters, epoch>>,
             PodTypeOK', cp' \in CpType, cp'.run <= Len(runs),
             cp'.pc \notin {"idle", "scan"} => cp'.cur \in Target
      PROVE  Typed'
  BY <1>3, FeedType DEF ManagerType, WorkersKnowTheirJob, CpType, flagVars, infoVars, ledgerVars
<1>4. CpIdle \in CpType /\ CpIdle.pc = "idle" /\ CpIdle.run = 0
  BY <1>1 DEF CpIdle, CpType, CpStages, NoTarget
<1>5. NextPod \in CpType /\ NextPod.pc \in {"idle", "scan"} /\ NextPod.run = 0
  BY <1>1, <1>4 DEF NextPod, CpIdle, CpType, CpStages
<1>6. CASE CheckPods
  <2>1. UNCHANGED <<feedVars, flagVars, infoVars, ledgerVars, ws, settlers, rebooters, epoch>>
    BY <1>6 DEF CheckPods
  <2>2. CallFails \/ UNCHANGED podVars  BY <1>6 DEF CheckPods
  <2>3. PodTypeOK'  BY <1>1, <2>2, FailedCallType
  <2> DEFINE found == {[serial |-> s, uid |-> pod[s].uid] : s \in Completed}
  <2>4. found \subseteq Target
    BY <1>1 DEF Completed, Target, PodTypeOK, Pods, NoPod
  <2> HIDE DEF found
  <2>5. cp' = cp \/ cp' = [CpIdle EXCEPT !.pc = "scan", !.todo = found]
    BY <1>6 DEF CheckPods, found
  <2>6. CASE cp' = cp  BY <1>1, <1>2, <1>3, <2>1, <2>3, <2>6
  <2>7. CASE cp' = [CpIdle EXCEPT !.pc = "scan", !.todo = found]
    <3>1. cp' \in CpType /\ cp'.run = 0 /\ cp'.pc = "scan"
      <4>1. cp' = [pc |-> "scan", todo |-> found, cur |-> NoTarget, logs |-> 0, run |-> 0]
        BY <2>7 DEF CpIdle
      <4>2. /\ "scan" \in CpStages /\ found \in SUBSET Target
            /\ NoTarget \in Target \cup {NoTarget} /\ 0 \in 0..MaxUid /\ 0 \in Nat
        BY <1>1, <2>4 DEF CpStages
      <4> QED  BY <4>1, <4>2 DEF CpType
    <3> QED  BY <1>1, <1>3, <2>1, <2>3, <3>1
  <2> QED  BY <2>5, <2>6, <2>7
<1>7. ASSUME NEW p \in cp.todo, Claim(p)
      PROVE  Typed'
  <2>1. UNCHANGED <<feedVars, podVars, flagVars, infoVars, runs, ws, settlers, rebooters, epoch>>
    BY <1>7 DEF Claim
  <2>2. p \in Target /\ p.uid \in Uids  BY <1>1 DEF CpType, Target
  <2>3. \/ cp' = [cp EXCEPT !.pc = "collect", !.todo = @ \ {p}, !.cur = p]
        \/ cp' = [cp EXCEPT !.pc = "purge", !.todo = @ \ {p}, !.cur = p]
    BY <1>7 DEF Claim
  <2>4. cp' \in CpType /\ cp'.run = cp.run /\ cp'.cur = p
    BY <1>1, <2>2, <2>3 DEF CpType, CpStages
  <2>5. reported' \subseteq Uids  BY <1>7, <2>2 DEF Claim, ManagerType
  <2>6. FeedTypeOK' /\ PodTypeOK'  BY <1>1, <2>1, FeedType, FailedCallType
  <2> QED
    BY <1>1, <2>1, <2>2, <2>4, <2>5, <2>6 DEF ManagerType, WorkersKnowTheirJob, CpType,
                                             flagVars, infoVars
<1>8. CASE Collect
  <2>1. UNCHANGED <<feedVars, flagVars, infoVars, ledgerVars, ws, settlers, rebooters, epoch>>
    BY <1>8 DEF Collect
  <2>2. CallFails \/ UNCHANGED podVars  BY <1>8 DEF Collect
  <2>3. PodTypeOK'  BY <1>1, <2>2, FailedCallType
  <2>4. cp.cur \in Target  BY <1>2, <1>8 DEF Collect
  <2>5. pod[cp.cur.serial].uid \in 0..MaxUid
    BY <1>1, <2>4 DEF Target, PodTypeOK, Pods, NoPod, Uids
  <2>6. \/ cp' = [cp EXCEPT !.pc = "delete", !.logs = pod[cp.cur.serial].uid]
        \/ cp' = [cp EXCEPT !.pc = "delete"]
    BY <1>8 DEF Collect
  <2>7. cp' \in CpType /\ cp'.run = cp.run /\ cp'.cur = cp.cur
    BY <1>1, <2>5, <2>6 DEF CpType, CpStages
  <2> QED  BY <1>1, <1>3, <2>1, <2>3, <2>4, <2>7
<1>9. CASE Delete \/ Purge
  <2>1. UNCHANGED <<feedVars, flagVars, infoVars, ledgerVars, ws, settlers, rebooters, epoch>>
    BY <1>9 DEF Delete, Purge
  <2>2. cp.cur \in Target  BY <1>2, <1>9 DEF Delete, Purge
  <2>3. cp.cur.serial \in Serials /\ DeletePod(cp.cur.serial)
    BY <1>9, <2>2 DEF Delete, Purge, Target
  <2>4. PodTypeOK'  BY <1>1, <2>3, PodCallsType
  <2>5. cp' = [cp EXCEPT !.pc = "save"] \/ cp' = NextPod  BY <1>9 DEF Delete, Purge
  <2>6. CASE cp' = [cp EXCEPT !.pc = "save"]
    <3>1. cp' \in CpType /\ cp'.run = cp.run /\ cp'.cur = cp.cur
      BY <1>1, <2>6 DEF CpType, CpStages
    <3> QED  BY <1>1, <1>3, <2>1, <2>2, <2>4, <3>1
  <2>7. CASE cp' = NextPod  BY <1>1, <1>3, <1>5, <2>1, <2>4, <2>7
  <2> QED  BY <2>5, <2>6, <2>7
<1>10. CASE SaveTestResult
  <2>1. UNCHANGED <<feedVars, podVars, flagVars, infoVars, reported, ws, settlers, rebooters, epoch>>
    BY <1>10 DEF SaveTestResult
  <2>2. FeedTypeOK' /\ PodTypeOK'  BY <1>1, <2>1, FeedType, FailedCallType
  <2>3. cp.cur \in Target  BY <1>2, <1>10 DEF SaveTestResult
  <2> DEFINE row == [serial |-> cp.cur.serial, uid |-> cp.cur.uid,
                     logs |-> cp.logs, epoch |-> epoch, boot |-> "none"]
  <2>4. row \in Row
    BY <1>1, <2>3 DEF Row, Target, CpType, ManagerType, Uids
  <2> HIDE DEF row
  <2>5. \/ runs' = Append(runs, row) /\ cp' = [cp EXCEPT !.pc = "mark", !.run = Len(runs) + 1]
        \/ runs' = runs /\ cp' = [cp EXCEPT !.pc = "mark"]
    BY <1>10 DEF SaveTestResult, row
  <2>6. runs' \in Seq(Row) /\ Len(runs') \in Nat /\ Len(runs') >= Len(runs)
    BY <1>1, <2>4, <2>5, AppendProperties
  <2>7. cp' \in CpType /\ cp'.run <= Len(runs') /\ cp'.cur = cp.cur
    <3>1. CASE runs' = Append(runs, row) /\ cp' = [cp EXCEPT !.pc = "mark", !.run = Len(runs) + 1]
      <4>1. Len(runs') = Len(runs) + 1  BY <1>1, <2>4, <3>1, AppendProperties
      <4>2. Len(runs) + 1 \in Nat /\ "mark" \in CpStages  BY <1>1 DEF CpStages
      <4>3. cp' \in CpType  BY <1>1, <3>1, <4>2 DEF CpType
      <4>4. cp'.run = Len(runs) + 1 /\ cp'.cur = cp.cur  BY <1>1, <3>1 DEF CpType
      <4> QED  BY <4>1, <4>2, <4>3, <4>4
    <3>2. CASE runs' = runs /\ cp' = [cp EXCEPT !.pc = "mark"]
      BY <1>1, <3>2 DEF CpType, CpStages
    <3> QED  BY <2>5, <3>1, <3>2
  <2>8. \A u \in Uids : rebooters[u].run \in Nat /\ rebooters[u].run <= Len(runs')
    BY <1>1, <2>6 DEF ManagerType, WorkersKnowTheirJob
  <2> QED
    BY <2>1, <2>2, <2>3, <2>6, <2>7, <2>8 DEF ManagerType, WorkersKnowTheirJob, CpType,
                                              flagVars, infoVars
<1>11. CASE MarkRebooting
  <2>1. UNCHANGED <<feedVars, podVars, stabilizing, lowBattery, infoVars, ledgerVars, ws, settlers, epoch>>
    BY <1>11 DEF MarkRebooting
  <2>2. FeedTypeOK' /\ PodTypeOK'  BY <1>1, <2>1, FeedType, FailedCallType
  <2>3. cp.cur \in Target /\ cp.cur.serial \in Serials
    BY <1>2, <1>11 DEF MarkRebooting, Target
  <2>4. rebooting' \subseteq Serials  BY <1>11, <2>3 DEF MarkRebooting, ManagerType
  <2> DEFINE job == [stage |-> "request", serial |-> cp.cur.serial, run |-> cp.run]
  <2>5. /\ job \in [stage : RebooterStages, serial : Serials \cup {None}, run : Nat]
        /\ job.serial \in Serials /\ job.run <= Len(runs)
    BY <1>1, <2>3 DEF RebooterStages, CpType
  <2>6. rebooters' = [rebooters EXCEPT ![cp.cur.uid] = job] /\ cp' = NextPod
    BY <1>11 DEF MarkRebooting
  <2> HIDE DEF job
  <2>7. /\ rebooters' \in [Uids -> [stage : RebooterStages, serial : Serials \cup {None}, run : Nat]]
        /\ \A u \in Uids : rebooters'[u] = rebooters[u] \/ rebooters'[u] = job
    BY <2>5, <2>6 DEF ManagerType
  <2>8. \A u \in Uids : /\ rebooters'[u].stage # "none" => rebooters'[u].serial \in Serials
                        /\ rebooters'[u].run <= Len(runs)
    BY <2>5, <2>7 DEF ManagerType, WorkersKnowTheirJob
  <2> QED
    BY <1>1, <1>5, <2>1, <2>2, <2>4, <2>6, <2>7, <2>8
    DEF ManagerType, WorkersKnowTheirJob, CpType, infoVars, ledgerVars
<1> QED  BY <1>6, <1>7, <1>8, <1>9, <1>10, <1>11 DEF CpStep

\* The goroutines of scheduleStabilization.
LEMMA SettlerKeepsTypes ==
  ASSUME Typed, NEW k \in Settlers, SettlerStep(k)
  PROVE  Typed'
<1> USE DEF Typed
<1> DEFINE Slot == [stage : SettlerStages, serial : Serials \cup {None}]
<1>1. /\ FeedTypeOK /\ PodTypeOK /\ settlers \in [Settlers -> Slot]
      /\ \A j \in Settlers : settlers[j].stage # "free" => settlers[j].serial \in Serials
  BY DEF ManagerType, WorkersKnowTheirJob
<1>2. settlers[k].stage # "free"  BY DEF SettlerStep, Settle, SettlerUnflag, SettlerList,
                                         SettlerGate, SettlerDefer, SettlerCreate, SettlerAt
<1>3. settlers[k].serial \in Serials  BY <1>1, <1>2
<1>4. /\ UNCHANGED <<feedVars, infoVars, ledgerVars, ws, cp, rebooters, epoch>>
      /\ \E st \in SettlerStages \ {"free"} : SettlerGoto(k, st) \/ SettlerDone(k)
  BY DEF SettlerStep, Settle, SettlerUnflag, SettlerList, SettlerGate, SettlerDefer,
         SettlerCreate, SettlerStages
<1>5. PICK st \in SettlerStages \ {"free"} : SettlerGoto(k, st) \/ SettlerDone(k)  BY <1>4
<1>6. NoSettler \in Slot /\ NoSettler.stage = "free"  BY DEF NoSettler, SettlerStages
<1>7. [settlers[k] EXCEPT !.stage = st] \in Slot  BY <1>1
<1>8. /\ settlers' \in [Settlers -> Slot]
      /\ \A j \in Settlers : settlers'[j].stage # "free" => settlers'[j].serial \in Serials
  <2>1. CASE SettlerGoto(k, st)  BY <1>1, <1>3, <1>7, <2>1 DEF SettlerGoto
  <2>2. CASE SettlerDone(k)  BY <1>1, <1>6, <2>2 DEF SettlerDone
  <2> QED  BY <1>5, <2>1, <2>2
<1>9. CreatePod(settlers[k].serial) \/ CallFails \/ UNCHANGED podVars
  BY DEF SettlerStep, Settle, SettlerUnflag, SettlerList, SettlerGate, SettlerDefer,
         SettlerCreate, ListedNone, ListedSome
<1>10. FeedTypeOK' /\ PodTypeOK'  BY <1>1, <1>3, <1>4, <1>9, FeedType, PodCallsType
<1>11. rebooting' \subseteq Serials /\ stabilizing' \subseteq Serials /\ lowBattery' \subseteq Serials
  BY <1>3 DEF SettlerStep, Settle, SettlerUnflag, SettlerList, SettlerGate, SettlerDefer,
              SettlerCreate, ManagerType, flagVars
<1> QED  BY <1>4, <1>8, <1>10, <1>11 DEF ManagerType, WorkersKnowTheirJob, infoVars, ledgerVars

\* The goroutines of rebootAndReport and of the retry.
LEMMA RebooterKeepsTypes ==
  ASSUME Typed, NEW u \in Uids, RebooterStep(u)
  PROVE  Typed'
<1> USE DEF Typed
<1> DEFINE Job == [stage : RebooterStages, serial : Serials \cup {None}, run : Nat]
<1>1. /\ FeedTypeOK /\ PodTypeOK /\ rebooters \in [Uids -> Job]
      /\ runs \in Seq(Row) /\ Len(runs) \in Nat
      /\ \A v \in Uids : /\ rebooters[v].stage # "none" => rebooters[v].serial \in Serials
                         /\ rebooters[v].run <= Len(runs)
  BY DEF ManagerType, WorkersKnowTheirJob
<1>2. rebooters[u].stage # "none"
  BY DEF RebooterStep, RebootAccepted, RebootRefused, RebootTimesOut, RebootSucceeded,
         RebootFailed, RetryWake, RetryList, RetryCreate, RebooterAt
<1>3. rebooters[u].serial \in Serials /\ rebooters[u].run \in Nat /\ rebooters[u].run <= Len(runs)
  BY <1>1, <1>2
<1>4. /\ UNCHANGED <<stabilizing, lowBattery, infoVars, reported, ws, cp, settlers, epoch>>
      /\ UNCHANGED <<hub, inbox, welcome>>
      /\ due' = due \/ due' = due \cup {rebooters[u].serial}
      /\ rebooting' = rebooting \/ rebooting' = rebooting \ {rebooters[u].serial}
      /\ \/ UNCHANGED runs
         \/ UpdateBootResult(rebooters[u].run, "ok")
         \/ UpdateBootResult(rebooters[u].run, "failed")
  BY DEF RebooterStep, RebootAccepted, RebootRefused, RebootTimesOut, RebootSucceeded,
         RebootFailed, RetryWake, RetryList, RetryCreate, feedVars, flagVars, ledgerVars
<1>5. \E st \in RebooterStages : RebooterGoto(u, st) \/ RebooterDone(u)
  BY DEF RebooterStep, RebootAccepted, RebootRefused, RebootTimesOut, RebootSucceeded,
         RebootFailed, RetryWake, RetryList, RetryCreate, RebooterStages
<1>6. NoRebooter \in Job /\ NoRebooter.stage = "none" /\ NoRebooter.run = 0
  BY DEF NoRebooter, RebooterStages
<1>7. PICK st \in RebooterStages : RebooterGoto(u, st) \/ RebooterDone(u)  BY <1>5
<1>8. [rebooters[u] EXCEPT !.stage = st] \in Job  BY <1>1
<1>9. /\ rebooters' \in [Uids -> Job]
      /\ \A v \in Uids : /\ rebooters'[v].stage # "none" => rebooters'[v].serial \in Serials
                         /\ rebooters'[v].run <= Len(runs)
  <2>1. CASE RebooterGoto(u, st)  BY <1>1, <1>3, <1>8, <2>1 DEF RebooterGoto
  <2>2. CASE RebooterDone(u)  BY <1>1, <1>6, <2>2 DEF RebooterDone
  <2> QED  BY <1>7, <2>1, <2>2
<1>10. CreatePod(rebooters[u].serial) \/ CallFails \/ UNCHANGED podVars
  BY DEF RebooterStep, RebootAccepted, RebootRefused, RebootTimesOut, RebootSucceeded,
         RebootFailed, RetryWake, RetryList, RetryCreate, ListedNone, ListedSome
<1>11. PodTypeOK'  BY <1>1, <1>3, <1>10, PodCallsType
<1>12. FeedTypeOK'  BY <1>1, <1>3, <1>4 DEF FeedTypeOK
<1>13. runs' \in Seq(Row) /\ Len(runs') = Len(runs)
  BY <1>1, <1>3, <1>4, UpdateBootType
<1>14. rebooting' \subseteq Serials  BY <1>4 DEF ManagerType
<1> QED
  BY <1>1, <1>4, <1>9, <1>11, <1>12, <1>13, <1>14 DEF ManagerType, WorkersKnowTheirJob, infoVars

\* The rest of the world, and a restart.
LEMMA WorldKeepsTypes ==
  ASSUME Typed, HubStep \/ Reconnected \/ (\E s \in Serials : PodStep(s)) \/ Restart
                  \/ UNCHANGED vars
  PROVE  Typed'
<1> USE DEF Typed
<1>1. CASE HubStep \/ Reconnected \/ (\E s \in Serials : PodStep(s)) \/ UNCHANGED vars
  <2>1. UNCHANGED managerVars
    BY <1>1 DEF HubStep, Reconnected, PodStep, vars, managerVars
  <2>2. ManagerType'
    BY <2>1 DEF managerVars, flagVars, infoVars, ledgerVars, ManagerType, WorkersKnowTheirJob
  <2>3. FeedTypeOK'
    BY <1>1, FeedType DEF HubStep, Reconnected, PodStep, vars
  <2>4. PodTypeOK'
    <3>1. CASE \E s \in Serials : PodStep(s)  BY <3>1, PodCallsType DEF PodStep
    <3>2. CASE UNCHANGED podVars  BY <3>2, FailedCallType
    <3> QED  BY <1>1, <3>1, <3>2 DEF HubStep, Reconnected, vars
  <2> QED  BY <2>2, <2>3, <2>4
<1>2. CASE Restart
  <2>1. PodTypeOK'  BY <1>2, FailedCallType DEF Restart
  <2>2. FeedTypeOK'  BY <1>2 DEF Restart, Connected, FeedTypeOK, Online
  <2>3. epoch' \in 1..MaxEpoch  BY <1>2, HubAssumption DEF Restart, ManagerType
  <2>4. /\ WsIdle \in [pc : WsStages, serial : Serials \cup {None}]
        /\ CpIdle \in [pc : CpStages, todo : SUBSET Target, cur : Target \cup {NoTarget},
                       logs : 0..MaxUid, run : Nat]
        /\ CpIdle.pc = "idle" /\ CpIdle.run = 0
    BY PodAssumption DEF WsIdle, WsStages, CpIdle, CpStages, NoTarget
  <2>5. /\ NoSettler \in [stage : SettlerStages, serial : Serials \cup {None}]
        /\ NoSettler.stage = "free"
        /\ NoRebooter \in [stage : RebooterStages, serial : Serials \cup {None}, run : Nat]
        /\ NoRebooter.stage = "none" /\ NoRebooter.run = 0
    BY DEF NoSettler, SettlerStages, NoRebooter, RebooterStages
  <2>6. Unknown \in InfoLevels  BY DEF InfoLevels
  <2>7. ManagerType'
    BY <1>2, <2>3, <2>4, <2>5, <2>6 DEF Restart, ManagerType, WorkersKnowTheirJob
  <2> QED  BY <2>1, <2>2, <2>7
<1> QED  BY <1>1, <1>2

LEMMA InitTyped == Init => Typed
<1> SUFFICES ASSUME Init PROVE Typed  OBVIOUS
<1>1. PodTypeOK  BY PodAssumption DEF Init, PodInit, PodTypeOK
<1>2. FeedTypeOK  BY DEF Init, FeedInit, FeedTypeOK, Online
<1>3. /\ WsIdle \in [pc : WsStages, serial : Serials \cup {None}]
      /\ CpIdle \in [pc : CpStages, todo : SUBSET Target, cur : Target \cup {NoTarget},
                     logs : 0..MaxUid, run : Nat]
      /\ CpIdle.pc = "idle" /\ CpIdle.run = 0
  BY PodAssumption DEF WsIdle, WsStages, CpIdle, CpStages, NoTarget
<1>4. /\ NoSettler \in [stage : SettlerStages, serial : Serials \cup {None}]
      /\ NoSettler.stage = "free"
      /\ NoRebooter \in [stage : RebooterStages, serial : Serials \cup {None}, run : Nat]
      /\ NoRebooter.stage = "none" /\ NoRebooter.run = 0
  BY DEF NoSettler, SettlerStages, NoRebooter, RebooterStages
<1>5. Unknown \in InfoLevels /\ 1 \in 1..MaxEpoch  BY HubAssumption DEF InfoLevels
<1>6. ManagerType
  BY <1>3, <1>4, <1>5 DEF Init, ManagerType, WorkersKnowTheirJob
<1> QED  BY <1>1, <1>2, <1>6 DEF Typed

LEMMA NextKeepsTypes == Typed /\ [Next]_vars => Typed'
<1> SUFFICES ASSUME Typed, [Next]_vars PROVE Typed'  OBVIOUS
<1>1. CASE WsStep  BY <1>1, WsKeepsTypes
<1>2. CASE CpStep  BY <1>2, CpKeepsTypes
<1>3. CASE \E k \in Settlers : SettlerStep(k)  BY <1>3, SettlerKeepsTypes
<1>4. CASE \E u \in Uids : RebooterStep(u)  BY <1>4, RebooterKeepsTypes
<1>5. CASE HubStep \/ Reconnected \/ (\E s \in Serials : PodStep(s)) \/ Restart \/ UNCHANGED vars
  BY <1>5, WorldKeepsTypes
<1> QED  BY <1>1, <1>2, <1>3, <1>4, <1>5 DEF Next

\* Every variable keeps its type, whatever the interleaving, the failures and
\* the restarts: in particular no flag is ever set for a device that is none.
THEOREM TypeCorrect == Spec => []TypeOK
<1>1. Typed => TypeOK  BY DEF Typed, ManagerType, TypeOK
<1> QED  BY InitTyped, NextKeepsTypes, <1>1, PTL DEF Spec

----------------------------------------------------------------------------
(* The ledger: one report for each pod, one verdict for each report.       *)
(*                                                                         *)
(* OneReportPerPod is not inductive: SaveTestResult may append a row only  *)
(* because Claim, several steps before, has excluded that the pod had one. *)
(* So the invariant follows a claim from reported through CheckPods and    *)
(* the row to the goroutine that owes the verdict.                         *)

\* Row r is that of pod u, of this run of the process, without a verdict.
Pending(r, u) == runs[r].uid = u /\ runs[r].epoch = epoch /\ runs[r].boot = "none"

RowsClaimed ==
  \A i \in 1..Len(runs) : /\ runs[i].epoch <= epoch
                          /\ runs[i].epoch = epoch => runs[i].uid \in reported

CpClaimed ==
  /\ cp.pc \in {"collect", "delete", "save", "mark"} =>
       cp.cur.uid \in reported /\ rebooters[cp.cur.uid].stage = "none"
  /\ cp.pc \in {"collect", "delete", "save"} =>
       \A i \in 1..Len(runs) : runs[i].epoch = epoch => runs[i].uid # cp.cur.uid
  /\ cp.pc = "mark" /\ cp.run # 0 => Pending(cp.run, cp.cur.uid)
  /\ cp.pc # "mark" => cp.run = 0

Owing(u) == rebooters[u].stage \in {"request", "accepted", "failed"}

RebootersClaimed ==
  \A u \in Uids :
    /\ rebooters[u].stage # "none" => u \in reported
    /\ Owing(u) /\ rebooters[u].run # 0 => Pending(rebooters[u].run, u)

LedgerInv ==
  /\ RowsClaimed
  /\ CpClaimed
  /\ RebootersClaimed
  /\ OneReportPerPod
  /\ VerdictOwed

\* Steps that touch no part of the ledger.
LEMMA LedgerUntouched ==
  ASSUME LedgerInv, UNCHANGED <<cp, rebooters, runs, reported, epoch>>
  PROVE  LedgerInv'
BY DEF LedgerInv, RowsClaimed, CpClaimed, RebootersClaimed, OneReportPerPod, VerdictOwed,
       Pending, Owing

\* Steps of CheckPods outside "mark" that claim nothing and store nothing.
LEMMA LedgerCpMoves ==
  ASSUME Typed, LedgerInv, UNCHANGED <<rebooters, runs, reported, epoch>>, cp.pc # "mark",
         \/ cp'.pc \in {"idle", "scan", "purge"} /\ cp'.run = 0
         \/ /\ cp.pc \in {"collect", "delete"} /\ cp'.pc \in {"delete", "save"}
            /\ cp'.cur = cp.cur /\ cp'.run = cp.run
  PROVE  LedgerInv'
<1>1. RowsClaimed'  BY DEF LedgerInv, RowsClaimed
<1>2. CpClaimed'  BY DEF LedgerInv, CpClaimed
<1>3. RebootersClaimed'  BY DEF LedgerInv, RebootersClaimed, Pending, Owing
<1>4. OneReportPerPod'  BY DEF LedgerInv, OneReportPerPod
<1>5. VerdictOwed'  BY DEF LedgerInv, VerdictOwed
<1> QED  BY <1>1, <1>2, <1>3, <1>4, <1>5 DEF LedgerInv

LEMMA CpTypes ==
  ASSUME Typed
  PROVE  /\ cp \in CpType /\ cp.run \in Nat /\ cp.run <= Len(runs)
         /\ cp.pc \notin {"idle", "scan"} => cp.cur \in Target /\ cp.cur.uid \in Uids
         /\ runs \in Seq(Row) /\ Len(runs) \in Nat /\ DOMAIN runs = 1..Len(runs)
         /\ epoch \in Nat
         /\ rebooters \in [Uids -> [stage : RebooterStages,
                                    serial : Serials \cup {None}, run : Nat]]
         /\ \A i \in 1..Len(runs) : runs[i] \in Row /\ runs[i].epoch \in Nat
<1>1. epoch \in Nat /\ MaxEpoch \in Nat  BY HubAssumption DEF Typed, ManagerType
<1>2. cp \in CpType /\ cp.run \in Nat /\ cp.run <= Len(runs)
  BY DEF Typed, ManagerType, WorkersKnowTheirJob, CpType
<1>3. cp.pc \notin {"idle", "scan"} => cp.cur \in Target /\ cp.cur.uid \in Uids
  BY DEF Typed, ManagerType, WorkersKnowTheirJob, Target
<1>4. runs \in Seq(Row) /\ Len(runs) \in Nat /\ DOMAIN runs = 1..Len(runs)
  BY DEF Typed, ManagerType
<1>5. \A i \in 1..Len(runs) : runs[i] \in Row  BY <1>4, ElementOfSeq
<1>6. \A i \in 1..Len(runs) : runs[i].epoch \in Nat  BY <1>1, <1>5 DEF Row
<1>7. rebooters \in [Uids -> [stage : RebooterStages, serial : Serials \cup {None}, run : Nat]]
  BY DEF Typed, ManagerType
<1> QED  BY <1>1, <1>2, <1>3, <1>4, <1>5, <1>6, <1>7

LEMMA ClaimKeepsLedger ==
  ASSUME Typed, LedgerInv, NEW p \in cp.todo, Claim(p)
  PROVE  LedgerInv'
<1>1. /\ UNCHANGED <<rebooters, runs, epoch>>
      /\ cp.pc = "scan" /\ reported' = reported \cup {p.uid}
  BY DEF Claim
<1>2. p \in Target /\ p.uid \in Uids  BY CpTypes DEF CpType, Target
<1>3. RowsClaimed'  BY <1>1 DEF LedgerInv, RowsClaimed
<1>4. RebootersClaimed'  BY <1>1 DEF LedgerInv, RebootersClaimed, Pending, Owing
<1>5. OneReportPerPod'  BY <1>1 DEF LedgerInv, OneReportPerPod
<1>6. VerdictOwed'  BY <1>1 DEF LedgerInv, VerdictOwed
<1>7. CpClaimed'
  <2>1. CASE p.uid \notin reported /\ cp' = [cp EXCEPT !.pc = "collect", !.todo = @ \ {p}, !.cur = p]
    <3>1. cp'.pc = "collect" /\ cp'.cur = p /\ cp'.run = 0
      BY <1>1, <2>1, CpTypes DEF CpType, LedgerInv, CpClaimed
    <3>2. rebooters[p.uid].stage = "none"
      BY <1>2, <2>1 DEF LedgerInv, RebootersClaimed
    <3>3. \A i \in 1..Len(runs) : runs[i].epoch = epoch => runs[i].uid # p.uid
      BY <2>1 DEF LedgerInv, RowsClaimed
    <3> QED  BY <1>1, <3>1, <3>2, <3>3 DEF CpClaimed
  <2>2. CASE cp' = [cp EXCEPT !.pc = "purge", !.todo = @ \ {p}, !.cur = p]
    <3>1. cp'.pc = "purge" /\ cp'.run = 0
      BY <1>1, <2>2, CpTypes DEF CpType, LedgerInv, CpClaimed
    <3> QED  BY <3>1 DEF CpClaimed
  <2> QED  BY <2>1, <2>2 DEF Claim
<1> QED  BY <1>3, <1>4, <1>5, <1>6, <1>7 DEF LedgerInv

LEMMA SaveKeepsLedger ==
  ASSUME Typed, LedgerInv, SaveTestResult
  PROVE  LedgerInv'
<1> DEFINE row == [serial |-> cp.cur.serial, uid |-> cp.cur.uid,
                   logs |-> cp.logs, epoch |-> epoch, boot |-> "none"]
<1>1. /\ UNCHANGED <<rebooters, reported, epoch>> /\ cp.pc = "save"
      /\ cp.run = 0 /\ cp.cur.uid \in reported
      /\ rebooters[cp.cur.uid].stage = "none"
      /\ \A i \in 1..Len(runs) : runs[i].epoch = epoch => runs[i].uid # cp.cur.uid
  BY DEF SaveTestResult, LedgerInv, CpClaimed
<1>2. row \in Row
  BY <1>1, CpTypes DEF Row, Target, CpType, Typed, ManagerType, Uids
<1>3. row.uid = cp.cur.uid /\ row.epoch = epoch /\ row.boot = "none"  OBVIOUS
<1> HIDE DEF row
<1>4. CASE runs' = Append(runs, row) /\ cp' = [cp EXCEPT !.pc = "mark", !.run = Len(runs) + 1]
  <2> DEFINE n == Len(runs) + 1
  <2>1. /\ Len(runs') = n /\ runs'[n] = row
        /\ \A i \in 1..Len(runs) : runs'[i] = runs[i]
        /\ runs' \in Seq(Row) /\ DOMAIN runs' = 1..n
    BY <1>2, <1>4, CpTypes, AppendProperties
  <2>2. cp'.pc = "mark" /\ cp'.run = n /\ cp'.cur = cp.cur  BY <1>4, CpTypes DEF CpType
  <2>3. /\ n \in Nat /\ n \in 1..n /\ n # 0
        /\ \A i \in 1..n : i = n \/ i \in 1..Len(runs)
        /\ 1..Len(runs) \subseteq 1..n
    BY CpTypes
  <2> HIDE DEF n
  <2>4. RowsClaimed'
    BY <1>1, <1>3, <2>1, <2>3, CpTypes DEF LedgerInv, RowsClaimed
  <2>5. CpClaimed'
    BY <1>1, <1>3, <2>1, <2>2 DEF CpClaimed, Pending
  <2>6. RebootersClaimed'
    <3> SUFFICES ASSUME NEW u \in Uids, Owing(u), rebooters[u].run # 0
                 PROVE  Pending(rebooters[u].run, u)'
      BY <1>1 DEF LedgerInv, RebootersClaimed, Owing
    <3>1. rebooters[u].run \in 1..Len(runs)
      BY CpTypes DEF Typed, ManagerType, WorkersKnowTheirJob
    <3> QED  BY <1>1, <2>1, <3>1 DEF LedgerInv, RebootersClaimed, Pending
  <2>7. OneReportPerPod'
    <3> SUFFICES ASSUME NEW i \in 1..n, NEW j \in 1..n,
                        runs'[i].uid = runs'[j].uid, runs'[i].epoch = runs'[j].epoch
                 PROVE  i = j
      BY <2>1 DEF OneReportPerPod
    <3>1. CASE i \in 1..Len(runs) /\ j \in 1..Len(runs)
      BY <2>1, <3>1, CpTypes DEF LedgerInv, OneReportPerPod
    <3>2. CASE i = n /\ j \in 1..Len(runs)  BY <1>1, <1>3, <2>1, <3>2
    <3>3. CASE j = n /\ i \in 1..Len(runs)  BY <1>1, <1>3, <2>1, <3>3
    <3> QED  BY <2>3, <3>1, <3>2, <3>3
  <2>8. VerdictOwed'
    <3> SUFFICES ASSUME NEW i \in 1..n, runs'[i].epoch = epoch, runs'[i].boot = "none"
                 PROVE  (cp'.pc = "mark" /\ cp'.run = i)
                        \/ \E u \in Uids : rebooters[u].run = i
                             /\ rebooters[u].stage \in {"request", "accepted", "failed"}
      BY <1>1, <2>1 DEF VerdictOwed
    <3>1. CASE i = n  BY <2>2, <3>1
    <3>2. CASE i \in 1..Len(runs)
      BY <1>1, <2>1, <3>2, CpTypes DEF LedgerInv, VerdictOwed
    <3> QED  BY <2>3, <3>1, <3>2
  <2> QED  BY <2>4, <2>5, <2>6, <2>7, <2>8 DEF LedgerInv
<1>5. CASE runs' = runs /\ cp' = [cp EXCEPT !.pc = "mark"]
  <2>1. cp'.pc = "mark" /\ cp'.run = 0 /\ cp'.cur = cp.cur  BY <1>1, <1>5, CpTypes DEF CpType
  <2>2. CpClaimed'  BY <1>1, <2>1 DEF CpClaimed
  <2>3. RowsClaimed' /\ RebootersClaimed' /\ OneReportPerPod' /\ VerdictOwed'
    BY <1>1, <1>5 DEF LedgerInv, RowsClaimed, RebootersClaimed, OneReportPerPod, VerdictOwed,
                      Pending, Owing
  <2> QED  BY <2>2, <2>3 DEF LedgerInv
<1> QED  BY <1>4, <1>5 DEF SaveTestResult, row

LEMMA MarkKeepsLedger ==
  ASSUME Typed, LedgerInv, MarkRebooting
  PROVE  LedgerInv'
<1> DEFINE v == cp.cur.uid
           job == [stage |-> "request", serial |-> cp.cur.serial, run |-> cp.run]
<1>1. /\ UNCHANGED <<runs, reported, epoch>> /\ cp.pc = "mark"
      /\ v \in reported /\ rebooters[v].stage = "none"
      /\ cp.run # 0 => Pending(cp.run, v)
      /\ rebooters' = [rebooters EXCEPT ![v] = job] /\ cp' = NextPod
  BY DEF MarkRebooting, LedgerInv, CpClaimed, ledgerVars
<1>2. v \in Uids  BY <1>1, CpTypes
<1>3. job.stage = "request" /\ job.run = cp.run  OBVIOUS
<1> HIDE DEF job, v
<1>4. /\ rebooters'[v] = job
      /\ \A u \in Uids \ {v} : rebooters'[u] = rebooters[u]
  BY <1>1, <1>2, CpTypes
<1>5. cp'.pc \in {"idle", "scan"} /\ cp'.run = 0  BY <1>1 DEF NextPod, CpIdle
<1>6. RowsClaimed' /\ OneReportPerPod'
  BY <1>1 DEF LedgerInv, RowsClaimed, OneReportPerPod
<1>7. CpClaimed'  BY <1>5 DEF CpClaimed
<1>8. RebootersClaimed'
  <2> SUFFICES ASSUME NEW u \in Uids
               PROVE  /\ rebooters'[u].stage # "none" => u \in reported
                      /\ Owing(u)' /\ rebooters'[u].run # 0 => Pending(rebooters'[u].run, u)
    BY <1>1 DEF RebootersClaimed, Pending, Owing
  <2>1. CASE u = v  BY <1>1, <1>3, <1>4, <2>1
  <2>2. CASE u # v  BY <1>4, <2>2 DEF LedgerInv, RebootersClaimed, Owing
  <2> QED  BY <2>1, <2>2
<1>9. VerdictOwed'
  <2> SUFFICES ASSUME NEW i \in DOMAIN runs, runs[i].epoch = epoch, runs[i].boot = "none"
               PROVE  \E u \in Uids : /\ rebooters'[u].run = i
                                      /\ rebooters'[u].stage \in {"request", "accepted", "failed"}
    <3>1. DOMAIN runs' = DOMAIN runs /\ runs' = runs /\ epoch' = epoch  BY <1>1
    <3> QED  BY <3>1 DEF VerdictOwed
  <2>1. CASE cp.run = i  BY <1>2, <1>3, <1>4, <2>1
  <2>2. CASE cp.run # i
    <3>1. PICK u \in Uids : /\ rebooters[u].run = i
                            /\ rebooters[u].stage \in {"request", "accepted", "failed"}
      BY <2>2 DEF LedgerInv, VerdictOwed
    <3>2. u # v  BY <1>1, <3>1
    <3> QED  BY <1>4, <3>1, <3>2
  <2> QED  BY <2>1, <2>2
<1> QED  BY <1>6, <1>7, <1>8, <1>9 DEF LedgerInv

\* What a step of the goroutine of pod u does to the ledger: nothing but moving
\* on, or giving its own row its verdict and never coming back to it.
LEMMA RebooterMoves ==
  ASSUME Typed, NEW u \in Uids, RebooterStep(u)
  PROVE  /\ UNCHANGED <<cp, reported, epoch>>
         /\ rebooters[u].stage # "none"
         /\ \A w \in Uids \ {u} : rebooters'[w] = rebooters[w]
         /\ \/ /\ UNCHANGED runs
               /\ \/ /\ Owing(u) /\ Owing(u)' /\ rebooters'[u].run = rebooters[u].run
                  \/ ~Owing(u) /\ ~Owing(u)'
            \/ /\ Owing(u) /\ ~Owing(u)'
               /\ \E v \in {"ok", "failed"} : UpdateBootResult(rebooters[u].run, v)
<1>1. rebooters \in [Uids -> [stage : RebooterStages, serial : Serials \cup {None}, run : Nat]]
  BY CpTypes
<1> USE DEF RebooterAt, RebooterGoto, RebooterDone, NoRebooter, Owing
<1>2. CASE RebootAccepted(u) \/ RebootRefused(u) \/ RebootTimesOut(u)
  BY <1>1, <1>2 DEF RebootAccepted, RebootRefused, RebootTimesOut, ledgerVars
<1>3. CASE RebootSucceeded(u)  BY <1>1, <1>3 DEF RebootSucceeded
<1>4. CASE RebootFailed(u)  BY <1>1, <1>4 DEF RebootFailed
<1>5. CASE RetryWake(u) \/ RetryList(u) \/ RetryCreate(u)
  BY <1>1, <1>5 DEF RetryWake, RetryList, RetryCreate, ledgerVars
<1> QED  BY <1>2, <1>3, <1>4, <1>5 DEF RebooterStep

LEMMA RebooterKeepsLedger ==
  ASSUME Typed, LedgerInv, NEW u \in Uids, RebooterStep(u)
  PROVE  LedgerInv'
<1>1. /\ UNCHANGED <<cp, reported, epoch>>
      /\ rebooters[u].stage # "none"
      /\ \A w \in Uids \ {u} : rebooters'[w] = rebooters[w]
  BY RebooterMoves
<1>2. u \in reported  BY <1>1 DEF LedgerInv, RebootersClaimed
<1>3. cp.pc \in {"collect", "delete", "save", "mark"} =>
        cp.cur.uid \in Uids /\ cp.cur.uid # u /\ cp.cur.uid \in reported
          /\ rebooters'[cp.cur.uid].stage = "none"
  BY <1>1, CpTypes DEF LedgerInv, CpClaimed
<1>4. CASE /\ UNCHANGED runs
           /\ \/ /\ Owing(u) /\ Owing(u)' /\ rebooters'[u].run = rebooters[u].run
              \/ ~Owing(u) /\ ~Owing(u)'
  <2>1. RowsClaimed' /\ OneReportPerPod'
    BY <1>1, <1>4 DEF LedgerInv, RowsClaimed, OneReportPerPod
  <2>2. CpClaimed'  BY <1>1, <1>3, <1>4 DEF LedgerInv, CpClaimed, Pending
  <2>3. RebootersClaimed'
    BY <1>1, <1>2, <1>4 DEF LedgerInv, RebootersClaimed, Pending, Owing
  <2>4. VerdictOwed'
    <3> SUFFICES ASSUME NEW i \in DOMAIN runs, runs[i].epoch = epoch, runs[i].boot = "none",
                        ~(cp.pc = "mark" /\ cp.run = i)
                 PROVE  \E w \in Uids : rebooters'[w].run = i /\ Owing(w)'
      BY <1>1, <1>4 DEF VerdictOwed, Owing
    <3>1. PICK w \in Uids : rebooters[w].run = i /\ Owing(w)
      BY DEF LedgerInv, VerdictOwed, Owing
    <3> QED  BY <1>1, <1>4, <3>1 DEF Owing
  <2> QED  BY <2>1, <2>2, <2>3, <2>4 DEF LedgerInv
<1>5. ASSUME NEW v \in {"ok", "failed"}, Owing(u), ~Owing(u)',
             UpdateBootResult(rebooters[u].run, v)
      PROVE  LedgerInv'
  <2> DEFINE r == rebooters[u].run
  <2>1. r \in Nat /\ r <= Len(runs)  BY CpTypes DEF Typed, ManagerType, WorkersKnowTheirJob
  <2>2. r # 0 => Pending(r, u)  BY <1>5 DEF LedgerInv, RebootersClaimed
  <2>3. /\ runs' \in Seq(Row) /\ Len(runs') = Len(runs)
        /\ \A i \in 1..Len(runs) : runs'[i] = IF i = r THEN [runs[i] EXCEPT !.boot = v]
                                                      ELSE runs[i]
    <3>1. runs \in Seq(Row)  BY CpTypes
    <3> QED  BY <1>5, <2>1, <3>1, UpdateBootType
  <2>4. /\ DOMAIN runs = 1..Len(runs) /\ DOMAIN runs' = 1..Len(runs)
        /\ \A i \in 1..Len(runs) : /\ runs'[i].uid = runs[i].uid
                                   /\ runs'[i].epoch = runs[i].epoch
                                   /\ i # r => runs'[i] = runs[i]
                                   /\ i = r => runs'[i].boot = v
    <3>1. DOMAIN runs = 1..Len(runs) /\ DOMAIN runs' = 1..Len(runs)  BY <2>3, CpTypes
    <3>2. ASSUME NEW i \in 1..Len(runs)
          PROVE  /\ runs'[i].uid = runs[i].uid /\ runs'[i].epoch = runs[i].epoch
                 /\ i # r => runs'[i] = runs[i]
                 /\ i = r => runs'[i].boot = v
      <4>1. runs[i] \in Row  BY CpTypes
      <4>2. runs'[i] = IF i = r THEN [runs[i] EXCEPT !.boot = v] ELSE runs[i]  BY <2>3
      <4>3. /\ [runs[i] EXCEPT !.boot = v].uid = runs[i].uid
            /\ [runs[i] EXCEPT !.boot = v].epoch = runs[i].epoch
            /\ [runs[i] EXCEPT !.boot = v].boot = v
        BY <4>1 DEF Row
      <4> HIDE DEF r
      <4> QED  BY <4>2, <4>3
    <3> QED  BY <3>1, <3>2
  <2> HIDE DEF r
  <2>5. RowsClaimed' /\ OneReportPerPod'
    BY <1>1, <2>3, <2>4 DEF LedgerInv, RowsClaimed, OneReportPerPod
  <2>6. CpClaimed'
    <3>1. cp.pc = "mark" /\ cp.run # 0 => cp.run # r /\ cp.run \in 1..Len(runs)
      BY <1>3, <2>2, CpTypes DEF LedgerInv, CpClaimed, Pending
    <3>2. cp.pc = "mark" /\ cp.run # 0 => Pending(cp.run, cp.cur.uid)'
      BY <1>1, <2>4, <3>1 DEF LedgerInv, CpClaimed, Pending
    <3>3. cp.pc \in {"collect", "delete", "save"} =>
            \A i \in 1..Len(runs') : runs'[i].epoch = epoch => runs'[i].uid # cp.cur.uid
      BY <2>3, <2>4 DEF LedgerInv, CpClaimed
    <3>4. cp.pc # "mark" => cp.run = 0  BY DEF LedgerInv, CpClaimed
    <3> QED  BY <1>1, <1>3, <3>2, <3>3, <3>4 DEF CpClaimed
  <2>7. RebootersClaimed'
    <3> SUFFICES ASSUME NEW w \in Uids
                 PROVE  /\ rebooters'[w].stage # "none" => w \in reported
                        /\ Owing(w)' /\ rebooters'[w].run # 0 => Pending(rebooters[w].run, w)'
      BY <1>1 DEF RebootersClaimed, Pending
    <3>1. CASE w = u  BY <1>2, <1>5, <3>1
    <3>2. CASE w # u
      <4>1. rebooters'[w] = rebooters[w]  BY <1>1, <3>2
      <4>2. rebooters[w].stage # "none" => w \in reported  BY DEF LedgerInv, RebootersClaimed
      <4>3. ASSUME Owing(w)', rebooters'[w].run # 0
            PROVE  Pending(rebooters[w].run, w)'
        <5>1. Owing(w) /\ rebooters[w].run # 0 /\ Pending(rebooters[w].run, w)
          BY <4>1, <4>3 DEF LedgerInv, RebootersClaimed, Owing
        <5>2. rebooters[w].run \in 1..Len(runs)
          BY <5>1, CpTypes DEF Typed, ManagerType, WorkersKnowTheirJob
        <5>3. rebooters[w].run # r  BY <2>2, <3>2, <5>1 DEF Pending
        <5> QED  BY <1>1, <2>4, <4>1, <5>1, <5>2, <5>3 DEF Pending
      <4> QED  BY <4>1, <4>2, <4>3
    <3> QED  BY <3>1, <3>2
  <2>8. VerdictOwed'
    <3> SUFFICES ASSUME NEW i \in 1..Len(runs), runs'[i].epoch = epoch, runs'[i].boot = "none",
                        ~(cp.pc = "mark" /\ cp.run = i)
                 PROVE  \E w \in Uids : rebooters'[w].run = i /\ Owing(w)'
      BY <1>1, <2>4 DEF VerdictOwed, Owing
    <3>1. i # r /\ runs[i].epoch = epoch /\ runs[i].boot = "none"  BY <2>4
    <3>2. PICK w \in Uids : rebooters[w].run = i /\ Owing(w)
      BY <2>4, <3>1 DEF LedgerInv, VerdictOwed, Owing
    <3>3. w # u  BY <3>1, <3>2 DEF r
    <3> QED  BY <1>1, <3>2, <3>3 DEF Owing
  <2> QED  BY <2>5, <2>6, <2>7, <2>8 DEF LedgerInv
<1> QED  BY <1>4, <1>5, RebooterMoves

LEMMA RestartKeepsLedger ==
  ASSUME Typed, LedgerInv, Restart
  PROVE  LedgerInv'
<1>1. /\ epoch' = epoch + 1 /\ runs' = runs /\ reported' = {} /\ cp' = CpIdle
      /\ rebooters' = [u \in Uids |-> NoRebooter]
  BY DEF Restart
<1>2. \A i \in 1..Len(runs) : runs[i].epoch \in Nat /\ runs[i].epoch <= epoch /\ runs[i].epoch # epoch'
  BY <1>1, CpTypes DEF LedgerInv, RowsClaimed
<1>3. epoch \in Nat /\ DOMAIN runs = 1..Len(runs)  BY CpTypes
<1>4. RowsClaimed'  BY <1>1, <1>2, <1>3 DEF RowsClaimed
<1>5. CpClaimed'  BY <1>1 DEF CpClaimed, CpIdle
<1>6. RebootersClaimed'  BY <1>1 DEF RebootersClaimed, NoRebooter, Owing
<1>7. OneReportPerPod'  BY <1>1 DEF LedgerInv, OneReportPerPod
<1>8. VerdictOwed'  BY <1>1, <1>2, <1>3 DEF VerdictOwed
<1> QED  BY <1>4, <1>5, <1>6, <1>7, <1>8 DEF LedgerInv

\* Only CheckPods, the rebooters and a restart touch the ledger.
LEMMA OthersLeaveLedger ==
  ASSUME \/ WsStep \/ (\E k \in Settlers : SettlerStep(k)) \/ HubStep \/ Reconnected
         \/ (\E s \in Serials : PodStep(s)) \/ UNCHANGED vars
  PROVE  UNCHANGED <<cp, rebooters, runs, reported, epoch>>
<1> USE DEF ledgerVars, managerVars
<1>1. CASE WsStep
  BY <1>1 DEF WsStep, OnDeviceReady, OnDeviceOffline, OnDeviceDeleted, OnBatteryUpdated,
              ReadyList, ReadyGate, ReadyStabilize, ReadyCreate, DeletedList, DeletedDelete,
              BatteryList, BatteryCreate
<1>2. CASE \E k \in Settlers : SettlerStep(k)
  BY <1>2 DEF SettlerStep, Settle, SettlerUnflag, SettlerList, SettlerGate, SettlerDefer,
              SettlerCreate
<1>3. CASE HubStep \/ Reconnected \/ (\E s \in Serials : PodStep(s)) \/ UNCHANGED vars
  BY <1>3 DEF HubStep, Reconnected, PodStep, vars
<1> QED  BY <1>1, <1>2, <1>3

LEMMA CpKeepsLedger ==
  ASSUME Typed, LedgerInv, CpStep
  PROVE  LedgerInv'
<1>1. CASE \E p \in cp.todo : Claim(p)  BY <1>1, ClaimKeepsLedger
<1>2. CASE SaveTestResult  BY <1>2, SaveKeepsLedger
<1>3. CASE MarkRebooting  BY <1>3, MarkKeepsLedger
<1>4. CASE CheckPods
  <2>1. UNCHANGED <<rebooters, runs, reported, epoch>> /\ cp.pc = "idle"
    BY <1>4 DEF CheckPods, ledgerVars
  <2>2. cp' = cp \/ (cp'.pc = "scan" /\ cp'.run = 0)  BY <1>4 DEF CheckPods, CpIdle
  <2>3. cp.run = 0  BY <2>1 DEF LedgerInv, CpClaimed
  <2> QED  BY <2>1, <2>2, <2>3, LedgerCpMoves
<1>5. CASE Collect \/ Delete
  <2>1. UNCHANGED <<rebooters, runs, reported, epoch>> /\ cp.pc \in {"collect", "delete"}
    BY <1>5 DEF Collect, Delete, ledgerVars
  <2>2. cp'.pc \in {"delete", "save"} /\ cp'.cur = cp.cur /\ cp'.run = cp.run
    BY <1>5, CpTypes DEF Collect, Delete, CpType
  <2> QED  BY <2>1, <2>2, LedgerCpMoves
<1>6. CASE Purge
  <2>1. UNCHANGED <<rebooters, runs, reported, epoch>> /\ cp.pc = "purge" /\ cp' = NextPod
    BY <1>6 DEF Purge, ledgerVars
  <2>2. cp'.pc \in {"idle", "scan"} /\ cp'.run = 0  BY <2>1 DEF NextPod, CpIdle
  <2> QED  BY <2>1, <2>2, LedgerCpMoves
<1> QED  BY <1>1, <1>2, <1>3, <1>4, <1>5, <1>6 DEF CpStep

LEMMA NextKeepsLedger == Typed /\ LedgerInv /\ [Next]_vars => LedgerInv'
<1> SUFFICES ASSUME Typed, LedgerInv, [Next]_vars PROVE LedgerInv'  OBVIOUS
<1>1. CASE CpStep  BY <1>1, CpKeepsLedger
<1>2. CASE \E u \in Uids : RebooterStep(u)  BY <1>2, RebooterKeepsLedger
<1>3. CASE Restart  BY <1>3, RestartKeepsLedger
<1>4. CASE \/ WsStep \/ (\E k \in Settlers : SettlerStep(k)) \/ HubStep \/ Reconnected
           \/ (\E s \in Serials : PodStep(s)) \/ UNCHANGED vars
  BY <1>4, OthersLeaveLedger, LedgerUntouched
<1> QED  BY <1>1, <1>2, <1>3, <1>4 DEF Next

LEMMA InitLedger == Init => LedgerInv
<1> SUFFICES ASSUME Init PROVE LedgerInv  OBVIOUS
<1>1. runs = <<>> /\ Len(runs) = 0 /\ 1..Len(runs) = {} /\ DOMAIN runs = {}  BY DEF Init
<1>2. cp = CpIdle /\ rebooters = [u \in Uids |-> NoRebooter]  BY DEF Init
<1>3. RowsClaimed /\ OneReportPerPod /\ VerdictOwed
  BY <1>1 DEF RowsClaimed, OneReportPerPod, VerdictOwed
<1>4. CpClaimed  BY <1>2 DEF CpClaimed, CpIdle
<1>5. RebootersClaimed  BY <1>2 DEF RebootersClaimed, NoRebooter, Owing
<1> QED  BY <1>3, <1>4, <1>5 DEF LedgerInv

LEMMA AlwaysLedger == Spec => [](Typed /\ LedgerInv)
BY InitTyped, InitLedger, NextKeepsTypes, NextKeepsLedger, PTL DEF Spec

\* Whatever is listed twice, fails or is restarted, one run of the process never
\* stores two results for a pod (manager.go 497 and 517).
THEOREM ReportedOnce == Spec => []OneReportPerPod
<1>1. LedgerInv => OneReportPerPod  BY DEF LedgerInv
<1> QED  BY AlwaysLedger, <1>1, PTL

\* A row of this run of the process that still lacks its verdict has a
\* goroutine that will give it one (manager.go 1093-1123).
THEOREM VerdictIsOwed == Spec => []VerdictOwed
<1>1. LedgerInv => VerdictOwed  BY DEF LedgerInv
<1> QED  BY AlwaysLedger, <1>1, PTL

\* What BootVerdictOnce allows a step.
RowsKept ==
  /\ Len(runs') >= Len(runs)
  /\ \A i \in DOMAIN runs :
       runs'[i] # runs[i] => /\ runs[i].boot = "none"
                             /\ \E v \in {"ok", "failed"} :
                                  runs'[i] = [runs[i] EXCEPT !.boot = v]

LEMMA StepKeepsRows ==
  ASSUME Typed, LedgerInv, [Next]_vars
  PROVE  RowsKept
<1>0. Len(runs) \in Nat /\ DOMAIN runs = 1..Len(runs)  BY CpTypes
<1>1. CASE UNCHANGED runs  BY <1>0, <1>1 DEF RowsKept
<1>2. CASE SaveTestResult
  <2> DEFINE row == [serial |-> cp.cur.serial, uid |-> cp.cur.uid,
                     logs |-> cp.logs, epoch |-> epoch, boot |-> "none"]
  <2>1. row \in Row
    BY <1>2, CpTypes DEF SaveTestResult, Row, Target, CpType, Typed, ManagerType, Uids
  <2> HIDE DEF row
  <2>2. runs' = Append(runs, row) \/ runs' = runs  BY <1>2 DEF SaveTestResult, row
  <2>3. CASE runs' = Append(runs, row)
    <3>1. Len(runs') = Len(runs) + 1 /\ \A i \in 1..Len(runs) : runs'[i] = runs[i]
      BY <2>1, <2>3, CpTypes, AppendProperties
    <3> QED  BY <1>0, <3>1 DEF RowsKept
  <2> QED  BY <1>1, <2>2, <2>3
<1>3. ASSUME NEW u \in Uids, NEW v \in {"ok", "failed"}, Owing(u),
             UpdateBootResult(rebooters[u].run, v)
      PROVE  RowsKept
  <2>1. rebooters[u].run \in Nat /\ rebooters[u].run <= Len(runs)
    BY CpTypes DEF Typed, ManagerType, WorkersKnowTheirJob
  <2>2. rebooters[u].run # 0 => runs[rebooters[u].run].boot = "none"
    BY <1>3 DEF LedgerInv, RebootersClaimed, Pending
  <2>3. /\ Len(runs') = Len(runs)
        /\ \A i \in 1..Len(runs) : runs'[i] = IF i = rebooters[u].run
                                              THEN [runs[i] EXCEPT !.boot = v] ELSE runs[i]
    <3>1. runs \in Seq(Row)
      BY CpTypes
    <3> QED
      BY <1>3, <2>1, <3>1, UpdateBootType
  <2>4. ASSUME NEW i \in DOMAIN runs, runs'[i] # runs[i]
        PROVE  runs[i].boot = "none" /\ runs'[i] = [runs[i] EXCEPT !.boot = v]
    <3>1. i = rebooters[u].run /\ runs'[i] = [runs[i] EXCEPT !.boot = v]
      BY <1>0, <2>3, <2>4
    <3>2. rebooters[u].run # 0
      BY <1>0, <2>4, <3>1
    <3> QED
      BY <2>2, <3>1, <3>2
  <2> QED  BY <1>0, <2>3, <2>4 DEF RowsKept
<1>4. CASE \E u \in Uids : RebooterStep(u)  BY <1>1, <1>3, <1>4, RebooterMoves
<1>5. CASE CpStep
  BY <1>1, <1>2, <1>5 DEF CpStep, CheckPods, Claim, Collect, Delete, MarkRebooting, Purge, ledgerVars
<1>6. CASE Restart  BY <1>1, <1>6 DEF Restart
<1>7. CASE \/ WsStep \/ (\E k \in Settlers : SettlerStep(k)) \/ HubStep \/ Reconnected
           \/ (\E s \in Serials : PodStep(s)) \/ UNCHANGED vars
  BY <1>1, <1>7, OthersLeaveLedger
<1> QED  BY <1>4, <1>5, <1>6, <1>7 DEF Next

\* No goroutine of a later pod, or of a later run of the process, writes to the
\* row of another: a verdict is final (manager.go 1125-1134).
THEOREM VerdictIsFinal == Spec => BootVerdictOnce
<1>1. Typed /\ LedgerInv /\ [Next]_vars => [RowsKept]_vars  BY StepKeepsRows
<1> QED  BY AlwaysLedger, <1>1, PTL DEF Spec, BootVerdictOnce, RowsKept

----------------------------------------------------------------------------
(* stabilizing.  This one is inductive as it stands.                       *)

Waits(k, s) == settlers[k] = [stage |-> "sleep", serial |-> s]

\* Steps that neither set nor clear stabilizing, nor start or wake a waiter.
LEMMA WaitersUntouched ==
  ASSUME StabilizingHasOneWaiter, UNCHANGED stabilizing,
         \A k \in Settlers, s \in Serials : Waits(k, s)' <=> Waits(k, s)
  PROVE  StabilizingHasOneWaiter'
<1>1. \A k \in Settlers, s \in Serials :
        settlers'[k] = [stage |-> "sleep", serial |-> s] <=>
          settlers[k] = [stage |-> "sleep", serial |-> s]
  BY DEF Waits
<1>2. ASSUME NEW s \in Serials
      PROVE  s \in stabilizing' <=> \E k \in Settlers : settlers'[k] = [stage |-> "sleep", serial |-> s]
  BY <1>1 DEF StabilizingHasOneWaiter
<1>3. ASSUME NEW s \in Serials, NEW j \in Settlers, NEW k \in Settlers,
             settlers'[j] = settlers'[k], settlers'[k] = [stage |-> "sleep", serial |-> s]
      PROVE  j = k
  <2>1. /\ settlers[j] = [stage |-> "sleep", serial |-> s]
        /\ settlers[k] = [stage |-> "sleep", serial |-> s]
    BY <1>1, <1>3
  <2> QED  BY <2>1 DEF StabilizingHasOneWaiter
<1> QED  BY <1>2, <1>3 DEF StabilizingHasOneWaiter

LEMMA SettlerKeepsWaiters ==
  ASSUME Typed, StabilizingHasOneWaiter, NEW k \in Settlers, SettlerStep(k)
  PROVE  StabilizingHasOneWaiter'
<1> DEFINE Slot == [stage : SettlerStages, serial : Serials \cup {None}]
<1>1. settlers \in [Settlers -> Slot]  BY DEF Typed, ManagerType
<1>2. settlers[k].stage # "free" => settlers[k].serial \in Serials
  BY DEF Typed, ManagerType, WorkersKnowTheirJob
<1>3. CASE Settle(k)
  <2> DEFINE t == settlers[k].serial
  <2>1. /\ Waits(k, t) /\ t \in Serials
        /\ stabilizing' = stabilizing \ {t}
        /\ settlers'[k].stage = "unflag"
        /\ \A j \in Settlers \ {k} : settlers'[j] = settlers[j]
    BY <1>1, <1>2, <1>3 DEF Settle, SettlerAt, SettlerGoto, Waits
  <2> HIDE DEF t
  <2>2. \A s \in Serials : ~(settlers'[k] = [stage |-> "sleep", serial |-> s])  BY <2>1
  <2>3. \A j \in Settlers \ {k} : ~Waits(j, t)
    BY <2>1 DEF StabilizingHasOneWaiter, Waits
  <2>4. ASSUME NEW s \in Serials
        PROVE  s \in stabilizing' <=> \E j \in Settlers : settlers'[j] = [stage |-> "sleep", serial |-> s]
    <3>1. CASE s = t  BY <2>1, <2>2, <2>3, <3>1 DEF Waits
    <3>2. CASE s # t
      <4>1. s \in stabilizing' <=> s \in stabilizing  BY <2>1, <3>2
      <4>2. ~Waits(k, s)  BY <2>1, <3>2 DEF Waits
      <4>3. (\E j \in Settlers : Waits(j, s)) <=>
              \E j \in Settlers : settlers'[j] = [stage |-> "sleep", serial |-> s]
        BY <2>1, <2>2, <4>2 DEF Waits
      <4> QED  BY <4>1, <4>3 DEF StabilizingHasOneWaiter, Waits
    <3> QED  BY <3>1, <3>2
  <2>5. ASSUME NEW s \in Serials, NEW i \in Settlers, NEW j \in Settlers,
               settlers'[i] = settlers'[j], settlers'[j] = [stage |-> "sleep", serial |-> s]
        PROVE  i = j
    <3>1. i # k /\ j # k  BY <2>2, <2>5
    <3>2. settlers[i] = settlers[j] /\ settlers[j] = [stage |-> "sleep", serial |-> s]
      BY <2>1, <2>5, <3>1
    <3> QED  BY <3>2 DEF StabilizingHasOneWaiter
  <2> QED  BY <2>4, <2>5 DEF StabilizingHasOneWaiter
<1>4. CASE ~Settle(k)
  <2>1. /\ UNCHANGED stabilizing /\ settlers[k].stage # "sleep"
        /\ settlers'[k].stage # "sleep"
        /\ \A j \in Settlers \ {k} : settlers'[j] = settlers[j]
    BY <1>1, <1>4 DEF SettlerStep, SettlerUnflag, SettlerList, SettlerGate, SettlerDefer,
                      SettlerCreate, SettlerAt, SettlerGoto, SettlerDone, NoSettler, flagVars
  <2>2. \A j \in Settlers, s \in Serials : Waits(j, s)' <=> Waits(j, s)
    BY <2>1 DEF Waits
  <2> QED  BY <2>1, <2>2, WaitersUntouched
<1> QED  BY <1>3, <1>4

LEMMA StabilizeKeepsWaiters ==
  ASSUME Typed, StabilizingHasOneWaiter, NEW t \in Serials, ReadyStabilize(t)
  PROVE  StabilizingHasOneWaiter'
<1>1. CASE t \in stabilizing /\ UNCHANGED settlers
  BY <1>1 DEF ReadyStabilize, StabilizingHasOneWaiter
<1>2. CASE t \notin stabilizing
  <2>1. PICK k \in Settlers : /\ settlers[k].stage = "free"
                              /\ settlers' = [settlers EXCEPT ![k] = [stage |-> "sleep", serial |-> t]]
    BY <1>2 DEF ReadyStabilize
  <2>2. stabilizing' = stabilizing \cup {t}  BY DEF ReadyStabilize
  <2>3. /\ settlers'[k] = [stage |-> "sleep", serial |-> t]
        /\ \A j \in Settlers \ {k} : settlers'[j] = settlers[j]
    BY <2>1 DEF Typed, ManagerType
  <2>4. \A s \in Serials : ~Waits(k, s)  BY <2>1 DEF Waits
  <2>5. \A j \in Settlers : ~Waits(j, t)  BY <1>2 DEF StabilizingHasOneWaiter, Waits
  <2>6. ASSUME NEW s \in Serials
        PROVE  s \in stabilizing' <=> \E j \in Settlers : settlers'[j] = [stage |-> "sleep", serial |-> s]
    <3>1. CASE s = t  BY <2>2, <2>3, <3>1
    <3>2. CASE s # t
      <4>1. settlers'[k] # [stage |-> "sleep", serial |-> s]  BY <2>3, <3>2
      <4>2. s \in stabilizing' <=> s \in stabilizing  BY <2>2, <3>2
      <4>3. (\E j \in Settlers : Waits(j, s)) <=>
              \E j \in Settlers : settlers'[j] = [stage |-> "sleep", serial |-> s]
        BY <2>3, <2>4, <4>1 DEF Waits
      <4> QED  BY <4>2, <4>3 DEF StabilizingHasOneWaiter, Waits
    <3> QED  BY <3>1, <3>2
  <2>7. ASSUME NEW s \in Serials, NEW i \in Settlers, NEW j \in Settlers,
               settlers'[i] = settlers'[j], settlers'[j] = [stage |-> "sleep", serial |-> s]
        PROVE  i = j
    <3>1. CASE s = t
      <4>1. \A n \in Settlers \ {k} : settlers'[n] # [stage |-> "sleep", serial |-> t]
        BY <2>3, <2>5 DEF Waits
      <4> QED  BY <2>7, <3>1, <4>1
    <3>2. CASE s # t
      <4>1. i # k /\ j # k  BY <2>3, <2>7, <3>2
      <4> QED  BY <2>3, <2>7, <4>1 DEF StabilizingHasOneWaiter
    <3> QED  BY <3>1, <3>2
  <2> QED  BY <2>6, <2>7 DEF StabilizingHasOneWaiter
<1> QED  BY <1>1, <1>2 DEF ReadyStabilize

LEMMA NextKeepsWaiters ==
  Typed /\ StabilizingHasOneWaiter /\ [Next]_vars => StabilizingHasOneWaiter'
<1> SUFFICES ASSUME Typed, StabilizingHasOneWaiter, [Next]_vars
             PROVE  StabilizingHasOneWaiter'
  OBVIOUS
<1>1. ASSUME UNCHANGED <<stabilizing, settlers>> PROVE StabilizingHasOneWaiter'
  BY <1>1 DEF StabilizingHasOneWaiter
<1>2. CASE WsStep
  <2>1. CASE \E s \in Serials : ReadyStabilize(s)  BY <2>1, StabilizeKeepsWaiters
  <2>2. CASE ~\E s \in Serials : ReadyStabilize(s)
    BY <1>1, <1>2, <2>2 DEF WsStep, OnDeviceReady, OnDeviceOffline, OnDeviceDeleted,
         OnBatteryUpdated, ReadyList, ReadyGate, ReadyCreate, DeletedList, DeletedDelete,
         BatteryList, BatteryCreate, flagVars
  <2> QED  BY <2>1, <2>2
<1>3. CASE CpStep
  BY <1>1, <1>3 DEF CpStep, CheckPods, Claim, Collect, Delete, SaveTestResult, MarkRebooting,
                    Purge, flagVars
<1>4. CASE \E k \in Settlers : SettlerStep(k)  BY <1>4, SettlerKeepsWaiters
<1>5. CASE \E u \in Uids : RebooterStep(u)
  BY <1>1, <1>5 DEF RebooterStep, RebootAccepted, RebootRefused, RebootTimesOut,
       RebootSucceeded, RebootFailed, RetryWake, RetryList, RetryCreate, flagVars
<1>6. CASE HubStep \/ Reconnected \/ (\E s \in Serials : PodStep(s)) \/ UNCHANGED vars
  BY <1>1, <1>6 DEF HubStep, Reconnected, PodStep, vars, managerVars, flagVars
<1>7. CASE Restart
  BY <1>7 DEF Restart, StabilizingHasOneWaiter, NoSettler
<1> QED  BY <1>2, <1>3, <1>4, <1>5, <1>6, <1>7 DEF Next

\* However handlers, settlers and reboots interleave, the flag stands for one
\* waiting goroutine: it cannot stick, and no device waits twice
\* (manager.go 402-409).
THEOREM OneWaiter == Spec => []StabilizingHasOneWaiter
<1>1. Init => StabilizingHasOneWaiter
  <2>1. \A s : NoSettler # [stage |-> "sleep", serial |-> s]  BY DEF NoSettler
  <2>2. Init => stabilizing = {} /\ \A k \in Settlers : settlers[k] = NoSettler  BY DEF Init
  <2> QED  BY <2>1, <2>2 DEF StabilizingHasOneWaiter
<1> QED  BY InitTyped, NextKeepsTypes, NextKeepsWaiters, <1>1, PTL DEF Spec

----------------------------------------------------------------------------
(* The battery.  A handler that is about to create a pod has seen the last *)
(* reading of the device: only its own goroutine writes batteryInfo.       *)

Checked ==
  ws.pc \in {"readyCreate", "batteryList", "batteryCreate"} =>
    battery[ws.serial] \notin 0..batteryMinPct

\* The readings that let a deferred device resume are not low.
LEMMA UpdateChecks ==
  ASSUME Typed, NEW s \in Serials, NEW l \in InfoLevels, OnBatteryUpdated(s, l)
  PROVE  Checked'
<1>1. battery' = [battery EXCEPT ![s] = l]  BY DEF OnBatteryUpdated
<1>2. battery'[s] = l  BY <1>1 DEF Typed, ManagerType
<1>3. CASE l >= batteryResumePct /\ WsGoto("batteryList", s)
  <2>1. l \notin 0..batteryMinPct
    BY <1>3, FeedAssumption DEF InfoLevels, Unknown, batteryResumePct, batteryMinPct
  <2>2. ws'.serial = s  BY <1>3 DEF WsGoto
  <2> QED  BY <1>2, <2>1, <2>2 DEF Checked
<1>4. CASE UNCHANGED ws
  BY <1>4 DEF OnBatteryUpdated, Handle, WsIdle, Checked
<1> QED  BY <1>3, <1>4 DEF OnBatteryUpdated

LEMMA WsKeepsChecked ==
  ASSUME Typed, Checked, WsStep
  PROVE  Checked'
<1>1. PICK s \in Serials :
        \/ \E l \in InfoLevels : \/ OnDeviceReady(s, l)
                                 \/ OnDeviceOffline(s, l)
                                 \/ OnDeviceDeleted(s, l)
                                 \/ OnBatteryUpdated(s, l)
        \/ ReadyList(s) \/ ReadyGate(s) \/ ReadyStabilize(s) \/ ReadyCreate(s)
        \/ DeletedList(s) \/ DeletedDelete(s)
        \/ BatteryList(s) \/ BatteryCreate(s)
  BY DEF WsStep
<1>2. ASSUME ws'.pc \notin {"readyCreate", "batteryList", "batteryCreate"}
      PROVE  Checked'
  BY <1>2 DEF Checked
<1>3. ASSUME NEW l \in InfoLevels,
             OnDeviceReady(s, l) \/ OnDeviceOffline(s, l) \/ OnDeviceDeleted(s, l)
      PROVE  Checked'
  <2>1. ws = WsIdle
    BY <1>3 DEF OnDeviceReady, OnDeviceOffline, OnDeviceDeleted, Handle
  <2>2. WsGoto("readyList", s) \/ WsGoto("deletedList", s) \/ UNCHANGED ws
    BY <1>3 DEF OnDeviceReady, OnDeviceOffline, OnDeviceDeleted
  <2>3. ws'.pc \notin {"readyCreate", "batteryList", "batteryCreate"}
    BY <2>1, <2>2 DEF WsGoto, WsIdle
  <2> QED  BY <1>2, <2>3
<1>4. CASE ReadyGate(s)
  BY <1>4 DEF ReadyGate, WsGoto, WsDone, WsIdle, Checked, IsLow, infoVars
<1>5. CASE BatteryList(s)
  BY <1>5 DEF BatteryList, WsAt, WsGoto, WsDone, WsIdle, Checked, infoVars
<1>6. CASE ReadyList(s) \/ ReadyStabilize(s) \/ ReadyCreate(s) \/ DeletedList(s)
           \/ DeletedDelete(s) \/ BatteryCreate(s)
  BY <1>2, <1>6 DEF ReadyList, ReadyStabilize, ReadyCreate, DeletedList, DeletedDelete,
                    BatteryCreate, WsGoto, WsDone, WsIdle
<1> QED  BY <1>1, <1>3, <1>4, <1>5, <1>6, UpdateChecks

LEMMA NextKeepsChecked == Typed /\ Checked /\ [Next]_vars => Checked'
<1> SUFFICES ASSUME Typed, Checked, [Next]_vars PROVE Checked'  OBVIOUS
<1>1. ASSUME UNCHANGED <<ws, battery>> PROVE Checked'
  BY <1>1 DEF Checked
<1>2. CASE WsStep  BY <1>2, WsKeepsChecked
<1>3. CASE CpStep
  BY <1>1, <1>3 DEF CpStep, CheckPods, Claim, Collect, Delete, SaveTestResult, MarkRebooting,
                    Purge, infoVars
<1>4. CASE \E k \in Settlers : SettlerStep(k)
  BY <1>1, <1>4 DEF SettlerStep, Settle, SettlerUnflag, SettlerList, SettlerGate, SettlerDefer,
       SettlerCreate, infoVars
<1>5. CASE \E u \in Uids : RebooterStep(u)
  BY <1>1, <1>5 DEF RebooterStep, RebootAccepted, RebootRefused, RebootTimesOut,
       RebootSucceeded, RebootFailed, RetryWake, RetryList, RetryCreate, infoVars
<1>6. CASE HubStep \/ Reconnected \/ (\E s \in Serials : PodStep(s)) \/ UNCHANGED vars
  BY <1>1, <1>6 DEF HubStep, Reconnected, PodStep, vars, managerVars, infoVars
<1>7. CASE Restart  BY <1>7 DEF Restart, Checked, WsIdle
<1> QED  BY <1>2, <1>3, <1>4, <1>5, <1>6, <1>7 DEF Next

\* A pod that appears is the one that was asked for.
LEMMA CreatesItsOwn ==
  ASSUME Typed, NEW s \in Serials, NEW t \in Serials, CreatePod(t), Creates(s)
  PROVE  s = t
BY DEF Typed, PodTypeOK, CreatePod, CallFails, podVars, Creates, Exists

LEMMA StepRespectsBattery ==
  ASSUME Typed, Checked, [Next]_vars, NEW s \in Serials, Creates(s), ws' # ws
  PROVE  battery[s] \notin 0..batteryMinPct
<1>1. pod' # pod  BY DEF Creates, Exists
<1>2. WsStep
  <2>1. ~CpStep
    BY DEF CpStep, CheckPods, Claim, Collect, Delete, SaveTestResult, MarkRebooting, Purge
  <2>2. ~\E k \in Settlers : SettlerStep(k)
    BY DEF SettlerStep, Settle, SettlerUnflag, SettlerList, SettlerGate, SettlerDefer,
           SettlerCreate
  <2>3. ~\E u \in Uids : RebooterStep(u)
    BY DEF RebooterStep, RebootAccepted, RebootRefused, RebootTimesOut, RebootSucceeded,
           RebootFailed, RetryWake, RetryList, RetryCreate
  <2>4. ~(HubStep \/ Reconnected \/ (\E t \in Serials : PodStep(t)) \/ UNCHANGED vars)
    BY DEF HubStep, Reconnected, PodStep, vars, managerVars
  <2>5. ~Restart  BY <1>1 DEF Restart, podVars
  <2> QED  BY <2>1, <2>2, <2>3, <2>4, <2>5 DEF Next
<1>3. ASSUME NEW t \in Serials, DeletePod(t) PROVE FALSE
  BY <1>3 DEF DeletePod, CallFails, podVars, Creates, Exists, Typed, PodTypeOK
<1>4. PICK t \in Serials : ReadyCreate(t) \/ BatteryCreate(t)
  BY <1>1, <1>2, <1>3 DEF WsStep, OnDeviceReady, OnDeviceOffline, OnDeviceDeleted,
       OnBatteryUpdated, ReadyList, ReadyGate, ReadyStabilize, DeletedList, DeletedDelete,
       BatteryList, ListedNone, ListedSome, CallFails, podVars
<1>5. CreatePod(t) /\ ws.serial = t /\ ws.pc \in {"readyCreate", "batteryCreate"}
  BY <1>4 DEF ReadyCreate, BatteryCreate, WsAt
<1> QED  BY <1>5, CreatesItsOwn DEF Checked

\* No handler starts a test on a device that it knows to be low: the reading it
\* checked is still the last one when the pod is created (manager.go 366-377
\* and 436-469).
THEOREM BatteryRespected == Spec => HandlersRespectBattery
<1>1. Init => Checked  BY DEF Init, WsIdle, Checked
<1>2. Typed /\ Checked /\ [Next]_vars
        => [\A s \in Serials : Creates(s) /\ ws' # ws => battery[s] \notin 0..batteryMinPct]_vars
  BY StepRespectsBattery
<1> QED
  BY InitTyped, NextKeepsTypes, NextKeepsChecked, <1>1, <1>2, PTL DEF Spec, HandlersRespectBattery
=============================================================================
