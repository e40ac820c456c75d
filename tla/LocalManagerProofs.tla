-------------------------- MODULE LocalManagerProofs --------------------------
(***************************************************************************)
(* Theorems about LocalManager for every finite set of devices and every   *)
(* bound, however the two reconcilers and the rebooters interleave.        *)
(***************************************************************************)
EXTENDS LocalManager, FiniteSetTheorems, WellFoundedInduction, SequenceTheorems, TLAPS

----------------------------------------------------------------------------
(* The choice of a port.                                                   *)

LEMMA LeastNat ==
  ASSUME NEW S, S \subseteq Nat, S # {}
  PROVE  \E x \in S : \A y \in S : x <= y
<1> DEFINE Less == OpToRel(<, Nat)
<1>1. IsWellFoundedOn(Less, Nat)  BY NatLessThanWellFounded
<1>2. Less = {ss \in Nat \X Nat : ss[1] < ss[2]}  BY DEF OpToRel
<1> HIDE DEF Less
<1>3. PICK x \in S : \A y \in S : ~(<<y, x>> \in Less)  BY <1>1, WFMin
<1>4. \A y \in S : ~(y < x)  BY <1>2, <1>3
<1> QED  BY <1>4

\* What a reconciler takes for an Appium container: after DropAppium and before
\* StartAppium it has a port or an ID without the rest.
SeenAppium == [id : 0..MaxAppium, status : Statuses \cup {"none"}, port : Ports \cup {0}]
SeenContainers == [appium : SeenAppium, test : TestContainers]
Views == [Serials -> SeenContainers]

\* A device without a port finds one that is free in the list: the other
\* devices cannot hold all ports, as there are as many ports as devices.
LEMMA NextPortIsFree ==
  ASSUME NEW seen \in Views, NEW s \in Serials, seen[s].appium.port = 0
  PROVE  /\ NextPort(seen) \in Ports
         /\ \A t \in Serials : seen[t].appium.port # NextPort(seen)
<1> DEFINE used == {seen[t].appium.port : t \in Serials}
           free == Ports \ used
           n == Cardinality(Serials)
           portOf == [t \in Serials |-> seen[t].appium.port]
<1>1. IsFiniteSet(Serials) /\ n \in Nat
  BY ContainersAssumption, FS_CardinalityType
<1>2. portOf \in Surjection(Serials, used)  BY DEF Surjection
<1>3. IsFiniteSet(used) /\ Cardinality(used) <= n  BY <1>1, <1>2, FS_Surjection
<1>4. 0 \in used /\ 0 \notin Ports  BY DEF Ports
<1>5. /\ IsFiniteSet(used \ {0})
      /\ Cardinality(used \ {0}) = Cardinality(used) - 1
  BY <1>3, <1>4, FS_RemoveElement
<1>6. IsFiniteSet(Ports) /\ Cardinality(Ports) = n
  BY <1>1, FS_Interval DEF Ports
<1>7. Cardinality(used) \in Nat  BY <1>3, FS_CardinalityType
<1>8. free # {}
  <2>1. SUFFICES ASSUME free = {} PROVE FALSE  OBVIOUS
  <2>2. Ports \in SUBSET (used \ {0})  BY <2>1, <1>4
  <2>3. Cardinality(Ports) <= Cardinality(used \ {0})
    <3> HIDE DEF used
    <3> QED  BY <1>5, <2>2, FS_Subset
  <2> QED  BY <1>1, <1>3, <1>5, <1>6, <1>7, <2>3
<1>9. free \subseteq Nat  BY <1>1 DEF Ports
<1>10. \E p \in free : \A q \in free : p <= q
  <2> HIDE DEF free
  <2> QED  BY <1>8, <1>9, LeastNat
<1>11. NextPort(seen) \in free  BY <1>10 DEF NextPort
<1> QED  BY <1>11

----------------------------------------------------------------------------
(* Type correctness.  A goroutine at work knows its device and its row:    *)
(* without that, StartTest could run a container that is none.             *)

Working == {"dropAppium", "createAppium", "startAppium", "test", "delete", "save", "mark",
            "purge", "replace", "createTest", "startTest"}

ReconcilerType ==
  [pc : Stages, ready : SUBSET Serials, drop : SUBSET Serials, todo : SUBSET Serials,
   seen : Views, cur : Serials \cup {None}, run : Nat]
RebooterType == [stage : RebooterStages, serial : Serials \cup {None}, run : Nat]

ReconcilerKnowsItsJob(w) ==
  /\ w.pc \in Working => w.cur \in Serials
  /\ w.pc = "startAppium" => w.seen[w.cur].appium.id # 0
  /\ w.pc \in {"startTest", "delete", "save", "mark"} => w.seen[w.cur].test.id \in TestIds
  /\ w.run # 0 => w.pc = "mark"

WorkersKnowTheirJob ==
  /\ \A r \in Reconcilers : ReconcilerKnowsItsJob(rec[r]) /\ rec[r].run <= Len(rows)
  /\ \A i \in TestIds : /\ rebooters[i].run <= Len(rows)
                        /\ rebooters[i].stage # "none" => rebooters[i].serial \in Serials

ManagerType ==
  /\ rec \in [Reconcilers -> ReconcilerType]
  /\ token \in BOOLEAN
  /\ waiters \subseteq TestIds
  /\ rebooters \in [TestIds -> RebooterType]
  /\ rebooting \subseteq Serials
  /\ reported \subseteq TestIds
  /\ wrongMode \subseteq Picky
  /\ rows \in Seq(Row)

Typed == AdbTypeOK /\ ContainersTypeOK /\ ManagerType /\ WorkersKnowTheirJob

\* The rest of the type is untouched by a step that changes rec[r] only.
RecMoves(r, w) ==
  /\ rec' = [rec EXCEPT ![r] = w]
  /\ w \in ReconcilerType
  /\ ReconcilerKnowsItsJob(w)
  /\ w.run <= Len(rows)

LEMMA RecType ==
  ASSUME Typed, NEW r \in Reconcilers, NEW w, RecMoves(r, w), UNCHANGED <<rows, rebooters>>
  PROVE  /\ rec' \in [Reconcilers -> ReconcilerType]
         /\ WorkersKnowTheirJob'
<1>1. rec \in [Reconcilers -> ReconcilerType]  BY DEF Typed, ManagerType
<1>2. rec' \in [Reconcilers -> ReconcilerType]  BY <1>1 DEF RecMoves
<1>3. \A q \in Reconcilers : rec'[q] = IF q = r THEN w ELSE rec[q]
  BY <1>1 DEF RecMoves
<1>4. \A q \in Reconcilers : ReconcilerKnowsItsJob(rec[q]) /\ rec[q].run <= Len(rows)
  BY DEF Typed, WorkersKnowTheirJob
<1>5. \A q \in Reconcilers : ReconcilerKnowsItsJob(rec'[q]) /\ rec'[q].run <= Len(rows')
  BY <1>3, <1>4 DEF RecMoves
<1> QED  BY <1>2, <1>5 DEF Typed, WorkersKnowTheirJob

LEMMA Bounds ==
  /\ MaxAppium \in Nat /\ MaxTest \in Nat /\ MaxFaults \in Nat
  /\ Cardinality(Serials) \in Nat
  /\ 0 \notin TestIds /\ TestIds \subseteq Nat
  /\ NoTest \in TestContainers /\ NoAppium \in SeenAppium /\ NoAppium \in AppiumContainers
  /\ AppiumContainers \subseteq SeenAppium
  /\ Nothing \in SeenContainers
<1>1. MaxAppium \in Nat /\ MaxTest \in Nat /\ MaxFaults \in Nat
  BY ContainersAssumption
<1>2. Cardinality(Serials) \in Nat  BY ContainersAssumption, FS_CardinalityType
<1>3. 0 \notin TestIds /\ TestIds \subseteq Nat  BY <1>1 DEF TestIds
<1>4. NoTest \in TestContainers  BY DEF TestContainers
<1>5. NoAppium \in AppiumContainers  BY DEF AppiumContainers
<1>6. NoAppium \in SeenAppium  BY <1>1 DEF NoAppium, SeenAppium
<1>7. AppiumContainers \subseteq SeenAppium
  BY <1>1, <1>6 DEF AppiumContainers, SeenAppium
<1>8. Nothing \in SeenContainers  BY <1>4, <1>6 DEF Nothing, SeenContainers
<1> QED  BY <1>1, <1>2, <1>3, <1>4, <1>5, <1>6, <1>7, <1>8

LEMMA FoundType == ASSUME ContainersTypeOK PROVE Found \in Views
BY Bounds DEF ContainersTypeOK, Found, Views, SeenContainers

\* The calls of the Docker API that only remove something, or fail.
LEMMA CallsType ==
  ASSUME ContainersTypeOK, NEW s \in Serials, NEW id,
         CallFails \/ RemoveAppium(s, id) \/ RemoveTest(s, id) \/ RemoveTestByName(s)
           \/ UNCHANGED containerVars
  PROVE  ContainersTypeOK'
<1>1. CASE CallFails  BY <1>1, Bounds DEF CallFails, ContainersTypeOK
<1>2. CASE RemoveAppium(s, id)  BY <1>1, <1>2, Bounds DEF RemoveAppium, ContainersTypeOK
<1>3. CASE RemoveTest(s, id)  BY <1>1, <1>3, Bounds DEF RemoveTest, ContainersTypeOK
<1>4. CASE RemoveTestByName(s)  BY <1>1, <1>4, Bounds DEF RemoveTestByName, ContainersTypeOK
<1>5. CASE UNCHANGED containerVars  BY <1>5 DEF containerVars, ContainersTypeOK
<1> QED  BY <1>1, <1>2, <1>3, <1>4, <1>5

\* The three ways a reconciler moves on.
LEMMA StopMoves ==
  ASSUME Typed, NEW r \in Reconcilers, Stop(r)
  PROVE  RecMoves(r, Idle)
<1>1. Idle \in ReconcilerType
  BY Bounds DEF Idle, ReconcilerType, Stages, Views
<1>2. ReconcilerKnowsItsJob(Idle)  BY DEF Idle, ReconcilerKnowsItsJob, Working
<1>3. Idle.run <= Len(rows)
  BY DEF Idle, Typed, ManagerType
<1> QED  BY <1>1, <1>2, <1>3 DEF RecMoves, Stop

LEMMA GotoMoves ==
  ASSUME Typed, NEW r \in Reconcilers, NEW pc \in Stages, Goto(r, pc),
         pc \in Working => rec[r].cur \in Serials,
         pc \notin {"startAppium", "mark"}, rec[r].run = 0,
         pc \in {"startTest", "delete", "save"} => Seen(r).test.id \in TestIds
  PROVE  RecMoves(r, [rec[r] EXCEPT !.pc = pc])
<1> DEFINE w == [rec[r] EXCEPT !.pc = pc]
<1>1. rec \in [Reconcilers -> ReconcilerType] /\ Len(rows) \in Nat  BY DEF Typed, ManagerType
<1>2. rec' = [rec EXCEPT ![r] = w]  BY <1>1 DEF Goto
<1>3. /\ w \in ReconcilerType /\ w.pc = pc /\ w.cur = rec[r].cur /\ w.seen = rec[r].seen
      /\ w.run = 0
  BY <1>1 DEF ReconcilerType
<1> HIDE DEF w
<1>4. ReconcilerKnowsItsJob(w)  BY <1>3 DEF ReconcilerKnowsItsJob, Seen, Cur
<1> QED  BY <1>1, <1>2, <1>3, <1>4 DEF RecMoves, w

LEMMA NextDeviceMoves ==
  ASSUME Typed, NEW r \in Reconcilers, NextDevice(r)
  PROVE  \E w : RecMoves(r, w)
<1> DEFINE v == [rec[r] EXCEPT !.pc = "pass", !.cur = None, !.run = 0]
<1>1. rec \in [Reconcilers -> ReconcilerType] /\ Len(rows) \in Nat  BY DEF Typed, ManagerType
<1>2. CASE rec[r].drop \cup rec[r].todo = {}
  BY <1>2, StopMoves DEF NextDevice, Stop
<1>3. CASE rec[r].drop \cup rec[r].todo # {}
  <2>1. rec' = [rec EXCEPT ![r] = v]  BY <1>3 DEF NextDevice
  <2>2. v \in ReconcilerType /\ v.pc = "pass" /\ v.run = 0
    BY <1>1 DEF ReconcilerType, Stages
  <2> HIDE DEF v
  <2>3. RecMoves(r, v)
    BY <1>1, <2>1, <2>2 DEF RecMoves, ReconcilerKnowsItsJob, Working
  <2> QED  BY <2>3
<1> QED  BY <1>2, <1>3

\* A step of a reconciler that stores no row and starts no goroutine.
LEMMA QuietMove ==
  ASSUME Typed, NEW r \in Reconcilers, NEW w, RecMoves(r, w), ContainersTypeOK', AdbTypeOK',
         UNCHANGED <<token, rebooters, rows>>, waiters' \subseteq TestIds,
         rebooting' \subseteq Serials, reported' \subseteq TestIds, wrongMode' \subseteq Picky
  PROVE  Typed'
BY RecType DEF Typed, ManagerType

\* What QuietMove asks of the variables that most steps leave alone.
LEMMA RestType ==
  ASSUME Typed
  PROVE  /\ UNCHANGED adbVars => AdbTypeOK'
         /\ UNCHANGED goVars => UNCHANGED <<token, rebooters>> /\ waiters' \subseteq TestIds
         /\ UNCHANGED mapVars => /\ rebooting' \subseteq Serials
                                 /\ reported' \subseteq TestIds
                                 /\ wrongMode' \subseteq Picky
BY DEF Typed, AdbTypeOK, adbVars, goVars, mapVars, ManagerType

LEMMA FetchType ==
  ASSUME Typed, NEW r \in Reconcilers, Fetch(r)
  PROVE  Typed'
<1> DEFINE w == [rec[r] EXCEPT !.pc = "list", !.ready = Ready(adb)]
<1>1. rec \in [Reconcilers -> ReconcilerType] /\ Len(rows) \in Nat  BY DEF Typed, ManagerType
<1>2. CASE Stop(r) /\ (UNCHANGED containerVars \/ CallFails)
  <2>1. ContainersTypeOK'  BY <1>2, CallsType, ContainersAssumption DEF Typed, CallFails, containerVars, ContainersTypeOK
  <2> QED  BY <1>2, <2>1, StopMoves, QuietMove, RestType DEF Fetch
<1>3. CASE rec' = [rec EXCEPT ![r].pc = "list", ![r].ready = Ready(adb)] /\ UNCHANGED containerVars
  <2>1. rec' = [rec EXCEPT ![r] = w]  BY <1>1, <1>3
  <2>2. Ready(adb) \in SUBSET Serials  BY DEF Ready
  <2>3. w \in ReconcilerType /\ w.pc = "list" /\ w.run = rec[r].run
    BY <1>1, <2>2 DEF ReconcilerType, Stages
  <2>4. rec[r].run = 0
    BY <1>1 DEF Fetch, At, Typed, WorkersKnowTheirJob, ReconcilerKnowsItsJob
  <2> HIDE DEF w
  <2>5. RecMoves(r, w)
    BY <1>1, <2>1, <2>3, <2>4 DEF RecMoves, ReconcilerKnowsItsJob, Working
  <2>6. ContainersTypeOK'  BY <1>3 DEF Typed, containerVars, ContainersTypeOK
  <2> QED  BY <2>5, <2>6, QuietMove, RestType DEF Fetch
<1> QED  BY <1>2, <1>3 DEF Fetch

LEMMA ListType ==
  ASSUME Typed, NEW r \in Reconcilers, List(r)
  PROVE  Typed'
<1> DEFINE drop == {s \in Serials \ (rec[r].ready \cup wrongMode) : Found[s] # Nothing}
           w == [Idle EXCEPT !.pc = "pass", !.seen = Found,
                             !.drop = drop, !.todo = rec[r].ready]
<1>1. rec \in [Reconcilers -> ReconcilerType] /\ Len(rows) \in Nat  BY DEF Typed, ManagerType
<1>2. CASE Stop(r) /\ (UNCHANGED containerVars \/ CallFails)
  <2>1. ContainersTypeOK'
    BY <1>2, Bounds DEF Typed, CallFails, containerVars, ContainersTypeOK
  <2> QED  BY <1>2, <2>1, StopMoves, QuietMove, RestType DEF List
<1>3. CASE rec' = [rec EXCEPT ![r] = w] /\ UNCHANGED containerVars
  <2>1. Found \in Views  BY FoundType DEF Typed
  <2>2. drop \in SUBSET Serials  OBVIOUS
  <2> HIDE DEF drop
  <2>3. w \in ReconcilerType /\ w.pc = "pass" /\ w.run = 0
    BY <1>1, <2>1, <2>2 DEF Idle, ReconcilerType, Stages
  <2> HIDE DEF w
  <2>4. RecMoves(r, w)
    BY <1>1, <1>3, <2>3 DEF RecMoves, ReconcilerKnowsItsJob, Working
  <2>5. ContainersTypeOK'  BY <1>3 DEF Typed, containerVars, ContainersTypeOK
  <2> QED  BY <2>4, <2>5, QuietMove, RestType DEF List
<1>4. \/ Stop(r) /\ (UNCHANGED containerVars \/ CallFails)
      \/ rec' = [rec EXCEPT ![r] = w] /\ UNCHANGED containerVars
  BY DEF List, Stop
<1> QED  BY <1>2, <1>3, <1>4

LEMMA RemoveDeviceType ==
  ASSUME Typed, NEW r \in Reconcilers, NEW s \in rec[r].drop, RemoveDevice(r, s)
  PROVE  Typed'
<1> DEFINE w == [rec[r] EXCEPT !.drop = @ \ {s}]
<1>1. rec \in [Reconcilers -> ReconcilerType] /\ Len(rows) \in Nat  BY DEF Typed, ManagerType
<1>2. ContainersTypeOK'
  BY Bounds DEF Typed, ContainersTypeOK, RemoveDevice
<1>3. CASE Stop(r)
  BY <1>2, <1>3, StopMoves, QuietMove, RestType DEF RemoveDevice
<1>4. CASE rec' = [rec EXCEPT ![r] = w]
  <2>1. w \in ReconcilerType /\ w.pc = "pass" /\ w.run = rec[r].run
    BY <1>1 DEF ReconcilerType, RemoveDevice, At
  <2>2. rec[r].run = 0
    BY DEF RemoveDevice, At, Typed, WorkersKnowTheirJob, ReconcilerKnowsItsJob
  <2> HIDE DEF w
  <2>3. RecMoves(r, w)
    BY <1>1, <1>4, <2>1, <2>2 DEF RecMoves, ReconcilerKnowsItsJob, Working
  <2> QED  BY <1>2, <2>3, QuietMove, RestType DEF RemoveDevice
<1>5. Stop(r) \/ rec' = [rec EXCEPT ![r] = w]  BY <1>1 DEF RemoveDevice, Stop
<1> QED  BY <1>3, <1>4, <1>5

LEMMA StartDeviceType ==
  ASSUME Typed, NEW r \in Reconcilers, NEW s \in rec[r].todo, StartDevice(r, s)
  PROVE  Typed'
<1> DEFINE todo == rec[r].todo \ {s}
           w(pc) == [rec[r] EXCEPT !.pc = pc, !.cur = s, !.todo = todo]
           v == [rec[r] EXCEPT !.todo = todo]
<1>1. /\ rec \in [Reconcilers -> ReconcilerType] /\ Len(rows) \in Nat
      /\ s \in Serials /\ todo \in SUBSET Serials
  BY DEF Typed, ManagerType, ReconcilerType
<1>2. ContainersTypeOK'  BY DEF Typed, ContainersTypeOK, containerVars, StartDevice
<1>3. rec[r].pc = "pass" /\ rec[r].run = 0
  BY DEF StartDevice, At, Typed, WorkersKnowTheirJob, ReconcilerKnowsItsJob
<1>4. CASE Stop(r)
  BY <1>2, <1>4, StopMoves, QuietMove, RestType DEF StartDevice
<1>5. ASSUME NEW pc \in {"test", "createAppium", "dropAppium"}, rec' = [rec EXCEPT ![r] = w(pc)]
      PROVE  Typed'
  <2>1. w(pc) \in ReconcilerType /\ w(pc).pc = pc /\ w(pc).run = 0 /\ w(pc).cur = s
    BY <1>1, <1>3 DEF ReconcilerType, Stages
  <2> HIDE DEF w
  <2>2. RecMoves(r, w(pc))
    BY <1>1, <1>5, <2>1 DEF RecMoves, ReconcilerKnowsItsJob
  <2> QED  BY <1>2, <2>2, QuietMove, RestType DEF StartDevice
<1>6. CASE rec' = [rec EXCEPT ![r] = v]
  <2>1. v \in ReconcilerType /\ v.pc = "pass" /\ v.run = 0
    BY <1>1, <1>3 DEF ReconcilerType
  <2> HIDE DEF v
  <2>2. RecMoves(r, v)
    BY <1>1, <1>6, <2>1 DEF RecMoves, ReconcilerKnowsItsJob, Working
  <2> QED  BY <1>2, <2>2, QuietMove, RestType DEF StartDevice
<1>7. \/ Stop(r) \/ rec' = [rec EXCEPT ![r] = v]
      \/ \E pc \in {"test", "createAppium", "dropAppium"} : rec' = [rec EXCEPT ![r] = w(pc)]
  BY <1>1 DEF StartDevice, Stop
<1> QED  BY <1>4, <1>5, <1>6, <1>7

LEMMA DropAppiumType ==
  ASSUME Typed, NEW r \in Reconcilers, DropAppium(r)
  PROVE  Typed'
<1> DEFINE s == rec[r].cur
           a == [rec[r].seen[s].appium EXCEPT !.id = 0, !.status = "none"]
           seen == [rec[r].seen EXCEPT ![s] = [rec[r].seen[s] EXCEPT !.appium = a]]
           w == [rec[r] EXCEPT !.pc = "createAppium", !.seen = seen]
<1>1. /\ rec \in [Reconcilers -> ReconcilerType] /\ Len(rows) \in Nat
      /\ rec[r].pc = "dropAppium" /\ rec[r].run = 0 /\ s \in Serials
  BY DEF DropAppium, At, Typed, ManagerType, WorkersKnowTheirJob, ReconcilerKnowsItsJob, Working
<1>2. ContainersTypeOK'  BY <1>1, CallsType DEF Typed, DropAppium, Cur
<1>3. rec[r].seen \in Views /\ rec[r].seen[s] \in SeenContainers
  BY <1>1 DEF ReconcilerType, Views
<1>4. a \in SeenAppium
  <2>1. rec[r].seen[s].appium \in SeenAppium  BY <1>3 DEF SeenContainers
  <2>2. 0 \in 0..MaxAppium  BY Bounds
  <2> QED  BY <2>1, <2>2 DEF SeenAppium
<1> HIDE DEF a
<1>5. seen \in Views  BY <1>1, <1>3, <1>4 DEF Views, SeenContainers
<1>6. rec' = [rec EXCEPT ![r] = w]  BY <1>1, <1>3 DEF DropAppium, Cur, Seen, a
<1> HIDE DEF seen
<1>7. w \in ReconcilerType /\ w.pc = "createAppium" /\ w.run = 0 /\ w.cur = s
  BY <1>1, <1>5 DEF ReconcilerType, Stages
<1> HIDE DEF w
<1>8. RecMoves(r, w)
  BY <1>1, <1>6, <1>7 DEF RecMoves, ReconcilerKnowsItsJob
<1> QED  BY <1>2, <1>8, QuietMove, RestType DEF DropAppium

LEMMA KilledType ==
  ASSUME ContainersTypeOK, NEW port
  PROVE  Killed(port) \in [Serials -> AppiumContainers]
<1> SUFFICES ASSUME NEW s \in Serials, appium[s].status = "running"
             PROVE  [appium[s] EXCEPT !.status = "exited"] \in AppiumContainers
  BY DEF Killed, ContainersTypeOK
<1>1. appium[s] \in AppiumContainers /\ appium[s] # NoAppium
  BY DEF ContainersTypeOK, NoAppium
<1> QED  BY <1>1 DEF AppiumContainers, Statuses

\* A reconciler replaces what it takes for the Appium container of its device.
LEMMA SeenAppiumMoves ==
  ASSUME Typed, NEW r \in Reconcilers, NEW a \in SeenAppium,
         NEW pc \in {"test", "startAppium"}, pc = "startAppium" => a.id # 0,
         rec[r].pc \in Working \ {"mark"},
         rec' = [rec EXCEPT ![r].pc = pc, ![r].seen[rec[r].cur].appium = a]
  PROVE  \E w : RecMoves(r, w)
<1> DEFINE s == rec[r].cur
           seen == [rec[r].seen EXCEPT ![s] = [rec[r].seen[s] EXCEPT !.appium = a]]
           w == [rec[r] EXCEPT !.pc = pc, !.seen = seen]
<1>1. /\ rec \in [Reconcilers -> ReconcilerType] /\ Len(rows) \in Nat
      /\ rec[r].run = 0 /\ s \in Serials
  BY DEF Typed, ManagerType, WorkersKnowTheirJob, ReconcilerKnowsItsJob
<1>2. rec[r].seen \in Views /\ rec[r].seen[s] \in SeenContainers
  BY <1>1 DEF ReconcilerType, Views
<1>3. seen \in Views /\ seen[s].appium = a  BY <1>1, <1>2 DEF Views, SeenContainers
<1>4. rec' = [rec EXCEPT ![r] = w]  BY <1>1, <1>2
<1> HIDE DEF seen
<1>5. w \in ReconcilerType /\ w.pc = pc /\ w.run = 0 /\ w.cur = s /\ w.seen = seen
  BY <1>1, <1>3 DEF ReconcilerType, Stages
<1> HIDE DEF w
<1>6. w.seen[w.cur].appium = a  BY <1>3, <1>5
<1>7. ReconcilerKnowsItsJob(w)
  BY <1>1, <1>5, <1>6 DEF ReconcilerKnowsItsJob
<1>8. w.run <= Len(rows)  BY <1>1, <1>5
<1>9. w \in ReconcilerType  BY <1>5
<1> QED  BY <1>4, <1>7, <1>8, <1>9 DEF RecMoves

LEMMA CreateAppiumType ==
  ASSUME Typed, NEW r \in Reconcilers, CreateAppium(r)
  PROVE  Typed'
<1> DEFINE s == rec[r].cur
           port == IF rec[r].seen[s].appium.port # 0 THEN rec[r].seen[s].appium.port
                                                     ELSE NextPort(rec[r].seen)
           killed == Killed(port)
           new == [id |-> made.appium + 1, status |-> "created", port |-> port]
<1>1. /\ rec \in [Reconcilers -> ReconcilerType] /\ s \in Serials
      /\ rec[r].pc = "createAppium"
  BY DEF CreateAppium, At, Typed, ManagerType, WorkersKnowTheirJob, ReconcilerKnowsItsJob, Working
<1>2. rec[r].seen \in Views  BY <1>1 DEF ReconcilerType
<1>3. port \in Ports
  BY <1>1, <1>2, NextPortIsFree DEF Views, SeenContainers, SeenAppium
<1> HIDE DEF port
<1>4. killed \in [Serials -> AppiumContainers]  BY KilledType DEF Typed
<1> HIDE DEF killed
<1>5. wrongMode' \subseteq Picky
  BY LocalAssumption DEF CreateAppium, Connected, Typed, ManagerType
<1>6. ASSUME ContainersTypeOK', NEW w, RecMoves(r, w) PROVE Typed'
  BY <1>5, <1>6, QuietMove, RestType DEF CreateAppium, Typed, ManagerType, goVars
<1>7. /\ made \in [appium : 0..MaxAppium, test : 0..MaxTest]
      /\ test \in [Serials -> TestContainers] /\ faults \in 0..MaxFaults
      /\ test' = test /\ faults' = faults
  BY DEF Typed, ContainersTypeOK, CreateAppium
<1>8. CASE /\ appium' = killed
           /\ rec' = [rec EXCEPT ![r].pc = "test", ![r].seen[s].appium = killed[s]]
           /\ UNCHANGED made
  <2>1. ContainersTypeOK'  BY <1>4, <1>7, <1>8 DEF ContainersTypeOK
  <2>2. killed[s] \in SeenAppium  BY <1>1, <1>4, Bounds
  <2>3. \E w : RecMoves(r, w)  BY <1>1, <1>8, <2>2, SeenAppiumMoves DEF Working
  <2> QED  BY <1>6, <2>1, <2>3
<1>9. CASE /\ made.appium < MaxAppium
           /\ appium' = [killed EXCEPT ![s] = new]
           /\ made' = [made EXCEPT !.appium = @ + 1]
           /\ rec' = [rec EXCEPT ![r].pc = "startAppium", ![r].seen[s].appium.id = new.id]
  <2>1. new \in AppiumContainers /\ new.id \in 1..MaxAppium
    BY <1>3, <1>7, <1>9, Bounds DEF AppiumContainers, Statuses
  <2>2. made' \in [appium : 0..MaxAppium, test : 0..MaxTest]  BY <1>7, <1>9, Bounds
  <2>3. ContainersTypeOK'  BY <1>1, <1>4, <1>7, <1>9, <2>1, <2>2 DEF ContainersTypeOK
  <2> DEFINE a == [rec[r].seen[s].appium EXCEPT !.id = new.id]
  <2>4. rec[r].seen[s].appium \in SeenAppium  BY <1>1, <1>2 DEF Views, SeenContainers
  <2>5. a \in SeenAppium /\ a.id # 0  BY <2>1, <2>4, Bounds DEF SeenAppium
  <2>6. rec' = [rec EXCEPT ![r].pc = "startAppium", ![r].seen[rec[r].cur].appium = a]
    BY <1>1, <1>2, <1>9 DEF Views, SeenContainers
  <2> HIDE DEF a, new
  <2>7. \E w : RecMoves(r, w)  BY <1>1, <2>5, <2>6, SeenAppiumMoves DEF Working
  <2> QED  BY <1>6, <2>3, <2>7
<1>10. CASE appium' = killed /\ NextDevice(r) /\ UNCHANGED made
  <2>1. ContainersTypeOK'  BY <1>4, <1>7, <1>10 DEF ContainersTypeOK
  <2> QED  BY <1>6, <1>10, <2>1, NextDeviceMoves
<1> QED  BY <1>8, <1>9, <1>10 DEF CreateAppium, Cur, Seen, killed, port

LEMMA StartAppiumType ==
  ASSUME Typed, NEW r \in Reconcilers, StartAppium(r)
  PROVE  Typed'
<1> DEFINE s == rec[r].cur
<1>1. /\ rec \in [Reconcilers -> ReconcilerType] /\ s \in Serials
      /\ rec[r].pc = "startAppium" /\ rec[r].seen[s].appium.id # 0
  BY DEF StartAppium, At, Typed, ManagerType, WorkersKnowTheirJob, ReconcilerKnowsItsJob, Working
<1>2. wrongMode' \subseteq Picky
  BY LocalAssumption DEF StartAppium, Connected, Typed, ManagerType
<1>3. ASSUME ContainersTypeOK', NEW w, RecMoves(r, w) PROVE Typed'
  BY <1>2, <1>3, QuietMove, RestType DEF StartAppium, Typed, ManagerType, goVars
<1>4. /\ appium \in [Serials -> AppiumContainers] /\ faults \in 0..MaxFaults
      /\ appium' \in [Serials -> AppiumContainers] /\ faults' \in 0..MaxFaults
         => ContainersTypeOK'
  BY DEF Typed, ContainersTypeOK, StartAppium
<1>5. CASE /\ appium[s].id = rec[r].seen[s].appium.id
           /\ appium' = [appium EXCEPT ![s].status = "running"]
           /\ rec' = [rec EXCEPT ![r].pc = "test", ![r].seen[s].appium = appium'[s]]
           /\ UNCHANGED faults
  <2> DEFINE a == [appium[s] EXCEPT !.status = "running"]
  <2>1. appium[s] \in AppiumContainers /\ appium[s] # NoAppium
    BY <1>1, <1>4, <1>5 DEF NoAppium
  <2>2. a \in AppiumContainers  BY <2>1 DEF AppiumContainers, Statuses
  <2>3. appium' = [appium EXCEPT ![s] = a]  BY <1>1, <1>4, <1>5
  <2> HIDE DEF a
  <2>4. appium' \in [Serials -> AppiumContainers] /\ appium'[s] = a
    BY <1>1, <1>4, <2>2, <2>3
  <2>5. \E w : RecMoves(r, w)
    BY <1>1, <1>5, <2>2, <2>4, Bounds, SeenAppiumMoves DEF Working
  <2> QED  BY <1>3, <1>4, <1>5, <2>4, <2>5
<1>6. CASE NextDevice(r) /\ UNCHANGED <<appium, faults>>
  BY <1>3, <1>4, <1>6, NextDeviceMoves
<1>7. CASE /\ faults > 0 /\ faults' = faults - 1
           /\ appium' = [appium EXCEPT ![s] = NoAppium]
           /\ NextDevice(r)
  <2>1. faults' \in 0..MaxFaults  BY <1>4, <1>7, Bounds
  <2>2. NoAppium \in AppiumContainers  BY Bounds
  <2>3. appium' \in [Serials -> AppiumContainers]  BY <1>1, <1>4, <1>7, <2>2
  <2> QED  BY <1>3, <1>4, <1>7, <2>1, <2>3, NextDeviceMoves
<1> QED  BY <1>5, <1>6, <1>7 DEF StartAppium, Cur, Seen

\* What holds of a reconciler that works on a device.
LEMMA AtWork ==
  ASSUME Typed, NEW r \in Reconcilers, rec[r].pc \in Working
  PROVE  /\ rec \in [Reconcilers -> ReconcilerType]
         /\ Len(rows) \in Nat
         /\ Cur(r) \in Serials
         /\ Seen(r) \in SeenContainers
         /\ rec[r].pc # "mark" => rec[r].run = 0
         /\ Seen(r).test.status # "none" => Seen(r).test.id \in TestIds
<1>1. rec \in [Reconcilers -> ReconcilerType] /\ Len(rows) \in Nat  BY DEF Typed, ManagerType
<1>2. Cur(r) \in Serials /\ (rec[r].pc # "mark" => rec[r].run = 0)
  BY DEF Typed, WorkersKnowTheirJob, ReconcilerKnowsItsJob, Cur
<1>3. rec[r].seen \in Views  BY <1>1 DEF ReconcilerType
<1>4. Seen(r) \in SeenContainers  BY <1>2, <1>3 DEF Views, Seen
<1>5. Seen(r).test \in TestContainers  BY <1>4 DEF SeenContainers
<1>6. Seen(r).test.status # "none" => Seen(r).test.id \in TestIds
  BY <1>5 DEF TestContainers, NoTest
<1> QED  BY <1>1, <1>2, <1>4, <1>6

LEMMA CheckTestType ==
  ASSUME Typed, NEW r \in Reconcilers, CheckTest(r)
  PROVE  Typed'
<1>1. rec[r].pc \in Working /\ rec[r].pc = "test"  BY DEF CheckTest, At, Working
<1>2. /\ Cur(r) \in Serials /\ rec[r].run = 0
      /\ Seen(r).test.status # "none" => Seen(r).test.id \in TestIds
  BY <1>1, AtWork
<1>3. ContainersTypeOK' /\ AdbTypeOK' /\ UNCHANGED <<token, rebooters, rows>>
  BY DEF CheckTest, Typed, ContainersTypeOK, containerVars, AdbTypeOK, adbVars, goVars
<1>4. waiters' \subseteq TestIds /\ rebooting' \subseteq Serials /\ wrongMode' \subseteq Picky
  BY DEF CheckTest, Typed, ManagerType, goVars
<1>5. reported' \subseteq TestIds
  <2>1. reported \subseteq TestIds  BY DEF Typed, ManagerType
  <2>2. \/ reported' = reported
        \/ /\ Seen(r).test.status \in {"created", "exited"}
           /\ reported' = reported \cup {Seen(r).test.id}
    BY DEF CheckTest
  <2> QED  BY <1>2, <2>1, <2>2
<1>6. \/ NextDevice(r)
      \/ Goto(r, "purge")
      \/ Goto(r, "delete") /\ Seen(r).test.status \in {"created", "exited"}
      \/ Goto(r, "replace")
  BY DEF CheckTest
<1>7. \E w : RecMoves(r, w)
  <2>1. "purge" \in Stages /\ "delete" \in Stages /\ "replace" \in Stages  BY DEF Stages
  <2>2. CASE Goto(r, "purge")  BY <1>2, <2>1, <2>2, GotoMoves DEF Cur
  <2>3. CASE Goto(r, "delete") /\ Seen(r).test.status \in {"created", "exited"}
    BY <1>2, <2>1, <2>3, GotoMoves DEF Cur
  <2>4. CASE Goto(r, "replace")  BY <1>2, <2>1, <2>4, GotoMoves DEF Cur
  <2> QED  BY <1>6, <2>2, <2>3, <2>4, NextDeviceMoves
<1> QED  BY <1>3, <1>4, <1>5, <1>7, QuietMove

LEMMA PurgeType ==
  ASSUME Typed, NEW r \in Reconcilers, Purge(r)
  PROVE  Typed'
<1>1. Cur(r) \in Serials  BY AtWork DEF Purge, At, Working
<1>2. ContainersTypeOK'  BY <1>1, CallsType DEF Typed, Purge
<1>3. \E w : RecMoves(r, w)  BY NextDeviceMoves DEF Purge
<1> QED  BY <1>2, <1>3, QuietMove, RestType DEF Purge

LEMMA DeleteType ==
  ASSUME Typed, NEW r \in Reconcilers, Delete(r)
  PROVE  Typed'
<1>1. rec[r].pc \in Working /\ rec[r].pc = "delete"  BY DEF Delete, At, Working
<1>2. Cur(r) \in Serials /\ rec[r].run = 0  BY <1>1, AtWork
<1>3. ContainersTypeOK'  BY <1>2, CallsType DEF Typed, Delete
<1>4. Seen(r).test.id \in TestIds
  BY <1>1 DEF Typed, WorkersKnowTheirJob, ReconcilerKnowsItsJob, Seen, Cur
<1>5. "save" \in Stages  BY DEF Stages
<1>6. \E w : RecMoves(r, w)  BY <1>2, <1>4, <1>5, GotoMoves DEF Delete, Cur
<1> QED  BY <1>3, <1>6, QuietMove, RestType DEF Delete

LEMMA ReplaceType ==
  ASSUME Typed, NEW r \in Reconcilers, Replace(r)
  PROVE  Typed'
<1>1. rec[r].pc \in Working /\ rec[r].pc = "replace"  BY DEF Replace, At, Working
<1>2. Cur(r) \in Serials /\ rec[r].run = 0  BY <1>1, AtWork
<1>3. ContainersTypeOK'  BY <1>2, CallsType DEF Typed, Replace
<1>4. "createTest" \in Stages  BY DEF Stages
<1>5. \E w : RecMoves(r, w)  BY <1>2, <1>4, GotoMoves, NextDeviceMoves DEF Replace, Cur
<1> QED  BY <1>3, <1>5, QuietMove, RestType DEF Replace

LEMMA SaveTestResultType ==
  ASSUME Typed, NEW r \in Reconcilers, SaveTestResult(r)
  PROVE  Typed'
<1> DEFINE row == [test |-> Seen(r).test.id, boot |-> "none"]
           n == Len(rows) + 1
           w == [rec[r] EXCEPT !.pc = "mark", !.run = n]
           v == [rec[r] EXCEPT !.pc = "mark"]
<1>1. rec[r].pc \in Working /\ rec[r].pc = "save"  BY DEF SaveTestResult, At, Working
<1>2. /\ rec \in [Reconcilers -> ReconcilerType] /\ Len(rows) \in Nat
      /\ Cur(r) \in Serials /\ rec[r].run = 0
  BY <1>1, AtWork
<1>3. Seen(r).test.id \in TestIds
  BY <1>1 DEF Typed, WorkersKnowTheirJob, ReconcilerKnowsItsJob, Seen, Cur
<1>4. "mark" \in Stages  BY DEF Stages
<1>5. CASE /\ rows' = Append(rows, row)
           /\ rec' = [rec EXCEPT ![r].pc = "mark", ![r].run = Len(rows) + 1]
           /\ UNCHANGED containerVars
  <2>1. rec' = [rec EXCEPT ![r] = w]  BY <1>2, <1>5
  <2> n \in Nat /\ n = Len(rows) + 1  BY <1>2
  <2> HIDE DEF n
  <2>2. w \in ReconcilerType  BY <1>2, <1>4 DEF ReconcilerType
  <2>3. /\ w.pc = "mark" /\ w.run = n
        /\ w.cur = rec[r].cur /\ w.seen = rec[r].seen
    BY <1>2 DEF ReconcilerType
  <2> HIDE DEF w
  <2>4. ReconcilerKnowsItsJob(w)
    BY <1>2, <1>3, <2>3 DEF ReconcilerKnowsItsJob, Seen, Cur
  <2>5. row \in Row  BY <1>3 DEF Row
  <2> HIDE DEF row
  <2>6. rows \in Seq(Row)  BY DEF Typed, ManagerType
  <2>7. rows' \in Seq(Row) /\ Len(rows') = Len(rows) + 1
    BY <1>5, <2>5, <2>6
  <2>8. rec' \in [Reconcilers -> ReconcilerType]  BY <1>2, <2>1, <2>2
  <2>9. \A q \in Reconcilers : ReconcilerKnowsItsJob(rec'[q]) /\ rec'[q].run <= Len(rows')
    <3>1. \A q \in Reconcilers : rec'[q] = IF q = r THEN w ELSE rec[q]  BY <1>2, <2>1
    <3>2. \A q \in Reconcilers : /\ ReconcilerKnowsItsJob(rec[q])
                                 /\ rec[q].run <= Len(rows)
      BY DEF Typed, WorkersKnowTheirJob
    <3>3. \A q \in Reconcilers : rec[q].run \in Nat  BY <1>2 DEF ReconcilerType
    <3>4. \A q \in Reconcilers : ReconcilerKnowsItsJob(rec'[q])  BY <2>4, <3>1, <3>2
    <3>5. \A q \in Reconcilers : rec'[q].run <= Len(rows')
      BY <1>2, <2>3, <2>7, <3>1, <3>2, <3>3
    <3> QED  BY <3>4, <3>5
  <2>10. rebooters' = rebooters /\ rebooters \in [TestIds -> RebooterType]
    BY DEF SaveTestResult, goVars, Typed, ManagerType
  <2>11. \A i \in TestIds : /\ rebooters'[i].run <= Len(rows')
                            /\ rebooters'[i].stage # "none" => rebooters'[i].serial \in Serials
    <3>1. \A i \in TestIds : rebooters[i].run \in Nat  BY <2>10 DEF RebooterType
    <3>2. \A i \in TestIds : /\ rebooters[i].run <= Len(rows)
                             /\ rebooters[i].stage # "none" => rebooters[i].serial \in Serials
      BY DEF Typed, WorkersKnowTheirJob
    <3> QED  BY <1>2, <2>7, <2>10, <3>1, <3>2
  <2>12. WorkersKnowTheirJob'  BY <2>9, <2>11 DEF WorkersKnowTheirJob
  <2>13. AdbTypeOK' /\ ContainersTypeOK'
    BY <1>5 DEF SaveTestResult, Typed, AdbTypeOK, adbVars, ContainersTypeOK, containerVars
  <2>14. ManagerType'
    BY <2>7, <2>8, <2>10 DEF SaveTestResult, Typed, ManagerType, goVars, mapVars
  <2> QED  BY <2>12, <2>13, <2>14 DEF Typed
<1>6. CASE CallFails /\ Goto(r, "mark") /\ UNCHANGED rows
  <2>1. rec' = [rec EXCEPT ![r] = v]  BY <1>2, <1>6 DEF Goto
  <2>2. v \in ReconcilerType  BY <1>2, <1>4 DEF ReconcilerType
  <2>3. v.pc = "mark" /\ v.run = 0 /\ v.cur = rec[r].cur /\ v.seen = rec[r].seen
    BY <1>2 DEF ReconcilerType
  <2> HIDE DEF v
  <2>4. ReconcilerKnowsItsJob(v)
    BY <1>2, <1>3, <2>3 DEF ReconcilerKnowsItsJob, Seen, Cur
  <2>5. RecMoves(r, v)  BY <1>2, <2>1, <2>2, <2>3, <2>4 DEF RecMoves
  <2>6. ContainersTypeOK'  BY <1>2, <1>6, CallsType DEF Typed
  <2> QED  BY <1>6, <2>5, <2>6, QuietMove, RestType DEF SaveTestResult
<1> QED  BY <1>5, <1>6 DEF SaveTestResult

LEMMA MarkRebootingType ==
  ASSUME Typed, NEW r \in Reconcilers, MarkRebooting(r)
  PROVE  Typed'
<1> DEFINE t == Seen(r).test.id
           new == [stage |-> "request", serial |-> Cur(r), run |-> rec[r].run]
<1>1. rec[r].pc \in Working /\ rec[r].pc = "mark"  BY DEF MarkRebooting, At, Working
<1>2. /\ rec \in [Reconcilers -> ReconcilerType] /\ Len(rows) \in Nat
      /\ Cur(r) \in Serials
  BY <1>1, AtWork
<1>3. rec[r].run \in Nat /\ rec[r].run <= Len(rows)
  BY <1>2 DEF ReconcilerType, Typed, WorkersKnowTheirJob
<1>4. /\ new \in RebooterType /\ new.run <= Len(rows) /\ new.serial \in Serials
  BY <1>2, <1>3 DEF RebooterType, RebooterStages
<1>5. rebooters' = [rebooters EXCEPT ![t] = new]  BY DEF MarkRebooting
<1> HIDE DEF new, t
<1>6. rebooters \in [TestIds -> RebooterType]  BY DEF Typed, ManagerType
<1>7. rebooters' \in [TestIds -> RebooterType]  BY <1>4, <1>5, <1>6
<1>8. PICK w : RecMoves(r, w)  BY NextDeviceMoves DEF MarkRebooting
<1>9. rec' \in [Reconcilers -> ReconcilerType]  BY <1>2, <1>8 DEF RecMoves
<1>10. UNCHANGED rows  BY DEF MarkRebooting
<1>11. \A q \in Reconcilers : ReconcilerKnowsItsJob(rec'[q]) /\ rec'[q].run <= Len(rows')
  <2>1. \A q \in Reconcilers : rec'[q] = IF q = r THEN w ELSE rec[q]
    BY <1>2, <1>8 DEF RecMoves
  <2>2. \A q \in Reconcilers : ReconcilerKnowsItsJob(rec[q]) /\ rec[q].run <= Len(rows)
    BY DEF Typed, WorkersKnowTheirJob
  <2> QED  BY <1>8, <1>10, <2>1, <2>2 DEF RecMoves
<1>12. \A i \in TestIds : /\ rebooters'[i].run <= Len(rows')
                          /\ rebooters'[i].stage # "none" => rebooters'[i].serial \in Serials
  <2>1. \A i \in TestIds : rebooters'[i] = IF i = t THEN new ELSE rebooters[i]
    BY <1>5, <1>6
  <2>2. \A i \in TestIds : /\ rebooters[i].run <= Len(rows)
                           /\ rebooters[i].stage # "none" => rebooters[i].serial \in Serials
    BY DEF Typed, WorkersKnowTheirJob
  <2> QED  BY <1>4, <1>10, <2>1, <2>2
<1>13. WorkersKnowTheirJob'  BY <1>11, <1>12 DEF WorkersKnowTheirJob
<1>14. AdbTypeOK' /\ ContainersTypeOK'
  BY DEF MarkRebooting, Typed, AdbTypeOK, adbVars, ContainersTypeOK, containerVars
<1>15. ManagerType'
  BY <1>2, <1>7, <1>9, <1>10 DEF MarkRebooting, Typed, ManagerType
<1> QED  BY <1>13, <1>14, <1>15 DEF Typed

LEMMA CreateTestType ==
  ASSUME Typed, NEW r \in Reconcilers, CreateTest(r)
  PROVE  Typed'
<1> DEFINE s == rec[r].cur
           id == made.test + 1
           new == [id |-> id, status |-> "created"]
           seen == [rec[r].seen EXCEPT ![s] = [rec[r].seen[s] EXCEPT !.test = new]]
           w == [rec[r] EXCEPT !.pc = "startTest", !.seen = seen]
<1>1. rec[r].pc \in Working /\ rec[r].pc = "createTest"  BY DEF CreateTest, At, Working
<1>2. /\ rec \in [Reconcilers -> ReconcilerType] /\ Len(rows) \in Nat
      /\ s \in Serials /\ rec[r].run = 0
  BY <1>1, AtWork DEF Cur
<1>3. /\ made \in [appium : 0..MaxAppium, test : 0..MaxTest]
      /\ test \in [Serials -> TestContainers] /\ faults \in 0..MaxFaults
      /\ appium \in [Serials -> AppiumContainers]
  BY DEF Typed, ContainersTypeOK
<1>4. CASE /\ made.test < MaxTest
           /\ test' = [test EXCEPT ![s] = new]
           /\ made' = [made EXCEPT !.test = id]
           /\ rec' = [rec EXCEPT ![r].pc = "startTest", ![r].seen[s].test = new]
  <2>1. id \in TestIds /\ made' \in [appium : 0..MaxAppium, test : 0..MaxTest]
    BY <1>3, <1>4, Bounds DEF TestIds
  <2>2. new \in TestContainers  BY <2>1 DEF TestContainers, Statuses
  <2>3. new.id \in TestIds  BY <2>1
  <2> HIDE DEF id, new
  <2>4. ContainersTypeOK'
    <3>1. test' \in [Serials -> TestContainers]  BY <1>2, <1>3, <1>4, <2>2
    <3>2. appium' = appium /\ faults' = faults  BY DEF CreateTest
    <3> QED  BY <1>3, <2>1, <3>1, <3>2 DEF ContainersTypeOK
  <2>5. rec[r].seen \in Views /\ rec[r].seen[s] \in SeenContainers
    BY <1>2 DEF ReconcilerType, Views
  <2>6. seen \in Views /\ seen[s].test = new  BY <1>2, <2>2, <2>5 DEF Views, SeenContainers
  <2>7. rec' = [rec EXCEPT ![r] = w]  BY <1>2, <1>4, <2>5
  <2> HIDE DEF seen
  <2>8. w \in ReconcilerType  BY <1>2, <2>6 DEF ReconcilerType, Stages
  <2>9. w.pc = "startTest" /\ w.run = 0 /\ w.cur = s /\ w.seen = seen
    BY <1>2 DEF ReconcilerType
  <2> HIDE DEF w
  <2>10. w.seen[w.cur].test.id \in TestIds  BY <2>3, <2>6, <2>9
  <2>11. ReconcilerKnowsItsJob(w)  BY <1>2, <2>9, <2>10 DEF ReconcilerKnowsItsJob
  <2>12. w.run <= Len(rows)  BY <1>2, <2>9
  <2>13. RecMoves(r, w)  BY <2>7, <2>8, <2>11, <2>12 DEF RecMoves
  <2> QED  BY <2>4, <2>13, QuietMove, RestType DEF CreateTest
<1>5. CASE NextDevice(r) /\ UNCHANGED <<test, made>>
  <2>1. ContainersTypeOK'  BY <1>3, <1>5 DEF CreateTest, ContainersTypeOK
  <2> QED  BY <1>5, <2>1, NextDeviceMoves, QuietMove, RestType DEF CreateTest
<1> QED  BY <1>4, <1>5 DEF CreateTest, Cur

LEMMA StartTestType ==
  ASSUME Typed, NEW r \in Reconcilers, StartTest(r)
  PROVE  Typed'
<1> DEFINE s == rec[r].cur
           id == Seen(r).test.id
<1>1. rec[r].pc \in Working /\ rec[r].pc = "startTest"  BY DEF StartTest, At, Working
<1>2. s \in Serials  BY <1>1, AtWork DEF Cur
<1>3. id \in TestIds
  BY <1>1 DEF Typed, WorkersKnowTheirJob, ReconcilerKnowsItsJob, Seen, Cur
<1> HIDE DEF id
<1>4. /\ test \in [Serials -> TestContainers] /\ faults \in 0..MaxFaults
      /\ waiters \subseteq TestIds
      /\ test' \in [Serials -> TestContainers] /\ faults' \in 0..MaxFaults
         => ContainersTypeOK'
  BY DEF Typed, ContainersTypeOK, StartTest, ManagerType
<1>5. \/ /\ test[s].id = id
         /\ test' = [test EXCEPT ![s].status = "running"]
         /\ waiters' = waiters \cup {id}
         /\ UNCHANGED faults
      \/ UNCHANGED <<test, waiters, faults>>
      \/ /\ faults > 0
         /\ faults' = faults - 1
         /\ test' = [test EXCEPT ![s] = NoTest]
         /\ UNCHANGED waiters
  BY DEF StartTest, Cur, id
<1>6. test' \in [Serials -> TestContainers]
  <2>1. CASE test[s].id = id /\ test' = [test EXCEPT ![s].status = "running"]
    <3>1. test[s] \in [id : TestIds, status : Statuses]
      BY <1>2, <1>3, <1>4, <2>1, Bounds DEF TestContainers, NoTest
    <3>2. [test[s] EXCEPT !.status = "running"] \in TestContainers
      BY <3>1 DEF TestContainers, Statuses
    <3> QED  BY <1>2, <1>4, <2>1, <3>2
  <2>2. CASE test' = [test EXCEPT ![s] = NoTest]  BY <1>4, <2>2, Bounds
  <2>3. CASE UNCHANGED test  BY <1>4, <2>3
  <2> QED  BY <1>5, <2>1, <2>2, <2>3
<1>7. faults' \in 0..MaxFaults  BY <1>4, <1>5, Bounds
<1>8. waiters' \subseteq TestIds  BY <1>3, <1>4, <1>5
<1>9. \E w : RecMoves(r, w)  BY NextDeviceMoves DEF StartTest
<1> QED  BY <1>4, <1>6, <1>7, <1>8, <1>9, QuietMove, RestType DEF StartTest

\* The worker waits for a signal, and the other goroutine for a list.
LEMMA WakeDrainType ==
  ASSUME Typed, Wake \/ Drain
  PROVE  Typed'
<1>1. /\ rec \in [Reconcilers -> ReconcilerType] /\ Len(rows) \in Nat
      /\ "worker" \in Reconcilers
  BY DEF Typed, ManagerType, Reconcilers
<1>2. rec["worker"].run = 0
  BY <1>1 DEF Wake, Drain, At, Typed, WorkersKnowTheirJob, ReconcilerKnowsItsJob
<1>3. PICK pc \in {"debounce", "fetch"} : Goto("worker", pc)  BY DEF Wake, Drain
<1>4. pc \in Stages /\ pc \notin Working  BY DEF Stages, Working
<1>5. PICK w : RecMoves("worker", w)
  BY <1>1, <1>2, <1>3, <1>4, GotoMoves DEF Working
<1>6. rec' \in [Reconcilers -> ReconcilerType] /\ WorkersKnowTheirJob'
  BY <1>1, <1>5, RecType DEF Wake, Drain
<1>7. AdbTypeOK' /\ ContainersTypeOK'
  BY DEF Wake, Drain, Typed, AdbTypeOK, adbVars, ContainersTypeOK, containerVars
<1>8. ManagerType'  BY <1>6 DEF Wake, Drain, Typed, ManagerType, mapVars
<1> QED  BY <1>6, <1>7, <1>8 DEF Typed

\* The feed.
LEMMA FeedType ==
  ASSUME AdbTypeOK,
         \/ Reconnect \/ Skip \/ \E list \in Lists : Deliver(list)
         \/ \E s \in Serials, state \in AdbStates : Change(s, state)
  PROVE  AdbTypeOK'
<1>1. NoDevices \in Lists  BY DEF NoDevices, Lists, AdbStates
<1>2. CASE Reconnect
  <2>1. <<adb>> \in Seq(Lists)  BY DEF AdbTypeOK
  <2> QED  BY <1>1, <1>2, <2>1 DEF Reconnect, AdbTypeOK
<1>3. CASE Skip
  <2>1. Tail(feed) \in Seq(Lists)  BY <1>3 DEF Skip, AdbTypeOK
  <2> QED  BY <1>3, <2>1 DEF Skip, AdbTypeOK
<1>4. ASSUME NEW list \in Lists, Deliver(list) PROVE AdbTypeOK'
  <2>1. Tail(feed) \in Seq(Lists)  BY <1>4 DEF Deliver, AdbTypeOK
  <2> QED  BY <1>4, <2>1 DEF Deliver, AdbTypeOK
<1>5. ASSUME NEW s \in Serials, NEW state \in AdbStates, Change(s, state) PROVE AdbTypeOK'
  <2>1. adb' \in Lists  BY <1>5 DEF Change, AdbTypeOK, Lists
  <2>2. Append(feed, adb') \in Seq(Lists)  BY <2>1 DEF AdbTypeOK
  <2> QED  BY <1>5, <2>1, <2>2 DEF Change, AdbTypeOK
<1> QED  BY <1>2, <1>3, <1>4, <1>5

LEMMA TrackType ==
  ASSUME Typed, Track
  PROVE  Typed'
<1> DEFINE w(list) == [rec["main"] EXCEPT !.pc = "list", !.ready = Ready(list)]
<1>1. /\ rec \in [Reconcilers -> ReconcilerType] /\ Len(rows) \in Nat
      /\ "main" \in Reconcilers
  BY DEF Typed, ManagerType, Reconcilers
<1>2. rec["main"].run = 0
  BY <1>1 DEF Track, At, Typed, WorkersKnowTheirJob, ReconcilerKnowsItsJob
<1>3. AdbTypeOK'  BY FeedType DEF Track, Typed
<1>4. ContainersTypeOK'  BY DEF Track, Typed, containerVars, ContainersTypeOK
<1>5. CASE UNCHANGED rec
  <2>1. ManagerType'  BY <1>5 DEF Track, Typed, ManagerType, goVars, mapVars
  <2>2. WorkersKnowTheirJob'
    BY <1>5 DEF Track, Typed, WorkersKnowTheirJob, goVars
  <2> QED  BY <1>3, <1>4, <2>1, <2>2 DEF Typed
<1>6. CASE Goto("main", "fetch")
  <2>1. "fetch" \in Stages /\ "fetch" \notin Working  BY DEF Stages, Working
  <2>2. PICK v : RecMoves("main", v)  BY <1>1, <1>2, <1>6, <2>1, GotoMoves
  <2> QED  BY <1>1, <1>3, <1>4, <2>2, QuietMove, RestType DEF Track
<1>7. ASSUME NEW list \in Lists,
             rec' = [rec EXCEPT !["main"].pc = "list", !["main"].ready = Ready(list)]
      PROVE  Typed'
  <2>1. Ready(list) \in SUBSET Serials  BY DEF Ready
  <2>2. rec' = [rec EXCEPT !["main"] = w(list)]  BY <1>1, <1>7
  <2>3. w(list) \in ReconcilerType /\ w(list).pc = "list" /\ w(list).run = 0
    BY <1>1, <1>2, <2>1 DEF ReconcilerType, Stages
  <2> HIDE DEF w
  <2>4. ReconcilerKnowsItsJob(w(list))  BY <2>3 DEF ReconcilerKnowsItsJob, Working
  <2>5. RecMoves("main", w(list))  BY <1>1, <2>2, <2>3, <2>4 DEF RecMoves
  <2> QED  BY <1>1, <1>3, <1>4, <2>5, QuietMove, RestType DEF Track
<1> QED  BY <1>5, <1>6, <1>7 DEF Track

\* What changes neither the reconcilers nor the rebooters.
LEMMA OthersType ==
  ASSUME Typed,
         \/ Keepalive \/ DeviceStep
         \/ \E i \in TestIds : WaiterSignals(i)
         \/ \E s \in Serials : ContainerStep(s) \/ SetUSBInfo(s)
  PROVE  Typed'
<1>1. UNCHANGED <<rec, rows, rebooters, rebooting, reported>>
  BY DEF Keepalive, DeviceStep, WaiterSignals, ContainerStep, SetUSBInfo, goVars, mapVars
<1>2. WorkersKnowTheirJob'
  BY <1>1 DEF Typed, WorkersKnowTheirJob
<1>3. token' \in BOOLEAN /\ waiters' \subseteq TestIds /\ wrongMode' \subseteq Picky
  BY LocalAssumption
     DEF Keepalive, DeviceStep, WaiterSignals, Signal, ContainerStep, SetUSBInfo,
         goVars, mapVars, Typed, ManagerType
<1>4. ManagerType'  BY <1>1, <1>3 DEF Typed, ManagerType
<1>5. AdbTypeOK'
  <2>1. CASE Keepalive \/ DeviceStep  BY <2>1, FeedType DEF Keepalive, DeviceStep, Typed
  <2>2. CASE UNCHANGED adbVars  BY <2>2, RestType
  <2> QED  BY <2>1, <2>2 DEF WaiterSignals, ContainerStep, SetUSBInfo
<1>6. ContainersTypeOK'
  <2>1. ASSUME NEW s \in Serials, TestEnds(s) PROVE ContainersTypeOK'
    <3>1. test \in [Serials -> TestContainers] /\ test[s] # NoTest
      BY <2>1 DEF TestEnds, Typed, ContainersTypeOK, NoTest
    <3>2. [test[s] EXCEPT !.status = "exited"] \in TestContainers
      BY <3>1 DEF TestContainers, Statuses
    <3> QED  BY <2>1, <3>1, <3>2 DEF TestEnds, Typed, ContainersTypeOK
  <2>2. ASSUME NEW s \in Serials, AppiumCrashes(s) PROVE ContainersTypeOK'
    <3>1. appium \in [Serials -> AppiumContainers] /\ appium[s] # NoAppium
      BY <2>2 DEF AppiumCrashes, Typed, ContainersTypeOK, NoAppium
    <3>2. [appium[s] EXCEPT !.status = "exited"] \in AppiumContainers
      BY <3>1 DEF AppiumContainers, Statuses
    <3>3. appium' \in [Serials -> AppiumContainers]
      BY <2>2, <3>1, <3>2 DEF AppiumCrashes
    <3>4. faults' \in 0..MaxFaults  BY <2>2, Bounds DEF AppiumCrashes, Typed, ContainersTypeOK
    <3> QED  BY <2>2, <3>3, <3>4 DEF AppiumCrashes, Typed, ContainersTypeOK
  <2>3. CASE UNCHANGED containerVars
    BY <2>3 DEF Typed, containerVars, ContainersTypeOK
  <2> QED
    BY <2>1, <2>2, <2>3 DEF Keepalive, DeviceStep, WaiterSignals, ContainerStep, SetUSBInfo
<1> QED  BY <1>2, <1>4, <1>5, <1>6 DEF Typed

\* A verdict changes its row and no other.
LEMMA UpdateBootResultEffect ==
  ASSUME rows \in Seq(Row), NEW run \in Nat, run <= Len(rows),
         NEW verdict \in {"ok", "failed"}, UpdateBootResult(run, verdict)
  PROVE  /\ rows' \in Seq(Row)
         /\ Len(rows') = Len(rows)
         /\ \A k \in 1..Len(rows) :
              rows'[k] = IF k = run THEN [rows[k] EXCEPT !.boot = verdict] ELSE rows[k]
<1>1. CASE run = 0 /\ UNCHANGED rows  BY <1>1
<1>2. CASE run # 0 /\ rows' = [rows EXCEPT ![run].boot = verdict]
  <2> DEFINE new == [rows[run] EXCEPT !.boot = verdict]
  <2>1. run \in 1..Len(rows)  BY <1>2
  <2>2. rows[run] \in Row  BY <2>1
  <2>3. new \in Row  BY <2>2 DEF Row
  <2>4. rows' = [rows EXCEPT ![run] = new]  BY <1>2, <2>1
  <2>5. /\ rows' \in Seq(Row) /\ Len(rows') = Len(rows)
        /\ \A k \in 1..Len(rows) : rows'[k] = IF k = run THEN new ELSE rows[k]
    <3> HIDE DEF new
    <3> QED  BY <2>1, <2>3, <2>4, ExceptSeq
  <2> QED  BY <2>5
<1> QED  BY <1>1, <1>2 DEF UpdateBootResult

LEMMA RebooterStepType ==
  ASSUME Typed, NEW i \in TestIds, RebooterStep(i)
  PROVE  Typed'
<1>1. /\ rebooters \in [TestIds -> RebooterType] /\ rows \in Seq(Row)
      /\ rebooters[i].run <= Len(rows)
      /\ \A j \in TestIds : /\ rebooters[j].run <= Len(rows)
                            /\ rebooters[j].stage # "none" => rebooters[j].serial \in Serials
  BY DEF Typed, ManagerType, WorkersKnowTheirJob
<1>2. rebooters[i] \in RebooterType /\ rebooters[i].run \in Nat  BY <1>1 DEF RebooterType
<1>3. rows' \in Seq(Row) /\ Len(rows') = Len(rows)
  <2>1. \/ UNCHANGED rows
        \/ \E v \in {"ok", "failed"} : UpdateBootResult(rebooters[i].run, v)
    BY DEF RebooterStep, RebootSent, RebootFailed, RebootSucceeded, RebooterSignals
  <2> QED  BY <1>1, <1>2, <2>1, UpdateBootResultEffect
<1>4. PICK w : /\ rebooters' = [rebooters EXCEPT ![i] = w]
               /\ w \in RebooterType /\ w.run <= Len(rows)
               /\ w.stage # "none" => w.serial \in Serials
  <2>1. CASE rebooters' = [rebooters EXCEPT ![i] = NoRebooter]
    <3>1. NoRebooter \in RebooterType /\ NoRebooter.run = 0 /\ NoRebooter.stage = "none"
      BY DEF NoRebooter, RebooterType, RebooterStages
    <3>2. NoRebooter.run <= Len(rows)  BY <1>1, <3>1
    <3> QED  BY <2>1, <3>1, <3>2
  <2>2. ASSUME NEW stage \in {"wait", "signal"}, RebooterGoto(i, stage),
               rebooters[i].stage # "none"
        PROVE  \E v : /\ rebooters' = [rebooters EXCEPT ![i] = v]
                      /\ v \in RebooterType /\ v.run <= Len(rows)
                      /\ v.stage # "none" => v.serial \in Serials
    <3> DEFINE v == [rebooters[i] EXCEPT !.stage = stage]
    <3>1. rebooters' = [rebooters EXCEPT ![i] = v]  BY <1>1, <2>2 DEF RebooterGoto
    <3>2. /\ v \in RebooterType
          /\ v.run = rebooters[i].run /\ v.serial = rebooters[i].serial
      BY <1>2 DEF RebooterType, RebooterStages
    <3> HIDE DEF v
    <3>3. v.run <= Len(rows) /\ v.serial \in Serials  BY <1>1, <2>2, <3>2
    <3> QED  BY <3>1, <3>2, <3>3
  <2>3. \/ rebooters' = [rebooters EXCEPT ![i] = NoRebooter]
        \/ \E stage \in {"wait", "signal"} :
             RebooterGoto(i, stage) /\ rebooters[i].stage # "none"
    BY DEF RebooterStep, RebootSent, RebootFailed, RebootSucceeded, RebooterSignals, RebooterAt
  <2> QED  BY <2>1, <2>2, <2>3
<1>5. rebooters' \in [TestIds -> RebooterType]  BY <1>1, <1>4
<1>6. \A j \in TestIds : /\ rebooters'[j].run <= Len(rows')
                         /\ rebooters'[j].stage # "none" => rebooters'[j].serial \in Serials
  <2>1. \A j \in TestIds : rebooters'[j] = IF j = i THEN w ELSE rebooters[j]
    BY <1>1, <1>4
  <2> QED  BY <1>1, <1>3, <1>4, <2>1
<1>7. UNCHANGED <<rec, waiters, reported, wrongMode, adbVars, containerVars>>
  BY DEF RebooterStep, RebootSent, RebootFailed, RebootSucceeded, RebooterSignals, mapVars
<1>8. token' \in BOOLEAN /\ rebooting' \subseteq Serials
  BY DEF RebooterStep, RebootSent, RebootFailed, RebootSucceeded, RebooterSignals, Signal,
         mapVars, Typed, ManagerType
<1>9. ManagerType'  BY <1>3, <1>5, <1>7, <1>8 DEF Typed, ManagerType
<1>10. \A r \in Reconcilers : ReconcilerKnowsItsJob(rec'[r]) /\ rec'[r].run <= Len(rows')
  BY <1>3, <1>7 DEF Typed, WorkersKnowTheirJob
<1>11. WorkersKnowTheirJob'  BY <1>6, <1>10 DEF WorkersKnowTheirJob
<1>12. AdbTypeOK' /\ ContainersTypeOK'
  BY <1>7 DEF Typed, AdbTypeOK, adbVars, ContainersTypeOK, containerVars
<1> QED  BY <1>9, <1>11, <1>12 DEF Typed

LEMMA InitTyped == Init => Typed
<1> SUFFICES ASSUME Init PROVE Typed  OBVIOUS
<1>1. AdbTypeOK
  <2>1. NoDevices \in Lists  BY DEF NoDevices, Lists, AdbStates
  <2>2. adb \in Lists /\ tracking \in BOOLEAN /\ prevSnapshot = NoDevices /\ feed = <<>>
    BY DEF Init, AdbInit
  <2>3. feed \in Seq(Lists)  BY <2>2
  <2> QED  BY <2>1, <2>2, <2>3 DEF AdbTypeOK
<1>2. ContainersTypeOK
  <2>1. CASE /\ appium = [s \in Serials |-> NoAppium]
             /\ test = [s \in Serials |-> NoTest]
             /\ made = [appium |-> 0, test |-> 0]
             /\ faults = MaxFaults
    BY <2>1, Bounds DEF ContainersTypeOK
  <2>2. ASSUME NEW s \in Serials, NEW status \in {"running", "exited"},
               appium = [[t \in Serials |-> NoAppium] EXCEPT ![s] =
                           [id |-> 1, status |-> "running", port |-> 1]],
               test = [[t \in Serials |-> NoTest] EXCEPT ![s] = [id |-> 1, status |-> status]],
               made = [appium |-> 1, test |-> 1],
               faults = MaxFaults
        PROVE  ContainersTypeOK
    <3>1. Cardinality(Serials) # 0  BY ContainersAssumption, FS_EmptySet
    <3>2. 1 \in Ports /\ 1 \in TestIds /\ 1 \in 1..MaxAppium
      BY <3>1, Bounds, ContainersAssumption DEF Ports, TestIds
    <3>3. [id |-> 1, status |-> "running", port |-> 1] \in AppiumContainers
      BY <3>2 DEF AppiumContainers, Statuses
    <3>4. [id |-> 1, status |-> status] \in TestContainers
      BY <3>2 DEF TestContainers, Statuses
    <3>5. appium \in [Serials -> AppiumContainers]  BY <2>2, <3>3, Bounds
    <3>6. test \in [Serials -> TestContainers]  BY <2>2, <3>4, Bounds
    <3>7. /\ made \in [appium : 0..MaxAppium, test : 0..MaxTest]
          /\ faults \in 0..MaxFaults
      BY <2>2, Bounds, ContainersAssumption
    <3> QED  BY <3>5, <3>6, <3>7 DEF ContainersTypeOK
  <2> QED  BY <2>1, <2>2 DEF Init, ContainersInit
<1>3. Idle \in ReconcilerType /\ [Idle EXCEPT !.pc = "fetch"] \in ReconcilerType
  BY Bounds DEF Idle, ReconcilerType, Stages, Views
<1>4. rec \in [Reconcilers -> ReconcilerType]  BY <1>3 DEF Init
<1>5. \A r \in Reconcilers : rec[r].pc \in {"idle", "fetch"} /\ rec[r].run = 0
  BY DEF Init, Idle
<1>6. rows = <<>> /\ Len(rows) = 0 /\ rows \in Seq(Row)  BY DEF Init
<1>7. /\ NoRebooter \in RebooterType /\ NoRebooter.run = 0 /\ NoRebooter.stage = "none"
      /\ rebooters = [i \in TestIds |-> NoRebooter]
  BY DEF Init, NoRebooter, RebooterType, RebooterStages
<1>8. ManagerType
  BY <1>4, <1>6, <1>7 DEF Init, ManagerType
<1>9. \A r \in Reconcilers : ReconcilerKnowsItsJob(rec[r]) /\ rec[r].run <= Len(rows)
  BY <1>5, <1>6 DEF ReconcilerKnowsItsJob, Working
<1>10. \A i \in TestIds : /\ rebooters[i].run <= Len(rows)
                          /\ rebooters[i].stage # "none" => rebooters[i].serial \in Serials
  BY <1>6, <1>7
<1>11. WorkersKnowTheirJob  BY <1>9, <1>10 DEF WorkersKnowTheirJob
<1> QED  BY <1>1, <1>2, <1>8, <1>11 DEF Typed

LEMMA ReconcileStepType ==
  ASSUME Typed, NEW r \in Reconcilers, ReconcileStep(r)
  PROVE  Typed'
BY FetchType, ListType, RemoveDeviceType, StartDeviceType, DropAppiumType, CreateAppiumType,
   StartAppiumType, CheckTestType, PurgeType, DeleteType, SaveTestResultType,
   MarkRebootingType, ReplaceType, CreateTestType, StartTestType
   DEF ReconcileStep

LEMMA NextKeepsTypes == Typed /\ [Next]_vars => Typed'
<1> SUFFICES ASSUME Typed, [Next]_vars PROVE Typed'  OBVIOUS
<1>1. CASE UNCHANGED vars
  BY <1>1 DEF vars, adbVars, containerVars, goVars, mapVars, Typed, AdbTypeOK,
              ContainersTypeOK, ManagerType, WorkersKnowTheirJob
<1>2. CASE Track  BY <1>2, TrackType
<1>3. CASE Wake \/ Drain  BY <1>3, WakeDrainType
<1>4. ASSUME NEW r \in Reconcilers, ReconcileStep(r) PROVE Typed'
  BY <1>4, ReconcileStepType
<1>5. ASSUME NEW i \in TestIds, RebooterStep(i) PROVE Typed'  BY <1>5, RebooterStepType
<1>6. CASE \/ Keepalive \/ DeviceStep
           \/ \E i \in TestIds : WaiterSignals(i)
           \/ \E s \in Serials : ContainerStep(s) \/ SetUSBInfo(s)
  BY <1>6, OthersType
<1> QED
  BY <1>1, <1>2, <1>3, <1>4, <1>5, <1>6 DEF Next, MainStep, WorkerStep, Reconcilers

\* TypeOK, for any number of devices and containers: among it, a device that
\* needs a port always finds one (nextPort), and every goroutine that stores a
\* verdict has a row to store it in.
THEOREM TypeCorrect == Spec => []TypeOK
<1>1. Typed => TypeOK
  BY DEF Typed, TypeOK, ManagerType, ReconcilerType, Views, SeenContainers, SeenAppium,
         RebooterType
<1> QED  BY <1>1, InitTyped, NextKeepsTypes, PTL DEF Spec

----------------------------------------------------------------------------
(* The results.  Between LoadOrStore and the verdict the only record that  *)
(* a test has been claimed is spread over reported, a reconciler's place   *)
(* in reportTestResult, the rows and a rebooter.  Ledger says that these   *)
(* agree: at any time at most one goroutine has the right to store the     *)
(* row of a test, and at most one the right to store the verdict in it.    *)

Reporting(w) == w.pc \in {"delete", "save", "mark"}
TestOf(w) == w.seen[w.cur].test.id

\* The row still waits for its verdict.
Pending(table, n, i) == n # 0 => table[n] = [test |-> i, boot |-> "none"]

RowsClaimed == \A k \in 1..Len(rows) : rows[k].test \in reported

RowsDistinct == \A j, k \in 1..Len(rows) : rows[j].test = rows[k].test => j = k

ReportersClaimed ==
  \A r \in Reconcilers : Reporting(rec[r]) =>
    /\ TestOf(rec[r]) \in reported
    /\ rebooters[TestOf(rec[r])].stage = "none"
    /\ Pending(rows, rec[r].run, TestOf(rec[r]))
    /\ rec[r].pc # "mark" => \A k \in 1..Len(rows) : rows[k].test # TestOf(rec[r])

ReportersDistinct ==
  \A q, r \in Reconcilers :
    Reporting(rec[q]) /\ Reporting(rec[r]) /\ TestOf(rec[q]) = TestOf(rec[r]) => q = r

RebootersClaimed ==
  \A i \in TestIds :
    /\ rebooters[i].stage # "none" => i \in reported
    /\ rebooters[i].stage \in {"request", "wait"} => Pending(rows, rebooters[i].run, i)

Ledger ==
  /\ RowsClaimed /\ RowsDistinct
  /\ ReportersClaimed /\ ReportersDistinct
  /\ RebootersClaimed /\ RebootingHasOwner

\* A step of reconciler r that has nothing to do with results.
QuietRec(r) ==
  /\ \A q \in Reconcilers \ {r} : rec'[q] = rec[q]
  /\ ~Reporting(rec'[r])
  /\ UNCHANGED <<rows, rebooters, reported, rebooting>>

LEMMA QuietRecLedger ==
  ASSUME Ledger, NEW r \in Reconcilers, QuietRec(r)
  PROVE  Ledger'
<1>1. UNCHANGED <<rows, rebooters, reported, rebooting>>  BY DEF QuietRec
<1>2. \A q \in Reconcilers : Reporting(rec'[q]) => rec'[q] = rec[q]  BY DEF QuietRec
<1>3. (RowsClaimed /\ RowsDistinct)'  BY <1>1 DEF Ledger, RowsClaimed, RowsDistinct
<1>4. ReportersClaimed'  BY <1>1, <1>2 DEF Ledger, ReportersClaimed, Pending
<1>5. ReportersDistinct'  BY <1>2 DEF Ledger, ReportersDistinct
<1>6. RebootersClaimed'  BY <1>1 DEF Ledger, RebootersClaimed, Pending
<1>7. RebootingHasOwner'  BY <1>1 DEF Ledger, RebootingHasOwner
<1> QED  BY <1>3, <1>4, <1>5, <1>6, <1>7 DEF Ledger

LEMMA NothingMovesLedger ==
  ASSUME Ledger, UNCHANGED <<rec, rows, rebooters, reported, rebooting>>
  PROVE  Ledger'
BY DEF Ledger, RowsClaimed, RowsDistinct, ReportersClaimed, ReportersDistinct,
       RebootersClaimed, RebootingHasOwner, Pending

LEMMA QuietSteps ==
  ASSUME Typed, NEW r \in Reconcilers,
         \/ Fetch(r) \/ List(r)
         \/ \E s \in rec[r].drop : RemoveDevice(r, s)
         \/ \E s \in rec[r].todo : StartDevice(r, s)
         \/ DropAppium(r) \/ CreateAppium(r) \/ StartAppium(r)
         \/ Purge(r) \/ Replace(r) \/ CreateTest(r) \/ StartTest(r)
  PROVE  QuietRec(r)
<1>1. rec \in [Reconcilers -> ReconcilerType]  BY DEF Typed, ManagerType
<1>2. UNCHANGED <<rows, rebooters, reported, rebooting>>
  BY DEF Fetch, List, RemoveDevice, StartDevice, DropAppium, CreateAppium, StartAppium,
         Purge, Replace, CreateTest, StartTest, goVars, mapVars
<1>3. ASSUME Stop(r) PROVE QuietRec(r)
  BY <1>1, <1>2, <1>3 DEF Stop, Idle, QuietRec, Reporting
<1>4. ASSUME NextDevice(r) PROVE QuietRec(r)
  BY <1>1, <1>2, <1>4 DEF NextDevice, Idle, QuietRec, Reporting, ReconcilerType
<1>5. CASE Fetch(r)
  BY <1>1, <1>2, <1>3, <1>5 DEF Fetch, QuietRec, Reporting, ReconcilerType
<1>6. CASE List(r)
  <2> DEFINE drop == {s \in Serials \ (rec[r].ready \cup wrongMode) : Found[s] # Nothing}
             w == [Idle EXCEPT !.pc = "pass", !.seen = Found,
                               !.drop = drop, !.todo = rec[r].ready]
  <2>1. Stop(r) \/ rec' = [rec EXCEPT ![r] = w]  BY <1>6 DEF List, Stop
  <2>2. w.pc = "pass"  BY DEF Idle
  <2> HIDE DEF w
  <2> QED  BY <1>1, <1>2, <1>3, <2>1, <2>2 DEF QuietRec, Reporting
<1>7. ASSUME NEW s \in rec[r].drop, RemoveDevice(r, s) PROVE QuietRec(r)
  <2> DEFINE w == [rec[r] EXCEPT !.drop = @ \ {s}]
  <2>1. rec[r].pc = "pass" /\ (Stop(r) \/ rec' = [rec EXCEPT ![r] = w])
    BY <1>1, <1>7 DEF RemoveDevice, At, Stop
  <2>2. w.pc = rec[r].pc  BY <1>1 DEF ReconcilerType
  <2> HIDE DEF w
  <2> QED  BY <1>1, <1>2, <1>3, <2>1, <2>2 DEF QuietRec, Reporting
<1>8. ASSUME NEW s \in rec[r].todo, StartDevice(r, s) PROVE QuietRec(r)
  <2> DEFINE todo == rec[r].todo \ {s}
  <2>1. ASSUME NEW pc \in {"test", "createAppium", "dropAppium"},
               rec' = [rec EXCEPT ![r].pc = pc, ![r].cur = s, ![r].todo = todo]
        PROVE  QuietRec(r)
    BY <1>1, <1>2, <2>1 DEF QuietRec, Reporting, ReconcilerType
  <2>2. ASSUME rec' = [rec EXCEPT ![r] = [rec[r] EXCEPT !.todo = todo]], rec[r].pc = "pass"
        PROVE  QuietRec(r)
    BY <1>1, <1>2, <2>2 DEF QuietRec, Reporting, ReconcilerType
  <2>3. \/ Stop(r)
        \/ \E pc \in {"test", "createAppium", "dropAppium"} :
             rec' = [rec EXCEPT ![r].pc = pc, ![r].cur = s, ![r].todo = todo]
        \/ rec' = [rec EXCEPT ![r] = [rec[r] EXCEPT !.todo = todo]] /\ rec[r].pc = "pass"
    BY <1>1, <1>8 DEF StartDevice, At, Stop
  <2> QED  BY <1>3, <2>1, <2>2, <2>3
<1>9. CASE DropAppium(r)
  BY <1>1, <1>2, <1>9 DEF DropAppium, QuietRec, Reporting, ReconcilerType
<1>10. CASE CreateAppium(r)
  BY <1>1, <1>2, <1>4, <1>10 DEF CreateAppium, QuietRec, Reporting, ReconcilerType
<1>11. CASE StartAppium(r)
  BY <1>1, <1>2, <1>4, <1>11 DEF StartAppium, QuietRec, Reporting, ReconcilerType
<1>12. CASE Purge(r) \/ StartTest(r)  BY <1>4, <1>12 DEF Purge, StartTest
<1>13. CASE Replace(r)
  BY <1>1, <1>2, <1>4, <1>13 DEF Replace, Goto, QuietRec, Reporting, ReconcilerType
<1>14. CASE CreateTest(r)
  BY <1>1, <1>2, <1>4, <1>14 DEF CreateTest, QuietRec, Reporting, ReconcilerType
<1> QED
  BY <1>5, <1>6, <1>7, <1>8, <1>9, <1>10, <1>11, <1>12, <1>13, <1>14

\* The steps of the worker and of the main goroutine between reconciliations.
LEMMA BetweenLedger ==
  ASSUME Typed, Ledger, Wake \/ Drain \/ Track
  PROVE  Ledger'
<1>1. /\ rec \in [Reconcilers -> ReconcilerType]
      /\ "main" \in Reconcilers /\ "worker" \in Reconcilers
  BY DEF Typed, ManagerType, Reconcilers
<1>2. UNCHANGED <<rows, rebooters, reported, rebooting>>
  BY DEF Wake, Drain, Track, goVars, mapVars
<1>3. CASE UNCHANGED rec  BY <1>2, <1>3, NothingMovesLedger
<1>4. ASSUME NEW r \in Reconcilers, NEW pc \in {"debounce", "fetch"}, Goto(r, pc)
      PROVE  Ledger'
  <2>1. QuietRec(r)
    BY <1>1, <1>2, <1>4 DEF Goto, QuietRec, Reporting, ReconcilerType
  <2> QED  BY <2>1, QuietRecLedger
<1>5. ASSUME NEW list, rec' = [rec EXCEPT !["main"].pc = "list", !["main"].ready = Ready(list)]
      PROVE  Ledger'
  <2>1. QuietRec("main")
    BY <1>1, <1>2, <1>5 DEF QuietRec, Reporting, ReconcilerType
  <2> QED  BY <1>1, <2>1, QuietRecLedger
<1> QED  BY <1>1, <1>3, <1>4, <1>5 DEF Wake, Drain, Track

\* The claim: LoadOrStore finds a test that nobody has claimed.
LEMMA CheckTestLedger ==
  ASSUME Typed, Ledger, NEW r \in Reconcilers, CheckTest(r)
  PROVE  Ledger'
<1> DEFINE t == TestOf(rec[r])
<1>1. /\ rec \in [Reconcilers -> ReconcilerType] /\ rec[r].run = 0
      /\ rec[r].pc = "test"
      /\ Seen(r).test.status # "none" => t \in TestIds
  BY AtWork DEF CheckTest, At, Working, TestOf, Seen, Cur
<1>2. UNCHANGED <<rows, rebooters, rebooting>>  BY DEF CheckTest, goVars
<1>3. CASE (NextDevice(r) \/ Goto(r, "purge") \/ Goto(r, "replace")) /\ UNCHANGED reported
  <2>1. ASSUME NEW pc \in {"purge", "replace"}, Goto(r, pc) PROVE QuietRec(r)
    BY <1>1, <1>2, <1>3, <2>1 DEF Goto, QuietRec, Reporting, ReconcilerType
  <2>2. ASSUME NextDevice(r) PROVE QuietRec(r)
    BY <1>1, <1>2, <1>3, <2>2 DEF NextDevice, Idle, QuietRec, Reporting, ReconcilerType
  <2> QED  BY <1>3, <2>1, <2>2, QuietRecLedger
<1>4. CASE /\ t \in TestIds /\ t \notin reported
           /\ reported' = reported \cup {t}
           /\ Goto(r, "delete")
  <2>1. /\ \A q \in Reconcilers \ {r} : rec'[q] = rec[q]
        /\ rec'[r].pc = "delete" /\ rec'[r].run = 0
        /\ TestOf(rec'[r]) = t
    BY <1>1, <1>4 DEF Goto, TestOf, ReconcilerType
  <2> HIDE DEF t
  <2>2. rebooters[t].stage = "none"  BY <1>4 DEF Ledger, RebootersClaimed
  <2>3. \A k \in 1..Len(rows) : rows[k].test # t  BY <1>4 DEF Ledger, RowsClaimed
  <2>4. \A q \in Reconcilers : Reporting(rec[q]) => TestOf(rec[q]) # t
    BY <1>4 DEF Ledger, ReportersClaimed
  <2>5. ReportersClaimed'
    <3>1. \A q \in Reconcilers \ {r} : Reporting(rec'[q]) =>
            /\ TestOf(rec'[q]) \in reported'
            /\ rebooters'[TestOf(rec'[q])].stage = "none"
            /\ Pending(rows', rec'[q].run, TestOf(rec'[q]))
            /\ rec'[q].pc # "mark" => \A k \in 1..Len(rows') : rows'[k].test # TestOf(rec'[q])
      BY <1>2, <1>4, <2>1 DEF Ledger, ReportersClaimed, Pending
    <3>2. /\ TestOf(rec'[r]) \in reported'
          /\ rebooters'[TestOf(rec'[r])].stage = "none"
          /\ Pending(rows', rec'[r].run, TestOf(rec'[r]))
          /\ \A k \in 1..Len(rows') : rows'[k].test # TestOf(rec'[r])
      BY <1>2, <1>4, <2>1, <2>2, <2>3 DEF Pending
    <3> QED  BY <3>1, <3>2 DEF ReportersClaimed, Pending
  <2>6. ReportersDistinct'
    BY <2>1, <2>4 DEF Ledger, ReportersDistinct
  <2>7. RebootersClaimed'  BY <1>2, <1>4 DEF Ledger, RebootersClaimed, Pending
  <2>8. (RowsClaimed /\ RowsDistinct)'
    BY <1>2, <1>4 DEF Ledger, RowsClaimed, RowsDistinct
  <2>9. RebootingHasOwner'  BY <1>2 DEF Ledger, RebootingHasOwner
  <2> QED  BY <2>5, <2>6, <2>7, <2>8, <2>9 DEF Ledger
<1>5. \/ (NextDevice(r) \/ Goto(r, "purge") \/ Goto(r, "replace")) /\ UNCHANGED reported
      \/ /\ t \in TestIds /\ t \notin reported
         /\ reported' = reported \cup {t}
         /\ Goto(r, "delete")
  BY <1>1 DEF CheckTest, TestOf, Seen, Cur
<1> QED  BY <1>3, <1>4, <1>5

\* A reporter that stores nothing in this step.
LEMMA ReporterLedger ==
  ASSUME Ledger, NEW r \in Reconcilers,
         \A q \in Reconcilers \ {r} : rec'[q] = rec[q],
         Reporting(rec[r]), rec[r].pc # "mark", Reporting(rec'[r]),
         TestOf(rec'[r]) = TestOf(rec[r]), rec'[r].run = rec[r].run,
         UNCHANGED <<rows, rebooters, reported, rebooting>>
  PROVE  Ledger'
<1>1. (RowsClaimed /\ RowsDistinct /\ RebootersClaimed /\ RebootingHasOwner)'
  BY DEF Ledger, RowsClaimed, RowsDistinct, RebootersClaimed, RebootingHasOwner, Pending
<1>2. ReportersClaimed'
  BY DEF Ledger, ReportersClaimed, Pending
<1>3. ReportersDistinct'  BY DEF Ledger, ReportersDistinct
<1> QED  BY <1>1, <1>2, <1>3 DEF Ledger

LEMMA DeleteLedger ==
  ASSUME Typed, Ledger, NEW r \in Reconcilers, Delete(r)
  PROVE  Ledger'
<1>1. rec \in [Reconcilers -> ReconcilerType]  BY DEF Typed, ManagerType
<1>2. /\ \A q \in Reconcilers \ {r} : rec'[q] = rec[q]
      /\ rec[r].pc = "delete" /\ rec'[r].pc = "save" /\ rec'[r].run = rec[r].run
      /\ rec'[r].seen = rec[r].seen /\ rec'[r].cur = rec[r].cur
  BY <1>1 DEF Delete, At, Goto, ReconcilerType
<1>3. UNCHANGED <<rows, rebooters, reported, rebooting>>  BY DEF Delete, goVars, mapVars
<1>4. TestOf(rec'[r]) = TestOf(rec[r])  BY <1>2 DEF TestOf
<1> QED  BY <1>2, <1>3, <1>4, ReporterLedger DEF Reporting

LEMMA SaveTestResultLedger ==
  ASSUME Typed, Ledger, NEW r \in Reconcilers, SaveTestResult(r)
  PROVE  Ledger'
<1> DEFINE t == TestOf(rec[r])
           row == [test |-> t, boot |-> "none"]
           n == Len(rows)
<1>1. /\ rec \in [Reconcilers -> ReconcilerType] /\ rows \in Seq(Row) /\ n \in Nat
      /\ rec[r].pc = "save" /\ rec[r].run = 0
  BY AtWork DEF SaveTestResult, At, Working, Typed, ManagerType
<1>2. UNCHANGED <<rebooters, reported, rebooting>>  BY DEF SaveTestResult, goVars, mapVars
<1>3. CASE Goto(r, "mark") /\ UNCHANGED rows
  <2>1. /\ \A q \in Reconcilers \ {r} : rec'[q] = rec[q]
        /\ rec'[r].pc = "mark" /\ rec'[r].run = rec[r].run
        /\ rec'[r].seen = rec[r].seen /\ rec'[r].cur = rec[r].cur
    BY <1>1, <1>3 DEF Goto, ReconcilerType
  <2>2. TestOf(rec'[r]) = TestOf(rec[r])  BY <2>1 DEF TestOf
  <2> QED  BY <1>1, <1>2, <1>3, <2>1, <2>2, ReporterLedger DEF Reporting
<1>4. CASE /\ rows' = Append(rows, row)
           /\ rec' = [rec EXCEPT ![r].pc = "mark", ![r].run = n + 1]
  <2>1. /\ \A q \in Reconcilers \ {r} : rec'[q] = rec[q]
        /\ rec'[r].pc = "mark" /\ rec'[r].run = n + 1
        /\ rec'[r].seen = rec[r].seen /\ rec'[r].cur = rec[r].cur
    BY <1>1, <1>4 DEF ReconcilerType
  <2>2. TestOf(rec'[r]) = t  BY <2>1 DEF TestOf
  <2>3. /\ t \in reported /\ rebooters[t].stage = "none"
        /\ \A k \in 1..n : rows[k].test # t
    BY <1>1 DEF Ledger, ReportersClaimed, Reporting
  <2>4. \A q \in Reconcilers \ {r} : Reporting(rec[q]) => TestOf(rec[q]) # t
    BY <1>1 DEF Ledger, ReportersDistinct, Reporting
  <2>5. \A q \in Reconcilers : rec[q].run \in Nat /\ rec[q].run <= n
    BY <1>1 DEF ReconcilerType, Typed, WorkersKnowTheirJob
  <2>6. \A i \in TestIds : rebooters[i].run \in Nat /\ rebooters[i].run <= n
    BY DEF Typed, ManagerType, RebooterType, WorkersKnowTheirJob
  <2>7. row.test = t  OBVIOUS
  <2>8. /\ Len(rows') = n + 1
        /\ rows'[n + 1] = row
        /\ \A k \in 1..n : rows'[k] = rows[k]
    <3> HIDE DEF row
    <3> QED  BY <1>1, <1>4
  <2> HIDE DEF t, n
  <2>9. \A k \in 1..Len(rows') : k = n + 1 \/ k \in 1..n  BY <1>1, <2>8
  <2>10. n = Len(rows)  BY DEF n
  <2>11. \A m \in Nat : \A i : m <= n /\ Pending(rows, m, i) => Pending(rows', m, i)
    BY <1>1, <2>8 DEF Pending
  <2>12. RowsClaimed'
    BY <1>2, <2>3, <2>7, <2>8, <2>9, <2>10 DEF Ledger, RowsClaimed
  <2>13. RowsDistinct'
    BY <2>3, <2>7, <2>8, <2>9, <2>10 DEF Ledger, RowsDistinct
  <2>14. ReportersClaimed'
    <3>1. ASSUME NEW q \in Reconcilers \ {r}, Reporting(rec'[q])
          PROVE  /\ TestOf(rec'[q]) \in reported'
                 /\ rebooters'[TestOf(rec'[q])].stage = "none"
                 /\ Pending(rows', rec'[q].run, TestOf(rec'[q]))
                 /\ rec'[q].pc # "mark" =>
                      \A k \in 1..Len(rows') : rows'[k].test # TestOf(rec'[q])
      <4>1. rec'[q] = rec[q] /\ Reporting(rec[q])  BY <2>1, <3>1
      <4>2. /\ TestOf(rec[q]) \in reported
            /\ rebooters[TestOf(rec[q])].stage = "none"
            /\ Pending(rows, rec[q].run, TestOf(rec[q]))
            /\ rec[q].pc # "mark" => \A k \in 1..n : rows[k].test # TestOf(rec[q])
        BY <2>10, <4>1 DEF Ledger, ReportersClaimed
      <4>3. Pending(rows', rec[q].run, TestOf(rec[q]))  BY <2>5, <2>11, <4>2
      <4>4. rec[q].pc # "mark" => \A k \in 1..Len(rows') : rows'[k].test # TestOf(rec[q])
        BY <2>4, <2>7, <2>8, <2>9, <4>1, <4>2
      <4> QED  BY <1>2, <4>1, <4>2, <4>3, <4>4
    <3>2. Pending(rows', rec'[r].run, t)  BY <2>1, <2>8 DEF Pending
    <3> QED  BY <1>2, <2>1, <2>2, <2>3, <3>1, <3>2 DEF ReportersClaimed
  <2>15. ReportersDistinct'
    BY <1>1, <2>1, <2>2, <2>4 DEF Ledger, ReportersDistinct
  <2>16. RebootersClaimed'
    BY <1>2, <2>6, <2>11 DEF Ledger, RebootersClaimed
  <2>17. RebootingHasOwner'  BY <1>2 DEF Ledger, RebootingHasOwner
  <2> QED  BY <2>12, <2>13, <2>14, <2>15, <2>16, <2>17 DEF Ledger
<1> QED  BY <1>3, <1>4 DEF SaveTestResult, TestOf, Seen, Cur

LEMMA MarkRebootingLedger ==
  ASSUME Typed, Ledger, NEW r \in Reconcilers, MarkRebooting(r)
  PROVE  Ledger'
<1> DEFINE t == TestOf(rec[r])
           new == [stage |-> "request", serial |-> Cur(r), run |-> rec[r].run]
<1>1. /\ rec \in [Reconcilers -> ReconcilerType]
      /\ rebooters \in [TestIds -> RebooterType]
      /\ rec[r].pc = "mark"
  BY DEF Typed, ManagerType, MarkRebooting, At
<1>2. t \in TestIds
  BY <1>1 DEF Typed, WorkersKnowTheirJob, ReconcilerKnowsItsJob, TestOf
<1>3. /\ t \in reported /\ rebooters[t].stage = "none"
      /\ Pending(rows, rec[r].run, t)
  BY <1>1 DEF Ledger, ReportersClaimed, Reporting
<1>4. \A q \in Reconcilers \ {r} : Reporting(rec[q]) => TestOf(rec[q]) # t
  BY <1>1 DEF Ledger, ReportersDistinct, Reporting
<1>5. UNCHANGED <<rows, reported>> /\ rebooting' = rebooting \cup {Cur(r)}
  BY DEF MarkRebooting
<1>6. rebooters' = [rebooters EXCEPT ![t] = new]
  BY DEF MarkRebooting, TestOf, Seen, Cur
<1>7. \A q \in Reconcilers \ {r} : rec'[q] = rec[q]
  BY <1>1 DEF MarkRebooting, NextDevice
<1>8. ~Reporting(rec'[r])
  BY <1>1 DEF MarkRebooting, NextDevice, Idle, Reporting, ReconcilerType
<1>9. new.stage = "request" /\ new.serial = Cur(r) /\ new.run = rec[r].run  OBVIOUS
<1> HIDE DEF t, new
<1>10. \A i \in TestIds : rebooters'[i] = IF i = t THEN new ELSE rebooters[i]
  BY <1>1, <1>6
<1>11. (RowsClaimed /\ RowsDistinct)'  BY <1>5 DEF Ledger, RowsClaimed, RowsDistinct
<1>12. ReportersClaimed'
  <2> SUFFICES ASSUME NEW q \in Reconcilers, Reporting(rec'[q])
               PROVE  /\ TestOf(rec'[q]) \in reported'
                      /\ rebooters'[TestOf(rec'[q])].stage = "none"
                      /\ Pending(rows', rec'[q].run, TestOf(rec'[q]))
                      /\ rec'[q].pc # "mark" =>
                           \A k \in 1..Len(rows') : rows'[k].test # TestOf(rec'[q])
    BY DEF ReportersClaimed
  <2>1. q # r /\ rec'[q] = rec[q] /\ Reporting(rec[q])  BY <1>7, <1>8
  <2>2. TestOf(rec[q]) # t  BY <1>4, <2>1
  <2>3. TestOf(rec[q]) \in TestIds
    BY <2>1 DEF Typed, WorkersKnowTheirJob, ReconcilerKnowsItsJob, Reporting, TestOf
  <2>4. rebooters'[TestOf(rec[q])] = rebooters[TestOf(rec[q])]  BY <1>10, <2>2, <2>3
  <2> QED  BY <1>5, <2>1, <2>4 DEF Ledger, ReportersClaimed
<1>13. ReportersDistinct'  BY <1>7, <1>8 DEF Ledger, ReportersDistinct
<1>14. RebootersClaimed'
  BY <1>3, <1>5, <1>9, <1>10 DEF Ledger, RebootersClaimed
<1>15. RebootingHasOwner'
  <2> SUFFICES ASSUME NEW s \in rebooting'
               PROVE  \E i \in TestIds : /\ rebooters'[i].serial = s
                                         /\ rebooters'[i].stage \in {"request", "wait"}
    BY DEF RebootingHasOwner
  <2>1. CASE s = Cur(r)  BY <1>2, <1>9, <1>10, <2>1
  <2>2. CASE s \in rebooting
    <3>1. PICK i \in TestIds : /\ rebooters[i].serial = s
                               /\ rebooters[i].stage \in {"request", "wait"}
      BY <2>2 DEF Ledger, RebootingHasOwner
    <3> QED  BY <1>3, <1>10, <3>1
  <2> QED  BY <1>5, <2>1, <2>2
<1> QED  BY <1>11, <1>12, <1>13, <1>14, <1>15 DEF Ledger

\* What a step of a rebooter does to its own entry, and to the row it waits for.
Gives(i, v) ==
  /\ rebooters[i].stage \in {"request", "wait"}
  /\ UpdateBootResult(rebooters[i].run, v)
  /\ rebooters'[i].stage \in {"none", "signal"}
  /\ rebooting' = rebooting \ {rebooters[i].serial}

Waits(i) ==
  /\ UNCHANGED <<rows, rebooting>>
  /\ \/ /\ rebooters[i].stage = "request"
        /\ rebooters'[i] = [rebooters[i] EXCEPT !.stage = "wait"]
     \/ rebooters[i].stage = "signal" /\ rebooters'[i].stage = "none"

LEMMA RebooterSteps ==
  ASSUME Typed, NEW i \in TestIds, RebooterStep(i)
  PROVE  /\ \A j \in TestIds \ {i} : rebooters'[j] = rebooters[j]
         /\ UNCHANGED <<rec, reported>>
         /\ Waits(i) \/ \E v \in {"ok", "failed"} : Gives(i, v)
<1>1. rebooters \in [TestIds -> RebooterType] /\ NoRebooter.stage = "none"
  BY DEF Typed, ManagerType, NoRebooter
<1> USE DEF RebooterAt, RebooterGoto
<1>2. CASE RebootSent(i)  BY <1>1, <1>2 DEF RebootSent, Waits, mapVars, RebooterType
<1>3. CASE RebootFailed(i)  BY <1>1, <1>3 DEF RebootFailed, Gives
<1>4. CASE RebootSucceeded(i)  BY <1>1, <1>4 DEF RebootSucceeded, Gives, RebooterType
<1>5. CASE RebooterSignals(i)  BY <1>1, <1>5 DEF RebooterSignals, Waits, mapVars
<1> QED  BY <1>2, <1>3, <1>4, <1>5 DEF RebooterStep

LEMMA RebooterLedger ==
  ASSUME Typed, Ledger, NEW i \in TestIds, RebooterStep(i)
  PROVE  Ledger'
<1>1. /\ \A j \in TestIds \ {i} : rebooters'[j] = rebooters[j]
      /\ UNCHANGED <<rec, reported>>
      /\ Waits(i) \/ \E v \in {"ok", "failed"} : Gives(i, v)
  BY RebooterSteps
<1>2. /\ rebooters \in [TestIds -> RebooterType] /\ rows \in Seq(Row)
      /\ rec \in [Reconcilers -> ReconcilerType]
  BY DEF Typed, ManagerType
<1>3. rebooters[i].stage # "none"  BY <1>1 DEF Waits, Gives
<1>4. \A r \in Reconcilers : Reporting(rec[r]) => TestOf(rec[r]) \in TestIds \ {i}
  <2>1. \A r \in Reconcilers : Reporting(rec[r]) => TestOf(rec[r]) \in TestIds
    BY DEF Typed, WorkersKnowTheirJob, ReconcilerKnowsItsJob, Reporting, TestOf
  <2> QED  BY <1>3, <2>1 DEF Ledger, ReportersClaimed
<1>5. CASE Waits(i)
  <2>1. UNCHANGED <<rows, rebooting>>  BY <1>5 DEF Waits
  <2>2. (RowsClaimed /\ RowsDistinct /\ ReportersDistinct)'
    BY <1>1, <2>1 DEF Ledger, RowsClaimed, RowsDistinct, ReportersDistinct
  <2>3. ReportersClaimed'
    BY <1>1, <1>4, <2>1 DEF Ledger, ReportersClaimed
  <2>4. \/ rebooters[i].stage = "signal" /\ rebooters'[i].stage = "none"
        \/ /\ rebooters[i].stage = "request" /\ rebooters'[i].stage = "wait"
           /\ rebooters'[i].run = rebooters[i].run
           /\ rebooters'[i].serial = rebooters[i].serial
    BY <1>2, <1>5 DEF Waits, RebooterType
  <2>5. RebootersClaimed'
    <3> SUFFICES ASSUME NEW j \in TestIds
                 PROVE  /\ rebooters'[j].stage # "none" => j \in reported'
                        /\ rebooters'[j].stage \in {"request", "wait"}
                             => Pending(rows', rebooters'[j].run, j)
      BY DEF RebootersClaimed
    <3>1. CASE j = i  BY <1>1, <2>1, <2>4, <3>1 DEF Ledger, RebootersClaimed
    <3>2. CASE j # i  BY <1>1, <2>1, <3>2 DEF Ledger, RebootersClaimed
    <3> QED  BY <3>1, <3>2
  <2>6. RebootingHasOwner'
    <3> SUFFICES ASSUME NEW s \in rebooting
                 PROVE  \E j \in TestIds : /\ rebooters'[j].serial = s
                                           /\ rebooters'[j].stage \in {"request", "wait"}
      BY <2>1 DEF RebootingHasOwner
    <3>1. PICK j \in TestIds : /\ rebooters[j].serial = s
                               /\ rebooters[j].stage \in {"request", "wait"}
      BY DEF Ledger, RebootingHasOwner
    <3>2. CASE j = i  BY <2>4, <3>1, <3>2
    <3>3. CASE j # i  BY <1>1, <3>1, <3>3
    <3> QED  BY <3>2, <3>3
  <2> QED  BY <2>2, <2>3, <2>5, <2>6 DEF Ledger
<1>6. ASSUME NEW v \in {"ok", "failed"}, Gives(i, v) PROVE Ledger'
  <2> DEFINE n == rebooters[i].run
  <2>1. n \in Nat /\ n <= Len(rows)
    BY <1>2 DEF RebooterType, Typed, WorkersKnowTheirJob
  <2>2. rebooters[i].stage \in {"request", "wait"} /\ Pending(rows, n, i)
    BY <1>6 DEF Gives, Ledger, RebootersClaimed
  <2>3. UpdateBootResult(n, v)  BY <1>6 DEF Gives
  <2> HIDE DEF n
  <2>4. /\ rows' \in Seq(Row) /\ Len(rows') = Len(rows)
        /\ \A k \in 1..Len(rows) :
             rows'[k] = IF k = n THEN [rows[k] EXCEPT !.boot = v] ELSE rows[k]
    BY <1>2, <2>1, <2>3, UpdateBootResultEffect
  <2>5. \A k \in 1..Len(rows) : rows'[k].test = rows[k].test
    <3>1. \A k \in 1..Len(rows) : rows[k] \in Row  BY <1>2
    <3> QED  BY <2>4, <3>1 DEF Row
  <2>6. ASSUME NEW m \in Nat, m <= Len(rows), NEW j \in TestIds \ {i}, Pending(rows, m, j)
        PROVE  Pending(rows', m, j)
    <3>1. CASE m = 0  BY <3>1 DEF Pending
    <3>2. CASE m # 0
      <4>1. m \in 1..Len(rows) /\ rows[m] = [test |-> j, boot |-> "none"]
        BY <2>6, <3>2 DEF Pending
      <4>2. m # n  BY <2>2, <2>6, <3>2, <4>1 DEF Pending
      <4> QED  BY <2>4, <4>1, <4>2 DEF Pending
    <3> QED  BY <3>1, <3>2
  <2>7. (RowsClaimed /\ RowsDistinct)'
    BY <1>1, <2>4, <2>5 DEF Ledger, RowsClaimed, RowsDistinct
  <2>8. ReportersClaimed'
    <3> SUFFICES ASSUME NEW r \in Reconcilers, Reporting(rec[r])
                 PROVE  /\ TestOf(rec[r]) \in reported
                        /\ rebooters'[TestOf(rec[r])].stage = "none"
                        /\ Pending(rows', rec[r].run, TestOf(rec[r]))
                        /\ rec[r].pc # "mark" =>
                             \A k \in 1..Len(rows') : rows'[k].test # TestOf(rec[r])
      BY <1>1 DEF ReportersClaimed
    <3>1. /\ TestOf(rec[r]) \in reported
          /\ rebooters[TestOf(rec[r])].stage = "none"
          /\ Pending(rows, rec[r].run, TestOf(rec[r]))
          /\ rec[r].pc # "mark" => \A k \in 1..Len(rows) : rows[k].test # TestOf(rec[r])
      BY DEF Ledger, ReportersClaimed
    <3>2. TestOf(rec[r]) \in TestIds \ {i}  BY <1>4
    <3>3. rec[r].run \in Nat /\ rec[r].run <= Len(rows)
      BY <1>2 DEF ReconcilerType, Typed, WorkersKnowTheirJob
    <3>4. Pending(rows', rec[r].run, TestOf(rec[r]))  BY <2>6, <3>1, <3>2, <3>3
    <3> QED  BY <1>1, <2>4, <2>5, <3>1, <3>2, <3>4
  <2>9. ReportersDistinct'  BY <1>1 DEF Ledger, ReportersDistinct
  <2>10. RebootersClaimed'
    <3> SUFFICES ASSUME NEW j \in TestIds
                 PROVE  /\ rebooters'[j].stage # "none" => j \in reported
                        /\ rebooters'[j].stage \in {"request", "wait"}
                             => Pending(rows', rebooters'[j].run, j)
      BY <1>1 DEF RebootersClaimed
    <3>1. CASE j = i  BY <1>3, <1>6, <3>1 DEF Gives, Ledger, RebootersClaimed
    <3>2. CASE j # i
      <4>1. rebooters[j].run \in Nat /\ rebooters[j].run <= Len(rows)
        BY <1>2 DEF RebooterType, Typed, WorkersKnowTheirJob
      <4> QED  BY <1>1, <2>6, <3>2, <4>1 DEF Ledger, RebootersClaimed
    <3> QED  BY <3>1, <3>2
  <2>11. RebootingHasOwner'
    <3> SUFFICES ASSUME NEW s \in rebooting, s # rebooters[i].serial
                 PROVE  \E j \in TestIds : /\ rebooters'[j].serial = s
                                           /\ rebooters'[j].stage \in {"request", "wait"}
      BY <1>6 DEF Gives, RebootingHasOwner
    <3> QED  BY <1>1 DEF Ledger, RebootingHasOwner
  <2> QED  BY <2>7, <2>8, <2>9, <2>10, <2>11 DEF Ledger
<1> QED  BY <1>1, <1>5, <1>6

LEMMA InitLedger == Init => Ledger
<1> SUFFICES ASSUME Init PROVE Ledger  OBVIOUS
<1>1. rows = <<>> /\ Len(rows) = 0 /\ rebooting = {}  BY DEF Init
<1>2. \A r \in Reconcilers : ~Reporting(rec[r])  BY DEF Init, Idle, Reporting
<1>3. \A i \in TestIds : rebooters[i].stage = "none"  BY DEF Init, NoRebooter
<1>4. RowsClaimed /\ RowsDistinct  BY <1>1 DEF RowsClaimed, RowsDistinct
<1>5. ReportersClaimed /\ ReportersDistinct
  BY <1>2 DEF ReportersClaimed, ReportersDistinct
<1>6. RebootersClaimed  BY <1>3 DEF RebootersClaimed
<1>7. RebootingHasOwner  BY <1>1 DEF RebootingHasOwner
<1> QED  BY <1>4, <1>5, <1>6, <1>7 DEF Ledger

LEMMA NextKeepsLedger == Typed /\ Ledger /\ [Next]_vars => Ledger'
<1> SUFFICES ASSUME Typed, Ledger, [Next]_vars PROVE Ledger'  OBVIOUS
<1>1. CASE UNCHANGED vars  BY <1>1, NothingMovesLedger DEF vars, goVars, mapVars
<1>2. CASE Track \/ Wake \/ Drain  BY <1>2, BetweenLedger
<1>3. ASSUME NEW r \in Reconcilers, ReconcileStep(r) PROVE Ledger'
  <2>1. CASE CheckTest(r)  BY <2>1, CheckTestLedger
  <2>2. CASE Delete(r)  BY <2>2, DeleteLedger
  <2>3. CASE SaveTestResult(r)  BY <2>3, SaveTestResultLedger
  <2>4. CASE MarkRebooting(r)  BY <2>4, MarkRebootingLedger
  <2>5. ASSUME QuietRec(r) PROVE Ledger'  BY <2>5, QuietRecLedger
  <2> QED  BY <1>3, <2>1, <2>2, <2>3, <2>4, <2>5, QuietSteps DEF ReconcileStep
<1>4. ASSUME NEW i \in TestIds, RebooterStep(i) PROVE Ledger'  BY <1>4, RebooterLedger
<1>5. CASE \/ Keepalive \/ DeviceStep
           \/ \E i \in TestIds : WaiterSignals(i)
           \/ \E s \in Serials : ContainerStep(s) \/ SetUSBInfo(s)
  BY <1>5, NothingMovesLedger
     DEF Keepalive, DeviceStep, WaiterSignals, ContainerStep, SetUSBInfo, goVars, mapVars
<1> QED
  BY <1>1, <1>2, <1>3, <1>4, <1>5 DEF Next, MainStep, WorkerStep, Reconcilers

LEMMA LedgerAlways == Spec => [](Typed /\ Ledger)
BY InitTyped, InitLedger, NextKeepsTypes, NextKeepsLedger, PTL DEF Spec

\* A test container gives at most one row of the results, although both
\* reconcilers may find it ended and the call that removes it may fail
\* (reported.LoadOrStore, manager.go 352).
THEOREM ReportedOnce == Spec => []OneReportPerTest
<1>1. Typed /\ Ledger => OneReportPerTest
  <2>1. Typed => DOMAIN rows = 1..Len(rows)  BY DEF Typed, ManagerType
  <2> QED  BY <2>1 DEF Ledger, RowsDistinct, OneReportPerTest
<1> QED  BY <1>1, LedgerAlways, PTL

\* A device that is kept from being tested because it reboots has a goroutine
\* that will end this, whichever way the reboot ends (manager.go 872-909).
THEOREM RebootingOwned == Spec => []RebootingHasOwner
<1>1. Typed /\ Ledger => RebootingHasOwner  BY DEF Ledger
<1> QED  BY <1>1, LedgerAlways, PTL

\* Every row waits for a verdict as before, whoever was about to bring it.
LEMMA MarkersKeepOwed ==
  ASSUME VerdictOwed, UNCHANGED <<rows, rebooters>>,
         \A q \in Reconcilers : rec[q].pc = "mark" => rec'[q] = rec[q]
  PROVE  VerdictOwed'
BY DEF VerdictOwed, At

LEMMA ReconcileKeepsOwed ==
  ASSUME Typed, VerdictOwed, NEW r \in Reconcilers, ReconcileStep(r),
         ~SaveTestResult(r), ~MarkRebooting(r)
  PROVE  VerdictOwed'
<1>1. rec \in [Reconcilers -> ReconcilerType]  BY DEF Typed, ManagerType
<1>2. rec[r].pc # "mark"
  BY DEF ReconcileStep, Fetch, List, RemoveDevice, StartDevice, DropAppium, CreateAppium,
         StartAppium, CheckTest, Purge, Delete, Replace, CreateTest, StartTest, At
<1>3. CASE CheckTest(r)
  <2>1. UNCHANGED <<rows, rebooters>>  BY <1>3 DEF CheckTest, goVars
  <2>2. \A q \in Reconcilers \ {r} : rec'[q] = rec[q]
    BY <1>1, <1>3 DEF CheckTest, NextDevice, Goto
  <2> QED  BY <1>2, <2>1, <2>2, MarkersKeepOwed
<1>4. CASE Delete(r)
  <2>1. UNCHANGED <<rows, rebooters>>  BY <1>4 DEF Delete, goVars
  <2>2. \A q \in Reconcilers \ {r} : rec'[q] = rec[q]  BY <1>1, <1>4 DEF Delete, Goto
  <2> QED  BY <1>2, <2>1, <2>2, MarkersKeepOwed
<1>5. ASSUME QuietRec(r) PROVE VerdictOwed'
  BY <1>2, <1>5, MarkersKeepOwed DEF QuietRec
<1> QED  BY <1>3, <1>4, <1>5, QuietSteps DEF ReconcileStep

\* The reconciler that stores a row owes its verdict.
LEMMA SaveTestResultOwes ==
  ASSUME Typed, VerdictOwed, NEW r \in Reconcilers, SaveTestResult(r)
  PROVE  VerdictOwed'
<1> DEFINE n == Len(rows)
           row == [test |-> TestOf(rec[r]), boot |-> "none"]
<1>1. /\ rec \in [Reconcilers -> ReconcilerType] /\ rows \in Seq(Row) /\ n \in Nat
      /\ rec[r].pc = "save" /\ UNCHANGED rebooters
  BY DEF SaveTestResult, At, Typed, ManagerType, goVars
<1>2. CASE Goto(r, "mark") /\ UNCHANGED rows
  <2>1. \A q \in Reconcilers \ {r} : rec'[q] = rec[q]  BY <1>1, <1>2 DEF Goto
  <2> QED  BY <1>1, <1>2, <2>1, MarkersKeepOwed
<1>3. CASE /\ rows' = Append(rows, row)
           /\ rec' = [rec EXCEPT ![r].pc = "mark", ![r].run = n + 1]
  <2>1. /\ \A q \in Reconcilers \ {r} : rec'[q] = rec[q]
        /\ rec'[r].pc = "mark" /\ rec'[r].run = n + 1
    BY <1>1, <1>3 DEF ReconcilerType
  <2> HIDE DEF row
  <2>2. /\ DOMAIN rows' = 1..(n + 1) /\ DOMAIN rows = 1..n
        /\ \A k \in 1..n : rows'[k] = rows[k]
    BY <1>1, <1>3
  <2> SUFFICES ASSUME NEW k \in DOMAIN rows', rows'[k].boot = "none"
               PROVE  \/ \E q \in Reconcilers : rec'[q].pc = "mark" /\ rec'[q].run = k
                      \/ \E i \in TestIds : /\ rebooters'[i].run = k
                                            /\ rebooters'[i].stage \in {"request", "wait"}
    BY DEF VerdictOwed, At
  <2> HIDE DEF n
  <2>3. CASE k = n + 1  BY <2>1, <2>3
  <2>4. CASE k \in 1..n  BY <1>1, <2>1, <2>2, <2>4 DEF VerdictOwed, At
  <2> QED  BY <1>1, <2>2, <2>3, <2>4
<1> QED  BY <1>2, <1>3 DEF SaveTestResult, TestOf, Seen, Cur

\* It hands the debt to the goroutine it starts.
LEMMA MarkRebootingHandsOver ==
  ASSUME Typed, Ledger, VerdictOwed, NEW r \in Reconcilers, MarkRebooting(r)
  PROVE  VerdictOwed'
<1> DEFINE t == TestOf(rec[r])
           new == [stage |-> "request", serial |-> Cur(r), run |-> rec[r].run]
<1>1. /\ rec \in [Reconcilers -> ReconcilerType]
      /\ rebooters \in [TestIds -> RebooterType]
      /\ rec[r].pc = "mark" /\ UNCHANGED rows
  BY DEF Typed, ManagerType, MarkRebooting, At
<1>2. t \in TestIds
  BY <1>1 DEF Typed, WorkersKnowTheirJob, ReconcilerKnowsItsJob, TestOf
<1>3. rebooters[t].stage = "none"  BY <1>1 DEF Ledger, ReportersClaimed, Reporting
<1>4. rebooters' = [rebooters EXCEPT ![t] = new]
  BY DEF MarkRebooting, TestOf, Seen, Cur
<1>5. \A q \in Reconcilers \ {r} : rec'[q] = rec[q]
  BY <1>1 DEF MarkRebooting, NextDevice
<1>6. new.stage = "request" /\ new.run = rec[r].run  OBVIOUS
<1> HIDE DEF t, new
<1>7. \A i \in TestIds : rebooters'[i] = IF i = t THEN new ELSE rebooters[i]
  BY <1>1, <1>4
<1> SUFFICES ASSUME NEW k \in DOMAIN rows, rows[k].boot = "none"
             PROVE  \/ \E q \in Reconcilers : rec'[q].pc = "mark" /\ rec'[q].run = k
                    \/ \E i \in TestIds : /\ rebooters'[i].run = k
                                          /\ rebooters'[i].stage \in {"request", "wait"}
  BY <1>1 DEF VerdictOwed, At
<1>8. ASSUME NEW q \in Reconcilers, rec[q].pc = "mark", rec[q].run = k
      PROVE  \/ \E p \in Reconcilers : rec'[p].pc = "mark" /\ rec'[p].run = k
             \/ \E i \in TestIds : /\ rebooters'[i].run = k
                                   /\ rebooters'[i].stage \in {"request", "wait"}
  <2>1. CASE q = r  BY <1>2, <1>6, <1>7, <1>8, <2>1
  <2>2. CASE q # r  BY <1>5, <1>8, <2>2
  <2> QED  BY <2>1, <2>2
<1>9. ASSUME NEW i \in TestIds, rebooters[i].run = k, rebooters[i].stage \in {"request", "wait"}
      PROVE  rebooters'[i] = rebooters[i]
  BY <1>3, <1>7, <1>9
<1> QED  BY <1>8, <1>9 DEF VerdictOwed, At

\* And that goroutine ends with a verdict, or not at all.
LEMMA RebooterPays ==
  ASSUME Typed, Ledger, VerdictOwed, NEW i \in TestIds, RebooterStep(i)
  PROVE  VerdictOwed'
<1>1. /\ \A j \in TestIds \ {i} : rebooters'[j] = rebooters[j]
      /\ UNCHANGED rec
      /\ Waits(i) \/ \E v \in {"ok", "failed"} : Gives(i, v)
  BY RebooterSteps
<1>2. rebooters \in [TestIds -> RebooterType] /\ rows \in Seq(Row)
  BY DEF Typed, ManagerType
<1>3. CASE Waits(i)
  <2>1. UNCHANGED rows  BY <1>3 DEF Waits
  <2>2. rebooters[i].stage \in {"request", "wait"} =>
          rebooters'[i].stage = "wait" /\ rebooters'[i].run = rebooters[i].run
    BY <1>2, <1>3 DEF Waits, RebooterType
  <2>3. \A j \in TestIds : rebooters[j].stage \in {"request", "wait"} =>
          rebooters'[j].stage \in {"request", "wait"} /\ rebooters'[j].run = rebooters[j].run
    BY <1>1, <2>2
  <2> QED  BY <1>1, <2>1, <2>3 DEF VerdictOwed, At
<1>4. ASSUME NEW v \in {"ok", "failed"}, Gives(i, v) PROVE VerdictOwed'
  <2> DEFINE n == rebooters[i].run
  <2>1. n \in Nat /\ n <= Len(rows)
    BY <1>2 DEF RebooterType, Typed, WorkersKnowTheirJob
  <2>2. UpdateBootResult(n, v)  BY <1>4 DEF Gives
  <2> HIDE DEF n
  <2>3. /\ rows' \in Seq(Row) /\ Len(rows') = Len(rows)
        /\ \A k \in 1..Len(rows) :
             rows'[k] = IF k = n THEN [rows[k] EXCEPT !.boot = v] ELSE rows[k]
    BY <1>2, <2>1, <2>2, UpdateBootResultEffect
  <2>4. DOMAIN rows' = 1..Len(rows) /\ DOMAIN rows = 1..Len(rows)  BY <1>2, <2>3
  <2>5. \A k \in DOMAIN rows' : rows'[k].boot = "none" =>
          k \in DOMAIN rows /\ rows[k].boot = "none" /\ k # n
    <3>1. \A k \in 1..Len(rows) : rows[k] \in Row  BY <1>2
    <3>2. v # "none"  OBVIOUS
    <3> QED  BY <2>3, <2>4, <3>1, <3>2 DEF Row
  <2> QED  BY <1>1, <2>5 DEF VerdictOwed, At, n
<1> QED  BY <1>1, <1>3, <1>4

LEMMA NextKeepsOwed == Typed /\ Ledger /\ VerdictOwed /\ [Next]_vars => VerdictOwed'
<1> SUFFICES ASSUME Typed, Ledger, VerdictOwed, [Next]_vars PROVE VerdictOwed'  OBVIOUS
<1>1. CASE \/ UNCHANGED vars \/ Keepalive \/ DeviceStep
           \/ \E i \in TestIds : WaiterSignals(i)
           \/ \E s \in Serials : ContainerStep(s) \/ SetUSBInfo(s)
  BY <1>1, MarkersKeepOwed
     DEF vars, Keepalive, DeviceStep, WaiterSignals, ContainerStep, SetUSBInfo, goVars, mapVars
<1>2. CASE Wake \/ Drain \/ Track
  <2>1. rec \in [Reconcilers -> ReconcilerType]  BY DEF Typed, ManagerType
  <2>2. UNCHANGED <<rows, rebooters>>  BY <1>2 DEF Wake, Drain, Track, goVars
  <2>3. \A q \in Reconcilers : rec[q].pc = "mark" => rec'[q] = rec[q]
    <3>1. CASE Wake  BY <2>1, <3>1 DEF Wake, At, Goto
    <3>2. CASE Drain  BY <2>1, <3>2 DEF Drain, At, Goto
    <3>3. CASE Track  BY <2>1, <3>3 DEF Track, At, Goto
    <3> QED  BY <1>2, <3>1, <3>2, <3>3
  <2> QED  BY <2>2, <2>3, MarkersKeepOwed
<1>3. ASSUME NEW r \in Reconcilers, ReconcileStep(r) PROVE VerdictOwed'
  BY <1>3, ReconcileKeepsOwed, SaveTestResultOwes, MarkRebootingHandsOver
<1>4. ASSUME NEW i \in TestIds, RebooterStep(i) PROVE VerdictOwed'
  BY <1>4, RebooterPays
<1> QED
  BY <1>1, <1>2, <1>3, <1>4 DEF Next, MainStep, WorkerStep, Reconcilers

\* A row without a verdict has a reconciler about to start the goroutine that
\* brings one, or that goroutine still runs: no result is left open for ever
\* because nobody remembers it (manager.go 370-379 and 870-938).
THEOREM VerdictIsOwed == Spec => []VerdictOwed
<1>1. Init => VerdictOwed
  <2>1. Init => DOMAIN rows = {}  BY DEF Init
  <2> QED  BY <2>1 DEF VerdictOwed
<1> QED  BY <1>1, NextKeepsOwed, LedgerAlways, PTL DEF Spec

\* What BootVerdictOnce says of a step.
RowsKept ==
  /\ Len(rows') >= Len(rows)
  /\ \A i \in DOMAIN rows :
       rows'[i] # rows[i] => /\ rows[i].boot = "none"
                             /\ \E v \in {"ok", "failed"} :
                                  rows'[i] = [rows[i] EXCEPT !.boot = v]

\* The rows of the store are only appended to, and a row changes once at most,
\* by its verdict (UpdateBootResult, manager.go 926-938).
THEOREM VerdictIsFinal == Spec => BootVerdictOnce
<1>1. ASSUME Typed, Ledger, [Next]_vars PROVE RowsKept
  <2>1. rows \in Seq(Row) /\ Len(rows) \in Nat /\ DOMAIN rows = 1..Len(rows)
    BY <1>1 DEF Typed, ManagerType
  <2>2. CASE UNCHANGED rows  BY <2>1, <2>2 DEF RowsKept
  <2>3. ASSUME NEW r \in Reconcilers, NEW row, rows' = Append(rows, row) PROVE RowsKept
    BY <2>1, <2>3 DEF RowsKept
  <2>4. ASSUME NEW i \in TestIds, NEW v \in {"ok", "failed"}, Gives(i, v) PROVE RowsKept
    <3> DEFINE n == rebooters[i].run
    <3>1. n \in Nat /\ n <= Len(rows)
      BY <1>1 DEF Typed, ManagerType, RebooterType, WorkersKnowTheirJob
    <3>2. Pending(rows, n, i)  BY <1>1, <2>4 DEF Gives, Ledger, RebootersClaimed
    <3>3. UpdateBootResult(n, v)  BY <2>4 DEF Gives
    <3> HIDE DEF n
    <3>4. /\ Len(rows') = Len(rows)
          /\ \A k \in 1..Len(rows) :
               rows'[k] = IF k = n THEN [rows[k] EXCEPT !.boot = v] ELSE rows[k]
      BY <2>1, <3>1, <3>3, UpdateBootResultEffect
    <3>5. \A k \in 1..Len(rows) : k = n => rows[k].boot = "none"
      BY <3>2 DEF Pending
    <3> QED  BY <2>1, <3>4, <3>5 DEF RowsKept
  <2>5. \/ UNCHANGED rows
        \/ \E r \in Reconcilers : SaveTestResult(r)
        \/ \E i \in TestIds : RebooterStep(i)
    BY <1>1 DEF Next, MainStep, WorkerStep, ReconcileStep, Reconcilers, Keepalive, Track,
       Wake, Drain, Fetch, List, RemoveDevice, StartDevice, DropAppium, CreateAppium,
       StartAppium, CheckTest, Purge, Delete, MarkRebooting, Replace, CreateTest, StartTest,
       WaiterSignals, DeviceStep, ContainerStep, SetUSBInfo, vars
  <2>6. ASSUME NEW r \in Reconcilers, SaveTestResult(r) PROVE RowsKept
    BY <2>2, <2>3, <2>6 DEF SaveTestResult
  <2>7. ASSUME NEW i \in TestIds, RebooterStep(i) PROVE RowsKept
    BY <1>1, <2>2, <2>4, <2>7, RebooterSteps DEF Waits
  <2> QED  BY <2>2, <2>5, <2>6, <2>7
<1> QED  BY <1>1, LedgerAlways, PTL DEF Spec, BootVerdictOnce, RowsKept
=============================================================================
