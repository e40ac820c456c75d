----------------------------- MODULE LocalManager -----------------------------
(***************************************************************************)
(* Local mode: internal/docker/manager.go as main.go 270-384 wires it in   *)
(* watch mode, with a test image.  Two goroutines call Reconcile, without  *)
(* a lock between them:                                                    *)
(*                                                                         *)
(*   "main"     once at the start, then for the lists of TrackDevices      *)
(*   "worker"   for the signals on reconcileCh, which come from            *)
(*     waiters    the goroutines of createTest that wait for a container   *)
(*     rebooters  the goroutines of rebootAndReport                        *)
(*                                                                         *)
(* A step is one Docker call or one access to a map that both goroutines   *)
(* write.  The two calls of removeDevice are one step.                     *)
(*                                                                         *)
(* Left out: the Kubernetes branches (config.K8sNamespace is never set),   *)
(* the local network, logs and screenshots, events for the web pages.      *)
(***************************************************************************)
EXTENDS AdbFeed, Containers

CONSTANTS
  Picky   \* devices with a test VID:PID configured

ASSUME LocalAssumption == Picky \subseteq Serials

VARIABLES
  rec,         \* the two reconcilers
  token,       \* is there a signal in reconcileCh?
  waiters,     \* test containers some goroutine waits for
  rebooters,   \* the goroutine of rebootAndReport after each test
  rebooting,   \* devices that are being rebooted
  reported,    \* IDs of test containers whose result has been claimed
  wrongMode,   \* devices whose cached VID:PID is not the configured one
  rows         \* the rows of the store

goVars == <<token, waiters, rebooters>>
mapVars == <<rebooting, reported, wrongMode>>
vars == <<adbVars, containerVars, goVars, mapVars, rec, rows>>

Reconcilers == {"main", "worker"}
Stages == {"idle", "debounce", "fetch", "list", "pass", "dropAppium", "createAppium",
           "startAppium", "test", "delete", "save", "mark", "purge",
           "replace", "createTest", "startTest"}
RebooterStages == {"none", "request", "wait", "signal"}

\* What listManaged found, for each device.
Nothing == [appium |-> NoAppium, test |-> NoTest]
Found == [s \in Serials |-> [appium |-> appium[s], test |-> test[s]]]

Idle == [pc |-> "idle", ready |-> {}, seen |-> [s \in Serials |-> Nothing],
         drop |-> {}, todo |-> {}, cur |-> None, run |-> 0]
NoRebooter == [stage |-> "none", serial |-> None, run |-> 0]
Row == [test : TestIds, boot : {"none", "ok", "failed"}]

\* A reconciler's own view of a container may have an ID without the rest.
TypeOK ==
  /\ AdbTypeOK
  /\ ContainersTypeOK
  /\ rec \in [Reconcilers ->
       [pc : Stages, ready : SUBSET Serials, drop : SUBSET Serials, todo : SUBSET Serials,
        seen : [Serials -> [appium : [id : 0..MaxAppium, status : Statuses \cup {"none"},
                                      port : Ports \cup {0}],
                            test : TestContainers]],
        cur : Serials \cup {None}, run : Nat]]
  /\ token \in BOOLEAN
  /\ waiters \subseteq TestIds
  /\ rebooters \in [TestIds -> [stage : RebooterStages, serial : Serials \cup {None},
                                run : Nat]]
  /\ rebooting \subseteq Serials
  /\ reported \subseteq TestIds
  /\ wrongMode \subseteq Picky
  /\ rows \in Seq(Row)

\* After a restart, which leaves containers behind but neither goroutines nor
\* maps.  usbCache is filled from the store.
Init ==
  /\ AdbInit
  /\ ContainersInit
  /\ rec = [r \in Reconcilers |-> IF r = "main" THEN [Idle EXCEPT !.pc = "fetch"] ELSE Idle]
  /\ token = FALSE
  /\ waiters = {}
  /\ rebooters = [i \in TestIds |-> NoRebooter]
  /\ rebooting = {}
  /\ reported = {}
  /\ wrongMode \in SUBSET Picky
  /\ rows = <<>>

----------------------------------------------------------------------------
(* The reconcilers' control.                                               *)

At(r, pc) == rec[r].pc = pc
Goto(r, pc) == rec' = [rec EXCEPT ![r].pc = pc]
Stop(r) == rec' = [rec EXCEPT ![r] = Idle]

Cur(r) == rec[r].cur
Seen(r) == rec[r].seen[Cur(r)]

\* On to the next device of the pass; the pass ends after the last one.
NextDevice(r) ==
  rec' = [rec EXCEPT ![r] =
            IF rec[r].drop \cup rec[r].todo = {} THEN Idle
            ELSE [rec[r] EXCEPT !.pc = "pass", !.cur = None, !.run = 0]]

\* ReconcileFn: a send that gives up when the channel holds a signal.
Signal == token' = TRUE

\* The worker receives a signal and lets more arrive for 300 ms.
Wake ==
  /\ At("worker", "idle")
  /\ token
  /\ token' = FALSE
  /\ Goto("worker", "debounce")
  /\ UNCHANGED <<adbVars, containerVars, waiters, rebooters, mapVars, rows>>

\* Mutant: a signal that stays alone is taken for noise.
MutDrainAlone ==
  /\ At("worker", "debounce")
  /\ token' = FALSE
  /\ Goto("worker", IF token THEN "fetch" ELSE "idle")
  /\ UNCHANGED <<adbVars, containerVars, waiters, rebooters, mapVars, rows>>

\* It empties the channel, then calls reconcileDevices.
Drain ==
  /\ At("worker", "debounce")
  /\ token' = FALSE
  /\ Goto("worker", "fetch")
  /\ UNCHANGED <<adbVars, containerVars, waiters, rebooters, mapVars, rows>>

\* TrackDevices connects anew, in between its callbacks.
Keepalive ==
  /\ At("main", "idle")
  /\ Reconnect
  /\ UNCHANGED <<containerVars, goVars, mapVars, rec, rows>>

\* The callback.  parseDeviceList returns nil for an empty list, for which
\* reconcileDevices fetches a list of its own.
Track ==
  /\ At("main", "idle")
  /\ \/ Skip /\ UNCHANGED rec
     \/ \E list \in Lists :
          /\ Deliver(list)
          /\ \/ list = NoDevices /\ Goto("main", "fetch")
             \/ /\ list # NoDevices
                /\ rec' = [rec EXCEPT !["main"].pc = "list", !["main"].ready = Ready(list)]
  /\ UNCHANGED <<containerVars, goVars, mapVars, rows>>

\* `adb devices`; without a device in the list reconcileDevices returns.
Fetch(r) ==
  /\ At(r, "fetch")
  /\ \/ adb = NoDevices /\ Stop(r) /\ UNCHANGED containerVars
     \/ /\ adb # NoDevices
        /\ rec' = [rec EXCEPT ![r].pc = "list", ![r].ready = Ready(adb)]
        /\ UNCHANGED containerVars
     \/ CallFails /\ Stop(r)
  /\ UNCHANGED <<adbVars, goVars, mapVars, rows>>

\* Reconcile lists the containers; all it does then is based on this list.
\* Devices in the wrong mode keep their containers.
List(r) ==
  LET drop == {s \in Serials \ (rec[r].ready \cup wrongMode) : Found[s] # Nothing}
  IN
  /\ At(r, "list")
  /\ \/ /\ rec' = [rec EXCEPT ![r] =
                     IF drop \cup rec[r].ready = {} THEN Idle
                     ELSE [Idle EXCEPT !.pc = "pass", !.seen = Found,
                                       !.drop = drop, !.todo = rec[r].ready]]
        /\ UNCHANGED containerVars
     \/ CallFails /\ Stop(r)
  /\ UNCHANGED <<adbVars, goVars, mapVars, rows>>

\* removeDevice
RemoveDevice(r, s) ==
  LET seen == rec[r].seen[s] IN
  /\ At(r, "pass")
  /\ s \in rec[r].drop
  /\ test' = [test EXCEPT ![s] = IF @.id = seen.test.id THEN NoTest ELSE @]
  /\ appium' = [appium EXCEPT ![s] = IF @.id = seen.appium.id THEN NoAppium ELSE @]
  /\ rec' = [rec EXCEPT ![r] = IF rec[r].drop \cup rec[r].todo = {s} THEN Idle
                               ELSE [rec[r] EXCEPT !.drop = @ \ {s}]]
  /\ UNCHANGED <<adbVars, made, faults, goVars, mapVars, rows>>

\* The pass over the ready devices, in the order of a Go map.
StartDevice(r, s) ==
  /\ At(r, "pass")
  /\ rec[r].drop = {}
  /\ s \in rec[r].todo
  /\ LET status == rec[r].seen[s].appium.status
         todo == rec[r].todo \ {s}
         enter(pc) == rec' = [rec EXCEPT ![r].pc = pc, ![r].cur = s, ![r].todo = todo]
     IN  \/ status = "running" /\ enter("test")
         \/ status = "none" /\ s \notin wrongMode /\ enter("createAppium")
         \/ status \in {"created", "exited"} /\ s \notin wrongMode /\ enter("dropAppium")
         \/ /\ status # "running"
            /\ s \in wrongMode
            /\ rec' = [rec EXCEPT ![r] = IF todo = {} THEN Idle ELSE [@ EXCEPT !.todo = todo]]
  /\ UNCHANGED <<adbVars, containerVars, goVars, mapVars, rows>>

----------------------------------------------------------------------------
(* Reconcile, the Appium container of a device.                            *)

\* Mutant: the search starts one port too low.
MutNextPort(seen) ==
  LET free == (Ports \cup {0}) \ {seen[s].appium.port : s \in {t \in Serials : seen[t] # Nothing}}
  IN  CHOOSE p \in free : \A q \in free : p <= q

\* nextPort: the lowest port that is free in the list.
NextPort(seen) ==
  LET free == Ports \ {seen[s].appium.port : s \in Serials}
  IN  CHOOSE p \in free : \A q \in free : p <= q

\* A device without containers is a new one: logEvent reads its VID:PID.
Connected(r, s) ==
  IF Seen(r) = Nothing /\ s \in Picky
  THEN wrongMode' \in {wrongMode \ {s}, wrongMode \cup {s}}
  ELSE UNCHANGED wrongMode

\* An Appium container that does not run is removed; its port is kept.
DropAppium(r) ==
  /\ At(r, "dropAppium")
  /\ RemoveAppium(Cur(r), Seen(r).appium.id)
  /\ rec' = [rec EXCEPT ![r].pc = "createAppium",
                        ![r].seen[Cur(r)].appium = [@ EXCEPT !.id = 0, !.status = "none"]]
  /\ UNCHANGED <<adbVars, goVars, mapVars, rows>>

\* createAppium up to ContainerCreate: whoever holds the port is killed; a
\* container that has the name already is used as it is.
CreateAppium(r) ==
  LET s == Cur(r)
      port == IF Seen(r).appium.port # 0 THEN Seen(r).appium.port ELSE NextPort(rec[r].seen)
      killed == Killed(port)
      new == [id |-> made.appium + 1, status |-> "created", port |-> port]
  IN
  /\ At(r, "createAppium")
  /\ \/ /\ killed[s] # NoAppium
        /\ appium' = killed
        /\ rec' = [rec EXCEPT ![r].pc = "test", ![r].seen[s].appium = killed[s]]
        /\ Connected(r, s)
        /\ UNCHANGED made
     \/ /\ killed[s] = NoAppium
        /\ made.appium < MaxAppium
        /\ appium' = [killed EXCEPT ![s] = new]
        /\ made' = [made EXCEPT !.appium = @ + 1]
        /\ rec' = [rec EXCEPT ![r].pc = "startAppium", ![r].seen[s].appium.id = new.id]
        /\ UNCHANGED wrongMode
     \/ /\ killed[s] = NoAppium
        /\ made.appium = MaxAppium
        /\ appium' = killed
        /\ NextDevice(r)
        /\ UNCHANGED <<made, wrongMode>>
  /\ UNCHANGED <<adbVars, test, faults, goVars, rebooting, reported, rows>>

\* ContainerStart; when it fails the container is removed again.
StartAppium(r) ==
  LET s == Cur(r)
      mine == appium[s].id = Seen(r).appium.id
  IN
  /\ At(r, "startAppium")
  /\ \/ /\ mine
        /\ appium' = [appium EXCEPT ![s].status = "running"]
        /\ rec' = [rec EXCEPT ![r].pc = "test", ![r].seen[s].appium = appium'[s]]
        /\ Connected(r, s)
        /\ UNCHANGED faults
     \/ /\ ~mine
        /\ NextDevice(r)
        /\ UNCHANGED <<appium, faults, wrongMode>>
     \/ /\ mine
        /\ faults > 0
        /\ faults' = faults - 1
        /\ appium' = [appium EXCEPT ![s] = NoAppium]
        /\ NextDevice(r)
        /\ UNCHANGED wrongMode
  /\ UNCHANGED <<adbVars, test, made, goVars, rebooting, reported, rows>>

----------------------------------------------------------------------------
(* Reconcile, the test container of a device.                              *)

\* Mutant: Load without Store.
MutCheckTestForgets(r) ==
  LET t == Seen(r).test IN
  /\ At(r, "test")
  /\ \/ t.status = "running" /\ NextDevice(r)
     \/ t.status \in {"created", "exited"} /\ t.id \in reported /\ Goto(r, "purge")
     \/ t.status \in {"created", "exited"} /\ t.id \notin reported /\ Goto(r, "delete")
     \/ t = NoTest /\ Cur(r) \in rebooting /\ NextDevice(r)
     \/ t = NoTest /\ Cur(r) \notin rebooting /\ Goto(r, "replace")
  /\ UNCHANGED <<adbVars, containerVars, goVars, mapVars, rows>>

\* What the list says of the test container decides; reported.LoadOrStore lets
\* one reconciler report it, and rebooting keeps a test from starting.
CheckTest(r) ==
  LET t == Seen(r).test IN
  /\ At(r, "test")
  /\ \/ t.status = "running" /\ NextDevice(r) /\ UNCHANGED reported
     \/ /\ t.status \in {"created", "exited"}
        /\ t.id \in reported
        /\ Goto(r, "purge")
        /\ UNCHANGED reported
     \/ /\ t.status \in {"created", "exited"}
        /\ t.id \notin reported
        /\ reported' = reported \cup {t.id}
        /\ Goto(r, "delete")
     \/ t = NoTest /\ Cur(r) \in rebooting /\ NextDevice(r) /\ UNCHANGED reported
     \/ t = NoTest /\ Cur(r) \notin rebooting /\ Goto(r, "replace") /\ UNCHANGED reported
  /\ UNCHANGED <<adbVars, containerVars, goVars, rebooting, wrongMode, rows>>

\* A container reported before that is still there.
Purge(r) ==
  /\ At(r, "purge")
  /\ RemoveTest(Cur(r), Seen(r).test.id)
  /\ NextDevice(r)
  /\ UNCHANGED <<adbVars, goVars, mapVars, rows>>

\* reportTestResult reads the logs, if they are still there; then the container goes.
Delete(r) ==
  /\ At(r, "delete")
  /\ RemoveTest(Cur(r), Seen(r).test.id)
  /\ Goto(r, "save")
  /\ UNCHANGED <<adbVars, goVars, mapVars, rows>>

\* Run id 0 means that the row was not stored.
SaveTestResult(r) ==
  /\ At(r, "save")
  /\ \/ /\ rows' = Append(rows, [test |-> Seen(r).test.id, boot |-> "none"])
        /\ rec' = [rec EXCEPT ![r].pc = "mark", ![r].run = Len(rows) + 1]
        /\ UNCHANGED containerVars
     \/ CallFails /\ Goto(r, "mark") /\ UNCHANGED rows
  /\ UNCHANGED <<adbVars, goVars, mapVars>>

\* rebooting.Store and go rebootAndReport.
MarkRebooting(r) ==
  /\ At(r, "mark")
  /\ rebooting' = rebooting \cup {Cur(r)}
  /\ rebooters' = [rebooters EXCEPT ![Seen(r).test.id] =
                     [stage |-> "request", serial |-> Cur(r), run |-> rec[r].run]]
  /\ NextDevice(r)
  /\ UNCHANGED <<adbVars, containerVars, token, waiters, reported, wrongMode, rows>>

\* createTest first removes an orphan by its name, then asks for the battery
\* level, which may be too low to start a test.
Replace(r) ==
  /\ At(r, "replace")
  /\ RemoveTestByName(Cur(r))
  /\ Goto(r, "createTest") \/ NextDevice(r)
  /\ UNCHANGED <<adbVars, goVars, mapVars, rows>>

\* ContainerCreate; it fails if the name has been taken meanwhile.
CreateTest(r) ==
  LET s == Cur(r)
      id == made.test + 1
  IN
  /\ At(r, "createTest")
  /\ \/ /\ test[s] = NoTest
        /\ made.test < MaxTest
        /\ test' = [test EXCEPT ![s] = [id |-> id, status |-> "created"]]
        /\ made' = [made EXCEPT !.test = id]
        /\ rec' = [rec EXCEPT ![r].pc = "startTest",
                              ![r].seen[s].test = [id |-> id, status |-> "created"]]
     \/ /\ test[s] # NoTest \/ made.test = MaxTest
        /\ NextDevice(r)
        /\ UNCHANGED <<test, made>>
  /\ UNCHANGED <<adbVars, appium, faults, goVars, mapVars, rows>>

\* ContainerStart, and the goroutine that waits for the container to end.
StartTest(r) ==
  LET s == Cur(r)
      id == Seen(r).test.id
  IN
  /\ At(r, "startTest")
  /\ \/ /\ test[s].id = id
        /\ test' = [test EXCEPT ![s].status = "running"]
        /\ waiters' = waiters \cup {id}
        /\ UNCHANGED faults
     \/ /\ test[s].id # id
        /\ UNCHANGED <<test, waiters, faults>>
     \/ /\ test[s].id = id
        /\ faults > 0
        /\ faults' = faults - 1
        /\ test' = [test EXCEPT ![s] = NoTest]
        /\ UNCHANGED waiters
  /\ NextDevice(r)
  /\ UNCHANGED <<adbVars, appium, made, token, rebooters, mapVars, rows>>

ReconcileStep(r) ==
  \/ Fetch(r) \/ List(r)
  \/ \E s \in rec[r].drop : RemoveDevice(r, s)
  \/ \E s \in rec[r].todo : StartDevice(r, s)
  \/ DropAppium(r) \/ CreateAppium(r) \/ StartAppium(r)
  \/ CheckTest(r) \/ Purge(r) \/ Delete(r) \/ SaveTestResult(r)
  \/ MarkRebooting(r) \/ Replace(r) \/ CreateTest(r) \/ StartTest(r)

MainStep == Keepalive \/ Track \/ ReconcileStep("main")
WorkerStep == Wake \/ Drain \/ ReconcileStep("worker")

----------------------------------------------------------------------------
(* The goroutine that waits for a test container to stop.                  *)

WaiterSignals(id) ==
  /\ id \in waiters
  /\ \A s \in Serials : test[s].id = id => test[s].status # "running"
  /\ waiters' = waiters \ {id}
  /\ Signal
  /\ UNCHANGED <<adbVars, containerVars, rebooters, mapVars, rec, rows>>

----------------------------------------------------------------------------
(* The goroutine of rebootAndReport for test i.                            *)

RebooterAt(i, stage) == rebooters[i].stage = stage
RebooterGoto(i, stage) == rebooters' = [rebooters EXCEPT ![i].stage = stage]

\* Mutant: the verdict goes to the latest row.
MutBootLatest(run, verdict) ==
  \/ run # 0 /\ rows' = [rows EXCEPT ![Len(rows)].boot = verdict]
  \/ run = 0 /\ UNCHANGED rows

UpdateBootResult(run, verdict) ==
  \/ run # 0 /\ rows' = [rows EXCEPT ![run].boot = verdict]
  \/ run = 0 /\ UNCHANGED rows

\* adb reboot returns; the device goes down when it likes.
RebootSent(i) ==
  /\ RebooterAt(i, "request")
  /\ adb[rebooters[i].serial] = "device"
  /\ RebooterGoto(i, "wait")
  /\ UNCHANGED <<adbVars, containerVars, token, waiters, mapVars, rec, rows>>

\* Mutant: the error return leaves the flag.
MutFailedKeepsFlag(i) ==
  /\ \/ RebooterAt(i, "request") /\ adb[rebooters[i].serial] # "device"
     \/ RebooterAt(i, "wait")
  /\ UpdateBootResult(rebooters[i].run, "failed")
  /\ rebooters' = [rebooters EXCEPT ![i] = NoRebooter]
  /\ UNCHANGED <<adbVars, containerVars, token, waiters, mapVars, rec>>

\* Mutant: the error return leaves the row as it is.
MutFailedSilently(i) ==
  /\ \/ RebooterAt(i, "request") /\ adb[rebooters[i].serial] # "device"
     \/ RebooterAt(i, "wait")
  /\ rebooting' = rebooting \ {rebooters[i].serial}
  /\ rebooters' = [rebooters EXCEPT ![i] = NoRebooter]
  /\ UNCHANGED <<adbVars, containerVars, token, waiters, reported, wrongMode, rec, rows>>

\* adb reboot fails, or WaitForReady gives up after five minutes.  Nobody is
\* signalled.
RebootFailed(i) ==
  /\ \/ RebooterAt(i, "request") /\ adb[rebooters[i].serial] # "device"
     \/ RebooterAt(i, "wait")
  /\ rebooting' = rebooting \ {rebooters[i].serial}
  /\ UpdateBootResult(rebooters[i].run, "failed")
  /\ rebooters' = [rebooters EXCEPT ![i] = NoRebooter]
  /\ UNCHANGED <<adbVars, containerVars, token, waiters, reported, wrongMode, rec>>

\* WaitForReady finds the device booted, or not gone down within 30 s, and the
\* goroutine has waited for another 15 s.
RebootSucceeded(i) ==
  /\ RebooterAt(i, "wait")
  /\ adb[rebooters[i].serial] = "device"
  /\ UpdateBootResult(rebooters[i].run, "ok")
  /\ rebooting' = rebooting \ {rebooters[i].serial}
  /\ RebooterGoto(i, "signal")
  /\ UNCHANGED <<adbVars, containerVars, token, waiters, reported, wrongMode, rec>>

RebooterSignals(i) ==
  /\ RebooterAt(i, "signal")
  /\ Signal
  /\ rebooters' = [rebooters EXCEPT ![i] = NoRebooter]
  /\ UNCHANGED <<adbVars, containerVars, waiters, mapVars, rec, rows>>

RebooterStep(i) ==
  RebootSent(i) \/ RebootFailed(i) \/ RebootSucceeded(i) \/ RebooterSignals(i)

----------------------------------------------------------------------------
(* The rest of the world.                                                  *)

DeviceStep ==
  /\ \E s \in Serials, state \in AdbStates : Change(s, state)
  /\ UNCHANGED <<containerVars, goVars, mapVars, rec, rows>>

ContainerStep(s) ==
  /\ TestEnds(s) \/ AppiumCrashes(s)
  /\ UNCHANGED <<adbVars, goVars, mapVars, rec, rows>>

\* The USB monitor finds another VID:PID and calls SetUSBInfo.
SetUSBInfo(s) ==
  /\ s \in Picky
  /\ wrongMode' \in {wrongMode \ {s}, wrongMode \cup {s}}
  /\ UNCHANGED <<adbVars, containerVars, goVars, rebooting, reported, rec, rows>>

Next ==
  \/ MainStep
  \/ WorkerStep
  \/ \E i \in TestIds : WaiterSignals(i) \/ RebooterStep(i)
  \/ DeviceStep
  \/ \E s \in Serials : ContainerStep(s) \/ SetUSBInfo(s)

Spec == Init /\ [][Next]_vars

\* Goroutines are scheduled, the connection is renewed every minute that brings
\* nothing, and a test ends.
FairSpec ==
  /\ Spec
  /\ WF_vars(MainStep)
  /\ WF_vars(Track)
  /\ WF_vars(WorkerStep)
  /\ \A i \in TestIds : WF_vars(WaiterSignals(i)) /\ WF_vars(RebooterStep(i))
  /\ \A s \in Serials :
       WF_vars(TestEnds(s) /\ UNCHANGED <<adbVars, goVars, mapVars, rec, rows>>)

----------------------------------------------------------------------------
(* Safety.                                                                 *)

\* The result of a test container is stored at most once, although both
\* reconcilers may find it (reported, manager.go 352).
OneReportPerTest ==
  \A i, j \in DOMAIN rows : rows[i].test = rows[j].test => i = j

\* rebooting keeps a device from being tested only as long as a goroutine is
\* there to clear it, whichever way the reboot ends (manager.go 872-909).
RebootingHasOwner ==
  \A s \in rebooting : \E i \in TestIds :
    rebooters[i].serial = s /\ rebooters[i].stage \in {"request", "wait"}

\* A row without a verdict is never forgotten: the reconciler that stored it is
\* about to start the goroutine that brings one, or that goroutine still runs
\* (manager.go 370-379 and 870-938).
VerdictOwed ==
  \A k \in DOMAIN rows :
    rows[k].boot = "none" =>
      \/ \E r \in Reconcilers : At(r, "mark") /\ rec[r].run = k
      \/ \E i \in TestIds : rebooters[i].run = k /\ rebooters[i].stage \in {"request", "wait"}

\* Rows are only appended, and a row changes once at most: when it gets its
\* verdict (manager.go 926-938).
BootVerdictOnce ==
  [][/\ Len(rows') >= Len(rows)
     /\ \A i \in DOMAIN rows :
          rows'[i] # rows[i] => /\ rows[i].boot = "none"
                                /\ \E v \in {"ok", "failed"} :
                                     rows'[i] = [rows[i] EXCEPT !.boot = v]]_vars

\* Test containers are removed by name as "orphaned" (manager.go 621-624): a test
\* that runs on a connected device is no orphan.
RunningTestsKept ==
  [][\A s \in Serials :
       /\ test[s].status = "running"
       /\ test'[s].id # test[s].id
       => \E r \in Reconcilers : At(r, "pass") /\ s \in rec[r].drop]_vars

----------------------------------------------------------------------------
(* What all this is for: the results, as ResultLedger sees them.           *)

\* How far the result of test i has come.
ClaimStage(i) ==
  IF i \notin reported THEN "open"
  ELSE IF rebooters[i].stage \in {"request", "wait"} THEN "rebooting"
  ELSE IF \E r \in Reconcilers : rec[r].pc \in {"delete", "save"} /\ Seen(r).test.id = i
       THEN "claimed"
  ELSE IF \E r \in Reconcilers : At(r, "mark") /\ Seen(r).test.id = i THEN "stored"
  ELSE "closed"

ClaimStages == [i \in TestIds |-> ClaimStage(i)]
LedgerRows == [k \in DOMAIN rows |-> [claim |-> rows[k].test, boot |-> rows[k].boot]]

Results == INSTANCE ResultLedger WITH
             Claims <- TestIds, Lives <- {}, stage <- ClaimStages, ledger <- LedgerRows

\* Whatever two reconcilers and the rebooters do, they keep the promise of
\* ResultLedger: a result is claimed, stored and completed in this order, once,
\* and a verdict goes to the row of its own test (manager.go 345-380, 870-970).
ImplementsLedger == Results!Spec

----------------------------------------------------------------------------
(* Liveness, under FairSpec.                                               *)

\* A row does not wait for its verdict forever, whether the reboot is refused, times
\* out or succeeds, and whoever reports in between (manager.go 870-938).
VerdictsArrive ==
  \A k \in 1..MaxTest :
    (k \in DOMAIN rows /\ rows[k].boot = "none") ~> (k \in DOMAIN rows /\ rows[k].boot # "none")

\* A test container that has ended on a connected device does not stay, even if
\* it is left over from an earlier run and no goroutine waits for it.  (Without
\* an Appium container no test is looked at, so the bound on these counts too.)
EndedTestsLeave ==
  \A s \in Serials, i \in TestIds :
    test[s] = [id |-> i, status |-> "exited"] ~>
      test[s].id # i \/ adb[s] # "device" \/ made.appium = MaxAppium

\* A signal is served by a reconciliation that fetches the devices after it.
SignalsServed == token ~> At("worker", "fetch")

\* "Remove containers for disconnected devices" (manager.go 263).
ContainersFollowDevice ==
  \A s \in Serials :
    adb[s] = "none" ~> adb[s] # "none" \/ (appium[s] = NoAppium /\ test[s] = NoTest)
=============================================================================
