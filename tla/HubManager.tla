------------------------------ MODULE HubManager ------------------------------
(***************************************************************************)
(* The hub-mode manager, internal/k8s/manager.go, as main.go 214-268 wires *)
(* it: ReconcileFn is nil and Reconcile is never called, so the test cycle *)
(* of a device lives in                                                    *)
(*                                                                         *)
(*   ws        the WebSocket goroutine, which runs the On... handlers one  *)
(*             at a time                                                   *)
(*   cp        the goroutine that runs CheckPods every 15 seconds          *)
(*   settlers  the goroutines of scheduleStabilization                     *)
(*   rebooters the goroutines of rebootAndReport, with the retry goroutine *)
(*             each starts when its reboot fails                           *)
(*                                                                         *)
(* They share sync.Maps without a common lock and call the Kubernetes API  *)
(* between reads and writes of them, so a step here is one access to a map *)
(* another goroutine writes, or one API call.  Local accesses that commute *)
(* with every other goroutine are part of the step before or after.        *)
(*                                                                         *)
(* adbEndpoints is written and deleted together with devices, which stands *)
(* for both.  Test output, screenshots and temperatures are left out: a    *)
(* row of the store keeps whose run it is, whose logs it holds and the     *)
(* verdict of the reboot after it.                                         *)
(***************************************************************************)
EXTENDS DeviceFeed, PodApi, FiniteSets

CONSTANTS
  Testable,        \* devices whose platform has a test image configured
  Settlers,        \* slots for goroutines of scheduleStabilization (a bound)
  MaxEpoch,        \* bound on runs of the process
  InsertMayFail    \* may sqlite refuse a row?

ASSUME HubAssumption ==
  /\ Testable \subseteq Serials
  /\ MaxEpoch \in Nat \ {0}
  /\ InsertMayFail \in BOOLEAN

VARIABLES
  rebooting,    \* devices waiting for a reboot to complete
  stabilizing,  \* devices waiting out postRebootStabilizeDelay
  lowBattery,   \* devices whose pod is deferred until they are charged
  devices,      \* devices the manager takes for ready
  battery,      \* batteryInfo: last known percentage, Unknown if none
  reported,     \* UIDs of pods whose result this process has claimed
  ws, cp, settlers, rebooters,
  runs,         \* the rows of the store, which survives the process
  epoch         \* which run of the process this is

flagVars == <<rebooting, stabilizing, lowBattery>>
infoVars == <<devices, battery>>
ledgerVars == <<reported, runs>>
vars == <<feedVars, podVars, flagVars, infoVars, ledgerVars,
          ws, cp, settlers, rebooters, epoch>>

batteryMinPct == 30
batteryResumePct == 35

----------------------------------------------------------------------------
(* Goroutines.                                                             *)

WsStages == {"idle", "readyList", "readyGate", "readyStabilize", "readyCreate",
             "deletedList", "deletedDelete", "batteryList", "batteryCreate"}
CpStages == {"idle", "scan", "collect", "delete", "save", "mark", "purge"}
SettlerStages == {"free", "sleep", "unflag", "list", "gate", "defer", "create"}
RebooterStages == {"none", "request", "accepted", "failed", "sleep", "list", "create"}

WsIdle == [pc |-> "idle", serial |-> None]
NoTarget == [serial |-> None, uid |-> 0]
Target == [serial : Serials, uid : Uids]
CpIdle == [pc |-> "idle", todo |-> {}, cur |-> NoTarget, logs |-> 0, run |-> 0]
NoSettler == [stage |-> "free", serial |-> None]
NoRebooter == [stage |-> "none", serial |-> None, run |-> 0]

Row == [serial : Serials \cup {None}, uid : 0..MaxUid, logs : 0..MaxUid,
        epoch : 1..MaxEpoch, boot : {"none", "ok", "failed"}]

TypeOK ==
  /\ FeedTypeOK
  /\ PodTypeOK
  /\ rebooting \subseteq Serials
  /\ stabilizing \subseteq Serials
  /\ lowBattery \subseteq Serials
  /\ devices \subseteq Serials
  /\ battery \in [Serials -> InfoLevels]
  /\ reported \subseteq Uids
  /\ ws \in [pc : WsStages, serial : Serials \cup {None}]
  /\ cp \in [pc : CpStages, todo : SUBSET Target, cur : Target \cup {NoTarget},
             logs : 0..MaxUid, run : Nat]
  /\ settlers \in [Settlers -> [stage : SettlerStages, serial : Serials \cup {None}]]
  /\ rebooters \in [Uids -> [stage : RebooterStages,
                          serial : Serials \cup {None}, run : Nat]]
  /\ runs \in Seq(Row)
  /\ epoch \in 1..MaxEpoch

Init ==
  /\ FeedInit
  /\ PodInit
  /\ rebooting = {}
  /\ stabilizing = {}
  /\ lowBattery = {}
  /\ devices = {}
  /\ battery = [s \in Serials |-> Unknown]
  /\ reported = {}
  /\ ws = WsIdle
  /\ cp = CpIdle
  /\ settlers = [k \in Settlers |-> NoSettler]
  /\ rebooters = [u \in Uids |-> NoRebooter]
  /\ runs = <<>>
  /\ epoch = 1

\* Mutant: the comparison is strict.
MutIsLowStrict(s) == battery[s] \in 0..(batteryMinPct - 1)

\* batteryInfo is at most batteryMinPct; an unknown level does not count as low.
IsLow(s) == battery[s] \in 0..batteryMinPct

----------------------------------------------------------------------------
(* The WebSocket goroutine.  Every handler runs to its end before the next *)
(* message is read.                                                        *)

WsAt(pc, s) == ws = [pc |-> pc, serial |-> s]
WsGoto(pc, s) == ws' = [pc |-> pc, serial |-> s]
WsDone == ws' = WsIdle

\* A message reaches its handler.
Handle(e, s, l) ==
  /\ ws = WsIdle
  /\ Receive(Msg(e, s, l))

\* After a ListPods for s: go on only if it succeeds and lists nothing.
ListedNone(s) == ~Exists(s) /\ UNCHANGED podVars
ListedSome(s) == (Exists(s) /\ UNCHANGED podVars) \/ CallFails

OnDeviceReady(s, l) ==
  /\ Handle("INFO ADD", s, l)
  /\ battery' = [battery EXCEPT ![s] = IF l # Unknown THEN l ELSE @]
  /\ devices' = devices \cup {s}
  /\ \/ s \in Testable /\ WsGoto("readyList", s)
     \/ s \notin Testable /\ UNCHANGED ws
  /\ UNCHANGED <<podVars, flagVars, ledgerVars, cp, settlers, rebooters, epoch>>

ReadyList(s) ==
  /\ WsAt("readyList", s)
  /\ \/ ListedNone(s) /\ WsGoto("readyGate", s)
     \/ ListedSome(s) /\ WsDone
  /\ UNCHANGED <<feedVars, flagVars, infoVars, ledgerVars, cp, settlers, rebooters, epoch>>

\* scheduleStabilization reads rebooting; if it is clear maybeCreatePod follows.
\* Only this goroutine writes battery.
ReadyGate(s) ==
  /\ WsAt("readyGate", s)
  /\ \/ s \in rebooting /\ WsGoto("readyStabilize", s) /\ UNCHANGED lowBattery
     \/ /\ s \notin rebooting
        /\ IsLow(s)
        /\ lowBattery' = lowBattery \cup {s}
        /\ WsDone
     \/ s \notin rebooting /\ ~IsLow(s) /\ WsGoto("readyCreate", s) /\ UNCHANGED lowBattery
  /\ UNCHANGED <<feedVars, podVars, rebooting, stabilizing, infoVars, ledgerVars,
                 cp, settlers, rebooters, epoch>>

\* Mutant: Store instead of LoadOrStore.
MutStabilizeAlways(s) ==
  /\ WsAt("readyStabilize", s)
  /\ \E k \in Settlers :
       /\ settlers[k].stage = "free"
       /\ settlers' = [settlers EXCEPT ![k] = [stage |-> "sleep", serial |-> s]]
  /\ stabilizing' = stabilizing \cup {s}
  /\ WsDone
  /\ UNCHANGED <<feedVars, podVars, rebooting, lowBattery, infoVars, ledgerVars,
                 cp, rebooters, epoch>>

\* stabilizing.LoadOrStore, and the goroutine that waits if the flag was clear.
ReadyStabilize(s) ==
  /\ WsAt("readyStabilize", s)
  /\ \/ s \in stabilizing /\ UNCHANGED settlers
     \/ /\ s \notin stabilizing
        /\ \E k \in Settlers :
             /\ settlers[k].stage = "free"
             /\ settlers' = [settlers EXCEPT ![k] = [stage |-> "sleep", serial |-> s]]
  /\ stabilizing' = stabilizing \cup {s}
  /\ WsDone
  /\ UNCHANGED <<feedVars, podVars, rebooting, lowBattery, infoVars, ledgerVars,
                 cp, rebooters, epoch>>

ReadyCreate(s) ==
  /\ WsAt("readyCreate", s)
  /\ CreatePod(s)
  /\ WsDone
  /\ UNCHANGED <<feedVars, flagVars, infoVars, ledgerVars, cp, settlers, rebooters, epoch>>

\* Mutant: the device stays in devices until the hub forgets it.
MutOfflineStaysReady(s, l) ==
  /\ Handle("INFO DELETE", s, l)
  /\ lowBattery' = lowBattery \ {s}
  /\ UNCHANGED <<podVars, rebooting, stabilizing, infoVars, ledgerVars,
                 ws, cp, settlers, rebooters, epoch>>

OnDeviceOffline(s, l) ==
  /\ Handle("INFO DELETE", s, l)
  /\ devices' = devices \ {s}
  /\ lowBattery' = lowBattery \ {s}
  /\ UNCHANGED <<podVars, rebooting, stabilizing, battery, ledgerVars,
                 ws, cp, settlers, rebooters, epoch>>

OnDeviceDeleted(s, l) ==
  /\ Handle("DEVICE DELETE", s, l)
  /\ devices' = devices \ {s}
  /\ WsGoto("deletedList", s)
  /\ UNCHANGED <<podVars, flagVars, battery, ledgerVars, cp, settlers, rebooters, epoch>>

DeletedList(s) ==
  /\ WsAt("deletedList", s)
  /\ \/ Exists(s) /\ UNCHANGED podVars /\ WsGoto("deletedDelete", s)
     \/ ListedNone(s) /\ WsDone
     \/ CallFails /\ WsDone
  /\ UNCHANGED <<feedVars, flagVars, infoVars, ledgerVars, cp, settlers, rebooters, epoch>>

DeletedDelete(s) ==
  /\ WsAt("deletedDelete", s)
  /\ DeletePod(s)
  /\ WsDone
  /\ UNCHANGED <<feedVars, flagVars, infoVars, ledgerVars, cp, settlers, rebooters, epoch>>

\* Mutant: the device must exceed the level of resumption.
MutResumeAbove(s, l) ==
  /\ Handle("BATTERY UPDATE", s, l)
  /\ battery' = [battery EXCEPT ![s] = l]
  /\ \/ /\ s \in lowBattery
        /\ l > batteryResumePct
        /\ lowBattery' = lowBattery \ {s}
        /\ WsGoto("batteryList", s)
     \/ /\ s \notin lowBattery \/ l <= batteryResumePct
        /\ UNCHANGED <<lowBattery, ws>>
  /\ UNCHANGED <<podVars, rebooting, stabilizing, devices, ledgerVars,
                 cp, settlers, rebooters, epoch>>

\* lowBattery is read and cleared before the deferred pod is created.
OnBatteryUpdated(s, l) ==
  /\ Handle("BATTERY UPDATE", s, l)
  /\ battery' = [battery EXCEPT ![s] = l]
  /\ \/ /\ s \in lowBattery
        /\ l >= batteryResumePct
        /\ lowBattery' = lowBattery \ {s}
        /\ WsGoto("batteryList", s)
     \/ /\ s \notin lowBattery \/ l < batteryResumePct
        /\ UNCHANGED <<lowBattery, ws>>
  /\ UNCHANGED <<podVars, rebooting, stabilizing, devices, ledgerVars,
                 cp, settlers, rebooters, epoch>>

BatteryList(s) ==
  /\ WsAt("batteryList", s)
  /\ \/ ListedNone(s) /\ WsGoto("batteryCreate", s)
     \/ ListedSome(s) /\ WsDone
  /\ UNCHANGED <<feedVars, flagVars, infoVars, ledgerVars, cp, settlers, rebooters, epoch>>

BatteryCreate(s) ==
  /\ WsAt("batteryCreate", s)
  /\ CreatePod(s)
  /\ WsDone
  /\ UNCHANGED <<feedVars, flagVars, infoVars, ledgerVars, cp, settlers, rebooters, epoch>>

WsStep ==
  \E s \in Serials :
    \/ \E l \in InfoLevels : \/ OnDeviceReady(s, l)
                             \/ OnDeviceOffline(s, l)
                             \/ OnDeviceDeleted(s, l)
                             \/ OnBatteryUpdated(s, l)
    \/ ReadyList(s) \/ ReadyGate(s) \/ ReadyStabilize(s) \/ ReadyCreate(s)
    \/ DeletedList(s) \/ DeletedDelete(s)
    \/ BatteryList(s) \/ BatteryCreate(s)
----------------------------------------------------------------------------
(* CheckPods.  It works through the list it fetched at the start, which is *)
(* not fetched again while logs are read and results are stored.  A list   *)
(* without a completed pod leaves it nothing to do.                        *)

\* On to the next completed pod of the list, or to the next tick.
NextPod == IF cp.todo = {} THEN CpIdle ELSE [CpIdle EXCEPT !.pc = "scan", !.todo = cp.todo]

CheckPods ==
  /\ cp.pc = "idle"
  /\ \/ /\ Completed # {}
        /\ cp' = [CpIdle EXCEPT !.pc = "scan",
                                !.todo = {[serial |-> s, uid |-> pod[s].uid] : s \in Completed}]
        /\ UNCHANGED podVars
     \/ CallFails /\ UNCHANGED cp
  /\ UNCHANGED <<feedVars, flagVars, infoVars, ledgerVars, ws, settlers, rebooters, epoch>>

\* Mutant: Load without Store.
MutClaimForgets(p) ==
  /\ cp.pc = "scan"
  /\ p \in cp.todo
  /\ cp' = [cp EXCEPT !.pc = IF p.uid \in reported THEN "purge" ELSE "collect",
                      !.todo = @ \ {p}, !.cur = p]
  /\ UNCHANGED <<feedVars, podVars, flagVars, infoVars, ledgerVars,
                 ws, settlers, rebooters, epoch>>

\* Mutant: pods are told apart by their name, which their successors share.
MutClaimByName(p) ==
  /\ cp.pc = "scan"
  /\ p \in cp.todo
  /\ LET known == \E i \in DOMAIN runs : runs[i].serial = p.serial
     IN  cp' = [cp EXCEPT !.pc = IF known THEN "purge" ELSE "collect",
                          !.todo = @ \ {p}, !.cur = p]
  /\ reported' = reported \cup {p.uid}
  /\ UNCHANGED <<feedVars, podVars, flagVars, infoVars, runs, ws, settlers, rebooters, epoch>>

\* reported.LoadOrStore: the first to claim a UID reports it.
Claim(p) ==
  /\ cp.pc = "scan"
  /\ p \in cp.todo
  /\ \/ /\ p.uid \notin reported
        /\ cp' = [cp EXCEPT !.pc = "collect", !.todo = @ \ {p}, !.cur = p]
     \/ /\ p.uid \in reported
        /\ cp' = [cp EXCEPT !.pc = "purge", !.todo = @ \ {p}, !.cur = p]
  /\ reported' = reported \cup {p.uid}
  /\ UNCHANGED <<feedVars, podVars, flagVars, infoVars, runs, ws, settlers, rebooters, epoch>>

\* processPodResult asks for logs by pod name, so it gets those of the pod that
\* has the name now; on an error the summary stays empty.
Collect ==
  /\ cp.pc = "collect"
  /\ \/ cp' = [cp EXCEPT !.pc = "delete", !.logs = pod[cp.cur.serial].uid] /\ UNCHANGED podVars
     \/ cp' = [cp EXCEPT !.pc = "delete"] /\ CallFails
  /\ UNCHANGED <<feedVars, flagVars, infoVars, ledgerVars, ws, settlers, rebooters, epoch>>

\* Mutant: a pod that cannot be deleted is left for the next tick.
MutDeleteErrorSkips ==
  /\ cp.pc = "delete"
  /\ DeletePod(cp.cur.serial)
  /\ cp' = IF faults' # faults THEN NextPod ELSE [cp EXCEPT !.pc = "save"]
  /\ UNCHANGED <<feedVars, flagVars, infoVars, ledgerVars, ws, settlers, rebooters, epoch>>

\* The error of DeletePod is ignored.
Delete ==
  /\ cp.pc = "delete"
  /\ DeletePod(cp.cur.serial)
  /\ cp' = [cp EXCEPT !.pc = "save"]
  /\ UNCHANGED <<feedVars, flagVars, infoVars, ledgerVars, ws, settlers, rebooters, epoch>>

\* Run id 0 means that the row was not stored.
SaveTestResult ==
  /\ cp.pc = "save"
  /\ \/ /\ runs' = Append(runs, [serial |-> cp.cur.serial, uid |-> cp.cur.uid,
                                 logs |-> cp.logs, epoch |-> epoch, boot |-> "none"])
        /\ cp' = [cp EXCEPT !.pc = "mark", !.run = Len(runs) + 1]
     \/ /\ InsertMayFail
        /\ cp' = [cp EXCEPT !.pc = "mark"]
        /\ UNCHANGED runs
  /\ UNCHANGED <<feedVars, podVars, flagVars, infoVars, reported, ws, settlers, rebooters, epoch>>

\* rebooting.Store and go rebootAndReport.
MarkRebooting ==
  /\ cp.pc = "mark"
  /\ rebooting' = rebooting \cup {cp.cur.serial}
  /\ rebooters' = [rebooters EXCEPT ![cp.cur.uid] =
                     [stage |-> "request", serial |-> cp.cur.serial, run |-> cp.run]]
  /\ cp' = NextPod
  /\ UNCHANGED <<feedVars, podVars, stabilizing, lowBattery, infoVars, ledgerVars,
                 ws, settlers, epoch>>

\* A pod reported before, whose deletion failed or takes its time.
Purge ==
  /\ cp.pc = "purge"
  /\ DeletePod(cp.cur.serial)
  /\ cp' = NextPod
  /\ UNCHANGED <<feedVars, flagVars, infoVars, ledgerVars, ws, settlers, rebooters, epoch>>

CpStep ==
  \/ CheckPods
  \/ \E p \in cp.todo : Claim(p)
  \/ Collect \/ Delete \/ SaveTestResult \/ MarkRebooting \/ Purge

----------------------------------------------------------------------------
(* A goroutine of scheduleStabilization.                                   *)

SettlerAt(k, stage) == settlers[k].stage = stage
SettlerGoto(k, stage) == settlers' = [settlers EXCEPT ![k].stage = stage]
SettlerDone(k) == settlers' = [settlers EXCEPT ![k] = NoSettler]

\* The delay is over.
Settle(k) ==
  /\ SettlerAt(k, "sleep")
  /\ stabilizing' = stabilizing \ {settlers[k].serial}
  /\ SettlerGoto(k, "unflag")
  /\ UNCHANGED <<feedVars, podVars, rebooting, lowBattery, infoVars, ledgerVars,
                 ws, cp, rebooters, epoch>>

\* Mutant: only stabilizing is cleared.
MutUnflagForgets(k) ==
  /\ SettlerAt(k, "unflag")
  /\ SettlerGoto(k, "list")
  /\ UNCHANGED <<feedVars, podVars, flagVars, infoVars, ledgerVars,
                 ws, cp, rebooters, epoch>>

\* Mutant: the goroutine leaves the pod to ReconcileFn, which is nil.
MutUnflagAndLeave(k) ==
  /\ SettlerAt(k, "unflag")
  /\ rebooting' = rebooting \ {settlers[k].serial}
  /\ SettlerDone(k)
  /\ UNCHANGED <<feedVars, podVars, stabilizing, lowBattery, infoVars, ledgerVars,
                 ws, cp, rebooters, epoch>>

SettlerUnflag(k) ==
  /\ SettlerAt(k, "unflag")
  /\ rebooting' = rebooting \ {settlers[k].serial}
  /\ SettlerGoto(k, "list")
  /\ UNCHANGED <<feedVars, podVars, stabilizing, lowBattery, infoVars, ledgerVars,
                 ws, cp, rebooters, epoch>>

SettlerList(k) ==
  /\ SettlerAt(k, "list")
  /\ \/ ListedNone(settlers[k].serial) /\ SettlerGoto(k, "gate")
     \/ ListedSome(settlers[k].serial) /\ SettlerDone(k)
  /\ UNCHANGED <<feedVars, flagVars, infoVars, ledgerVars, ws, cp, rebooters, epoch>>

\* maybeCreatePod reads the battery level, which OnBatteryUpdated may change
\* before the device is deferred or its pod created.
SettlerGate(k) ==
  /\ SettlerAt(k, "gate")
  /\ \/ IsLow(settlers[k].serial) /\ SettlerGoto(k, "defer")
     \/ ~IsLow(settlers[k].serial) /\ SettlerGoto(k, "create")
  /\ UNCHANGED <<feedVars, podVars, flagVars, infoVars, ledgerVars, ws, cp, rebooters, epoch>>

SettlerDefer(k) ==
  /\ SettlerAt(k, "defer")
  /\ lowBattery' = lowBattery \cup {settlers[k].serial}
  /\ SettlerDone(k)
  /\ UNCHANGED <<feedVars, podVars, rebooting, stabilizing, infoVars, ledgerVars,
                 ws, cp, rebooters, epoch>>

SettlerCreate(k) ==
  /\ SettlerAt(k, "create")
  /\ CreatePod(settlers[k].serial)
  /\ SettlerDone(k)
  /\ UNCHANGED <<feedVars, flagVars, infoVars, ledgerVars, ws, cp, rebooters, epoch>>

SettlerStep(k) ==
  \/ Settle(k) \/ SettlerUnflag(k) \/ SettlerList(k)
  \/ SettlerGate(k) \/ SettlerDefer(k) \/ SettlerCreate(k)

----------------------------------------------------------------------------
(* The goroutine of rebootAndReport for pod u, and its retry goroutine.    *)

RebooterAt(u, stage) == rebooters[u].stage = stage
RebooterGoto(u, stage) == rebooters' = [rebooters EXCEPT ![u].stage = stage]
RebooterDone(u) == rebooters' = [rebooters EXCEPT ![u] = NoRebooter]

RebootAccepted(u) ==
  /\ RebooterAt(u, "request")
  /\ hub[rebooters[u].serial] = "online"
  /\ due' = due \cup {rebooters[u].serial}
  /\ RebooterGoto(u, "accepted")
  /\ UNCHANGED <<hub, inbox, welcome, podVars, flagVars, infoVars, ledgerVars,
                 ws, cp, settlers, epoch>>

\* The hub answers with an error: the device is not there, or the call failed.
RebootRefused(u) ==
  /\ RebooterAt(u, "request")
  /\ \/ hub[rebooters[u].serial] # "online" /\ UNCHANGED podVars
     \/ CallFails
  /\ RebooterGoto(u, "failed")
  /\ UNCHANGED <<feedVars, flagVars, infoVars, ledgerVars, ws, cp, settlers, epoch>>

\* httpClient gives up after ten seconds on a request that reached the device.
RebootTimesOut(u) ==
  /\ RebooterAt(u, "request")
  /\ hub[rebooters[u].serial] = "online"
  /\ CallFails
  /\ due' = due \cup {rebooters[u].serial}
  /\ RebooterGoto(u, "failed")
  /\ UNCHANGED <<hub, inbox, welcome, flagVars, infoVars, ledgerVars, ws, cp, settlers, epoch>>

\* Mutant: a verdict the store does not know.
MutBootPending(run, verdict) ==
  \/ run # 0 /\ runs' = [runs EXCEPT ![run].boot = "pending"]
  \/ run = 0 /\ UNCHANGED runs

\* Mutant: the verdict goes to the latest row, whichever run it is.
MutBootLatest(run, verdict) ==
  \/ run # 0 /\ runs' = [runs EXCEPT ![Len(runs)].boot = verdict]
  \/ run = 0 /\ UNCHANGED runs

UpdateBootResult(run, verdict) ==
  \/ run # 0 /\ runs' = [runs EXCEPT ![run].boot = verdict]
  \/ run = 0 /\ UNCHANGED runs

\* rebooting stays set: only a settler clears it.
RebootSucceeded(u) ==
  /\ RebooterAt(u, "accepted")
  /\ UpdateBootResult(rebooters[u].run, "ok")
  /\ RebooterDone(u)
  /\ UNCHANGED <<feedVars, podVars, flagVars, infoVars, reported, ws, cp, settlers, epoch>>

\* Mutant: the error return comes before updateBootResult.
MutFailedSilently(u) ==
  /\ RebooterAt(u, "failed")
  /\ rebooting' = rebooting \ {rebooters[u].serial}
  /\ RebooterGoto(u, "sleep")
  /\ UNCHANGED <<feedVars, podVars, stabilizing, lowBattery, infoVars, ledgerVars,
                 ws, cp, settlers, epoch>>

RebootFailed(u) ==
  /\ RebooterAt(u, "failed")
  /\ rebooting' = rebooting \ {rebooters[u].serial}
  /\ UpdateBootResult(rebooters[u].run, "failed")
  /\ RebooterGoto(u, "sleep")
  /\ UNCHANGED <<feedVars, podVars, stabilizing, lowBattery, infoVars, reported,
                 ws, cp, settlers, epoch>>

\* Ten seconds later the cycle goes on, if the device is still known.
RetryWake(u) ==
  /\ RebooterAt(u, "sleep")
  /\ \/ rebooters[u].serial \in devices /\ RebooterGoto(u, "list")
     \/ rebooters[u].serial \notin devices /\ RebooterDone(u)
  /\ UNCHANGED <<feedVars, podVars, flagVars, infoVars, ledgerVars, ws, cp, settlers, epoch>>

RetryList(u) ==
  /\ RebooterAt(u, "list")
  /\ \/ ListedNone(rebooters[u].serial) /\ RebooterGoto(u, "create")
     \/ ListedSome(rebooters[u].serial) /\ RebooterDone(u)
  /\ UNCHANGED <<feedVars, flagVars, infoVars, ledgerVars, ws, cp, settlers, epoch>>

\* createPod, not maybeCreatePod.
RetryCreate(u) ==
  /\ RebooterAt(u, "create")
  /\ CreatePod(rebooters[u].serial)
  /\ RebooterDone(u)
  /\ UNCHANGED <<feedVars, flagVars, infoVars, ledgerVars, ws, cp, settlers, epoch>>

RebooterStep(u) ==
  \/ RebootAccepted(u) \/ RebootRefused(u) \/ RebootTimesOut(u)
  \/ RebootSucceeded(u) \/ RebootFailed(u)
  \/ RetryWake(u) \/ RetryList(u) \/ RetryCreate(u)
----------------------------------------------------------------------------
(* The rest of the world, and the process itself.                          *)

managerVars == <<flagVars, infoVars, ledgerVars, ws, cp, settlers, rebooters, epoch>>

HubStep == Environment /\ UNCHANGED <<podVars, managerVars>>

Reconnected == ws = WsIdle /\ Reconnect /\ UNCHANGED <<podVars, managerVars>>

PodStep(s) == (Finish(s) \/ PodGone(s)) /\ UNCHANGED <<feedVars, managerVars>>

\* The process is killed at any point and started again: its maps and its
\* goroutines are gone; the rows, the pods and the phones are not.
Restart ==
  /\ epoch < MaxEpoch
  /\ epoch' = epoch + 1
  /\ rebooting' = {} /\ stabilizing' = {} /\ lowBattery' = {}
  /\ devices' = {} /\ battery' = [s \in Serials |-> Unknown]
  /\ reported' = {}
  /\ ws' = WsIdle /\ cp' = CpIdle
  /\ settlers' = [k \in Settlers |-> NoSettler]
  /\ rebooters' = [u \in Uids |-> NoRebooter]
  /\ Connected
  /\ UNCHANGED <<hub, due, podVars, runs>>

Next ==
  \/ WsStep
  \/ CpStep
  \/ \E k \in Settlers : SettlerStep(k)
  \/ \E u \in Uids : RebooterStep(u)
  \/ HubStep
  \/ Reconnected
  \/ \E s \in Serials : PodStep(s)
  \/ Restart

Spec == Init /\ [][Next]_vars

\* Goroutines are scheduled and their calls have deadlines; the ticker ticks.
\* Of the world outside: a test run ends, a deleted pod goes, an accepted
\* reboot takes the device down and a device that is down comes back.
Fairness ==
  /\ WF_vars(WsStep)
  /\ WF_vars(CpStep)
  /\ \A k \in Settlers : WF_vars(SettlerStep(k))
  /\ \A u \in Uids : WF_vars(RebooterStep(u))
  /\ \A s \in Serials :
       /\ WF_vars(PodStep(s))
       /\ SF_vars(s \in due /\ GoOffline(s) /\ UNCHANGED <<podVars, managerVars>>)
       /\ SF_vars(ComeOnline(s) /\ UNCHANGED <<podVars, managerVars>>)

FairSpec == Spec /\ Fairness

\* A device that stays online is charged: it keeps reporting enough battery.
ChargingSpec ==
  /\ FairSpec
  /\ \A s \in Serials :
       SF_vars(/\ \E l \in Levels : l >= batteryResumePct /\ Battery(s, l)
               /\ UNCHANGED <<podVars, managerVars>>)

----------------------------------------------------------------------------
(* Safety.                                                                 *)

\* A run of the process stores the result of a pod at most once, however often
\* CheckPods lists it again because its deletion failed or takes its time
\* (reported, manager.go 499 and 520).
OneReportPerPod ==
  \A i, j \in DOMAIN runs :
    runs[i].uid = runs[j].uid /\ runs[i].epoch = runs[j].epoch => i = j

\* stabilizing is set exactly while one goroutine waits for the device, so the
\* flag neither sticks nor lets two of them wait (manager.go 402-409).
StabilizingHasOneWaiter ==
  \A s \in Serials :
    /\ s \in stabilizing <=> \E k \in Settlers : settlers[k] = [stage |-> "sleep", serial |-> s]
    /\ \A j, k \in Settlers :
         settlers[j] = settlers[k] /\ settlers[k] = [stage |-> "sleep", serial |-> s] => j = k

\* A row this process stored without a verdict has a goroutine that will bring
\* one: the row is not forgotten while the reboot runs (manager.go 1093-1123).
VerdictOwed ==
  \A i \in DOMAIN runs :
    runs[i].epoch = epoch /\ runs[i].boot = "none" =>
      \/ cp.pc = "mark" /\ cp.run = i
      \/ \E u \in Uids : /\ rebooters[u].run = i
                         /\ rebooters[u].stage \in {"request", "accepted", "failed"}

\* What will end the wait of device s for its reboot: the reboot is still to be
\* asked for or to take effect, the device is still to report back or to settle,
\* or the wait is that for the last pod and CheckPods will begin the next one.
AddOnItsWay(s) == \E i \in DOMAIN inbox : inbox[i].event = "INFO ADD" /\ inbox[i].serial = s

Returns(s) == hub[s] # "online" \/ s \in due \/ s \in welcome \/ AddOnItsWay(s)
Greeted(s) == ws.serial = s /\ ws.pc \in {"readyList", "readyGate", "readyStabilize"}
Settles(s) == \E k \in Settlers : settlers[k].serial = s /\ settlers[k].stage \in {"sleep", "unflag"}
Reboots(s) == \E u \in Uids : rebooters[u].serial = s /\ rebooters[u].stage \in {"request", "failed"}
Collected(s) == Exists(s) \/ (cp.cur.serial = s /\ cp.pc \in {"save", "mark"})

\* While no call fails and deletions take effect at once, the flag rebooting never
\* outlives all who could clear it, however reboots, unplugs, reconnects and
\* restarts of the process interleave with CheckPods: the "rebooting/stabilizing
\* flags set forever" that manager.go 391-397 tells of do not come back.
RebootingHasOwner ==
  faults = MaxFaults =>
    \A s \in rebooting : Returns(s) \/ Greeted(s) \/ Settles(s) \/ Reboots(s) \/ Collected(s)

HasRow(u) == \E i \in DOMAIN runs : runs[i].uid = u

\* Pods that are gone and never got, nor will get, a row.
Lost ==
  {u \in 1..(nextUid - 1) : /\ \A s \in Serials : pod[s].uid # u
                            /\ ~(cp.pc = "save" /\ cp.cur.uid = u)
                            /\ ~HasRow(u)}

\* Only a process killed between the deletion of a pod and the insertion of its
\* row loses a result, and each crash costs one at most, never a whole list of
\* CheckPods, nor does a purge delete an unstored pod: if deletions take effect at
\* once, the hub forgets no device and the store takes every row (manager.go
\* 496-535).
CrashLosesOneResult == Cardinality(Lost) <= epoch - 1

\* Rows are only appended, and a row changes once at most: when it gets its
\* verdict.  The goroutines of later pods, and of later runs of the process,
\* never write to it (UpdateBoot by run id, manager.go 1125-1134).
BootVerdictOnce ==
  [][/\ Len(runs') >= Len(runs)
     /\ \A i \in DOMAIN runs :
          runs'[i] # runs[i] => /\ runs[i].boot = "none"
                                /\ \E v \in {"ok", "failed"} :
                                     runs'[i] = [runs[i] EXCEPT !.boot = v]]_vars

\* Once every message is handled, the manager knows all devices that are
\* online, across reconnects and restarts (hubws.go 188-216).
KnowsOnline == ws = WsIdle /\ Drained => Online \subseteq devices

\* Once every message is handled, the devices the manager takes for "currently
\* ready devices" (manager.go 57) are online.
NoGhosts == ws = WsIdle /\ Drained => devices \subseteq Online

Creates(s) == ~Exists(s) /\ pod'[s] # NoPod

\* No handler starts a test on a device that it knows to be low: the reading it
\* checked is still the last one when the pod is created (manager.go 366-377
\* and 436-469).
HandlersRespectBattery ==
  [][\A s \in Serials : Creates(s) /\ ws' # ws => battery[s] \notin 0..batteryMinPct]_vars

\* "If we're waiting for a reboot, let the device settle before starting tests"
\* (manager.go 355).
NoTestDuringReboot == [][\A s \in Serials : Creates(s) => s \notin rebooting]_vars

\* CheckPods "collects results from completed ones" (manager.go 471): a row holds
\* the logs of the completed pod it is about, if it holds any.
LogsMatchPod == \A i \in DOMAIN runs : runs[i].logs \in {0, runs[i].uid}

----------------------------------------------------------------------------
(* What all this is for: the results, as ResultLedger sees them.  Each run *)
(* of the process claims a pod anew, so a claim is a pair of both.         *)

Claims == (1..MaxEpoch) \X Uids
Lives == {{e} \X Uids : e \in 1..MaxEpoch}

\* How far the result of pod u has come in run e of the process.
ClaimStage(e, u) ==
  IF e > epoch \/ (e = epoch /\ u \notin reported) THEN "open"
  ELSE IF e < epoch THEN "closed"
  ELSE IF rebooters[u].stage \in {"request", "accepted", "failed"} THEN "rebooting"
  ELSE IF cp.cur.uid = u /\ cp.pc \in {"collect", "delete", "save"} THEN "claimed"
  ELSE IF cp.cur.uid = u /\ cp.pc = "mark" THEN "stored"
  ELSE "closed"

ClaimStages == [c \in Claims |-> ClaimStage(c[1], c[2])]
LedgerRows == [k \in DOMAIN runs |-> [claim |-> <<runs[k].epoch, runs[k].uid>>,
                                     boot |-> runs[k].boot]]

Results == INSTANCE ResultLedger WITH stage <- ClaimStages, ledger <- LedgerRows

\* CheckPods, the goroutines of rebootAndReport and crashes keep the promise of
\* ResultLedger: a result is claimed, stored and completed in this order, once for
\* each run of the process, and a verdict goes to the row of its own pod
\* (manager.go 494-535, 1018-1134).
ImplementsLedger == Results!Spec

----------------------------------------------------------------------------
(* Liveness, under FairSpec or ChargingSpec.                               *)

\* The result of a test run that ended reaches the store (manager.go 471-535).
ResultsArrive ==
  \A u \in Uids :
    (\E s \in Serials : pod[s].uid = u /\ pod[s].phase = "done")
      ~> \E i \in DOMAIN runs : runs[i].uid = u

\* A device does not wait for a reboot forever, "with rebooting/stabilizing
\* flags set forever and no pod ever created" (manager.go 391-397).
FlagCleared == \A s \in Serials : s \in rebooting ~> s \notin rebooting

\* A device deferred for its battery is taken up again or leaves, although an
\* update may arrive between the check and the deferral (manager.go 366-371)
\* and wake nobody: the next one does.
DeferralEnds == \A s \in Serials : s \in lowBattery ~> s \notin lowBattery

\* The test cycle goes on: after a pod ends another is created, up to the bound.
CycleContinues ==
  \A u \in 1..(MaxUid - 1) :
    (\E s \in Serials : pod[s].uid = u /\ pod[s].phase = "done") ~> nextUid > u + 1
=============================================================================
