# hub-test in TLA+

hub-test keeps a farm of phones under test: for every phone that is connected it
runs a test container, stores the result, reboots the phone and starts over. It
does so in two modes. In **hub mode** (`-hub-url`, `main.go` 214-268) a
hub-server announces the phones over a WebSocket and tests run in Kubernetes
pods; in **local mode** (`main.go` 270-384) the phones hang on this host's ADB
server and tests run in Docker containers. These modules model the test cycle of
both modes, the promise about results both keep, the USB monitor of local mode and
the way a result reaches an open page. TLC checks them on small farms, and TLAPS
proves their safety core for farms of any size.

The source is the reference. `src/internal/docker/manager.go` also holds an
unused Kubernetes variant (`K8sNamespace` is never set) and
`src/internal/k8s/manager.go` a `Reconcile` that hub mode never calls; neither is
modelled.

## Inventory

| Component | State | Operations | Hard behaviour | What makes it correct |
|---|---|---|---|---|
| Hub-mode manager, `internal/k8s/manager.go` | `devices`, `rebooting`, `stabilizing`, `lowBattery`, `batteryInfo`, `reported` (sync.Maps without a common lock) | the `On...` handlers, `CheckPods`, `scheduleStabilization`, `maybeCreatePod`, `rebootAndReport` and its retry | four kinds of goroutines, API calls between reading and writing a map, pods that share a name, process restarts | a result stored once, each row gets one verdict, flags that do not stick, no test on a low battery or during a reboot, the cycle goes on |
| Device feed, `vendor/xfarm.hub/hub-ws-client/hubws.go` | the connection, the current welcome | `Connect`, `runOnce`, one handler call at a time | drops, messages lost while away | the manager knows what is online |
| Kubernetes client, `internal/k8s/client.go` | none | list, create, delete, logs | calls fail; a deleted pod stays for its grace period | - |
| Local-mode manager, `internal/docker/manager.go` | `rebooting`, `reported`, `usbCache` | `Reconcile`, `createAppium`, `createTest`, `removeDevice`, `rebootAndReport` | two goroutines in `Reconcile` on lists of their own; containers left by an earlier process | a test reported once, running tests left alone, distinct ports, containers follow the device |
| Reconcile queue and watch loop, `main.go` | `reconcileCh`, `prevSnapshot` | debounce, `reconcileDevices` | a signal while the channel is drained; nil against empty lists | no signal is lost |
| ADB client, `internal/adb/client.go` | the track-devices connection | `TrackDevices`, `ListDevices`, `Reboot`, `WaitForReady` | a silent or broken connection | every change is delivered in the end |
| USB monitor, `internal/usb/monitor.go` | `prev`; with the manager: `usbCache` | `Poll`, `OnModeChange`; `logEvent`, `vidPidOK` | a poll and a reconciliation race for the same switch; two writers of `usbCache`; a refused row is not retried | the history of a port shows what the monitor saw, a noticed switch reaches `usbCache` for good, a phone in its test mode is served |
| Store, `internal/store/store.go` | SQLite tables | `Insert`, `UpdateBoot`, statistics, device configuration | rows of overlapping reboots | the verdict goes to its own row |
| Web server and SSE hub, `internal/web` | one-slot channels of the clients; table and statistics of a page | `Notify`, `handleEvents`, pages, `refresh` of their script | a slow client, overlapping refreshes, a store that changes between two requests | a page is shown every change it is told of, and once it is at rest its statistics cover its table |
| APK cache, flags, packaging, test suites | files | start-up only | - | - |

How they interact. Hub mode: `hubws.Client.Connect` calls the manager's handlers
from one goroutine; `main` calls `CheckPods` every 15 seconds from another; the
manager starts goroutines that wait for a phone to settle, ask the hub for a
reboot, or try again ten seconds after a refused one. All of them call the
Kubernetes API and share the maps. Local mode: `TrackDevices` calls back into
`main`, which reconciles; goroutines that wait for a container or a reboot put a
signal into `reconcileCh`, whose worker reconciles as well. Both modes write rows
with `Store.Insert` and complete them with `Store.UpdateBoot`, and every
change of a run tells the SSE hub.

The hazards these behaviours bring are listed, each at its line, in
`PROJECT.json`, with the properties that watch them.

## Modules

    ResultLedger              what is promised about results (abstract)
    `-- ResultLedgerProofs    what the promise is worth

    Fleet                     the serials
    |-- DeviceFeed            hub-server, WebSocket, client           (hub mode)
    |-- PodApi                Kubernetes calls and the kubelet        (hub mode)
    |   `-- HubManager        the manager; EXTENDS both, implements ResultLedger
    |       |-- MCHubManager       symmetries of slots and devices
    |       `-- HubManagerProofs   theorems
    |           |-- HubRefinement  HubManager implements ResultLedger
    |           `-- HubCycleProofs what it knows of its phones, keeps of results
    |                              and waits for in reboots
    |-- AdbFeed               ADB server, TrackDevices                (local mode)
    |   `-- UsbMonitor        Poll, usbCache and the gate of Reconcile
    |       |-- MCUsbMonitor
    |       `-- UsbMonitorProofs
    `-- Containers            the Docker daemon                       (local mode)
        `-- LocalManager      Reconcile twice over; EXTENDS AdbFeed and Containers
            |-- MCLocalManager
            `-- LocalManagerProofs
                `-- LocalRefinement  LocalManager implements ResultLedger

    Dashboard                 Notify, handleEvents, the page's script
    |-- MCDashboard
    `-- DashboardProofs

**HubManager.** A step is one access to a map that another goroutine writes, or
one API call; local work that commutes with all others is part of its neighbour.
The program counter of the WebSocket goroutine is `ws`, of `CheckPods` `cp`; the
goroutines of `scheduleStabilization` occupy the slots `settlers`, those of
`rebootAndReport` the entries of `rebooters`, one for each pod. So
`OnDeviceReady` is `OnDeviceReady` (the Stores and the branch on the test image),
`ReadyList` (`ListPods`), `ReadyGate` (the `rebooting` check), `ReadyStabilize`
(`LoadOrStore` and `go`) and `ReadyCreate` (`createPod`); `CheckPods` is
`CheckPods`, `NextPod`, `Claim`, `Collect`, `Delete`, `SaveTestResult`,
`MarkRebooting` and `Purge`. The list that `CheckPods` fetched stays in `cp.todo`
while pods of the same names come and go. `adbEndpoints` changes with `devices`
and is not kept apart. A row of the store holds whose run it is, whose logs it
carries, which run of the process stored it and the verdict (`boot`) of the
reboot after it; parsed test output, screenshots and wording are left out.
`Restart` kills the process between any two steps and starts it again: maps and
goroutines go, rows, pods and phones stay.

**DeviceFeed** and **PodApi** give HubManager its inputs: what the hub says and
what the API answers. Their operators for the client side are translated from
`hubws.go` and `client.go`; the server side is external and chosen freely.

**LocalManager.** `rec["main"]` and `rec["worker"]` are the two callers of
`Reconcile`: a step is one Docker call or one access to a shared map. A
reconciler works on `rec[r].seen`, what `listManaged` told it, however old; the
pass removes the devices in `drop` and then goes through those in `todo`, both in
any order (Go maps). `token` is the slot of `reconcileCh`; `waiters` and
`rebooters` are the goroutines that signal it. `killPortHolder` (`exec.go`) makes
the Appium container on a port exit.

**ResultLedger** says nothing of pods, containers or goroutines: a finished test is
claimed, its row stored (or refused by sqlite), its phone rebooted, and the verdict
written to its row and to no other; a crash closes the claims of its run of the
process. Both managers define `ClaimStage`, how far a claim has come, from their
program counters, `reported` and the goroutines of `rebootAndReport`, and instantiate
the module with it (`Results`); `ImplementsLedger` is `Results!Spec`. A claim is a
test container in local mode, and a pod in a run of the process in hub mode, as
`reported` is lost with the process.

**UsbMonitor.** The view of local mode that LocalManager leaves out: in which mode a
phone is, and who knows it. `Scan` (sysfs) and `Poll` (`adb devices`, the
differences, the rows, `OnModeChange`) are the two halves of a poll, with everything
that may happen between them. One reconciler, reduced to what it reads of `usbCache`
and writes to it: `List` (the configuration), `RemoveDevice`, `StartDevice` (both
ask `VidPidOK`), `ReadInfo` and `StoreInfo` (`logEvent`: sysfs first, the cache
then). `Configure` is the page, `SwitchMode`, `Plug` and `Unplug` are the phone,
which ADB sees later or not at all (`Debugged` are the phones with USB debugging).
`missed` and `swapped` are history variables: the ports whose last row sqlite has
refused, and those where a phone has taken the place of another in the same mode,
unnoticed.

**Dashboard.** The store is the number of changes made to it. `Write` and `Notify`
are two steps of a goroutine of the manager; `slot` is a client's channel, `handler`
the loop of `handleEvents`, `wire` what TCP holds; `refreshes` are the calls of the
script's `refresh`, each with its two requests (`FetchRuns`, `FetchStats`) before it
reads and renders the two bodies, one after the other (`RenderTable`, `RenderStats`);
`FetchFails` ends it at any point. `owed`, `best` and `disturbed` are history variables:
the changes announced to a page while it is connected, the latest answer it has
rendered, and the pages whose last refreshes overlapped or failed.

`PROJECT.json` maps every definition to its lines.

## Runs

| Run | Question | Result |
|---|---|---|
| hub_safety | one phone, two pods, two runs of the process, forgotten devices, refused rows, one failing call, graceful deletion: do `CheckPods`, the goroutines of `rebootAndReport` and a crash keep the promise of ResultLedger (`ImplementsLedger`), is a result stored once per run of the process (`OneReportPerPod`), does a row keep a goroutine that owes it a verdict (`VerdictOwed`) and get exactly one (`BootVerdictOnce`), is no phone taken for ready that has left (`NoGhosts`)? | holds |
| hub_restart | two phones, two pods that may be completed at once, two runs of the process, drops of the WebSocket: one waiter for each flag (`StabilizingHasOneWaiter`), are online devices known after every reconnect (`KnowsOnline`), will somebody end every wait for a reboot while no call fails (`RebootingHasOwner`), how many results of a list does a crash cost (`CrashLosesOneResult`)? | holds |
| hub_live | one phone under fairness, levels 30 and 35 (both thresholds), unplugging: `FlagCleared`, `ResultsArrive`, `DeferralEnds`, `CycleContinues`; and does no handler start a test on a phone it knows to be low (`HandlersRespectBattery`)? | holds, when a deleted pod is gone at once |
| hub_stranded | the same flag when pods terminate gracefully | `FlagCleared` violated |
| hub_early_test | no test is started while `rebooting` is set | `NoTestDuringReboot` violated |
| hub_mixed_logs | a row holds the logs of its own pod | `LogsMatchPod` violated |
| local_safety | one phone that comes and goes and changes its USB mode, two reconcilers, leftovers: `ImplementsLedger`, `OneReportPerTest`, `RebootingHasOwner`, `VerdictOwed`, `BootVerdictOnce` | holds |
| local_live | two failing calls or Appium crashes, under fairness: `EndedTestsLeave`, `SignalsServed`, and every row gets the verdict of its reboot (`VerdictsArrive`) | holds |
| local_last_unplug | the containers of an unplugged phone go | `ContainersFollowDevice` violated |
| local_tests_kept | a running test is not removed as an orphan | `RunningTestsKept` violated |
| usb_watch | two phones in turn at one port, one of them without debugging, two modes (one without a serial), the page, one failing call, `adb devices` that fails at will: does the last row of a port show what the monitor last saw (`HistoryShowsSeen`), does a noticed switch reach `usbCache` and stay (`SwitchReachesCache`), is a phone in its test mode served, whichever of poll and reconciliation comes first (`TestModeServed`)? | holds |
| web_refresh | one page, two writers, two overlapping refreshes, one failing request, reconnects: is a dropped signal a lost one (`NoLostWakeup`), is every announced change rendered (`ChangesShown`), does a page at rest show what was announced, with statistics that cover the table (`RestingPageCurrent`)? | holds |

What the violated ones show:

- *hub_stranded.* The comment at k8s `manager.go` 391-397 promises that no phone
  stays behind "with rebooting/stabilizing flags set forever". `OnDeviceReady`
  lists the pods first and returns (350) when the old pod is still terminating.
  No event follows for a phone that stays online, so nobody reaches
  `scheduleStabilization` and `rebooting` stays set.
- *hub_early_test.* `CheckPods` deletes the finished pod (502, 522) before it sets
  `rebooting` (504, 524). A handler that lists the pods in between passes the
  check at 356 and starts a pod into the reboot.
- *hub_mixed_logs.* `CheckPods` reads logs by pod name from a list it fetched
  earlier; the name may belong to the next pod by then.
- *local_last_unplug.* `parseDeviceList` returns nil for an empty list, and
  `reconcileDevices` takes nil for "fetch again" and then for "nothing to do"
  (`main.go` 405). The removal of containers never runs for the last phone.
- *local_tests_kept.* Both reconcilers saw no test container; the one that comes
  second removes the other's running test by name (docker `manager.go` 624).

Three more observations, which no run states: with `-build-tests` and no tag `TestImage`
is set in `dockerCfg` after `NewManager` has copied it (`main.go` 303), so that the
manager never starts a test; the retry after a refused reboot (k8s
`manager.go` 1115) calls `createPod`, not `maybeCreatePod`, and starts a test whatever
the battery ("pause tests at or below this level", 380); and `nextPort` (docker
`manager.go` 487) looks at the caller's list only, so that two reconcilers can give
two Appium servers the same port.

What the passing runs show besides:

- *hub_restart.* `RebootingHasOwner` is the safe side of `FlagCleared`: it names who
  ends the wait at each moment. Its premise `faults = MaxFaults` (no call has failed
  yet) is needed, as `OnDeviceReady` returns after a `ListPods` that fails (346-349) and
  nobody comes back to the phone; so is the immediate deletion, by hub_stranded.
  `CrashLosesOneResult` bounds the loss that a process killed between `DeletePod` and
  `Insert` causes; that it is not zero is what the code does. `CheckPods` has two pods in
  its list here, and a crash takes the result of one of them. A purge needs a failed
  deletion and does not occur in this run, which has no failing call: that it deletes
  no unstored pod is in `CrashCost`.
- *usb_watch.* `HistoryShowsSeen` promises a phone's presence, mode and visibility, and
  its serial with an exception: `Poll` compares VID:PID and `in_adb` and no serial (65, 77).
  A phone that takes the place of another in the same mode between two polls gets no row,
  and the last one keeps the old serial until the port changes; the run reaches this.
  A phone that returns in its test mode is reconciled at once, before the
  poll that notices the mode: it is skipped, and the unchanged device list hides it
  from then on. It is the connection of `TrackDevices`, renewed after a silent minute,
  that brings it back (the mutant of `TestModeServed` keeps `prevSnapshot` and loses
  it). The properties speak of a switch the monitor *notices*: `Noticeable` excludes a
  poll that hits the port while it is empty, or finds another phone there in the mode the
  phone has now, and a reading of `logEvent` that is stored after the switch. In these
  cases the code leaves the wrong mode in `usbCache`
  until the next switch.
- *web_refresh.* "drop if client is slow" loses nothing, because the signal that is in
  the channel is older than every request it will cause. Nothing orders refreshes that
  overlap: `renderTable` and `renderStats` each follow an `await` (`server.go` 859-860),
  so that the older call may render its table, or its statistics, last; and a second body that
  fails leaves a new table beside old statistics (862). Without the exception for
  `disturbed` pages both halves of `RestingPageCurrent` are violated. What holds is that
  one refresh that runs alone and succeeds makes up for all that, although the store
  moves on between its two requests and signals were merged on the way.

`CHECK_DEADLOCK FALSE` stands in every configuration of the two managers: once the
bounds on pods, containers and restarts are used up, a farm whose phones stay away
has nothing left to do.

### Bounds, and why they are enough

- *Pods* (`MaxUid`), *test containers* (`MaxTest`): two let a pod meet its
  successor, which is what names, stale lists and late verdicts are about; one is
  enough for battery and queue questions. `nextUid > MaxUid` is a create call
  that is refused, as with an exhausted quota.
- *Failing calls* (`MaxFaults`): one fault reaches every error path once, two let
  a retry fail as well. hub_restart and local_safety have none, which keeps two phones
  and two concurrent reconcilers within reach: for failing calls in their properties see
  the theorems, and hub_safety and local_live.
- *Messages* (`MaxInbox`, `MaxFeed`): one message waits while another is handled,
  enough for a message to be stale when it is read.
- *Runs of the process* (`MaxEpoch`): two, so that one is started on what another
  has left.
- *Settlers*: `Settlers` bounds the goroutines of `scheduleStabilization` alive at
  once. `StabilizingHasOneWaiter` shows one sleeping goroutine per device; a
  second slot covers the one that has woken and not yet finished. With a single
  slot (hub_safety, hub_live) the next one waits for a free slot.
- *Phones*: every map is keyed by serial, and phones meet only in the WebSocket
  goroutine, in `CheckPods` and in `nextPort`. hub_restart has two, both with a test
  image; `OnDeviceReady` of a phone without one ends at once (`s \notin Testable`), which
  the theorems cover and no passing run. In usb_watch a switch concerns one port, where
  two phones can follow each other: `Debugged` and `Returning` let one of them come,
  go and change freely, while the other, which ADB never finds, only leaves.
- *Levels*: 30 and 35 are the thresholds; `Unknown` is a phone without a reading.
- *Slots* are interchangeable, hence `SlotSymmetry`, and so are phones that all have a
  test image (`DeviceSymmetry`), in runs without liveness only.
- *USB modes*: one in which the descriptor has no serial (the monitor then calls
  nobody), one that is the test mode.
- *Dashboard*: three changes and two writers let two be announced by one signal while
  another is being fetched; `Refreshes` bounds the calls of `refresh` alive at once,
  and two are needed for one to overtake the other; `MaxWire` is how much TCP takes
  before a write blocks.

### Fairness

Weak fairness of each goroutine: Go schedules it, its HTTP calls have deadlines
(10 s for the hub, 30 s contexts for Kubernetes), sleeps end, the ticker of
`CheckPods` ticks, and `track-devices` is read with a 60-second deadline, so that
`TrackDevices` connects anew when it hears nothing. The choice between an answer
and an error is never fair. Of the world outside, `FairSpec` of HubManager
assumes that a test ends, a deleted pod goes, a phone that accepted a reboot goes
down and one that is down comes back; the last two are strong because a full
inbox disables them now and then. `ChargingSpec` adds that a phone keeps
reporting a sufficient level, for `DeferralEnds` and `CycleContinues`. `FairSpec`
of LocalManager assumes that a test ends, and nothing of phones. `FairSpec` of
UsbMonitor assumes that the ticker ticks, that the main goroutine runs, reads its
stream (`Track`) and renews a silent connection (`Keepalive`); nothing of phones,
whose stay in a mode is a premise of the two properties. `FairSpec` of Dashboard
assumes that the goroutines run and that a page reads its stream and gets its
answers; it may always be closed, lose its stream or have a request fail, and then
what it was owed is waived.

## Proofs

`HubManagerProofs` proves for any serials, levels, bounds and number of slots
(under the named assumptions on the constants, which TLC evaluates in every run):

| Theorem | Statement |
|---|---|
| TypeCorrect | `Spec => []TypeOK` |
| ReportedOnce | `Spec => []OneReportPerPod` |
| VerdictIsOwed | `Spec => []VerdictOwed` |
| VerdictIsFinal | `Spec => BootVerdictOnce` |
| OneWaiter | `Spec => []StabilizingHasOneWaiter` |
| BatteryRespected | `Spec => HandlersRespectBattery` |

The argument. `OneReportPerPod` is not inductive: between `Claim` and
`SaveTestResult` nothing in `runs` tells that the pod is taken. The invariant
`LedgerInv` adds that every row of this run of the process has its pod in
`reported` (`RowsClaimed`), that the pod `CheckPods` is working on is claimed and
has no row until it is saved (`CpClaimed`), and that a goroutine of
`rebootAndReport` belongs to a claimed pod, and as long as it has not reported, to
a row without a verdict (`RebootersClaimed`). With `VerdictOwed` these are kept by
every step, and `BootVerdictOnce` follows because a verdict is only written
through the goroutine's own row. `Restart` keeps them because they speak of the
current epoch. `StabilizingHasOneWaiter` is inductive with the types alone, as
`LoadOrStore` decides who waits. `HandlersRespectBattery` needs `Checked`: while the
WebSocket goroutine is about to create, the reading it has checked is the last one,
since only that goroutine writes `battery`.

`LocalManagerProofs` does the same for local mode, for any finite set of devices:

| Theorem | Statement |
|---|---|
| TypeCorrect | `Spec => []TypeOK` |
| ReportedOnce | `Spec => []OneReportPerTest` |
| RebootingOwned | `Spec => []RebootingHasOwner` |
| VerdictIsOwed | `Spec => []VerdictOwed` |
| VerdictIsFinal | `Spec => BootVerdictOnce` |

The argument. Types need `WorkersKnowTheirJob` (a reconciler at work has a device,
one that starts a container has its ID, a run id points into the rows) and, for
`nextPort`, that as many ports as devices suffice: the device that looks for one
holds none in the list, so the others leave one free (`NextPortIsFree`, by
cardinalities; hence the assumption that the set of devices is finite). `Ledger`
says who may write what: a test in the hands of a reporter is claimed, has no other
reporter and no rebooter, and no row until it is saved; a rebooter that has not
finished waits for a row of its own test that has no verdict. A claim moves from
`reported` to a reporter, to a row, to a rebooter, and no step copies it. Then
`RebootingHasOwner` is inductive too: the entry that `MarkRebooting` overwrites
belonged to nobody. For the same reason `VerdictOwed` is: the reconciler that stores a
row owes its verdict, hands the debt over in `MarkRebooting`, and the goroutine ends
only through `UpdateBootResult` of that row.

**Refinement.** `HubRefinement` and `LocalRefinement` prove `Spec => ImplementsLedger`,
that every step of the manager is a step of ResultLedger or leaves its view alone.
The invariant is the one of the ledger proofs above with `Unstored`: a claim whose
row was refused has no row, so that its verdict reaches nobody's. What has to be shown
is that one action moves one claim by one stage: `ClaimStage` is read off several
variables, so each proof has one lemma per action that says which claims it leaves
where they are. `Restart` is `Crash`, for all claims of the epoch at once. `ResultLedgerProofs.AtMostOneRow` says what is gained: under
ResultLedger a claim has at most one row, and none before it is stored.

**The test cycle of hub mode.** `HubCycleProofs` proves what depends on more than the
ledger. Most of it holds under conditions only, and the runs show that it needs them:

| Theorem | Assumed of the constants | Statement |
|---|---|---|
| OnlineKnown | - | `Spec => []KnowsOnline` |
| GhostsNeedReconnects | `~Reconnects` | `Spec => []NoGhosts` |
| LogsNeedReuse | `~Graceful`, `~Forgets` | `Spec => []LogsMatchPod` |
| CrashCost | `~Graceful`, `~Forgets`, `~InsertMayFail` | `Spec => []CrashLosesOneResult` |
| RebootingOwned | `~Graceful` | `Spec => []RebootingHasOwner` |

`~Graceful` is a cluster in which a deleted pod is gone with the call that deletes it,
`~Forgets` a hub that never sends `DEVICE DELETE`, `~InsertMayFail` a store that takes
every row. hub_stranded and hub_mixed_logs are the counterexamples with a grace period.

*Devices.* `KnowsOnline` needs `Announced`: an online device is in `devices` or in the
welcome being handed over and no message in the inbox takes it away, or the last such
message about it in the inbox brings it. `NoGhosts` needs the mirror image, `Recalled`:
an offline device is in neither and nothing in the inbox brings it, or the last message
about it takes it away. Reconnects break it, since messages sent while the WebSocket is
down are lost and the welcome only adds.

*Results.* `CheckPods` remembers pods by UID and calls the API by name. `Numbered` says
that UIDs are never given out twice, so that `reported`, the list and the pods speak of
the same pods. `Followed` says that the list is current: no pod is terminating, no
device is being forgotten, and the pod that has the name of the one at work is that
one. Then the logs are its own (`CpLogs`). For `CrashLosesOneResult`, `Kept` says that
a claimed pod exists until its result is collected, or has its row, and that a pod
which is only deleted again (`Purge`) has one. So a step adds to `Lost` only by a crash
between `Delete` and `SaveTestResult`, and then the one pod `cp.cur` is about.

*Reboots.* `rebooting` is set by `CheckPods`, and the wait then goes to the goroutine
that asks for the reboot, to the phone (`due`, or offline), to the message or welcome
that announces it, to `OnDeviceReady` and to a settler, who clears the flag;
`RebootingHasOwner` names them all. The theorem shows that each hands over before it
lets go. It needs what the ledger proofs and `StabilizingHasOneWaiter` give, `Announced`
(a phone that comes back is told of, or in `devices` only by way of `OnDeviceReady`),
and three more invariants: `Candidates` (only phones with a test image enter the cycle,
so that `OnDeviceReady` does not return for lack of one), `FirstMeeting` (while no call
has failed, `CheckPods` never meets a pod it has claimed before, and so never sets the
flag twice for one pod: the second time no goroutine would be started) and
`FarewellIsOld` (`OnDeviceDeleted` deletes pods of a phone that is offline or whose
return is on its way). Its premise `faults = MaxFaults` is part of the property:
after a failed `ListPods` nobody comes back to the phone.

**UsbMonitor and Dashboard.** `UsbMonitorProofs` proves the types, with `AtPhone`
(while `logEvent` is under way there is a phone it is about), and `HistoryComplete`,
which is inductive: a port without an event has not changed in what the row promises,
and one whose phone has been exchanged without an event is in `swapped`.

`DashboardProofs` proves the types, `WakeupsKept` and `RestCurrent` from one invariant.
No answer and no debt exceeds the store's version (`Known`); in every refresh the
statistics are at least as new as the runs (`Ordered`); a page is a client of the hub
exactly while its stream is open, and only then is it owed anything (`Connected`). A
`Notify` to a full channel is harmless: the signal in it leads to a request that is still
to be made. For a page that is not `disturbed`, at most one refresh is under way; its
answer is no older than the table of the page, which is its own once rendered, so that the
statistics that follow cover it (`Calm`); and the table shows all that is owed, or what
is under way will (`TableCurrent`).

Only model-checked: all liveness (`FlagCleared`, `ResultsArrive`, `DeferralEnds`,
`CycleContinues`, `EndedTestsLeave`, `SignalsServed`, `VerdictsArrive`,
`SwitchReachesCache`, `TestModeServed`, `ChangesShown`), which is out of this prover's
reach. Every invariant and action property of a passing run has its theorem.

## Not modelled, and why

- What LocalManager simplifies: the two `ContainerRemove` calls of `removeDevice` are one
  step that succeeds (their errors are logged and ignored, 721-722); a reboot that succeeds
  finds the phone ready when its verdict is written, not 15 seconds and some permissions
  earlier (883-908); which of the phones to drop are in the wrong mode is decided with the list
  and not one by one (266); what `reportTestResult` reads and parses is left out. UsbMonitor has the question of 266 phone by phone.
- A torn reading of `USBInfo`, which reads serial, VID and PID from three files (adb
  `client.go` 363-377): a re-enumeration in between would mix two modes.
- Parsing of test output, durations, screenshots, log files, file reports, pages:
  no control flow of the cycle depends on them.
- iOS: the same cycle with another image; it shows as a device with or without a
  test image (`Testable`).
- `NoGhosts` with reconnects: a phone that leaves while the WebSocket is down
  stays in `devices`, since the welcome only adds.
- An `UPDATE` that sqlite refuses in `updateBootResult`: the error is logged and the
  row stays as it is, so `VerdictOwed`, `VerdictsArrive` and ResultLedger speak of
  updates that succeed. Refused inserts are modelled.
- Changes nobody is told of: rows of `usb_events` and `device_events` are written
  without `Notify`, and what happens between the reading of a page and its
  subscription, or while `EventSource` reconnects, shows with the next change.
- Statistics, event lists and the other pages: they read the store and change nothing.
- Results that survive a crash. A process killed between deleting a pod and inserting
  its row loses that result (`CrashLosesOneResult` says no more than that); one killed
  after a failed deletion stores it again. `reported` lives in memory, and
  `OneReportPerPod` says what is left: once for each run of the process.
- APK cache, flags, packaging: start-up only.

## Plan

1. (done) HubManager with DeviceFeed and PodApi, its runs, its theorems.
2. (done) LocalManager with AdbFeed and Containers, its runs, its theorems.
3. (done) ResultLedger, and the proofs that both managers implement it.
4. (done) UsbMonitor: `Poll`, `OnModeChange`, `usbCache`, the gate of `Reconcile`.
5. (done) Dashboard: `Notify`, one-slot channels, the page.
6. (done) What the hub-mode manager knows, keeps and waits for along a test cycle
   proved: devices, logs, results across crashes, reboots.
7. HubWs, the client's own map of devices, implementing DeviceFeed's `Receive`.
8. WaitForReady's three phases; the store's period arithmetic and statistics and
   the log parsers as operators against reference definitions.
9. A lockless `Reconcile` run by two goroutines in UsbMonitor as well, with both
   containers of a phone.
