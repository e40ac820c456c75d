------------------------------ MODULE UsbMonitor -------------------------------
(***************************************************************************)
(* How local mode learns in which USB mode a phone is, and what it does    *)
(* with it: Poll of internal/usb/monitor.go, usbCache of the manager with  *)
(* its three writers (NewManager, the monitor's callback and logEvent),    *)
(* the device configuration the web page edits, and the gate of Reconcile  *)
(* that compares the two.  Of the containers of a phone only the Appium    *)
(* container is left here, and of a VID:PID that it tells modes apart.     *)
(*                                                                         *)
(* A scan of sysfs is one step, and so is the rest of Poll: nobody else    *)
(* writes prev, and each device has an entry of its own in usbCache.       *)
(***************************************************************************)
EXTENDS AdbFeed, FiniteSets

CONSTANTS
  Debugged,   \* phones with USB debugging: ADB finds no other
  Returning,  \* phones that change their mode, and come back; others just leave (a bound)
  Paths,      \* USB ports
  Modes,      \* VID:PID pairs
  Silent,     \* modes in which the USB descriptor has no serial
  Configs,    \* modes the page sets for tests
  MaxFaults   \* bound on calls and inserts that fail

ASSUME UsbAssumption ==
  /\ Debugged \cup Returning \subseteq Serials
  /\ Silent \cup Configs \subseteq Modes
  /\ None \notin Paths \cup Modes
  /\ MaxFaults \in Nat

VARIABLES
  plug,        \* the port and the mode of each phone
  prev,        \* what the last Poll saw at each port
  scan,        \* what the Poll under way has seen
  polling,     \* is one under way?
  usbCache,    \* the mode of each device as the manager knows it
  rec,         \* the reconciler
  history,     \* the last row of usb_events for each port
  missed,      \* ports whose last event sqlite has refused (history)
  swapped,     \* ports with another phone than in that row, seen in the same mode (history)
  config,      \* the mode in which a device is to be tested, None for any
  kept,        \* devices that have an Appium container
  faults       \* failures still to come

monitorVars == <<prev, scan, polling>>
storeVars == <<history, missed, swapped, config>>
vars == <<adbVars, plug, monitorVars, usbCache, rec, storeVars, kept, faults>>

\* A row of usb_events: a phone has disappeared, or else appeared or changed its mode.
Row == [gone : BOOLEAN, serial : Serials \cup {None}, mode : Modes \cup {None}, inAdb : BOOLEAN]
NoRow == [gone |-> TRUE, serial |-> None, mode |-> None, inAdb |-> FALSE]

Unplugged == [path |-> None, mode |-> None]
Empty == [serial |-> None, mode |-> None, inAdb |-> FALSE]
Port == [serial : Serials \cup {None}, mode : Modes \cup {None}, inAdb : BOOLEAN]
AnyMode == [s \in Serials |-> None]

Reconciler ==
  [pc : {"idle", "fetch", "list", "pass", "read", "store"},
   ready : SUBSET Serials, seen : SUBSET Serials, cfg : [Serials -> Modes \cup {None}],
   drop : SUBSET Serials, todo : SUBSET Serials,
   cur : Serials \cup {None}, info : Modes \cup {None}]
Idle == [pc |-> "idle", ready |-> {}, seen |-> {}, cfg |-> AnyMode,
         drop |-> {}, todo |-> {}, cur |-> None, info |-> None]

TypeOK ==
  /\ AdbTypeOK
  /\ plug \in [Serials -> [path : Paths, mode : Modes] \cup {Unplugged}]
  /\ {prev, scan} \subseteq [Paths -> Port]
  /\ polling \in BOOLEAN
  /\ {usbCache, config} \subseteq [Serials -> Modes \cup {None}]
  /\ rec \in Reconciler
  /\ history \in [Paths -> Row]
  /\ missed \cup swapped \subseteq Paths
  /\ kept \subseteq Serials
  /\ faults \in 0..MaxFaults

Plugged(s) == plug[s] # Unplugged
Free(p) == \A s \in Serials : plug[s].path # p

Init ==
  /\ AdbInit
  /\ plug \in [Serials -> [path : Paths, mode : Modes] \cup {Unplugged}]
  /\ \A s, t \in Serials : plug[s].path = plug[t].path => s = t \/ ~Plugged(s)
  /\ \A s \in Serials : adb[s] # "none" => s \in Debugged /\ Plugged(s)
  /\ prev = [p \in Paths |-> Empty]
  /\ scan = [p \in Paths |-> Empty]
  /\ polling = FALSE
  /\ usbCache \in [Serials -> Modes \cup {None}]
  /\ config \in [Serials -> Configs \cup {None}]
  /\ \A s \in Serials \ Debugged : usbCache[s] = None /\ config[s] = None
  /\ rec = [Idle EXCEPT !.pc = "fetch"]
  /\ history = [p \in Paths |-> NoRow]
  /\ missed = {}
  /\ swapped = {}
  /\ kept \in SUBSET Debugged
  /\ faults = MaxFaults

Fails == faults > 0 /\ faults' = faults - 1

----------------------------------------------------------------------------
(* Monitor.Poll                                                            *)

\* USBAndroidDevices: what sysfs shows at a port.
AtPort(p) ==
  IF Free(p) THEN Empty
  ELSE LET s == CHOOSE t \in Serials : plug[t].path = p
       IN  [Empty EXCEPT !.serial = IF plug[s].mode \in Silent THEN None ELSE s,
                         !.mode = plug[s].mode]

Scan ==
  /\ ~polling
  /\ polling' = TRUE
  /\ scan' = [p \in Paths |-> AtPort(p)]
  /\ UNCHANGED <<adbVars, plug, prev, usbCache, rec, storeVars, kept, faults>>

\* ADB visibility, from an `adb devices` after the scan; no devices if that fails.
InAdb(s, list) == s # None /\ list[s] # "none"
Current(list) == [p \in Paths |-> IF InAdb(scan[p].serial, list)
                                  THEN [scan[p] EXCEPT !.inAdb = TRUE]
                                  ELSE scan[p]]

\* Mutant: a change of ADB visibility hides one of the VID:PID.
MutSwitched == {p \in Paths : /\ prev[p] # Empty
                              /\ scan[p] # Empty
                              /\ prev[p].mode # scan[p].mode
                              /\ prev[p].inAdb = Current(adb)[p].inAdb}

\* Ports whose phone has another VID:PID than before.
Switched == {p \in Paths : /\ prev[p] # Empty
                           /\ scan[p] # Empty
                           /\ prev[p].mode # scan[p].mode}

\* Mutant: a port is reported once.
MutChanged(list) == {p \in Paths : (prev[p] = Empty) # (scan[p] = Empty)} \cup Switched

\* Ports for which an event is recorded: appeared, mode_change or disappeared.
Changed(list) == {p \in Paths : \/ (prev[p] = Empty) # (scan[p] = Empty)
                                \/ prev[p].inAdb # Current(list)[p].inAdb} \cup Switched

\* The row of a port that has changed; a phone that has disappeared is the one seen
\* there before.
RowOf(p, list) ==
  LET gone == scan[p] = Empty
      seen == IF gone THEN prev[p] ELSE scan[p]
  IN  [gone |-> gone, serial |-> seen.serial, mode |-> seen.mode,
       inAdb |-> Current(list)[p].inAdb]

\* The events go to usb_events, where sqlite may refuse one; a switch is also
\* reported to the manager (OnModeChange), unless the descriptor has no serial.
Poll ==
  /\ polling
  /\ \E list \in {adb, NoDevices} : \E stored \in SUBSET Changed(list) :
       /\ \/ stored = Changed(list) /\ UNCHANGED faults
          \/ Cardinality(Changed(list) \ stored) = 1 /\ Fails
       /\ history' = [p \in Paths |-> IF p \in stored THEN RowOf(p, list) ELSE history[p]]
       /\ missed' = (missed \ stored) \cup (Changed(list) \ stored)
       /\ swapped' = (swapped \cup {p \in Paths : prev[p].serial # scan[p].serial})
                     \ Changed(list)
       /\ prev' = Current(list)
  /\ usbCache' = [s \in Serials |->
                    IF \E p \in Switched : scan[p].serial = s
                    THEN scan[CHOOSE p \in Switched : scan[p].serial = s].mode
                    ELSE usbCache[s]]
  /\ scan' = [p \in Paths |-> Empty]
  /\ polling' = FALSE
  /\ UNCHANGED <<adbVars, plug, rec, config, kept>>

MonitorStep == Scan \/ Poll

----------------------------------------------------------------------------
(* The reconcilers.  LocalManager has both in full; one is enough for what  *)
(* they read of usbCache and write to it.                                  *)

At(pc) == rec.pc = pc
Refetch == rec' = [Idle EXCEPT !.pc = "fetch"]
Listed(ready) == rec' = [Idle EXCEPT !.pc = "list", !.ready = ready]
worldVars == <<plug, monitorVars, storeVars>>

Keepalive ==
  /\ At("idle")
  /\ Reconnect
  /\ UNCHANGED <<worldVars, usbCache, rec, kept, faults>>

Track ==
  /\ At("idle")
  /\ \/ Skip /\ UNCHANGED rec
     \/ \E list \in Lists :
          /\ Deliver(list)
          /\ IF list = NoDevices THEN Refetch ELSE Listed(Ready(list))
  /\ UNCHANGED <<worldVars, usbCache, kept, faults>>

\* A signal on reconcileCh: a test has ended, or a reboot.
Wake ==
  /\ At("idle")
  /\ Refetch
  /\ UNCHANGED <<adbVars, worldVars, usbCache, kept, faults>>

\* reconcileDevices fetches the list; when that fails, or there is none, it returns.
Fetch ==
  /\ At("fetch")
  /\ \/ /\ IF adb = NoDevices THEN rec' = Idle ELSE Listed(Ready(adb))
        /\ UNCHANGED faults
     \/ rec' = Idle /\ Fails
  /\ UNCHANGED <<adbVars, worldVars, usbCache, kept>>

\* Reconcile lists the containers, or returns when it cannot, and loads the
\* configuration, once.  When the load fails no device counts as configured.
List ==
  LET pass(cfg) ==
        IF kept \cup rec.ready = {} THEN Idle
        ELSE [Idle EXCEPT !.pc = "pass", !.seen = kept, !.cfg = cfg,
                          !.drop = kept \ rec.ready, !.todo = rec.ready]
  IN
  /\ At("list")
  /\ \/ rec' = pass(config) /\ UNCHANGED faults
     \/ rec' \in {pass(AnyMode), Idle} /\ Fails
  /\ UNCHANGED <<adbVars, worldVars, usbCache, kept>>

VidPidOK(s) == rec.cfg[s] = None \/ usbCache[s] = rec.cfg[s]

\* The pass without s, which is over when no device is left.
Without(s) ==
  LET left == [rec EXCEPT !.drop = @ \ {s}, !.todo = @ \ {s}]
  IN  IF left.drop \cup left.todo = {} THEN Idle
      ELSE [left EXCEPT !.pc = "pass", !.cur = None, !.info = None]

\* A device that is gone loses its container (if the call succeeds), unless its mode
\* is wrong: then it is expected back.
RemoveDevice(s) ==
  /\ At("pass")
  /\ s \in rec.drop
  /\ \/ kept' = (IF VidPidOK(s) THEN kept \ {s} ELSE kept) /\ UNCHANGED faults
     \/ VidPidOK(s) /\ UNCHANGED kept /\ Fails
  /\ rec' = Without(s)
  /\ UNCHANGED <<adbVars, worldVars, usbCache>>

\* A ready device without a container gets one, if its mode is right.
StartDevice(s) ==
  /\ At("pass")
  /\ rec.drop = {}
  /\ s \in rec.todo
  /\ \/ /\ s \in rec.seen \/ ~VidPidOK(s)
        /\ rec' = Without(s)
        /\ UNCHANGED <<kept, faults>>
     \/ /\ s \notin rec.seen
        /\ VidPidOK(s)
        /\ kept' = kept \cup {s}
        /\ rec' = [rec EXCEPT !.pc = "read", !.cur = s]
        /\ UNCHANGED faults
     \/ /\ s \notin rec.seen
        /\ VidPidOK(s)
        /\ Fails
        /\ rec' = Without(s)
        /\ UNCHANGED kept
  /\ UNCHANGED <<adbVars, worldVars, usbCache>>

\* Mutant: the results of USBInfo in another order.
MutReadInfo ==
  /\ At("read")
  /\ rec' = [rec EXCEPT !.pc = "store", !.info = plug[rec.cur].path]
  /\ UNCHANGED <<adbVars, worldVars, usbCache, kept, faults>>

\* logEvent "connected": USBInfo looks for the phone in sysfs,
ReadInfo ==
  LET s == rec.cur IN
  /\ At("read")
  /\ rec' = [rec EXCEPT !.pc = "store",
                        !.info = IF plug[s].mode \in Silent THEN None ELSE plug[s].mode]
  /\ UNCHANGED <<adbVars, worldVars, usbCache, kept, faults>>

\* and what it found goes to usbCache.
StoreInfo ==
  LET s == rec.cur IN
  /\ At("store")
  /\ usbCache' = [usbCache EXCEPT ![s] = rec.info]
  /\ rec' = Without(s)
  /\ UNCHANGED <<adbVars, worldVars, kept, faults>>

ReconcileStep ==
  \/ Fetch \/ List \/ ReadInfo \/ StoreInfo
  \/ \E s \in rec.drop : RemoveDevice(s)
  \/ \E s \in rec.todo : StartDevice(s)

MainStep == Keepalive \/ Track \/ ReconcileStep

----------------------------------------------------------------------------
(* The web page, the phones, and the process itself.                       *)

\* POST and DELETE of /api/device-config.
Configure(s, m) ==
  /\ config[s] # m
  /\ config' = [config EXCEPT ![s] = m]
  /\ UNCHANGED <<adbVars, plug, monitorVars, history, missed, swapped, usbCache, rec, kept, faults>>

\* ADB loses a phone that is unplugged or changes its mode, and finds it later.
AdbLoses(s) == IF adb[s] = "none" THEN UNCHANGED adbVars ELSE Change(s, "none")

AdbFinds(s, state) ==
  /\ s \in Debugged
  /\ Plugged(s)
  /\ state # "none"
  /\ Change(s, state)
  /\ UNCHANGED <<worldVars, usbCache, rec, kept, faults>>

Replug(s, new) ==
  /\ s \in Flaky
  /\ plug[s] # new
  /\ plug' = [plug EXCEPT ![s] = new]
  /\ AdbLoses(s)
  /\ UNCHANGED <<monitorVars, storeVars, usbCache, rec, kept, faults>>

Unplug(s) == Replug(s, Unplugged)
Plug(s, p, m) ==
  /\ s \in Returning
  /\ ~Plugged(s)
  /\ Free(p)
  /\ Replug(s, [path |-> p, mode |-> m])
SwitchMode(s, m) ==
  /\ s \in Returning
  /\ Plugged(s)
  /\ Replug(s, [plug[s] EXCEPT !.mode = m])

WorldStep ==
  \E s \in Serials :
    \/ \E m \in Configs \cup {None} : s \in Debugged /\ Configure(s, m)
    \/ \E state \in AdbStates : AdbFinds(s, state)
    \/ Unplug(s)
    \/ \E m \in Modes : SwitchMode(s, m) \/ \E p \in Paths : Plug(s, p, m)

Next ==
  \/ MonitorStep
  \/ MainStep
  \/ Wake
  \/ WorldStep

Spec == Init /\ [][Next]_vars

\* The ticker ticks, goroutines are scheduled, and the connection is renewed
\* every minute that brings nothing.
FairSpec ==
  /\ Spec
  /\ WF_vars(MonitorStep)
  /\ WF_vars(MainStep)
  /\ WF_vars(Track)

----------------------------------------------------------------------------
\* What the monitor has seen at a port is what the last row of that port shows, unless
\* sqlite refused it: that a phone is there or has left, its mode and whether ADB sees
\* it, however fast phones come, go and change, and whenever `adb devices` fails; and
\* its serial, unless it has taken the place of another phone between two polls: Poll
\* compares VID:PID and visibility only (monitor.go 65 and 77), so an equal phone at
\* the same port is recorded at its next change.
HistoryShowsSeen ==
  \A p \in Paths \ missed :
    LET row == history[p] IN
    /\ row.gone = (prev[p] = Empty)
    /\ row.inAdb = prev[p].inAdb
    /\ prev[p] # Empty => /\ row.mode = prev[p].mode
                          /\ row.serial = prev[p].serial \/ p \in swapped

\* A switch the next Poll will notice: the monitor has the port of s in another mode,
\* the Poll under way has found neither the port empty nor another phone in the mode of
\* s there, and logEvent is not about to store what it read of s before.
Noticeable(s) ==
  /\ plug[s].mode \notin Silent
  /\ \E p \in Paths : /\ plug[s].path = p
                      /\ prev[p].mode \notin {None, plug[s].mode}
                      /\ polling => /\ scan[p] # Empty
                                    /\ scan[p].mode = plug[s].mode => scan[p].serial = s
  /\ ~(At("store") /\ rec.cur = s)

\* A switch between two polls reaches usbCache and stays there as long as the phone
\* stays in that mode, whoever else writes to the cache and whatever phone had the port
\* before (monitor.go 64-75, manager.go 178-182 and 1066-1070).  Nobody reads the entry
\* of a phone that ADB does not find.
SwitchReachesCache ==
  \A s \in Debugged, p \in Paths, m \in Modes \ Silent :
    [](/\ Noticeable(s)
       /\ [](plug[s] = [path |-> p, mode |-> m])
       => <>[](usbCache[s] = m))

\* A phone that is switched to its test mode under the eyes of the monitor gets its
\* container, although the reconciliation its return triggers may run before the
\* poll that notices the switch (manager.go 276-282).
TestModeServed ==
  \A s \in Debugged, p \in Paths, m \in Configs \ Silent :
    [](/\ Noticeable(s)
       /\ [](plug[s] = [path |-> p, mode |-> m] /\ adb[s] = "device" /\ config[s] = m)
       => <>(s \in kept))
=============================================================================
