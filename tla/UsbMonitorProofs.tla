---------------------------- MODULE UsbMonitorProofs ----------------------------
(***************************************************************************)
(* Theorems about UsbMonitor, for every number of phones, ports and modes. *)
(***************************************************************************)
EXTENDS UsbMonitor, TLAPS

USE UsbAssumption, AdbAssumption

Cache == [Serials -> Modes \cup {None}]
Scans == [Paths -> Port]

-----------------------------------------------------------------------------
(* Values of the right type.                                               *)

LEMMA EmptyPort == Empty \in Port
BY DEF Empty, Port

LEMMA IdleReconciler ==
  /\ AnyMode \in Cache
  /\ Idle \in Reconciler
  /\ [Idle EXCEPT !.pc = "fetch"] \in Reconciler
BY DEF Idle, AnyMode, Reconciler, Cache

LEMMA ScannedPort ==
  ASSUME TypeOK, NEW p \in Paths
  PROVE  AtPort(p) \in Port
<1>1. CASE Free(p)
  BY <1>1, EmptyPort DEF AtPort
<1>2. CASE ~Free(p)
  <2> DEFINE s == CHOOSE t \in Serials : plug[t].path = p
  <2>1. s \in Serials
    BY <1>2 DEF Free
  <2>2. plug[s].mode \in Modes \cup {None}
    BY <2>1 DEF TypeOK, Unplugged
  <2>3. AtPort(p) = [Empty EXCEPT !.serial = IF plug[s].mode \in Silent THEN None ELSE s,
                                  !.mode = plug[s].mode]
    BY <1>2 DEF AtPort
  <2> HIDE DEF s
  <2> QED
    BY <2>1, <2>2, <2>3 DEF Empty, Port
<1> QED
  BY <1>1, <1>2

LEMMA CurrentPorts ==
  ASSUME TypeOK, NEW list
  PROVE  /\ Current(list) \in Scans
         /\ \A p \in Paths : /\ Current(list)[p].mode = scan[p].mode
                             /\ Current(list)[p].serial = scan[p].serial
                             /\ scan[p].mode \in Modes \cup {None}
                             /\ scan[p].serial \in Serials \cup {None}
                             /\ Current(list)[p].inAdb \in BOOLEAN
                             /\ scan[p] = Empty => Current(list)[p] = Empty
                             /\ scan[p] # Empty => Current(list)[p] # Empty
<1>1. \A p \in Paths : scan[p] \in Port
  BY DEF TypeOK
<1>2. \A q \in Port : /\ [q EXCEPT !.inAdb = TRUE] \in Port
                     /\ [q EXCEPT !.inAdb = TRUE].mode = q.mode
                     /\ [q EXCEPT !.inAdb = TRUE].serial = q.serial
                     /\ q.mode \in Modes \cup {None}
                     /\ q.serial \in Serials \cup {None}
                     /\ q.inAdb \in BOOLEAN
  BY DEF Port
<1>3. \A p \in Paths : Current(list)[p] = IF InAdb(scan[p].serial, list)
                                         THEN [scan[p] EXCEPT !.inAdb = TRUE]
                                         ELSE scan[p]
  BY DEF Current
<1>4. \A p \in Paths : Current(list)[p] \in Port
  BY <1>1, <1>2, <1>3
<1>5. Current(list) \in Scans
  BY <1>4 DEF Current, Scans
<1>6. ~InAdb(Empty.serial, list)
  BY DEF Empty, InAdb
<1>7. \A p \in Paths : scan[p] # Empty => Current(list)[p] # Empty
  <2>1. \A q \in Port : [q EXCEPT !.inAdb = TRUE] # Empty
    BY DEF Port, Empty
  <2> QED
    BY <1>1, <1>3, <2>1
<1> QED
  BY <1>1, <1>2, <1>3, <1>4, <1>5, <1>6, <1>7

\* A row of usb_events for a port that has changed.
LEMMA WrittenRow ==
  ASSUME TypeOK, NEW p \in Paths, NEW list
  PROVE  /\ RowOf(p, list) \in Row
         /\ RowOf(p, list).gone = (scan[p] = Empty)
         /\ RowOf(p, list).inAdb = Current(list)[p].inAdb
         /\ scan[p] # Empty => /\ RowOf(p, list).mode = scan[p].mode
                               /\ RowOf(p, list).serial = scan[p].serial
<1>1. prev[p] \in Port /\ scan[p] \in Port /\ Current(list)[p].inAdb \in BOOLEAN
  BY CurrentPorts DEF TypeOK
<1>2. \A q \in Port : q.serial \in Serials \cup {None} /\ q.mode \in Modes \cup {None}
  BY DEF Port
<1>3. CASE scan[p] = Empty
  <2>1. RowOf(p, list) = [gone |-> TRUE, serial |-> prev[p].serial, mode |-> prev[p].mode,
                          inAdb |-> Current(list)[p].inAdb]
    BY <1>3 DEF RowOf
  <2>2. RowOf(p, list) \in Row
    BY <1>1, <1>2, <2>1 DEF Row
  <2>3. RowOf(p, list).gone /\ RowOf(p, list).inAdb = Current(list)[p].inAdb
    BY <2>1
  <2> QED
    BY <1>3, <2>2, <2>3 DEF Row
<1>4. CASE scan[p] # Empty
  <2>1. RowOf(p, list) = [gone |-> FALSE, serial |-> scan[p].serial, mode |-> scan[p].mode,
                          inAdb |-> Current(list)[p].inAdb]
    BY <1>4 DEF RowOf
  <2>2. RowOf(p, list) \in Row
    BY <1>1, <1>2, <2>1 DEF Row
  <2>3. /\ ~RowOf(p, list).gone
        /\ RowOf(p, list).inAdb = Current(list)[p].inAdb
        /\ RowOf(p, list).mode = scan[p].mode
        /\ RowOf(p, list).serial = scan[p].serial
    BY <2>1
  <2> QED
    BY <1>4, <2>2, <2>3 DEF Row
<1> QED
  BY <1>3, <1>4

LEMMA WithoutReconciler ==
  ASSUME TypeOK, NEW s \in Serials
  PROVE  Without(s) \in Reconciler
<1> DEFINE left == [rec EXCEPT !.drop = @ \ {s}, !.todo = @ \ {s}]
<1>1. left \in Reconciler
  BY DEF TypeOK, Reconciler
<1> HIDE DEF left
<1>2. [left EXCEPT !.pc = "pass", !.cur = None, !.info = None] \in Reconciler
  BY <1>1 DEF Reconciler
<1> QED
  BY <1>2, IdleReconciler DEF Without, left

-----------------------------------------------------------------------------
(* The types are kept by every step.                                       *)

\* The ADB server and the connection to it.
LEMMA AdbStep ==
  ASSUME AdbTypeOK,
         \/ UNCHANGED adbVars
         \/ Reconnect
         \/ Skip
         \/ \E list \in Lists : Deliver(list)
         \/ \E s \in Serials, state \in AdbStates : Change(s, state)
  PROVE  AdbTypeOK'
<1> USE DEF AdbTypeOK
<1>1. CASE UNCHANGED adbVars
  BY <1>1 DEF adbVars
<1>2. CASE Reconnect
  BY <1>2 DEF Reconnect, NoDevices, Lists, AdbStates
<1>3. CASE Skip
  BY <1>3 DEF Skip
<1>4. ASSUME NEW list \in Lists, Deliver(list) PROVE AdbTypeOK'
  BY <1>4 DEF Deliver
<1>5. ASSUME NEW s \in Serials, NEW state \in AdbStates, Change(s, state) PROVE AdbTypeOK'
  <2>1. adb' \in Lists
    BY <1>5 DEF Change, Lists
  <2> QED
    BY <1>5, <2>1 DEF Change
<1> QED
  BY <1>1, <1>2, <1>3, <1>4, <1>5

\* While a phone is looked up in sysfs the pass is at that phone.
AtPhone == rec.pc \in {"read", "store"} => rec.cur \in Serials

\* The phone that Without and the other ends of a step leave behind.
LEMMA NotAtPhone ==
  ASSUME NEW r \in Reconciler
  PROVE  /\ Idle.pc = "idle"
         /\ [Idle EXCEPT !.pc = "fetch"].pc = "fetch"
         /\ [r EXCEPT !.pc = "pass", !.cur = None, !.info = None].pc = "pass"
  BY DEF Idle, Reconciler

LEMMA InitType == Init => TypeOK /\ AtPhone
<1> SUFFICES ASSUME Init PROVE TypeOK /\ AtPhone
  OBVIOUS
<1>0. AtPhone
  BY NotAtPhone, IdleReconciler DEF Init, AtPhone
<1>1. AdbTypeOK
  <2>1. adb \in Lists
    BY DEF Init, AdbInit
  <2>2. NoDevices \in Lists
    BY DEF NoDevices, Lists, AdbStates
  <2>3. feed \in Seq(Lists)
    BY DEF Init, AdbInit
  <2> QED
    BY <2>1, <2>2, <2>3 DEF Init, AdbInit, AdbTypeOK
<1>2. /\ {prev, scan} \subseteq [Paths -> Port]
      /\ rec \in Reconciler
  BY EmptyPort, IdleReconciler DEF Init
<1>3. faults \in 0..MaxFaults /\ history \in [Paths -> Row]
  BY DEF Init, NoRow, Row
<1>4. config \in [Serials -> Modes \cup {None}]
  BY DEF Init
<1> QED
  BY <1>0, <1>1, <1>2, <1>3, <1>4 DEF Init, TypeOK

LEMMA TypeStep == TypeOK /\ AtPhone /\ [Next]_vars => TypeOK'
<1> SUFFICES ASSUME TypeOK, AtPhone, [Next]_vars PROVE TypeOK'
  OBVIOUS
<1> DEFINE World == UNCHANGED <<plug, prev, scan, polling, history, missed, swapped, config>>
<1>f. ASSUME UNCHANGED faults \/ Fails PROVE faults' \in 0..MaxFaults
  BY <1>f DEF Fails, TypeOK
<1>r. ASSUME World, AdbTypeOK', usbCache' \in Cache, rec' \in Reconciler, kept' \subseteq Serials,
             UNCHANGED faults \/ Fails
      PROVE  TypeOK'
  BY <1>r, <1>f DEF TypeOK, Cache
<1>a. UNCHANGED adbVars => AdbTypeOK'
  BY AdbStep DEF TypeOK
<1>t. /\ AdbTypeOK /\ usbCache \in Cache /\ config \in Cache
      /\ rec \in Reconciler /\ kept \subseteq Serials
      /\ rec.cur \in Serials \cup {None} /\ rec.info \in Modes \cup {None}
      /\ rec.ready \subseteq Serials /\ rec.drop \subseteq Serials /\ rec.todo \subseteq Serials
  BY DEF TypeOK, Reconciler, Cache
<1>w. worldVars' = worldVars => World
  BY DEF worldVars, monitorVars, storeVars
<1>1. CASE Scan
  <2>1. scan' \in [Paths -> Port] /\ polling' \in BOOLEAN
    BY <1>1, ScannedPort DEF Scan
  <2> QED
    BY <1>1, <1>a, <2>1 DEF Scan, TypeOK, storeVars
<1>2. CASE Poll
  <2>1. PICK list, stored :
          /\ UNCHANGED faults \/ Fails
          /\ Changed(list) \subseteq Paths
          /\ missed' = (missed \ stored) \cup (Changed(list) \ stored)
          /\ history' = [p \in Paths |->
                           IF p \in stored THEN RowOf(p, list) ELSE history[p]]
          /\ swapped' = (swapped \cup {p \in Paths : prev[p].serial # scan[p].serial})
                        \ Changed(list)
          /\ prev' = Current(list)
    BY <1>2 DEF Poll, Changed, Switched
  <2>2. /\ Current(list) \in Scans
        /\ \A p \in Paths : /\ scan[p].mode \in Modes \cup {None}
                            /\ Current(list)[p].inAdb \in BOOLEAN
    BY CurrentPorts
  <2>3. /\ history' \in [Paths -> Row]
        /\ missed' \cup swapped' \subseteq Paths
    BY <2>1, WrittenRow DEF TypeOK
  <2>4. usbCache' \in Cache
    <3>1. Switched \subseteq Paths
      BY DEF Switched
    <3>2. \A s \in Serials :
            (\E p \in Switched : scan[p].serial = s)
              => (CHOOSE p \in Switched : scan[p].serial = s) \in Paths
      BY <3>1
    <3> QED
      BY <1>2, <1>t, <2>2, <3>2 DEF Poll, Cache
  <2>5. prev' \in [Paths -> Port] /\ scan' \in [Paths -> Port] /\ polling' \in BOOLEAN
    BY <1>2, <2>1, <2>2, EmptyPort DEF Poll, Scans
  <2> QED
    BY <1>2, <1>a, <1>f, <2>1, <2>3, <2>4, <2>5 DEF Poll, TypeOK, Cache
<1>3. CASE Keepalive
  BY <1>3, <1>r, <1>t, <1>w, AdbStep DEF Keepalive
<1>l. \A ready \in SUBSET Serials : Listed(ready) => rec' \in Reconciler
  BY IdleReconciler DEF Listed, Reconciler
<1>4. CASE Track
  <2>1. rec' \in Reconciler
    BY <1>4, <1>l, <1>t, IdleReconciler DEF Track, Refetch, Ready
  <2> QED
    BY <1>4, <1>r, <1>t, <1>w, <2>1, AdbStep DEF Track
<1>5. CASE Wake
  BY <1>5, <1>r, <1>t, <1>w, <1>a, IdleReconciler DEF Wake, Refetch
<1>6. CASE Fetch
  <2>1. rec' \in Reconciler /\ (UNCHANGED faults \/ Fails)
    BY <1>6, <1>l, IdleReconciler DEF Fetch, Ready
  <2> QED
    BY <1>6, <1>r, <1>t, <1>w, <1>a, <2>1 DEF Fetch
<1>7. CASE List
  <2>1. \A cfg \in Cache :
          [Idle EXCEPT !.pc = "pass", !.seen = kept, !.cfg = cfg,
                       !.drop = kept \ rec.ready, !.todo = rec.ready] \in Reconciler
    BY <1>t, IdleReconciler DEF Reconciler, Cache
  <2>2. rec' \in Reconciler /\ (UNCHANGED faults \/ Fails)
    BY <1>7, <1>t, <2>1, IdleReconciler DEF List
  <2> QED
    BY <1>7, <1>r, <1>t, <1>w, <1>a, <2>2 DEF List
<1>8. ASSUME NEW s \in rec.drop, RemoveDevice(s) PROVE TypeOK'
  BY <1>8, <1>r, <1>t, <1>w, <1>a, WithoutReconciler DEF RemoveDevice
<1>9. ASSUME NEW s \in rec.todo, StartDevice(s) PROVE TypeOK'
  <2>1. [rec EXCEPT !.pc = "read", !.cur = s] \in Reconciler
    BY <1>t DEF Reconciler
  <2>2. /\ rec' \in Reconciler
        /\ kept' \subseteq Serials
        /\ UNCHANGED faults \/ Fails
    BY <1>9, <1>t, <2>1, WithoutReconciler DEF StartDevice
  <2> QED
    BY <1>9, <1>r, <1>t, <1>w, <1>a, <2>2 DEF StartDevice
<1>10. CASE ReadInfo
  <2> DEFINE found == IF plug[rec.cur].mode \in Silent THEN None ELSE plug[rec.cur].mode
  <2>1. found \in Modes \cup {None}
    <3>1. rec.cur \in Serials
      BY <1>10 DEF ReadInfo, At, AtPhone
    <3> QED
      BY <3>1 DEF TypeOK, Unplugged
  <2>2. rec' = [rec EXCEPT !.pc = "store", !.info = found]
    BY <1>10 DEF ReadInfo
  <2> HIDE DEF found
  <2>3. rec' \in Reconciler
    BY <1>t, <2>1, <2>2 DEF Reconciler
  <2> QED
    BY <1>10, <1>r, <1>t, <1>w, <1>a, <2>3 DEF ReadInfo
<1>11. CASE StoreInfo
  <2>1. rec.cur \in Serials
    BY <1>11 DEF StoreInfo, At, AtPhone
  <2>2. usbCache' \in Cache
    BY <1>11, <1>t DEF StoreInfo, Cache
  <2>3. rec' \in Reconciler
    BY <1>11, <2>1, WithoutReconciler DEF StoreInfo
  <2> QED
    BY <1>11, <1>r, <1>t, <1>w, <1>a, <2>2, <2>3 DEF StoreInfo
<1>12. ASSUME NEW s \in Serials, NEW m \in Configs \cup {None}, Configure(s, m) PROVE TypeOK'
  <2>1. config' \in Cache
    BY <1>12, <1>t DEF Configure, Cache
  <2> QED
    BY <1>12, <1>a, <2>1 DEF Configure, TypeOK, monitorVars, Cache
<1>13. ASSUME NEW s \in Serials, NEW state \in AdbStates, AdbFinds(s, state) PROVE TypeOK'
  BY <1>13, <1>r, <1>t, <1>w, AdbStep DEF AdbFinds
<1>14. ASSUME NEW s \in Serials, NEW new \in [path : Paths, mode : Modes] \cup {Unplugged},
              Replug(s, new)
       PROVE  TypeOK'
  <2>1. AdbTypeOK'
    BY <1>14, <1>t, AdbStep DEF Replug, AdbLoses, AdbStates
  <2>2. plug' \in [Serials -> [path : Paths, mode : Modes] \cup {Unplugged}]
    BY <1>14 DEF Replug, TypeOK
  <2> QED
    BY <1>14, <2>1, <2>2 DEF Replug, TypeOK, monitorVars, storeVars
<1>15. ASSUME NEW s \in Serials, Unplug(s) PROVE TypeOK'
  BY <1>14, <1>15 DEF Unplug
<1>16. ASSUME NEW s \in Serials, NEW m \in Modes, SwitchMode(s, m) PROVE TypeOK'
  <2>1. [plug[s] EXCEPT !.mode = m] \in [path : Paths, mode : Modes]
    BY <1>16 DEF SwitchMode, TypeOK, Plugged
  <2> QED
    BY <1>14, <1>16, <2>1 DEF SwitchMode
<1>17. ASSUME NEW s \in Serials, NEW m \in Modes, NEW p \in Paths, Plug(s, p, m) PROVE TypeOK'
  BY <1>14, <1>17 DEF Plug
<1>18. CASE UNCHANGED vars
  BY <1>18, <1>a DEF vars, monitorVars, storeVars, TypeOK
<1>19. CASE MonitorStep
  BY <1>1, <1>2, <1>19 DEF MonitorStep
<1>20. CASE MainStep
  BY <1>3, <1>4, <1>6, <1>7, <1>8, <1>9, <1>10, <1>11, <1>20 DEF MainStep, ReconcileStep
<1>21. CASE WorldStep
  BY <1>12, <1>13, <1>15, <1>16, <1>17, <1>21 DEF WorldStep
<1> QED
  BY <1>5, <1>18, <1>19, <1>20, <1>21 DEF Next

LEMMA AtPhoneStep == TypeOK /\ AtPhone /\ [Next]_vars => AtPhone'
<1> SUFFICES ASSUME TypeOK, AtPhone, [Next]_vars PROVE AtPhone'
  OBVIOUS
<1> USE DEF AtPhone
<1>t. rec \in Reconciler /\ rec.drop \subseteq Serials /\ rec.todo \subseteq Serials
  BY DEF TypeOK, Reconciler
<1>1. rec' = rec => AtPhone'
  OBVIOUS
<1>2. rec'.pc \notin {"read", "store"} => AtPhone'
  OBVIOUS
<1>i. rec' = Idle \/ Refetch => AtPhone'
  BY <1>2, <1>t, NotAtPhone DEF Refetch
<1>l. \A ready \in SUBSET Serials : Listed(ready) => AtPhone'
  BY <1>2, IdleReconciler DEF Listed, Idle
<1>3. ASSUME NEW s \in Serials, rec' = Without(s) PROVE AtPhone'
  <2> DEFINE left == [rec EXCEPT !.drop = @ \ {s}, !.todo = @ \ {s}]
  <2>1. left \in Reconciler
    BY <1>t DEF Reconciler
  <2>2. rec' = Idle \/ rec' = [left EXCEPT !.pc = "pass", !.cur = None, !.info = None]
    BY <1>3 DEF Without
  <2> HIDE DEF left
  <2> QED
    BY <1>2, <1>i, <2>1, <2>2, NotAtPhone
<1>4. CASE Track
  BY <1>1, <1>4, <1>i, <1>l DEF Track, Ready
<1>5. CASE Fetch
  BY <1>5, <1>i, <1>l DEF Fetch, Ready
<1>6. CASE List
  <2>1. \A cfg : [Idle EXCEPT !.pc = "pass", !.seen = kept, !.cfg = cfg,
                              !.drop = kept \ rec.ready, !.todo = rec.ready].pc = "pass"
    BY DEF Idle
  <2>2. rec'.pc \in {"idle", "pass"}
    BY <1>6, <1>t, <2>1, NotAtPhone DEF List
  <2> QED
    BY <1>2, <2>2
<1>7. ASSUME NEW s \in rec.drop, RemoveDevice(s) PROVE AtPhone'
  BY <1>3, <1>7, <1>t DEF RemoveDevice
<1>8. ASSUME NEW s \in rec.todo, StartDevice(s) PROVE AtPhone'
  <2>1. [rec EXCEPT !.pc = "read", !.cur = s].cur = s
    BY <1>t DEF Reconciler
  <2> QED
    BY <1>3, <1>8, <1>t, <2>1 DEF StartDevice
<1>9. CASE ReadInfo
  <2>1. \A m : [rec EXCEPT !.pc = "store", !.info = m].cur = rec.cur
    BY <1>t DEF Reconciler
  <2> QED
    BY <1>9, <2>1 DEF ReadInfo, At
<1>10. CASE StoreInfo
  <2>1. rec.cur \in Serials
    BY <1>10 DEF StoreInfo, At
  <2> QED
    BY <1>3, <1>10, <2>1 DEF StoreInfo
<1>11. CASE Keepalive
  BY <1>1, <1>11 DEF Keepalive
<1>12. CASE Wake
  BY <1>12, <1>i DEF Wake
<1>13. CASE MonitorStep
  BY <1>1, <1>13 DEF MonitorStep, Scan, Poll
<1>14. CASE WorldStep
  BY <1>1, <1>14 DEF WorldStep, Configure, AdbFinds, Unplug, SwitchMode, Plug, Replug
<1>15. CASE UNCHANGED vars
  BY <1>1, <1>15 DEF vars
<1> QED
  BY <1>4, <1>5, <1>6, <1>7, <1>8, <1>9, <1>10, <1>11, <1>12, <1>13, <1>14, <1>15
  DEF Next, MainStep, ReconcileStep

LEMMA TypeInvariant == Spec => [](TypeOK /\ AtPhone)
<1>1. TypeOK /\ AtPhone /\ [Next]_vars => TypeOK' /\ AtPhone'
  BY TypeStep, AtPhoneStep
<1> QED
  BY <1>1, InitType, PTL DEF Spec

\* The types of usbCache, the history and what a pass holds are kept: in particular what
\* USBInfo returns is stored under the phone it was read for.
THEOREM TypeCorrect == Spec => []TypeOK
BY TypeInvariant, PTL

-----------------------------------------------------------------------------
(* The history.                                                            *)

\* A port that has changed gets its row; what is unchanged is in the history already.
LEMMA PollStep ==
  ASSUME TypeOK, HistoryShowsSeen, Poll
  PROVE  HistoryShowsSeen'
<1>1. PICK list, stored :
        /\ stored \subseteq Changed(list)
        /\ missed' = (missed \ stored) \cup (Changed(list) \ stored)
        /\ history' = [p \in Paths |-> IF p \in stored THEN RowOf(p, list) ELSE history[p]]
        /\ swapped' = (swapped \cup {p \in Paths : prev[p].serial # scan[p].serial})
                      \ Changed(list)
        /\ prev' = Current(list)
  BY DEF Poll
<1> DEFINE now == Current(list)
<1> SUFFICES ASSUME NEW p \in Paths, p \notin missed'
             PROVE  /\ history'[p].gone = (now[p] = Empty)
                    /\ history'[p].inAdb = now[p].inAdb
                    /\ now[p] # Empty => /\ history'[p].mode = now[p].mode
                                         /\ history'[p].serial = now[p].serial \/ p \in swapped'
  BY <1>1 DEF HistoryShowsSeen
<1>2. /\ now[p].mode = scan[p].mode
      /\ now[p].serial = scan[p].serial
      /\ (now[p] = Empty) = (scan[p] = Empty)
  BY CurrentPorts
<1>3. CASE p \in stored
  <2>1. history'[p] = RowOf(p, list)
    BY <1>1, <1>3
  <2> QED
    BY <1>2, <2>1, WrittenRow
<1>4. CASE p \notin stored
  <2>1. p \notin Changed(list) /\ p \notin missed
    BY <1>1, <1>4
  <2>2. /\ (prev[p] = Empty) = (scan[p] = Empty)
        /\ prev[p].inAdb = now[p].inAdb
        /\ prev[p] # Empty => prev[p].mode = scan[p].mode
    BY <2>1 DEF Changed, Switched
  <2>3. history'[p] = history[p]
    BY <1>1, <1>4
  <2>4. /\ history[p].gone = (prev[p] = Empty)
        /\ history[p].inAdb = prev[p].inAdb
        /\ prev[p] # Empty => /\ history[p].mode = prev[p].mode
                              /\ history[p].serial = prev[p].serial \/ p \in swapped
    BY <2>1 DEF HistoryShowsSeen
  <2>5. p \in swapped \/ prev[p].serial # scan[p].serial => p \in swapped'
    BY <1>1, <2>1
  <2> QED
    BY <1>2, <2>2, <2>3, <2>4, <2>5
<1> QED
  BY <1>3, <1>4

LEMMA HistoryStep == TypeOK /\ HistoryShowsSeen /\ [Next]_vars => HistoryShowsSeen'
<1> SUFFICES ASSUME TypeOK, HistoryShowsSeen, [Next]_vars PROVE HistoryShowsSeen'
  OBVIOUS
<1>0. ASSUME UNCHANGED <<prev, history, missed, swapped>> PROVE HistoryShowsSeen'
  BY <1>0 DEF HistoryShowsSeen
<1> USE DEF worldVars, monitorVars, storeVars
<1>1. CASE Poll
  BY <1>1, PollStep
<1>2. CASE Scan
  BY <1>0, <1>2 DEF Scan
<1>3. CASE Keepalive \/ Track \/ Wake
  BY <1>0, <1>3 DEF Keepalive, Track, Wake
<1>4. CASE Fetch \/ List \/ ReadInfo \/ StoreInfo
  BY <1>0, <1>4 DEF Fetch, List, ReadInfo, StoreInfo
<1>5. CASE \E s \in rec.drop : RemoveDevice(s)
  BY <1>0, <1>5 DEF RemoveDevice
<1>6. CASE \E s \in rec.todo : StartDevice(s)
  BY <1>0, <1>6 DEF StartDevice
<1>7. CASE WorldStep
  BY <1>0, <1>7 DEF WorldStep, Configure, AdbFinds, Unplug, SwitchMode, Plug, Replug
<1>8. CASE UNCHANGED vars
  BY <1>0, <1>8 DEF vars
<1> QED
  BY <1>1, <1>2, <1>3, <1>4, <1>5, <1>6, <1>7, <1>8
  DEF Next, MonitorStep, MainStep, ReconcileStep

\* However phones come, go and change their mode between the polls of the USB monitor,
\* and whenever `adb devices` fails, the last row of a port shows what the monitor last saw
\* there - a phone or none, its mode, whether ADB sees it - unless sqlite refused that row;
\* it shows which phone unless one has taken the place of another in the same mode between
\* two polls, which Poll does not notice (monitor.go 65 and 77).
THEOREM HistoryComplete == Spec => []HistoryShowsSeen
<1>1. Init => HistoryShowsSeen
  <2>1. NoRow.gone /\ NoRow.inAdb = Empty.inAdb
    BY DEF NoRow, Empty
  <2>2. Init => \A p \in Paths : history[p] = NoRow /\ prev[p] = Empty
    BY DEF Init
  <2> QED
    BY <2>1, <2>2 DEF HistoryShowsSeen
<1> QED
  BY <1>1, HistoryStep, TypeInvariant, PTL DEF Spec
=============================================================================
