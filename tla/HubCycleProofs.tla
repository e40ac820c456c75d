---------------------------- MODULE HubCycleProofs ----------------------------
(***************************************************************************)
(* What the hub-mode manager knows along a test cycle.                     *)
(*                                                                         *)
(* Devices: what it takes for the ready ones agrees in the end with what   *)
(* the hub knows.  KnowsOnline and NoGhosts speak of moments at which      *)
(* nothing is in flight; the invariants behind them say at every moment    *)
(* what the messages in flight will make of the devices.                   *)
(*                                                                         *)
(* Results: the logs of a row are those of its pod, and a crash costs one  *)
(* row at most.                                                            *)
(*                                                                         *)
(* Reboots: a device that is taken for rebooting has somebody who will end *)
(* that, or will be told of.                                               *)
(***************************************************************************)
EXTENDS HubManagerProofs, FiniteSetTheorems

Ups == {"INFO ADD"}
Downs == {"INFO DELETE", "DEVICE DELETE"}

Of(m, events, s) == m.serial = s /\ m.event \in events

\* No message of these events about s is in the queue.
NoneOf(queue, events, s) == \A i \in 1..Len(queue) : ~Of(queue[i], events, s)

\* One of these events about s is in the queue and none of the others comes after it.
EndsIn(queue, events, others, s) ==
  \E i \in 1..Len(queue) :
    /\ Of(queue[i], events, s)
    /\ \A j \in 1..Len(queue) : j > i => ~Of(queue[j], others, s)

----------------------------------------------------------------------------
(* Sending and receiving.                                                  *)

LEMMA Sending ==
  ASSUME NEW queue \in Seq(Message), NEW m \in Message, NEW s, NEW events, NEW others
  PROVE  /\ Of(m, events, s) => EndsIn(Append(queue, m), events, others, s)
         /\ ~Of(m, others, s) =>
              /\ NoneOf(queue, others, s) => NoneOf(Append(queue, m), others, s)
              /\ EndsIn(queue, events, others, s) => EndsIn(Append(queue, m), events, others, s)
<1> DEFINE n == Len(queue)
<1>1. /\ n \in Nat
      /\ Len(Append(queue, m)) = n + 1
      /\ Append(queue, m)[n + 1] = m
      /\ \A i \in 1..n : Append(queue, m)[i] = queue[i]
  BY AppendProperties
<1>2. \A i \in 1..(n + 1) : i = n + 1 \/ i \in 1..n
  BY <1>1
<1>3. n + 1 \in 1..(n + 1) /\ 1..n \subseteq 1..(n + 1)
  BY <1>1
<1> DEFINE long == Append(queue, m)
<1> HIDE DEF n, long
<1>4. ASSUME Of(m, events, s) PROVE EndsIn(long, events, others, s)
  <2>1. \A j \in 1..(n + 1) : ~(j > n + 1)
    BY <1>1
  <2> QED
    BY <1>1, <1>3, <1>4, <2>1 DEF EndsIn, long
<1>5. ASSUME ~Of(m, others, s), NoneOf(queue, others, s) PROVE NoneOf(long, others, s)
  BY <1>1, <1>2, <1>5 DEF NoneOf, n, long
<1>6. ASSUME ~Of(m, others, s), EndsIn(queue, events, others, s)
      PROVE  EndsIn(long, events, others, s)
  <2>1. PICK i \in 1..n : /\ Of(queue[i], events, s)
                          /\ \A j \in 1..n : j > i => ~Of(queue[j], others, s)
    BY <1>6 DEF EndsIn, n
  <2>2. i \in 1..(n + 1) /\ Of(long[i], events, s)
    BY <1>1, <1>3, <2>1 DEF long
  <2>3. \A j \in 1..(n + 1) : j > i => ~Of(long[j], others, s)
    BY <1>1, <1>2, <1>6, <2>1 DEF long
  <2> QED
    BY <1>1, <2>2, <2>3 DEF EndsIn, long
<1> QED
  BY <1>4, <1>5, <1>6 DEF long

LEMMA Receiving ==
  ASSUME NEW queue \in Seq(Message), queue # <<>>, NEW s, NEW events, NEW others
  PROVE  /\ NoneOf(queue, others, s) => NoneOf(Tail(queue), others, s)
         /\ EndsIn(queue, events, others, s) =>
              \/ EndsIn(Tail(queue), events, others, s)
              \/ Of(Head(queue), events, s) /\ NoneOf(Tail(queue), others, s)
<1> DEFINE n == Len(queue)
           rest == Tail(queue)
<1>1. /\ n \in Nat /\ n # 0
      /\ Len(rest) = n - 1
      /\ \A i \in 1..(n - 1) : rest[i] = queue[i + 1]
      /\ Head(queue) = queue[1]
  BY HeadTailProperties, EmptySeq
<1> HIDE DEF n, rest
<1>2. ASSUME NoneOf(queue, others, s) PROVE NoneOf(rest, others, s)
  <2>1. \A i \in 1..(n - 1) : i + 1 \in 1..n
    BY <1>1
  <2> QED
    BY <1>1, <1>2, <2>1 DEF NoneOf, n
<1>3. ASSUME EndsIn(queue, events, others, s)
      PROVE  \/ EndsIn(rest, events, others, s)
             \/ Of(Head(queue), events, s) /\ NoneOf(rest, others, s)
  <2>1. PICK i \in 1..n : /\ Of(queue[i], events, s)
                          /\ \A j \in 1..n : j > i => ~Of(queue[j], others, s)
    BY <1>3 DEF EndsIn, n
  <2>2. \A j \in 1..(n - 1) : j + 1 \in 1..n
    BY <1>1
  <2>3. CASE i = 1
    <3>1. \A j \in 1..(n - 1) : j + 1 > 1
      BY <1>1
    <3>2. \A j \in 1..(n - 1) : ~Of(rest[j], others, s)
      BY <1>1, <2>1, <2>2, <2>3, <3>1
    <3> QED
      BY <1>1, <2>1, <2>3, <3>2 DEF NoneOf
  <2>4. CASE i # 1
    <3>1. i - 1 \in 1..(n - 1) /\ (i - 1) + 1 = i
      BY <1>1, <2>4
    <3>2. Of(rest[i - 1], events, s)
      BY <1>1, <2>1, <3>1
    <3>3. \A j \in 1..(n - 1) : j > i - 1 => j + 1 > i
      BY <1>1
    <3>4. \A j \in 1..(n - 1) : j > i - 1 => ~Of(rest[j], others, s)
      BY <1>1, <2>1, <2>2, <3>3
    <3> QED
      BY <1>1, <3>1, <3>2, <3>4 DEF EndsIn
  <2> QED
    BY <2>3, <2>4
<1> QED
  BY <1>2, <1>3 DEF rest

----------------------------------------------------------------------------
(* Which steps touch the feed or devices, and how.                         *)

\* What the handler of message m makes of devices.
Takes(m) ==
  /\ m.event \in Ups => devices' = devices \cup {m.serial}
  /\ m.event \in Downs => devices' = devices \ {m.serial}
  /\ m.event \notin Ups \cup Downs => devices' = devices

Dispatch == \E m \in Message : Receive(m) /\ Takes(m)

Untouched == UNCHANGED <<hub, inbox, welcome, devices>>

LEMMA WsFeed ==
  ASSUME WsStep
  PROVE  Dispatch \/ Untouched
<1>1. PICK s \in Serials :
        \/ \E l \in InfoLevels : \/ OnDeviceReady(s, l)
                                 \/ OnDeviceOffline(s, l)
                                 \/ OnDeviceDeleted(s, l)
                                 \/ OnBatteryUpdated(s, l)
        \/ ReadyList(s) \/ ReadyGate(s) \/ ReadyStabilize(s) \/ ReadyCreate(s)
        \/ DeletedList(s) \/ DeletedDelete(s)
        \/ BatteryList(s) \/ BatteryCreate(s)
  BY DEF WsStep
<1>2. ASSUME NEW l \in InfoLevels,
             \/ OnDeviceReady(s, l) \/ OnDeviceOffline(s, l)
             \/ OnDeviceDeleted(s, l) \/ OnBatteryUpdated(s, l)
      PROVE  Dispatch
  <2>1. \A e \in Events : /\ Msg(e, s, l) \in Message
                          /\ Msg(e, s, l).event = e /\ Msg(e, s, l).serial = s
    BY DEF Msg, Message
  <2>2. {"INFO ADD", "INFO DELETE", "DEVICE DELETE", "BATTERY UPDATE"} = Events
    BY DEF Events
  <2>3. \/ Handle("INFO ADD", s, l) /\ Takes(Msg("INFO ADD", s, l))
        \/ Handle("INFO DELETE", s, l) /\ Takes(Msg("INFO DELETE", s, l))
        \/ Handle("DEVICE DELETE", s, l) /\ Takes(Msg("DEVICE DELETE", s, l))
        \/ Handle("BATTERY UPDATE", s, l) /\ Takes(Msg("BATTERY UPDATE", s, l))
    BY <1>2, <2>1, <2>2 DEF OnDeviceReady, OnDeviceOffline, OnDeviceDeleted,
                            OnBatteryUpdated, Takes, Ups, Downs
  <2> QED
    BY <2>1, <2>2, <2>3 DEF Handle, Dispatch
<1>3. ASSUME \/ ReadyList(s) \/ ReadyGate(s) \/ ReadyStabilize(s) \/ ReadyCreate(s)
             \/ DeletedList(s) \/ DeletedDelete(s) \/ BatteryList(s) \/ BatteryCreate(s)
      PROVE  Untouched
  BY <1>3 DEF ReadyList, ReadyGate, ReadyStabilize, ReadyCreate, DeletedList, DeletedDelete,
              BatteryList, BatteryCreate, feedVars, infoVars, Untouched
<1> QED
  BY <1>1, <1>2, <1>3

LEMMA NextFeed ==
  ASSUME [Next]_vars
  PROVE  \/ Untouched
         \/ Environment /\ UNCHANGED devices
         \/ Dispatch
         \/ Reconnect /\ UNCHANGED devices
         \/ Connected /\ devices' = {} /\ UNCHANGED hub
<1>1. CASE WsStep
  BY <1>1, WsFeed
<1>2. CASE CpStep
  BY <1>2 DEF CpStep, CheckPods, Claim, Collect, Delete, SaveTestResult, MarkRebooting, Purge,
              feedVars, infoVars, Untouched
<1>3. CASE \E k \in Settlers : SettlerStep(k)
  BY <1>3 DEF SettlerStep, Settle, SettlerUnflag, SettlerList, SettlerGate, SettlerDefer,
              SettlerCreate, feedVars, infoVars, Untouched
<1>4. CASE \E u \in Uids : RebooterStep(u)
  BY <1>4 DEF RebooterStep, RebootAccepted, RebootRefused, RebootTimesOut, RebootSucceeded,
              RebootFailed, RetryWake, RetryList, RetryCreate, feedVars, infoVars, Untouched
<1>5. CASE HubStep \/ Reconnected
  BY <1>5 DEF HubStep, Reconnected, managerVars, infoVars
<1>6. CASE (\E s \in Serials : PodStep(s)) \/ UNCHANGED vars
  BY <1>6 DEF PodStep, managerVars, vars, feedVars, infoVars, Untouched
<1>7. CASE Restart
  BY <1>7 DEF Restart
<1> QED
  BY <1>1, <1>2, <1>3, <1>4, <1>5, <1>6, <1>7 DEF Next

----------------------------------------------------------------------------
(* No online device is missed.                                             *)

WillKnow(s) ==
  \/ s \in devices \cup welcome /\ NoneOf(inbox, Downs, s)
  \/ EndsIn(inbox, Ups, Downs, s)

Announced == \A s \in Online : WillKnow(s)

LEMMA EnvironmentAnnounces ==
  ASSUME FeedTypeOK, Announced, Environment, UNCHANGED devices
  PROVE  Announced'
<1>1. PICK t \in Serials : \/ ComeOnline(t) \/ GoOffline(t) \/ Forget(t)
                           \/ \E l \in Levels : Battery(t, l)
  BY DEF Environment
<1>2. inbox \in Seq(Message) /\ hub \in [Serials -> {"gone", "away", "online"}]
  BY DEF FeedTypeOK
<1>3. \A e \in Events, l \in InfoLevels : /\ Msg(e, t, l) \in Message
                                          /\ Msg(e, t, l).event = e
                                          /\ Msg(e, t, l).serial = t
  BY <1>1 DEF Msg, Message
<1>4. /\ {"INFO ADD", "INFO DELETE", "DEVICE DELETE", "BATTERY UPDATE"} = Events
      /\ Unknown \in InfoLevels /\ Levels \subseteq InfoLevels
      /\ "INFO ADD" \notin Downs /\ "BATTERY UPDATE" \notin Downs /\ "INFO ADD" \in Ups
  BY DEF Events, InfoLevels, Ups, Downs
<1>5. ASSUME NEW m \in Message, NEW s \in Serials, inbox' = Append(inbox, m),
             welcome' = welcome, WillKnow(s), ~Of(m, Downs, s)
      PROVE  WillKnow(s)'
  BY <1>2, <1>5, Sending DEF WillKnow
<1>6. SUFFICES ASSUME NEW s \in Serials, hub'[s] = "online" PROVE WillKnow(s)'
  BY DEF Announced, Online
<1>7. CASE ComeOnline(t)
  <2>1. PICK m \in Message : /\ inbox' = Append(inbox, m) /\ m.event = "INFO ADD"
                             /\ m.serial = t /\ UNCHANGED welcome
    BY <1>3, <1>4, <1>7 DEF ComeOnline, Send
  <2>2. CASE s = t
    BY <1>2, <1>4, <2>1, <2>2, Sending DEF WillKnow, Of
  <2>3. CASE s # t
    BY <1>2, <1>4, <1>5, <1>6, <1>7, <2>1, <2>3 DEF ComeOnline, Announced, Online, Of
  <2> QED
    BY <2>2, <2>3
<1>8. CASE GoOffline(t) \/ Forget(t)
  <2>1. PICK m \in Message : inbox' = Append(inbox, m) /\ m.serial = t /\ UNCHANGED welcome
    BY <1>3, <1>4, <1>8 DEF GoOffline, Forget, Send
  <2>2. s # t /\ hub'[s] = hub[s]
    BY <1>2, <1>6, <1>8 DEF GoOffline, Forget
  <2> QED
    BY <1>5, <1>6, <2>1, <2>2 DEF Announced, Online, Of
<1>9. ASSUME NEW l \in Levels, Battery(t, l) PROVE WillKnow(s)'
  <2>1. PICK m \in Message : /\ inbox' = Append(inbox, m) /\ m.event = "BATTERY UPDATE"
                             /\ UNCHANGED welcome
    BY <1>3, <1>4, <1>9 DEF Battery, Send
  <2> QED
    BY <1>4, <1>5, <1>6, <1>9, <2>1 DEF Battery, Announced, Online, Of
<1> QED
  BY <1>1, <1>7, <1>8, <1>9

LEMMA DispatchAnnounces ==
  ASSUME FeedTypeOK, Announced, Dispatch
  PROVE  Announced'
<1>1. PICK m \in Message : Receive(m) /\ Takes(m)
  BY DEF Dispatch
<1>2. inbox \in Seq(Message) /\ hub' = hub
  BY <1>1 DEF FeedTypeOK, Receive
<1>3. SUFFICES ASSUME NEW s \in Serials, WillKnow(s) PROVE WillKnow(s)'
  BY <1>2 DEF Announced, Online
<1>4. CASE /\ m.event = "INFO ADD" /\ m.serial \in welcome
           /\ welcome' = welcome \ {m.serial} /\ UNCHANGED inbox
  <2>1. devices' = devices \cup {m.serial}
    BY <1>1, <1>4 DEF Takes, Ups
  <2> QED
    BY <1>3, <1>4, <2>1 DEF WillKnow
<1>5. CASE welcome = {} /\ inbox # <<>> /\ m = Head(inbox) /\ inbox' = Tail(inbox)
           /\ UNCHANGED welcome
  <2>1. CASE s \in devices /\ NoneOf(inbox, Downs, s)
    <3>1. NoneOf(Tail(inbox), Downs, s)
      BY <1>2, <1>5, <2>1, Receiving
    <3>2. ~Of(m, Downs, s)
      <4>1. 1 \in 1..Len(inbox) /\ Head(inbox) = inbox[1]
        BY <1>2, <1>5, EmptySeq
      <4> QED
        BY <1>5, <2>1, <4>1 DEF NoneOf
    <3>3. s \in devices'
      BY <1>1, <2>1, <3>2 DEF Takes, Of
    <3> QED
      BY <1>5, <3>1, <3>3 DEF WillKnow
  <2>2. CASE EndsIn(inbox, Ups, Downs, s)
    <3>1. EndsIn(Tail(inbox), Ups, Downs, s) \/ (Of(m, Ups, s) /\ NoneOf(Tail(inbox), Downs, s))
      BY <1>2, <1>5, <2>2, Receiving
    <3>2. Of(m, Ups, s) => s \in devices'
      BY <1>1 DEF Takes, Of
    <3> QED
      BY <1>5, <3>1, <3>2 DEF WillKnow
  <2> QED
    BY <1>3, <1>5, <2>1, <2>2 DEF WillKnow
<1> QED
  BY <1>1, <1>4, <1>5 DEF Receive

LEMMA FreshAnnounces ==
  ASSUME Connected, UNCHANGED hub
  PROVE  Announced'
<1>1. inbox' = <<>> /\ welcome' = Online'
  BY DEF Connected, Online
<1> QED
  BY <1>1 DEF Announced, WillKnow, NoneOf

LEMMA NextAnnounces == Typed /\ Announced /\ [Next]_vars => Announced'
<1> SUFFICES ASSUME Typed, Announced, [Next]_vars PROVE Announced'
  OBVIOUS
<1>1. FeedTypeOK
  BY DEF Typed
<1>2. CASE Untouched
  BY <1>2 DEF Untouched, Announced, WillKnow, Online
<1>3. CASE Reconnect
  BY <1>3, FreshAnnounces DEF Reconnect
<1> QED
  BY <1>1, <1>2, <1>3, NextFeed, EnvironmentAnnounces, DispatchAnnounces, FreshAnnounces

\* Whatever messages are lost at reconnects and restarts, once the manager has
\* handled what there is it knows every device that is online: none waits for a
\* test without anybody knowing (hubws.go 188-216).
THEOREM OnlineKnown == Spec => []KnowsOnline
<1>1. Init => Announced
  <2>1. Init => welcome = Online /\ inbox = <<>>
    BY DEF Init, FeedInit
  <2> QED
    BY <2>1 DEF Announced, WillKnow, NoneOf
<1>2. Announced => KnowsOnline
  BY DEF Announced, WillKnow, KnowsOnline, Drained, EndsIn
<1> QED
  BY InitTyped, NextKeepsTypes, NextAnnounces, <1>1, <1>2, PTL DEF Spec

----------------------------------------------------------------------------
(* No device is taken for ready after it left, unless a reconnect lost the *)
(* news.                                                                   *)

WillForget(s) ==
  \/ s \notin devices \cup welcome /\ NoneOf(inbox, Ups, s)
  \/ EndsIn(inbox, Downs, Ups, s)

Recalled == \A s \in Serials \ Online : WillForget(s)

LEMMA EnvironmentRecalls ==
  ASSUME FeedTypeOK, Recalled, Environment, UNCHANGED devices
  PROVE  Recalled'
<1>1. PICK t \in Serials : \/ ComeOnline(t) \/ GoOffline(t) \/ Forget(t)
                           \/ \E l \in Levels : Battery(t, l)
  BY DEF Environment
<1>2. inbox \in Seq(Message) /\ hub \in [Serials -> {"gone", "away", "online"}]
  BY DEF FeedTypeOK
<1>3. \A e \in Events, l \in InfoLevels : /\ Msg(e, t, l) \in Message
                                          /\ Msg(e, t, l).event = e
                                          /\ Msg(e, t, l).serial = t
  BY <1>1 DEF Msg, Message
<1>4. /\ {"INFO ADD", "INFO DELETE", "DEVICE DELETE", "BATTERY UPDATE"} = Events
      /\ Unknown \in InfoLevels /\ Levels \subseteq InfoLevels
      /\ "BATTERY UPDATE" \notin Ups /\ Downs \cap Ups = {}
  BY DEF Events, InfoLevels, Ups, Downs
<1>5. ASSUME NEW m \in Message, NEW s \in Serials, inbox' = Append(inbox, m),
             welcome' = welcome, WillForget(s), ~Of(m, Ups, s)
      PROVE  WillForget(s)'
  BY <1>2, <1>5, Sending DEF WillForget
<1>6. SUFFICES ASSUME NEW s \in Serials, hub'[s] # "online" PROVE WillForget(s)'
  BY DEF Recalled, Online
<1>7. CASE ComeOnline(t)
  <2>1. PICK m \in Message : inbox' = Append(inbox, m) /\ m.serial = t /\ UNCHANGED welcome
    BY <1>3, <1>4, <1>7 DEF ComeOnline, Send
  <2>2. s # t /\ hub'[s] = hub[s]
    BY <1>2, <1>6, <1>7 DEF ComeOnline
  <2> QED
    BY <1>5, <1>6, <2>1, <2>2 DEF Recalled, Online, Of
<1>8. CASE GoOffline(t) \/ Forget(t)
  <2>1. PICK m \in Message : /\ inbox' = Append(inbox, m) /\ m.event \in Downs
                             /\ m.serial = t /\ UNCHANGED welcome
    BY <1>3, <1>4, <1>8 DEF GoOffline, Forget, Send, Downs
  <2>2. CASE s = t
    BY <1>2, <2>1, <2>2, Sending DEF WillForget, Of
  <2>3. CASE s # t
    <3>1. hub'[s] = hub[s]
      BY <1>2, <1>8, <2>3 DEF GoOffline, Forget
    <3> QED
      BY <1>5, <1>6, <2>1, <2>3, <3>1 DEF Recalled, Online, Of
  <2> QED
    BY <2>2, <2>3
<1>9. ASSUME NEW l \in Levels, Battery(t, l) PROVE WillForget(s)'
  <2>1. PICK m \in Message : /\ inbox' = Append(inbox, m) /\ m.event = "BATTERY UPDATE"
                             /\ UNCHANGED welcome
    BY <1>3, <1>4, <1>9 DEF Battery, Send
  <2> QED
    BY <1>4, <1>5, <1>6, <1>9, <2>1 DEF Battery, Recalled, Online, Of
<1> QED
  BY <1>1, <1>7, <1>8, <1>9

LEMMA DispatchRecalls ==
  ASSUME FeedTypeOK, Recalled, Dispatch
  PROVE  Recalled'
<1>1. PICK m \in Message : Receive(m) /\ Takes(m)
  BY DEF Dispatch
<1>2. inbox \in Seq(Message) /\ hub' = hub
  BY <1>1 DEF FeedTypeOK, Receive
<1>3. SUFFICES ASSUME NEW s \in Serials, WillForget(s) PROVE WillForget(s)'
  BY <1>2 DEF Recalled, Online
<1>4. CASE /\ m.event = "INFO ADD" /\ m.serial \in welcome
           /\ welcome' = welcome \ {m.serial} /\ UNCHANGED inbox
  <2>1. devices' = devices \cup {m.serial}
    BY <1>1, <1>4 DEF Takes, Ups
  <2> QED
    BY <1>3, <1>4, <2>1 DEF WillForget
<1>5. CASE welcome = {} /\ inbox # <<>> /\ m = Head(inbox) /\ inbox' = Tail(inbox)
           /\ UNCHANGED welcome
  <2>1. CASE s \notin devices /\ NoneOf(inbox, Ups, s)
    <3>1. NoneOf(Tail(inbox), Ups, s)
      BY <1>2, <1>5, <2>1, Receiving
    <3>2. ~Of(m, Ups, s)
      <4>1. 1 \in 1..Len(inbox) /\ Head(inbox) = inbox[1]
        BY <1>2, <1>5, EmptySeq
      <4> QED
        BY <1>5, <2>1, <4>1 DEF NoneOf
    <3>3. s \notin devices'
      BY <1>1, <2>1, <3>2 DEF Takes, Of
    <3> QED
      BY <1>5, <3>1, <3>3 DEF WillForget
  <2>2. CASE EndsIn(inbox, Downs, Ups, s)
    <3>1. EndsIn(Tail(inbox), Downs, Ups, s) \/ (Of(m, Downs, s) /\ NoneOf(Tail(inbox), Ups, s))
      BY <1>2, <1>5, <2>2, Receiving
    <3>2. Of(m, Downs, s) => s \notin devices'
      BY <1>1 DEF Takes, Of
    <3> QED
      BY <1>5, <3>1, <3>2 DEF WillForget
  <2> QED
    BY <1>3, <1>5, <2>1, <2>2 DEF WillForget
<1> QED
  BY <1>1, <1>4, <1>5 DEF Receive

LEMMA NextRecalls == ~Reconnects /\ Typed /\ Recalled /\ [Next]_vars => Recalled'
<1> SUFFICES ASSUME ~Reconnects, Typed, Recalled, [Next]_vars PROVE Recalled'
  OBVIOUS
<1>1. FeedTypeOK
  BY DEF Typed
<1>2. CASE Untouched
  BY <1>2 DEF Untouched, Recalled, WillForget, Online
<1>3. ~Reconnect
  BY DEF Reconnect
<1>4. CASE Connected /\ devices' = {} /\ UNCHANGED hub
  <2>1. inbox' = <<>> /\ welcome' = Online'
    BY <1>4 DEF Connected, Online
  <2> QED
    BY <1>4, <2>1 DEF Recalled, WillForget, NoneOf
<1> QED
  BY <1>1, <1>2, <1>3, <1>4, NextFeed, EnvironmentRecalls, DispatchRecalls

\* While the WebSocket holds, a device that left is dropped once its messages are
\* handled, across restarts too: every departure is announced, and in order
\* (manager.go 411-434; what a reconnect breaks is a run of its own).
THEOREM GhostsNeedReconnects ==
  ASSUME ~Reconnects
  PROVE  Spec => []NoGhosts
<1>1. Init => Recalled
  <2>1. Init => welcome = Online /\ inbox = <<>> /\ devices = {}
    BY DEF Init, FeedInit
  <2> QED
    BY <2>1 DEF Recalled, WillForget, NoneOf
<1>2. Typed /\ Recalled /\ [Next]_vars => Recalled'
  BY NextRecalls
<1>3. Typed => devices \subseteq Serials
  BY DEF Typed, ManagerType
<1>4. Typed /\ Recalled => NoGhosts
  BY <1>3 DEF Recalled, WillForget, NoGhosts, Drained, EndsIn
<1> QED
  BY InitTyped, NextKeepsTypes, <1>1, <1>2, <1>4, PTL DEF Spec

----------------------------------------------------------------------------
(* Which steps create and delete pods.                                     *)

Created(s) ==
  /\ ~Exists(s)
  /\ nextUid <= MaxUid
  /\ pod' = [pod EXCEPT ![s] = [uid |-> nextUid, phase |-> "active", dying |-> FALSE]]
  /\ nextUid' = nextUid + 1

Deleted(s) ==
  /\ Exists(s)
  /\ pod' = [pod EXCEPT ![s] = IF Graceful THEN [@ EXCEPT !.dying = TRUE] ELSE NoPod]
  /\ UNCHANGED nextUid

PodsKept == UNCHANGED <<pod, nextUid>>

\* The budget of failing calls is not refilled.
Spent == faults' = faults \/ (faults > 0 /\ faults' = faults - 1)

\* The goroutines that create a pod for s are at these places.
AsksFor(s) ==
  \/ ws.serial = s /\ ws.pc \in {"readyCreate", "batteryCreate"}
  \/ \E k \in Settlers : settlers[k].serial = s /\ settlers[k].stage = "create"
  \/ \E u \in Uids : rebooters[u].serial = s /\ rebooters[u].stage = "create"

\* What the pods may go through while CheckPods does nothing.
PodMove ==
  \/ PodsKept
  \/ \E s \in Serials : \/ Created(s) /\ AsksFor(s)
                        \/ Deleted(s) /\ WsAt("deletedDelete", s)
                        \/ Finish(s)
                        \/ PodGone(s)

LEMMA Calls ==
  ASSUME faults \in Nat, NEW s
  PROVE  /\ CallFails => PodsKept /\ Spent /\ faults' # faults
         /\ UNCHANGED podVars => PodsKept /\ Spent
         /\ CreatePod(s) => (PodsKept \/ Created(s)) /\ Spent
         /\ DeletePod(s) => Spent /\ (Deleted(s) \/ (PodsKept /\ (Exists(s) => faults' # faults)))
         /\ ListedNone(s) => PodsKept /\ Spent /\ ~Exists(s)
         /\ ListedSome(s) => PodsKept /\ Spent /\ (Exists(s) \/ faults' # faults)
<1>1. CallFails => PodsKept /\ Spent /\ faults' # faults
  BY DEF CallFails, PodsKept, Spent
<1>2. UNCHANGED podVars => PodsKept /\ Spent
  BY DEF podVars, PodsKept, Spent
<1>3. CreatePod(s) => (PodsKept \/ Created(s)) /\ Spent
  BY <1>1, <1>2 DEF CreatePod, Created, Spent
<1>4. DeletePod(s) => Spent /\ (Deleted(s) \/ (PodsKept /\ (Exists(s) => faults' # faults)))
  <2> DEFINE left == [pod EXCEPT ![s] = IF Graceful THEN [@ EXCEPT !.dying = TRUE] ELSE NoPod]
  <2>1. CASE Exists(s) /\ pod' = left /\ UNCHANGED <<nextUid, faults>>
    <3> HIDE DEF left
    <3>1. UNCHANGED nextUid /\ UNCHANGED faults
      BY <2>1
    <3>2. Deleted(s)
      BY <2>1, <3>1 DEF Deleted, left
    <3> QED
      BY <3>1, <3>2 DEF Spent
  <2>2. CASE (~Exists(s) /\ UNCHANGED podVars) \/ CallFails
    BY <1>1, <1>2, <2>2
  <2> QED
    BY <2>1, <2>2 DEF DeletePod
<1> QED
  BY <1>1, <1>2, <1>3, <1>4 DEF ListedNone, ListedSome

LEMMA WsPods ==
  ASSUME faults \in Nat, WsStep
  PROVE  PodMove /\ Spent
<1>1. PICK s \in Serials :
        \/ \E l \in InfoLevels : \/ OnDeviceReady(s, l) \/ OnDeviceOffline(s, l)
                                 \/ OnDeviceDeleted(s, l) \/ OnBatteryUpdated(s, l)
        \/ ReadyList(s) \/ ReadyGate(s) \/ ReadyStabilize(s) \/ ReadyCreate(s)
        \/ DeletedList(s) \/ DeletedDelete(s) \/ BatteryList(s) \/ BatteryCreate(s)
  BY DEF WsStep
<1>2. CASE ReadyCreate(s) \/ BatteryCreate(s)
  <2>1. CreatePod(s) /\ AsksFor(s)
    BY <1>2 DEF ReadyCreate, BatteryCreate, WsAt, AsksFor
  <2> QED
    BY <2>1, Calls DEF PodMove
<1>3. CASE DeletedDelete(s)
  BY <1>3, Calls DEF DeletedDelete, PodMove
<1>4. CASE ReadyList(s) \/ DeletedList(s) \/ BatteryList(s)
  BY <1>4, Calls DEF ReadyList, DeletedList, BatteryList, PodMove
<1>5. CASE (\E l \in InfoLevels : \/ OnDeviceReady(s, l) \/ OnDeviceOffline(s, l)
                                 \/ OnDeviceDeleted(s, l) \/ OnBatteryUpdated(s, l))
           \/ ReadyGate(s) \/ ReadyStabilize(s)
  <2>1. UNCHANGED podVars
    BY <1>5 DEF OnDeviceReady, OnDeviceOffline, OnDeviceDeleted, OnBatteryUpdated,
                ReadyGate, ReadyStabilize
  <2> QED
    BY <2>1, Calls DEF PodMove
<1> QED
  BY <1>1, <1>2, <1>3, <1>4, <1>5

LEMMA OthersPods ==
  ASSUME faults \in Nat,
         \/ WsStep \/ (\E k \in Settlers : SettlerStep(k)) \/ (\E u \in Uids : RebooterStep(u))
         \/ HubStep \/ Reconnected \/ (\E s \in Serials : PodStep(s)) \/ UNCHANGED vars,
         Typed
  PROVE  PodMove /\ Spent
<1>1. ASSUME NEW k \in Settlers, SettlerStep(k)
      PROVE  PodMove /\ Spent
  <2>1. CASE SettlerCreate(k)
    <3>1. settlers[k].serial \in Serials /\ AsksFor(settlers[k].serial)
      BY <2>1 DEF SettlerCreate, SettlerAt, AsksFor, Typed, ManagerType, WorkersKnowTheirJob
    <3> QED
      BY <2>1, <3>1, Calls DEF SettlerCreate, PodMove
  <2>2. CASE ~SettlerCreate(k)
    BY <1>1, <2>2, Calls DEF SettlerStep, Settle, SettlerUnflag, SettlerList, SettlerGate,
                             SettlerDefer, PodMove
  <2> QED
    BY <2>1, <2>2
<1>2. ASSUME NEW u \in Uids, RebooterStep(u)
      PROVE  PodMove /\ Spent
  <2>1. CASE RetryCreate(u)
    <3>1. rebooters[u].serial \in Serials /\ AsksFor(rebooters[u].serial)
      BY <2>1 DEF RetryCreate, RebooterAt, AsksFor, Typed, ManagerType, WorkersKnowTheirJob
    <3> QED
      BY <2>1, <3>1, Calls DEF RetryCreate, PodMove
  <2>2. CASE ~RetryCreate(u)
    BY <1>2, <2>2, Calls DEF RebooterStep, RebootAccepted, RebootRefused, RebootTimesOut,
         RebootSucceeded, RebootFailed, RetryWake, RetryList, PodMove
  <2> QED
    BY <2>1, <2>2
<1>3. CASE \E s \in Serials : PodStep(s)
  BY <1>3 DEF PodStep, Finish, PodGone, PodMove, Spent
<1>4. CASE HubStep \/ Reconnected \/ UNCHANGED vars
  BY <1>4, Calls DEF HubStep, Reconnected, vars, PodMove
<1> QED
  BY <1>1, <1>2, <1>3, <1>4, WsPods

LEMMA CpPods ==
  ASSUME faults \in Nat, CpStep
  PROVE  /\ Spent
         /\ \/ PodsKept
            \/ (Delete \/ Purge) /\ Deleted(cp.cur.serial)
<1>1. CASE Delete \/ Purge
  BY <1>1, Calls DEF Delete, Purge
<1>2. CASE CheckPods \/ (\E p \in cp.todo : Claim(p)) \/ Collect \/ SaveTestResult \/ MarkRebooting
  <2>1. CallFails \/ UNCHANGED podVars
    BY <1>2 DEF CheckPods, Claim, Collect, SaveTestResult, MarkRebooting
  <2> QED
    BY <2>1, Calls
<1> QED
  BY <1>1, <1>2 DEF CpStep

----------------------------------------------------------------------------
(* UIDs.  The API never gives one out twice, so what CheckPods remembers   *)
(* of a pod is never taken for another.                                    *)

\* The pods CheckPods is still to look at or is working on.
Listed == cp.todo \cup (IF cp.pc \in {"idle", "scan"} THEN {} ELSE {cp.cur})

PodsNumbered ==
  /\ \A s \in Serials : pod[s].uid < nextUid
  /\ \A s, t \in Serials : Exists(s) /\ pod[s].uid = pod[t].uid => s = t

ListNumbered ==
  \A p \in Listed : p.uid < nextUid /\ \A s \in Serials : pod[s].uid = p.uid => s = p.serial

Numbered ==
  /\ PodsNumbered
  /\ ListNumbered
  /\ \A u \in reported : u < nextUid

LEMMA PodTypes ==
  ASSUME Typed
  PROVE  /\ nextUid \in Nat /\ nextUid > 0
         /\ faults \in Nat /\ faults <= MaxFaults /\ MaxFaults \in Nat
         /\ \A s \in Serials : /\ pod[s].uid \in Nat
                               /\ pod[s].uid = 0 <=> ~Exists(s)
                               /\ Exists(s) => pod[s].uid \in Uids
         /\ Uids \subseteq Nat \ {0}
         /\ \A p \in Listed : p \in Target /\ p.serial \in Serials /\ p.uid \in Uids
         /\ cp.todo \subseteq Target /\ reported \subseteq Uids
<1>1. MaxUid \in Nat /\ MaxFaults \in Nat
  BY PodAssumption
<1>2. Uids \subseteq Nat \ {0}
  BY <1>1 DEF Uids
<1>3. \A s \in Serials : pod[s] \in Pods \/ pod[s] = NoPod
  BY DEF Typed, PodTypeOK
<1>4. ASSUME NEW s \in Serials
      PROVE  /\ pod[s].uid \in Nat
             /\ pod[s].uid = 0 <=> ~Exists(s)
             /\ Exists(s) => pod[s].uid \in Uids
  <2>1. CASE pod[s] \in Pods
    <3>1. pod[s].uid \in Uids /\ pod[s].uid \in Nat \ {0}
      BY <1>2, <2>1 DEF Pods
    <3> QED
      BY <3>1 DEF Exists, NoPod
  <2>2. CASE pod[s] = NoPod
    BY <2>2 DEF Exists, NoPod
  <2> QED
    BY <1>3, <2>1, <2>2
<1>5. \A p \in Target : p.serial \in Serials /\ p.uid \in Uids
  BY DEF Target
<1>6. cp.todo \subseteq Target /\ Listed \subseteq Target
  BY CpTypes DEF CpType, Listed
<1> QED
  BY <1>1, <1>2, <1>4, <1>5, <1>6 DEF Typed, PodTypeOK, ManagerType

\* One step of the pods: at most one of them changes, and how.
LEMMA PodChanges ==
  ASSUME Typed, NEW s \in Serials
  PROVE  /\ Created(s) \/ Deleted(s) \/ Finish(s) \/ PodGone(s) =>
              \A t \in Serials \ {s} : pod'[t] = pod[t]
         /\ Deleted(s) \/ Finish(s) \/ PodGone(s) => nextUid' = nextUid /\ Exists(s)
         /\ Created(s) => /\ ~Exists(s) /\ pod'[s].uid = nextUid /\ ~pod'[s].dying
                          /\ nextUid' = nextUid + 1 /\ nextUid \in Uids
         /\ Finish(s) => pod'[s].uid = pod[s].uid /\ pod'[s].dying = pod[s].dying
         /\ PodGone(s) => pod[s].dying /\ pod'[s] = NoPod
         /\ Deleted(s) => IF Graceful THEN pod'[s].uid = pod[s].uid ELSE pod'[s] = NoPod
<1>1. /\ pod \in [Serials -> Pods \cup {NoPod}]
      /\ nextUid \in 1..(MaxUid + 1) /\ MaxUid \in Nat
      /\ pod[s] \in Pods \/ pod[s] = NoPod
  BY PodAssumption DEF Typed, PodTypeOK
<1>2. ASSUME NEW left, pod' = [pod EXCEPT ![s] = left]
      PROVE  pod'[s] = left /\ \A t \in Serials \ {s} : pod'[t] = pod[t]
  BY <1>1, <1>2
<1> DEFINE Frame == \A t \in Serials \ {s} : pod'[t] = pod[t]
<1>3. ASSUME Created(s)
      PROVE  /\ Frame /\ ~Exists(s) /\ pod'[s].uid = nextUid /\ ~pod'[s].dying
             /\ nextUid' = nextUid + 1 /\ nextUid \in Uids
  BY <1>1, <1>2, <1>3 DEF Created, Uids
<1>4. ASSUME Deleted(s)
      PROVE  /\ Frame /\ nextUid' = nextUid /\ Exists(s)
             /\ IF Graceful THEN pod'[s].uid = pod[s].uid ELSE pod'[s] = NoPod
  <2> DEFINE left == IF Graceful THEN [pod[s] EXCEPT !.dying = TRUE] ELSE NoPod
  <2>1. Exists(s) /\ pod' = [pod EXCEPT ![s] = left] /\ nextUid' = nextUid
    BY <1>4 DEF Deleted
  <2>2. Graceful => left.uid = pod[s].uid
    BY <1>1 DEF Pods, NoPod
  <2>3. ~Graceful => left = NoPod
    OBVIOUS
  <2> HIDE DEF left
  <2> QED
    BY <1>2, <2>1, <2>2, <2>3
<1>5. ASSUME Finish(s)
      PROVE  /\ Frame /\ nextUid' = nextUid /\ Exists(s)
             /\ pod'[s].uid = pod[s].uid /\ pod'[s].dying = pod[s].dying
  <2>1. pod[s] \in Pods
    BY <1>1, <1>5 DEF Finish, NoPod
  <2>2. pod' = [pod EXCEPT ![s] = [pod[s] EXCEPT !.phase = "done"]] /\ nextUid' = nextUid
    BY <1>5 DEF Finish
  <2>3. Exists(s)
    BY <1>5 DEF Finish, Exists, NoPod
  <2> QED
    BY <1>2, <2>1, <2>2, <2>3 DEF Pods
<1>6. ASSUME PodGone(s)
      PROVE  Frame /\ nextUid' = nextUid /\ Exists(s) /\ pod[s].dying /\ pod'[s] = NoPod
  BY <1>1, <1>2, <1>6 DEF PodGone, Exists, NoPod
<1> QED
  BY <1>3, <1>4, <1>5, <1>6

LEMMA UidsNeverReused ==
  ASSUME Typed, PodsNumbered,
         PodsKept \/ \E s \in Serials : Created(s) \/ Deleted(s) \/ Finish(s) \/ PodGone(s)
  PROVE  /\ PodsNumbered'
         /\ nextUid' \in Nat /\ nextUid' >= nextUid
         /\ \A u \in Uids, s \in Serials : u < nextUid /\ pod'[s].uid = u => pod[s].uid = u
<1>1. CASE PodsKept
  BY <1>1, PodTypes DEF PodsKept, PodsNumbered, Exists
<1>2. CASE \E s \in Serials : Created(s) \/ Deleted(s) \/ Finish(s) \/ PodGone(s)
  <2>1. PICK s \in Serials : Created(s) \/ Deleted(s) \/ Finish(s) \/ PodGone(s)
    BY <1>2
  <2>2. /\ \A t \in Serials \ {s} : pod'[t] = pod[t]
        /\ nextUid' = nextUid \/ nextUid' = nextUid + 1
        /\ \/ pod'[s].uid = nextUid /\ nextUid' = nextUid + 1 /\ nextUid \in Uids
           \/ pod'[s].uid = pod[s].uid /\ Exists(s)
           \/ pod'[s] = NoPod
    BY <2>1, PodChanges
  <2>3. NoPod.uid = 0
    BY DEF NoPod
  <2>4. nextUid' \in Nat /\ nextUid' >= nextUid
    BY <2>2, PodTypes
  <2>5. \A t \in Serials : pod'[t].uid < nextUid'
    BY <2>2, <2>3, PodTypes DEF PodsNumbered
  <2>6. ASSUME NEW t \in Serials, NEW v \in Serials, pod'[t] # NoPod, pod'[t].uid = pod'[v].uid
        PROVE  t = v
    <3>1. CASE t # s /\ v # s
      BY <2>2, <2>6, <3>1 DEF PodsNumbered, Exists
    <3>2. \A w \in Serials \ {s} : pod'[w].uid # nextUid /\ (pod'[w].uid = 0 <=> pod'[w] = NoPod)
      BY <2>2, PodTypes DEF PodsNumbered, Exists
    <3>3. CASE t = s /\ v # s
      BY <2>2, <2>3, <2>6, <3>2, <3>3 DEF PodsNumbered
    <3>4. CASE t # s /\ v = s
      BY <2>2, <2>3, <2>6, <3>2, <3>4 DEF PodsNumbered, Exists
    <3> QED
      BY <3>1, <3>3, <3>4
  <2>7. PodsNumbered'
    BY <2>5, <2>6 DEF PodsNumbered, Exists
  <2>8. ASSUME NEW u \in Uids, NEW t \in Serials, u < nextUid, pod'[t].uid = u
        PROVE  pod[t].uid = u
    BY <2>2, <2>3, <2>8, PodTypes
  <2> QED
    BY <2>4, <2>7, <2>8
<1> QED
  BY <1>1, <1>2

LEMMA NextKeepsNumbered == Typed /\ Numbered /\ [Next]_vars => Numbered'
<1> SUFFICES ASSUME Typed, Numbered, [Next]_vars PROVE Numbered'
  OBVIOUS
<1>1. faults \in Nat /\ PodsNumbered
  BY PodTypes DEF Numbered
\* What is listed or reported keeps its UID.
<1>2. ASSUME PodsKept \/ \E s \in Serials : Created(s) \/ Deleted(s) \/ Finish(s) \/ PodGone(s),
             Listed' \subseteq Listed, reported' \subseteq reported \cup {p.uid : p \in Listed}
      PROVE  Numbered'
  <2>1. PodsNumbered' /\ nextUid' \in Nat /\ nextUid' >= nextUid
    BY <1>1, <1>2, UidsNeverReused
  <2>2. ASSUME NEW p \in Listed
        PROVE  p.uid < nextUid' /\ \A s \in Serials : pod'[s].uid = p.uid => s = p.serial
    <3>1. p.uid < nextUid /\ p.uid \in Uids /\ \A s \in Serials : pod[s].uid = p.uid => s = p.serial
      BY PodTypes DEF Numbered, ListNumbered
    <3>2. \A s \in Serials : pod'[s].uid = p.uid => pod[s].uid = p.uid
      BY <1>1, <1>2, <3>1, UidsNeverReused
    <3>3. p.uid < nextUid'
      BY <2>1, <3>1, PodTypes
    <3> QED
      BY <3>1, <3>2, <3>3
  <2>3. \A u \in reported : u < nextUid'
    BY <2>1, PodTypes DEF Numbered
  <2> QED
    BY <1>2, <2>1, <2>2, <2>3 DEF Numbered, ListNumbered
<1>3. CASE \/ WsStep \/ (\E k \in Settlers : SettlerStep(k)) \/ (\E u \in Uids : RebooterStep(u))
           \/ HubStep \/ Reconnected \/ (\E s \in Serials : PodStep(s)) \/ UNCHANGED vars
  <2>1. UNCHANGED <<cp, reported>>
    BY <1>3, OthersLeaveLedger, RebooterMoves
  <2>2. PodMove
    BY <1>1, <1>3, OthersPods
  <2> QED
    BY <1>2, <2>1, <2>2 DEF Listed, PodMove
<1>4. CASE CpStep
  <2>1. PodsKept \/ \E s \in Serials : Created(s) \/ Deleted(s) \/ Finish(s) \/ PodGone(s)
    <3>1. Delete \/ Purge => cp.cur.serial \in Serials
      BY CpTypes DEF Delete, Purge, Target
    <3> QED
      BY <1>1, <1>4, <3>1, CpPods
  <2>2. CASE CheckPods
    <3>1. PodsKept /\ UNCHANGED reported
      BY <1>1, <2>2, Calls DEF CheckPods, ledgerVars
    <3>2. CASE cp' = cp
      BY <1>2, <3>1, <3>2 DEF Listed
    <3>3. CASE cp' = [CpIdle EXCEPT !.pc = "scan",
                                    !.todo = {[serial |-> s, uid |-> pod[s].uid] : s \in Completed}]
      <4>1. Listed' = {[serial |-> s, uid |-> pod[s].uid] : s \in Completed}
        BY <3>3 DEF Listed, CpIdle
      <4>2. ASSUME NEW s \in Completed
            PROVE  s \in Serials /\ Exists(s)
        BY DEF Completed, Exists, NoPod
      <4>3. ListNumbered'
        BY <1>1, <3>1, <4>1, <4>2 DEF ListNumbered, PodsNumbered, PodsKept
      <4> QED
        BY <1>1, <3>1, <4>3 DEF Numbered, PodsNumbered, PodsKept, Exists
    <3> QED
      BY <2>2, <3>2, <3>3 DEF CheckPods
  <2>3. ASSUME NEW p \in cp.todo, Claim(p)
        PROVE  Numbered'
    <3>1. cp'.cur = p /\ cp'.todo = cp.todo \ {p}
      BY <2>3, CpTypes DEF Claim, CpType
    <3>2. Listed' \subseteq Listed /\ p \in Listed
      BY <3>1 DEF Listed
    <3>3. reported' = reported \cup {p.uid}
      BY <2>3 DEF Claim
    <3> QED
      BY <1>2, <2>1, <3>2, <3>3
  <2>4. CASE Collect \/ Delete \/ SaveTestResult
    <3>1. cp'.cur = cp.cur /\ cp'.todo = cp.todo /\ cp.pc \notin {"idle", "scan"} /\ UNCHANGED reported
      BY <2>4, CpTypes DEF Collect, Delete, SaveTestResult, CpType, ledgerVars
    <3>2. Listed' \subseteq Listed
      BY <3>1 DEF Listed
    <3> QED
      BY <1>2, <2>1, <3>1, <3>2
  <2>5. CASE MarkRebooting \/ Purge
    <3>1. cp' = NextPod /\ UNCHANGED reported
      BY <2>5 DEF MarkRebooting, Purge, ledgerVars
    <3>2. Listed' \subseteq Listed
      BY <3>1 DEF Listed, NextPod, CpIdle
    <3> QED
      BY <1>2, <2>1, <3>1, <3>2
  <2> QED
    BY <1>4, <2>2, <2>3, <2>4, <2>5 DEF CpStep
<1>5. CASE Restart
  <2>1. PodsKept /\ Listed' = {} /\ reported' = {}
    BY <1>5 DEF Restart, podVars, PodsKept, Listed, CpIdle
  <2> QED
    BY <1>2, <2>1
<1> QED
  BY <1>3, <1>4, <1>5 DEF Next

LEMMA InitNumbered == Init => Numbered
<1> SUFFICES ASSUME Init PROVE Numbered
  OBVIOUS
<1>1. nextUid = 1 /\ \A s \in Serials : pod[s] = NoPod
  BY DEF Init, PodInit
<1>2. Listed = {} /\ reported = {}
  BY DEF Init, Listed, CpIdle
<1> QED
  BY <1>1, <1>2 DEF Numbered, PodsNumbered, ListNumbered, NoPod, Exists

----------------------------------------------------------------------------
(* The list of CheckPods is as good as new while pods go at once and the   *)
(* hub forgets no device: nobody else deletes a pod.                       *)

AnyPodMove == PodsKept \/ \E s \in Serials : Created(s) \/ Deleted(s) \/ Finish(s) \/ PodGone(s)

LEMMA NextPods ==
  ASSUME Typed, [Next]_vars
  PROVE  AnyPodMove /\ Spent
<1>1. faults \in Nat
  BY PodTypes
<1>2. CASE CpStep
  <2>1. Delete \/ Purge => cp.cur.serial \in Serials
    BY CpTypes DEF Delete, Purge, Target
  <2> QED
    BY <1>1, <1>2, <2>1, CpPods DEF AnyPodMove
<1>3. CASE Restart
  BY <1>1, <1>3, Calls DEF Restart, AnyPodMove
<1>4. CASE ~CpStep /\ ~Restart
  <2>1. PodMove /\ Spent
    BY <1>1, <1>4, OthersPods DEF Next
  <2> QED
    BY <2>1 DEF PodMove, AnyPodMove
<1> QED
  BY <1>2, <1>3, <1>4

NoneDying == \A s \in Serials : ~pod[s].dying

LEMMA NextKeepsAlive == ~Graceful /\ Typed /\ NoneDying /\ [Next]_vars => NoneDying'
<1> SUFFICES ASSUME ~Graceful, Typed, NoneDying, [Next]_vars PROVE NoneDying'
  OBVIOUS
<1>1. CASE PodsKept
  BY <1>1 DEF PodsKept, NoneDying
<1>2. ASSUME NEW s \in Serials, Created(s) \/ Deleted(s) \/ Finish(s) \/ PodGone(s)
      PROVE  NoneDying'
  <2>1. ~NoPod.dying
    BY DEF NoPod
  <2> QED
    BY <1>2, <2>1, PodChanges DEF NoneDying
<1> QED
  BY <1>1, <1>2, NextPods DEF AnyPodMove

Farewells == {"DEVICE DELETE"}

NoneForgotten ==
  /\ \A s \in Serials : NoneOf(inbox, Farewells, s)
  /\ ws.pc \notin {"deletedList", "deletedDelete"}

LEMMA NextForgetsNone == ~Forgets /\ Typed /\ NoneForgotten /\ [Next]_vars => NoneForgotten'
<1> SUFFICES ASSUME ~Forgets, Typed, NoneForgotten, [Next]_vars PROVE NoneForgotten'
  OBVIOUS
<1>1. inbox \in Seq(Message)
  BY DEF Typed, FeedTypeOK
<1>2. ASSUME NEW s \in Serials PROVE NoneOf(inbox', Farewells, s)
  <2>1. CASE UNCHANGED inbox
    BY <2>1 DEF NoneForgotten, NoneOf
  <2>2. CASE Environment
    <3>1. PICK t \in Serials : \/ ComeOnline(t) \/ GoOffline(t) \/ Forget(t)
                               \/ \E l \in Levels : Battery(t, l)
      BY <2>2 DEF Environment
    <3>2. \A e \in Events, l \in InfoLevels : /\ Msg(e, t, l) \in Message /\ Msg(e, t, l).event = e
      BY <3>1 DEF Msg, Message
    <3>3. /\ {"INFO ADD", "INFO DELETE", "DEVICE DELETE", "BATTERY UPDATE"} = Events
          /\ Unknown \in InfoLevels /\ Levels \subseteq InfoLevels
      BY DEF Events, InfoLevels
    <3>4. \E e \in Events \ Farewells, l \in InfoLevels : Send(Msg(e, t, l))
      <4>1. ComeOnline(t) => \E l \in InfoLevels : Send(Msg("INFO ADD", t, l))
        BY DEF ComeOnline
      <4>2. GoOffline(t) => Send(Msg("INFO DELETE", t, Unknown))
        BY DEF GoOffline
      <4>3. \A l \in Levels : Battery(t, l) => Send(Msg("BATTERY UPDATE", t, l))
        BY DEF Battery
      <4>4. ~Forget(t)
        BY DEF Forget
      <4>5. {"INFO ADD", "INFO DELETE", "BATTERY UPDATE"} \subseteq Events \ Farewells
        BY <3>3 DEF Farewells
      <4> QED
        BY <3>1, <3>3, <4>1, <4>2, <4>3, <4>4, <4>5
    <3>5. PICK m \in Message : inbox' = Append(inbox, m) /\ m.event \notin Farewells
      BY <3>2, <3>4 DEF Send
    <3> QED
      BY <1>1, <3>5, Sending DEF NoneForgotten, Of
  <2>3. CASE Dispatch
    <3>1. UNCHANGED inbox \/ (inbox # <<>> /\ inbox' = Tail(inbox))
      BY <2>3 DEF Dispatch, Receive
    <3> QED
      BY <1>1, <2>1, <3>1, Receiving DEF NoneForgotten
  <2>4. CASE Connected
    BY <2>4 DEF Connected, NoneOf
  <2> QED
    BY <2>1, <2>2, <2>3, <2>4, NextFeed DEF Untouched, Reconnect
<1>3. ws'.pc \notin {"deletedList", "deletedDelete"}
  <2>1. CASE WsStep
    <3>1. PICK s \in Serials :
            \/ \E l \in InfoLevels : \/ OnDeviceReady(s, l) \/ OnDeviceOffline(s, l)
                                     \/ OnDeviceDeleted(s, l) \/ OnBatteryUpdated(s, l)
            \/ ReadyList(s) \/ ReadyGate(s) \/ ReadyStabilize(s) \/ ReadyCreate(s)
            \/ DeletedList(s) \/ DeletedDelete(s) \/ BatteryList(s) \/ BatteryCreate(s)
      BY <2>1 DEF WsStep
    <3>2. \A l \in InfoLevels : ~OnDeviceDeleted(s, l)
      <4>1. \A l : Of(Msg("DEVICE DELETE", s, l), Farewells, s) /\ Msg("DEVICE DELETE", s, l).event # "INFO ADD"
        BY DEF Of, Msg, Farewells
      <4>2. inbox # <<>> => ~Of(Head(inbox), Farewells, s)
        <5>1. inbox # <<>> => 1 \in 1..Len(inbox) /\ Head(inbox) = inbox[1]
          BY <1>1, EmptySeq
        <5> QED
          BY <5>1 DEF NoneForgotten, NoneOf
      <4> QED
        BY <4>1, <4>2 DEF OnDeviceDeleted, Handle, Receive
    <3>3. ~DeletedList(s) /\ ~DeletedDelete(s)
      BY DEF NoneForgotten, DeletedList, DeletedDelete, WsAt
    <3>4. \/ UNCHANGED ws \/ WsDone
          \/ \E pc \in {"readyList", "readyGate", "readyStabilize", "readyCreate",
                        "batteryList", "batteryCreate"} : WsGoto(pc, s)
      <4>1. \A l : OnDeviceReady(s, l) => WsGoto("readyList", s) \/ UNCHANGED ws
        BY DEF OnDeviceReady
      <4>2. \A l : OnDeviceOffline(s, l) => UNCHANGED ws
        BY DEF OnDeviceOffline
      <4>3. \A l : OnBatteryUpdated(s, l) => WsGoto("batteryList", s) \/ UNCHANGED ws
        BY DEF OnBatteryUpdated
      <4> QED
        BY <3>1, <3>2, <3>3, <4>1, <4>2, <4>3 DEF ReadyList, ReadyGate, ReadyStabilize,
             ReadyCreate, BatteryList, BatteryCreate
    <3> QED
      BY <3>4 DEF NoneForgotten, WsGoto, WsDone, WsIdle
  <2>2. CASE UNCHANGED ws
    BY <2>2 DEF NoneForgotten
  <2>3. CASE Restart
    BY <2>3 DEF Restart, WsIdle
  <2>4. ~WsStep /\ ~Restart => UNCHANGED ws
    BY DEF Next, CpStep, CheckPods, Claim, Collect, Delete, SaveTestResult, MarkRebooting, Purge,
           SettlerStep, Settle, SettlerUnflag, SettlerList, SettlerGate, SettlerDefer, SettlerCreate,
           RebooterStep, RebootAccepted, RebootRefused, RebootTimesOut, RebootSucceeded,
           RebootFailed, RetryWake, RetryList, RetryCreate, HubStep, Reconnected, PodStep,
           managerVars, vars
  <2> QED
    BY <2>1, <2>2, <2>3, <2>4
<1> QED
  BY <1>2, <1>3 DEF NoneForgotten

ListCurrent ==
  /\ \A p \in cp.todo : pod[p.serial].uid = p.uid
  /\ cp.pc \in {"collect", "delete", "purge"} =>
       pod[cp.cur.serial].uid = cp.cur.uid /\ cp.cur \notin cp.todo

Followed == NoneDying /\ NoneForgotten /\ ListCurrent

\* While CheckPods does nothing no pod goes.
LEMMA OthersKeepPods ==
  ASSUME Typed, NoneDying, NoneForgotten, [Next]_vars, ~CpStep, NEW s \in Serials, Exists(s)
  PROVE  pod'[s].uid = pod[s].uid
<1>1. CASE Restart
  BY <1>1 DEF Restart, podVars
<1>2. CASE ~Restart
  <2>1. PodMove
    BY <1>2, PodTypes, OthersPods DEF Next
  <2>2. CASE PodsKept
    BY <2>2 DEF PodsKept
  <2>3. ASSUME NEW t \in Serials, Created(t) \/ Finish(t)
        PROVE  pod'[s].uid = pod[s].uid
    BY <2>3, PodChanges
  <2>4. \A t \in Serials : ~PodGone(t) /\ ~WsAt("deletedDelete", t)
    BY DEF PodGone, NoneDying, WsAt, NoneForgotten
  <2> QED
    BY <2>1, <2>2, <2>3, <2>4 DEF PodMove
<1> QED
  BY <1>1, <1>2

LEMMA NextPodRests ==
  /\ NextPod.pc \in {"idle", "scan"}
  /\ NextPod.todo \subseteq cp.todo
  /\ NextPod.logs = 0
<1>1. CASE cp.todo = {}
  BY <1>1 DEF NextPod, CpIdle
<1>2. CASE cp.todo # {}
  <2>1. NextPod = [pc |-> "scan", todo |-> cp.todo, cur |-> NoTarget, logs |-> 0, run |-> 0]
    BY <1>2 DEF NextPod, CpIdle
  <2> QED
    BY <2>1
<1> QED
  BY <1>1, <1>2

LEMMA NextFollows ==
  ~Graceful /\ ~Forgets /\ Typed /\ Numbered /\ Followed /\ [Next]_vars => Followed'
<1> SUFFICES ASSUME ~Graceful, ~Forgets, Typed, Numbered, Followed, [Next]_vars
             PROVE  ListCurrent'
  BY NextKeepsAlive, NextForgetsNone DEF Followed
<1>1. NoneDying /\ NoneForgotten /\ ListCurrent
  BY DEF Followed
<1>2. \A p \in Listed : p \in Target /\ p.serial \in Serials /\ p.uid \in Uids /\ p.uid # 0
  BY PodTypes
<1>3. CASE ~CpStep /\ ~Restart
  <2>1. UNCHANGED cp
    BY <1>3, OthersLeaveLedger, RebooterMoves DEF Next
  <2>2. ASSUME NEW p \in Listed, pod[p.serial].uid = p.uid
        PROVE  pod'[p.serial].uid = p.uid
    BY <1>1, <1>2, <1>3, <2>2, OthersKeepPods, PodTypes
  <2> QED
    BY <1>1, <2>1, <2>2 DEF ListCurrent, Listed
<1>4. CASE Restart
  BY <1>4 DEF Restart, CpIdle, ListCurrent
<1>5. CASE CheckPods
  <2>1. PodsKept
    BY <1>5, PodTypes, Calls DEF CheckPods
  <2>2. CASE cp' = cp
    BY <1>1, <2>1, <2>2 DEF ListCurrent, PodsKept
  <2>3. CASE cp' = [CpIdle EXCEPT !.pc = "scan",
                                  !.todo = {[serial |-> s, uid |-> pod[s].uid] : s \in Completed}]
    <3>1. cp'.pc = "scan" /\ cp'.todo = {[serial |-> s, uid |-> pod[s].uid] : s \in Completed}
      BY <2>3 DEF CpIdle
    <3> QED
      BY <2>1, <3>1 DEF ListCurrent, PodsKept
  <2> QED
    BY <1>5, <2>2, <2>3 DEF CheckPods
<1>6. ASSUME NEW p \in cp.todo, Claim(p)
      PROVE  ListCurrent'
  <2>1. cp'.cur = p /\ cp'.todo = cp.todo \ {p} /\ UNCHANGED pod
    BY <1>6, CpTypes DEF Claim, CpType, podVars
  <2> QED
    BY <1>1, <2>1 DEF ListCurrent
<1>7. CASE Collect
  <2>1. PodsKept
    BY <1>7, PodTypes, Calls DEF Collect
  <2>2. cp'.cur = cp.cur /\ cp'.todo = cp.todo /\ cp.pc = "collect"
    BY <1>7, CpTypes DEF Collect, CpType
  <2> QED
    BY <1>1, <2>1, <2>2 DEF ListCurrent, PodsKept
<1>8. CASE Delete \/ Purge
  <2>1. cp'.todo \subseteq cp.todo /\ cp'.pc \in {"save", "idle", "scan"}
    BY <1>8, CpTypes, NextPodRests DEF Delete, Purge, CpType
  <2>2. cp.pc \in {"delete", "purge"} /\ cp.cur \in Target /\ cp.cur.serial \in Serials
    BY <1>8, CpTypes DEF Delete, Purge, Target
  <2>3. ASSUME NEW p \in cp.todo
        PROVE  p.serial # cp.cur.serial /\ p.serial \in Serials
    <3>1. p \in Target /\ p.serial \in Serials /\ p # cp.cur
      BY <1>1, <1>2, <2>2 DEF ListCurrent, Listed
    <3>2. p.serial = cp.cur.serial => p.uid = cp.cur.uid
      BY <1>1, <2>2 DEF ListCurrent
    <3> QED
      BY <2>2, <3>1, <3>2 DEF Target
  <2>4. \A p \in cp.todo : pod'[p.serial] = pod[p.serial]
    <3>1. PodsKept \/ Deleted(cp.cur.serial)
      BY <1>8, PodTypes, CpPods DEF CpStep
    <3>2. CASE PodsKept
      BY <3>2 DEF PodsKept
    <3>3. CASE Deleted(cp.cur.serial)
      BY <2>2, <2>3, <3>3, PodChanges
    <3> QED
      BY <3>1, <3>2, <3>3
  <2> QED
    BY <1>1, <2>1, <2>4 DEF ListCurrent
<1>9. CASE SaveTestResult \/ MarkRebooting
  <2>1. cp'.todo \subseteq cp.todo /\ cp'.pc \in {"mark", "idle", "scan"} /\ UNCHANGED pod
    <3>1. SaveTestResult => cp'.todo = cp.todo /\ cp'.pc = "mark" /\ UNCHANGED pod
      BY CpTypes DEF SaveTestResult, CpType, podVars
    <3>2. MarkRebooting => cp' = NextPod /\ UNCHANGED pod
      BY DEF MarkRebooting, podVars
    <3> QED
      BY <1>9, <3>1, <3>2, NextPodRests
  <2> QED
    BY <1>1, <2>1 DEF ListCurrent
<1> QED
  BY <1>3, <1>4, <1>5, <1>6, <1>7, <1>8, <1>9 DEF CpStep

LEMMA InitFollowed == Init => Followed
<1> SUFFICES ASSUME Init PROVE Followed
  OBVIOUS
<1>1. /\ \A s \in Serials : pod[s] = NoPod
      /\ inbox = <<>> /\ ws = WsIdle /\ cp = CpIdle
  BY DEF Init, PodInit, FeedInit
<1>2. ListCurrent
  BY <1>1 DEF ListCurrent, CpIdle
<1>3. NoneDying /\ NoneForgotten
  BY <1>1 DEF NoneDying, NoPod, NoneForgotten, NoneOf, WsIdle
<1> QED
  BY <1>2, <1>3 DEF Followed

LEMMA AlwaysFollowed ==
  ASSUME ~Graceful, ~Forgets
  PROVE  Spec => [](Typed /\ LedgerInv /\ Numbered /\ Followed)
BY InitTyped, InitLedger, InitNumbered, InitFollowed, NextKeepsTypes, NextKeepsLedger,
   NextKeepsNumbered, NextFollows, PTL DEF Spec

----------------------------------------------------------------------------
(* Rows: one is appended, or none; those that are there keep what they say *)
(* of their pod.                                                           *)

LEMMA SameRows ==
  ASSUME Typed, [Next]_vars, ~SaveTestResult
  PROVE  /\ Len(runs') = Len(runs) /\ DOMAIN runs' = DOMAIN runs
         /\ \A i \in DOMAIN runs : runs'[i].uid = runs[i].uid /\ runs'[i].logs = runs[i].logs
<1>1. runs \in Seq(Row) /\ DOMAIN runs = 1..Len(runs) /\ \A i \in DOMAIN runs : runs[i] \in Row
  BY CpTypes
<1>2. CASE UNCHANGED runs
  BY <1>2
<1>3. ASSUME NEW u \in Uids, NEW v \in {"ok", "failed"}, UpdateBootResult(rebooters[u].run, v)
      PROVE  /\ Len(runs') = Len(runs) /\ DOMAIN runs' = DOMAIN runs
             /\ \A i \in DOMAIN runs : runs'[i].uid = runs[i].uid /\ runs'[i].logs = runs[i].logs
  <2>1. rebooters[u].run \in Nat /\ rebooters[u].run <= Len(runs)
    BY CpTypes DEF Typed, ManagerType, WorkersKnowTheirJob
  <2>2. /\ runs' \in Seq(Row) /\ Len(runs') = Len(runs)
        /\ \A i \in 1..Len(runs) : runs'[i] = IF i = rebooters[u].run
                                              THEN [runs[i] EXCEPT !.boot = v] ELSE runs[i]
    BY <1>1, <1>3, <2>1, UpdateBootType
  <2>3. DOMAIN runs' = 1..Len(runs)
    BY <2>2
  <2>4. ASSUME NEW i \in DOMAIN runs
        PROVE  runs'[i].uid = runs[i].uid /\ runs'[i].logs = runs[i].logs
    <3> DEFINE given == [runs[i] EXCEPT !.boot = v]
    <3>1. given.uid = runs[i].uid /\ given.logs = runs[i].logs
      BY <1>1 DEF Row
    <3>2. runs'[i] = given \/ runs'[i] = runs[i]
      BY <1>1, <2>2
    <3> HIDE DEF given
    <3> QED
      BY <3>1, <3>2
  <2> QED
    BY <1>1, <2>2, <2>3, <2>4
<1>4. CASE \E u \in Uids : RebooterStep(u)
  BY <1>2, <1>3, <1>4, RebooterMoves
<1>5. CASE CpStep
  BY <1>2, <1>5 DEF CpStep, CheckPods, Claim, Collect, Delete, MarkRebooting, Purge, ledgerVars
<1>6. CASE Restart
  BY <1>2, <1>6 DEF Restart
<1>7. CASE \/ WsStep \/ (\E k \in Settlers : SettlerStep(k)) \/ HubStep \/ Reconnected
           \/ (\E s \in Serials : PodStep(s)) \/ UNCHANGED vars
  BY <1>2, <1>7, OthersLeaveLedger
<1> QED
  BY <1>4, <1>5, <1>6, <1>7 DEF Next

LEMMA SavedRow ==
  ASSUME Typed, SaveTestResult
  PROVE  /\ DOMAIN runs \subseteq DOMAIN runs'
         /\ \A i \in DOMAIN runs : runs'[i] = runs[i]
         /\ \A i \in DOMAIN runs' \ DOMAIN runs :
              runs'[i].uid = cp.cur.uid /\ runs'[i].logs = cp.logs
         /\ ~InsertMayFail => \E i \in DOMAIN runs' : runs'[i].uid = cp.cur.uid
<1> DEFINE row == [serial |-> cp.cur.serial, uid |-> cp.cur.uid,
                   logs |-> cp.logs, epoch |-> epoch, boot |-> "none"]
           n == Len(runs) + 1
<1>1. row \in Row
  BY CpTypes DEF SaveTestResult, Row, Target, CpType, Typed, ManagerType, Uids
<1>2. row.uid = cp.cur.uid /\ row.logs = cp.logs
  OBVIOUS
<1> HIDE DEF row
<1>3. (InsertMayFail /\ runs' = runs) \/ runs' = Append(runs, row)
  BY DEF SaveTestResult, row
<1>4. CASE runs' = Append(runs, row)
  <2>1. /\ runs' \in Seq(Row) /\ Len(runs') = n /\ runs'[n] = row
        /\ \A i \in 1..Len(runs) : runs'[i] = runs[i]
    BY <1>1, <1>4, CpTypes, AppendProperties
  <2>2. DOMAIN runs = 1..Len(runs) /\ DOMAIN runs' = 1..n /\ Len(runs) \in Nat
    BY <2>1, CpTypes
  <2> QED
    BY <1>2, <2>1, <2>2
<1> QED
  BY <1>3, <1>4

----------------------------------------------------------------------------
(* Logs.                                                                   *)

CpLogs == cp.logs = 0 \/ (cp.pc \in {"delete", "save", "mark"} /\ cp.logs = cp.cur.uid)

LEMMA NextKeepsCpLogs == Typed /\ Followed /\ CpLogs /\ [Next]_vars => CpLogs'
<1> SUFFICES ASSUME Typed, Followed, CpLogs, [Next]_vars PROVE CpLogs'
  OBVIOUS
<1>1. CASE UNCHANGED cp
  BY <1>1 DEF CpLogs
<1>2. CASE CheckPods
  BY <1>1, <1>2 DEF CheckPods, CpIdle, CpLogs
<1>3. ASSUME NEW p \in cp.todo, Claim(p)
      PROVE  CpLogs'
  BY <1>3, CpTypes DEF Claim, CpLogs, CpType
<1>4. CASE Collect
  <2>1. cp'.pc = "delete" /\ cp'.cur = cp.cur
        /\ (cp'.logs = pod[cp.cur.serial].uid \/ cp'.logs = cp.logs)
    BY <1>4, CpTypes DEF Collect, CpType
  <2>2. pod[cp.cur.serial].uid = cp.cur.uid /\ cp.logs = 0
    BY <1>4 DEF Collect, Followed, ListCurrent, CpLogs
  <2> QED
    BY <2>1, <2>2 DEF CpLogs
<1>5. CASE Delete \/ SaveTestResult
  <2>1. cp'.pc \in {"save", "mark"} /\ cp'.cur = cp.cur /\ cp'.logs = cp.logs
    BY <1>5, CpTypes DEF Delete, SaveTestResult, CpType
  <2> QED
    BY <2>1 DEF CpLogs
<1>6. CASE MarkRebooting \/ Purge
  BY <1>6, NextPodRests DEF MarkRebooting, Purge, CpLogs
<1>7. CASE Restart
  BY <1>7 DEF Restart, CpIdle, CpLogs
<1>8. CASE ~CpStep /\ ~Restart
  BY <1>1, <1>8, OthersLeaveLedger, RebooterMoves DEF Next
<1> QED
  BY <1>2, <1>3, <1>4, <1>5, <1>6, <1>7, <1>8 DEF CpStep

LEMMA StepKeepsLogs ==
  ASSUME Typed, CpLogs, LogsMatchPod, [Next]_vars
  PROVE  LogsMatchPod'
<1>1. CASE SaveTestResult
  <2>1. cp.logs \in {0, cp.cur.uid}
    BY DEF CpLogs
  <2> QED
    BY <1>1, <2>1, SavedRow DEF LogsMatchPod
<1>2. CASE ~SaveTestResult
  BY <1>2, SameRows DEF LogsMatchPod
<1> QED
  BY <1>1, <1>2

\* The logs are asked for by the name of the pod, yet a row never holds those of
\* another pod as long as no terminating pod is listed and nobody but CheckPods
\* deletes pods: then the pod that has the name is still the one that was listed
\* (manager.go 471-535).
THEOREM LogsNeedReuse ==
  ASSUME ~Graceful, ~Forgets
  PROVE  Spec => []LogsMatchPod
<1>1. Init => CpLogs /\ LogsMatchPod
  BY DEF Init, CpIdle, CpLogs, LogsMatchPod
<1> QED
  BY AlwaysFollowed, NextKeepsCpLogs, StepKeepsLogs, <1>1, PTL DEF Spec

----------------------------------------------------------------------------
(* Results.  A pod whose result is claimed stays until CheckPods deletes   *)
(* it, and then its row is written next, or it has a row already.          *)

Kept ==
  /\ \A u \in reported, s \in Serials :
       pod[s].uid = u => HasRow(u) \/ (cp.cur.uid = u /\ cp.pc \in {"collect", "delete", "save"})
  /\ cp.pc = "purge" => HasRow(cp.cur.uid)

LEMMA RowsStay ==
  ASSUME Typed, [Next]_vars, NEW u, HasRow(u)
  PROVE  HasRow(u)'
BY SavedRow, SameRows DEF HasRow

LEMMA NextKeepsResults ==
  ~InsertMayFail /\ Typed /\ Numbered /\ Followed /\ Kept /\ [Next]_vars => Kept'
<1> SUFFICES ASSUME ~InsertMayFail, Typed, Numbered, Followed, Kept, [Next]_vars PROVE Kept'
  OBVIOUS
<1>1. \A u : HasRow(u) => HasRow(u)'
  BY RowsStay
<1>2. ASSUME NEW u \in reported, NEW s \in Serials, pod'[s].uid = u
      PROVE  pod[s].uid = u
  <2>1. u \in Uids /\ u < nextUid
    BY PodTypes DEF Numbered
  <2> QED
    BY <1>2, <2>1, NextPods, UidsNeverReused DEF AnyPodMove, Numbered
<1>3. CASE ~CpStep /\ ~Restart
  <2>1. UNCHANGED <<cp, reported>>
    BY <1>3, OthersLeaveLedger, RebooterMoves DEF Next
  <2> QED
    BY <1>1, <1>2, <2>1 DEF Kept
<1>4. CASE Restart
  BY <1>4 DEF Restart, CpIdle, Kept
\* Between two pods nothing is owed.
<1>5. ASSUME cp.pc \in {"idle", "scan", "mark", "purge"}, cp'.pc \in {"idle", "scan"},
             UNCHANGED reported
      PROVE  Kept'
  BY <1>1, <1>2, <1>5 DEF Kept
<1>6. CASE CheckPods
  <2>1. UNCHANGED reported /\ cp.pc = "idle"
    BY <1>6 DEF CheckPods, ledgerVars
  <2>2. cp'.pc \in {"idle", "scan"}
    BY <1>6 DEF CheckPods, CpIdle
  <2> QED
    BY <1>5, <2>1, <2>2
<1>7. ASSUME NEW p \in cp.todo, Claim(p)
      PROVE  Kept'
  <2>1. cp.pc = "scan" /\ reported' = reported \cup {p.uid} /\ cp'.cur = p /\ UNCHANGED <<pod, runs>>
    BY <1>7, CpTypes DEF Claim, CpType, podVars
  <2>2. \A u \in reported, s \in Serials : pod[s].uid = u => HasRow(u)
    BY <2>1 DEF Kept
  <2>3. pod[p.serial].uid = p.uid /\ p.serial \in Serials
    BY PodTypes DEF Followed, ListCurrent, Listed
  <2>4. \/ cp'.pc = "collect"
        \/ cp'.pc = "purge" /\ p.uid \in reported
    BY <1>7, CpTypes DEF Claim, CpType
  <2>5. HasRow(p.uid)' \/ cp'.pc = "collect"
    BY <1>1, <2>2, <2>3, <2>4
  <2> QED
    BY <1>1, <2>1, <2>2, <2>4, <2>5 DEF Kept
<1>8. CASE Collect \/ Delete
  <2>1. /\ UNCHANGED reported /\ cp'.cur = cp.cur
        /\ cp'.pc \in {"delete", "save"} /\ cp.pc \in {"collect", "delete"}
    BY <1>8, CpTypes DEF Collect, Delete, CpType, ledgerVars
  <2> QED
    BY <1>1, <1>2, <2>1 DEF Kept
<1>9. CASE SaveTestResult
  <2>1. UNCHANGED reported /\ cp.pc = "save" /\ cp'.pc = "mark" /\ cp'.cur = cp.cur
    BY <1>9, CpTypes DEF SaveTestResult, CpType
  <2>2. HasRow(cp.cur.uid)'
    BY <1>9, <2>1, SavedRow DEF HasRow
  <2> QED
    BY <1>1, <1>2, <2>1, <2>2 DEF Kept
<1>10. CASE MarkRebooting \/ Purge
  <2>1. cp' = NextPod /\ cp.pc \in {"mark", "purge"} /\ UNCHANGED reported
    BY <1>10 DEF MarkRebooting, Purge, ledgerVars
  <2> QED
    BY <1>5, <2>1, NextPodRests
<1> QED
  BY <1>3, <1>4, <1>6, <1>7, <1>8, <1>9, <1>10 DEF CpStep

\* Only a crash costs a result, and which one.
LEMMA StepLoses ==
  ASSUME ~InsertMayFail, Typed, Numbered, Followed, Kept, [Next]_vars, NEW u \in Lost'
  PROVE  u \in Lost \/ (Restart /\ u = cp.cur.uid)
<1>1. /\ u \in 1..(nextUid' - 1)
      /\ \A s \in Serials : pod'[s].uid # u
      /\ ~(cp'.pc = "save" /\ cp'.cur.uid = u)
      /\ ~HasRow(u)'
  BY DEF Lost
<1>2. ~HasRow(u)
  BY <1>1, RowsStay
<1>3. u \in 1..(nextUid - 1) /\ u # 0
  <2>1. CASE nextUid' = nextUid
    BY <1>1, <2>1
  <2>2. CASE \E s \in Serials : Created(s)
    <3>1. nextUid' = nextUid + 1 /\ u # nextUid
      BY <1>1, <2>2, PodChanges
    <3> QED
      BY <1>1, <3>1, PodTypes
  <2> QED
    BY <2>1, <2>2, NextPods, PodChanges DEF AnyPodMove, PodsKept
<1>4. ASSUME NEW s \in Serials, pod[s].uid = u
      PROVE  FALSE
  <2>1. Exists(s)
    BY <1>3, <1>4, PodTypes
  <2>2. CASE ~CpStep
    BY <1>1, <1>4, <2>1, <2>2, OthersKeepPods DEF Followed
  <2>3. CASE CpStep
    <3>1. (Delete \/ Purge) /\ Deleted(cp.cur.serial)
      BY <1>1, <1>4, <2>3, PodTypes, CpPods DEF PodsKept
    <3>2. cp.cur \in Target /\ cp.cur.serial \in Serials /\ pod[cp.cur.serial].uid = cp.cur.uid
      BY <3>1, CpTypes DEF Delete, Purge, Target, Followed, ListCurrent
    <3>3. s = cp.cur.serial
      BY <1>1, <1>4, <3>1, <3>2, PodChanges
    <3>4. cp.cur.uid = u
      BY <1>4, <3>2, <3>3
    <3>5. CASE Delete
      <4>1. cp'.pc = "save" /\ cp'.cur = cp.cur
        BY <3>5, CpTypes DEF Delete, CpType
      <4> QED
        BY <1>1, <3>4, <4>1
    <3>6. CASE Purge
      BY <1>2, <3>4, <3>6 DEF Purge, Kept
    <3> QED
      BY <3>1, <3>5, <3>6
  <2> QED
    BY <2>2, <2>3
<1>5. ASSUME cp.pc = "save", cp.cur.uid = u
      PROVE  Restart
  <2>1. CASE CpStep
    <3>1. SaveTestResult
      BY <1>5, <2>1 DEF CpStep, CheckPods, Claim, Collect, Delete, MarkRebooting, Purge
    <3>2. HasRow(u)'
      BY <1>5, <3>1, SavedRow DEF HasRow
    <3> QED
      BY <1>1, <3>2
  <2>2. CASE ~CpStep /\ ~Restart
    <3>1. UNCHANGED cp
      BY <2>2, OthersLeaveLedger, RebooterMoves DEF Next
    <3> QED
      BY <1>1, <1>5, <3>1
  <2> QED
    BY <2>1, <2>2
<1> QED
  BY <1>2, <1>3, <1>4, <1>5 DEF Lost

LEMMA LostIsFinite ==
  ASSUME Typed
  PROVE  IsFiniteSet(Lost) /\ Cardinality(Lost) \in Nat
<1>1. IsFiniteSet(1..(nextUid - 1))
  BY PodTypes, FS_Interval
<1>2. Lost \subseteq 1..(nextUid - 1)
  BY DEF Lost
<1> QED
  BY <1>1, <1>2, FS_Subset, FS_CardinalityType

LEMMA StepCosts ==
  ASSUME ~InsertMayFail, Typed, Numbered, Followed, Kept, CrashLosesOneResult, [Next]_vars
  PROVE  CrashLosesOneResult'
<1>1. IsFiniteSet(Lost) /\ Cardinality(Lost) \in Nat /\ Cardinality(Lost) <= epoch - 1 /\ epoch \in Nat
  BY LostIsFinite, CpTypes DEF CrashLosesOneResult
<1>2. CASE Restart
  <2>1. Lost' \subseteq Lost \cup {cp.cur.uid}
    BY StepLoses
  <2>2. /\ IsFiniteSet(Lost \cup {cp.cur.uid})
        /\ Cardinality(Lost \cup {cp.cur.uid}) \in Nat
        /\ Cardinality(Lost \cup {cp.cur.uid}) <= Cardinality(Lost) + 1
    <3>1. /\ IsFiniteSet(Lost \cup {cp.cur.uid})
          /\ Cardinality(Lost \cup {cp.cur.uid}) =
               IF cp.cur.uid \in Lost THEN Cardinality(Lost) ELSE Cardinality(Lost) + 1
      BY <1>1, FS_AddElement
    <3> QED
      BY <1>1, <3>1
  <2>3. Cardinality(Lost') \in Nat /\ Cardinality(Lost') <= Cardinality(Lost \cup {cp.cur.uid})
    BY <2>1, <2>2, FS_Subset, FS_CardinalityType
  <2>4. epoch' = epoch + 1
    BY <1>2 DEF Restart
  <2> QED
    BY <1>1, <2>2, <2>3, <2>4 DEF CrashLosesOneResult
<1>3. CASE ~Restart
  <2>1. Lost' \subseteq Lost
    BY <1>3, StepLoses
  <2>2. Cardinality(Lost') \in Nat /\ Cardinality(Lost') <= Cardinality(Lost)
    BY <1>1, <2>1, FS_Subset, FS_CardinalityType
  <2>3. epoch' = epoch
    <3>1. CASE CpStep
      <4>1. CheckPods =>
              UNCHANGED <<feedVars, flagVars, infoVars, ledgerVars, ws, settlers, rebooters, epoch>>
        BY DEF CheckPods
      <4>2. \A p : Claim(p) => UNCHANGED epoch
        BY DEF Claim
      <4>3. Collect \/ Delete \/ SaveTestResult \/ MarkRebooting \/ Purge => UNCHANGED epoch
        BY DEF Collect, Delete, SaveTestResult, MarkRebooting, Purge
      <4> QED
        BY <3>1, <4>1, <4>2, <4>3 DEF CpStep
    <3> QED
      BY <1>3, <3>1, OthersLeaveLedger, RebooterMoves DEF Next
  <2> QED
    BY <1>1, <2>2, <2>3 DEF CrashLosesOneResult
<1> QED
  BY <1>2, <1>3

\* Claiming, deleting and storing are three steps, and a process that is killed
\* between the second and the third loses the result for good.  It loses no other:
\* after n crashes at most n pods are gone without a row, however many CheckPods
\* had listed (manager.go 496-535).
THEOREM CrashCost ==
  ASSUME ~Graceful, ~Forgets, ~InsertMayFail
  PROVE  Spec => []CrashLosesOneResult
<1>1. Init => Kept /\ CrashLosesOneResult
  <2> SUFFICES ASSUME Init PROVE Kept /\ CrashLosesOneResult
    OBVIOUS
  <2>1. Lost = {} /\ epoch = 1
    BY DEF Init, PodInit, Lost
  <2>2. Kept
    BY DEF Init, Kept, CpIdle
  <2> QED
    BY <2>1, <2>2, FS_EmptySet DEF CrashLosesOneResult
<1>2. Typed /\ Numbered /\ Followed /\ Kept /\ [Next]_vars => Kept'
  BY NextKeepsResults
<1> QED
  BY AlwaysFollowed, StepCosts, <1>1, <1>2, PTL DEF Spec

----------------------------------------------------------------------------
(* Reboots.  Only devices with a test image enter the cycle: one that is   *)
(* reported ready while the manager waits for it gets a settler.           *)

Candidates ==
  /\ rebooting \subseteq Testable /\ lowBattery \subseteq Testable
  /\ \A s \in Serials : Exists(s) => s \in Testable
  /\ \A p \in Listed : p.serial \in Testable
  /\ \A k \in Settlers : settlers[k].stage # "free" => settlers[k].serial \in Testable
  /\ \A u \in Uids : rebooters[u].stage # "none" => rebooters[u].serial \in Testable
  /\ ws.pc \notin {"idle", "deletedList", "deletedDelete"} => ws.serial \in Testable

\* Those of a pod are those who ask for it.
LEMMA PodsOfCandidates ==
  ASSUME Typed, Candidates, [Next]_vars, NEW s \in Serials, pod'[s] # NoPod
  PROVE  s \in Testable
<1>1. CASE Exists(s)
  BY <1>1 DEF Candidates
<1>2. CASE ~Exists(s)
  <2>1. ~CpStep /\ ~Restart
    <3>1. CpStep => PodsKept \/ (Deleted(cp.cur.serial) /\ cp.cur.serial \in Serials)
      <4>1. Delete \/ Purge => cp.cur.serial \in Serials
        BY CpTypes DEF Delete, Purge, Target
      <4> QED
        BY <4>1, PodTypes, CpPods
    <3>2. Restart => PodsKept
      BY DEF Restart, podVars, PodsKept
    <3>3. PodsKept \/ (Deleted(cp.cur.serial) /\ cp.cur.serial \in Serials) => pod'[s] = NoPod
      BY <1>2, PodChanges DEF PodsKept, Exists
    <3> QED
      BY <3>1, <3>2, <3>3
  <2>2. PodMove
    BY <2>1, PodTypes, OthersPods DEF Next
  <2>3. \A t \in Serials : Deleted(t) \/ Finish(t) \/ PodGone(t) => pod'[s] = pod[s]
    BY <1>2, PodChanges
  <2>4. Created(s) /\ AsksFor(s)
    <3>1. ~PodsKept
      BY <1>2 DEF PodsKept, Exists
    <3>2. \A t \in Serials \ {s} : ~Created(t)
      BY <1>2, PodChanges DEF Exists
    <3> QED
      BY <1>2, <2>2, <2>3, <3>1, <3>2 DEF PodMove, Exists
  <2> QED
    BY <2>4 DEF AsksFor, Candidates
<1> QED
  BY <1>1, <1>2

LEMMA WsKeepsCandidates ==
  ASSUME Typed, Candidates, WsStep
  PROVE  /\ rebooting' \subseteq Testable /\ lowBattery' \subseteq Testable
         /\ \A k \in Settlers : settlers'[k].stage # "free" => settlers'[k].serial \in Testable
         /\ ws'.pc \notin {"idle", "deletedList", "deletedDelete"} => ws'.serial \in Testable
<1>1. PICK s \in Serials :
        \/ \E l \in InfoLevels : \/ OnDeviceReady(s, l) \/ OnDeviceOffline(s, l)
                                 \/ OnDeviceDeleted(s, l) \/ OnBatteryUpdated(s, l)
        \/ ReadyList(s) \/ ReadyGate(s) \/ ReadyStabilize(s) \/ ReadyCreate(s)
        \/ DeletedList(s) \/ DeletedDelete(s) \/ BatteryList(s) \/ BatteryCreate(s)
  BY DEF WsStep
<1>2. ASSUME NEW l \in InfoLevels, \/ OnDeviceReady(s, l) \/ OnDeviceOffline(s, l)
                                   \/ OnDeviceDeleted(s, l) \/ OnBatteryUpdated(s, l)
      PROVE  /\ UNCHANGED <<rebooting, settlers>> /\ lowBattery' \subseteq lowBattery
             /\ ws'.pc \notin {"idle", "deletedList", "deletedDelete"} => ws'.serial \in Testable
  <2>1. UNCHANGED <<rebooting, settlers>> /\ lowBattery' \subseteq lowBattery
    BY <1>2 DEF OnDeviceReady, OnDeviceOffline, OnDeviceDeleted, OnBatteryUpdated, flagVars
  <2>2. ws = WsIdle
    BY <1>2 DEF OnDeviceReady, OnDeviceOffline, OnDeviceDeleted, OnBatteryUpdated, Handle
  <2>3. \/ UNCHANGED ws
        \/ s \in Testable /\ (WsGoto("readyList", s) \/ WsGoto("batteryList", s))
        \/ WsGoto("deletedList", s)
    BY <1>2 DEF OnDeviceReady, OnDeviceOffline, OnDeviceDeleted, OnBatteryUpdated, Candidates
  <2> QED
    BY <2>1, <2>2, <2>3 DEF WsGoto, WsIdle
<1> USE DEF Candidates, WsAt, WsGoto, WsDone, WsIdle, flagVars
<1>3. CASE ReadyList(s) \/ ReadyCreate(s) \/ DeletedList(s) \/ DeletedDelete(s)
           \/ BatteryList(s) \/ BatteryCreate(s)
  BY <1>3 DEF ReadyList, ReadyCreate, DeletedList, DeletedDelete, BatteryList, BatteryCreate
<1>4. CASE ReadyGate(s)
  BY <1>4 DEF ReadyGate
<1>5. CASE ReadyStabilize(s)
  <2>1. /\ UNCHANGED <<rebooting, lowBattery>> /\ ws' = WsIdle /\ s \in Testable
        /\ \/ UNCHANGED settlers
           \/ \E k \in Settlers : settlers' = [settlers EXCEPT ![k] = [stage |-> "sleep", serial |-> s]]
    BY <1>5 DEF ReadyStabilize
  <2>2. \A k \in Settlers : settlers'[k] = settlers[k] \/ settlers'[k].serial = s
    BY <2>1 DEF Typed, ManagerType
  <2> QED
    BY <2>1, <2>2
<1> QED
  BY <1>1, <1>2, <1>3, <1>4, <1>5

LEMMA CpKeepsCandidates ==
  ASSUME Typed, Candidates, CpStep
  PROVE  /\ rebooting' \subseteq Testable
         /\ \A p \in Listed' : p.serial \in Testable
         /\ \A u \in Uids : rebooters'[u].stage # "none" => rebooters'[u].serial \in Testable
<1> DEFINE Rest == UNCHANGED <<rebooting, rebooters>>
<1>1. CASE CheckPods
  <2>1. Rest
    BY <1>1 DEF CheckPods, flagVars
  <2>2. CASE cp' = cp
    BY <2>1, <2>2 DEF Candidates, Listed
  <2>3. CASE cp' = [CpIdle EXCEPT !.pc = "scan",
                                  !.todo = {[serial |-> s, uid |-> pod[s].uid] : s \in Completed}]
    <3>1. Listed' = {[serial |-> s, uid |-> pod[s].uid] : s \in Completed}
      BY <2>3 DEF Listed, CpIdle
    <3>2. \A s \in Completed : s \in Serials /\ Exists(s)
      BY DEF Completed, Exists, NoPod
    <3> QED
      BY <2>1, <3>1, <3>2 DEF Candidates
  <2> QED
    BY <1>1, <2>2, <2>3 DEF CheckPods
<1>2. ASSUME NEW p \in cp.todo, Claim(p)
      PROVE  Rest /\ Listed' \subseteq Listed
  <2>1. Rest /\ cp'.cur = p /\ cp'.todo = cp.todo \ {p}
    BY <1>2, CpTypes DEF Claim, CpType, flagVars
  <2> QED
    BY <2>1 DEF Listed
<1>3. CASE Collect \/ Delete \/ SaveTestResult
  <2>1. Rest /\ cp'.cur = cp.cur /\ cp'.todo = cp.todo /\ cp.pc \notin {"idle", "scan"}
    BY <1>3, CpTypes DEF Collect, Delete, SaveTestResult, CpType, flagVars
  <2> QED
    BY <2>1 DEF Candidates, Listed
<1>4. CASE MarkRebooting \/ Purge
  <2>1. Listed' \subseteq Listed
    <3>1. cp' = NextPod
      BY <1>4 DEF MarkRebooting, Purge
    <3> QED
      BY <3>1, NextPodRests DEF Listed
  <2>2. CASE Purge
    BY <2>1, <2>2 DEF Purge, Candidates, flagVars
  <2>3. CASE MarkRebooting
    <3>1. cp.cur \in Listed
      BY <2>3 DEF MarkRebooting, Listed
    <3>2. /\ rebooting' = rebooting \cup {cp.cur.serial}
          /\ rebooters' = [rebooters EXCEPT ![cp.cur.uid] =
                             [stage |-> "request", serial |-> cp.cur.serial, run |-> cp.run]]
      BY <2>3 DEF MarkRebooting
    <3>3. \A u \in Uids : rebooters'[u] = rebooters[u] \/ rebooters'[u].serial = cp.cur.serial
      BY <3>2, CpTypes
    <3> QED
      BY <2>1, <3>1, <3>2, <3>3 DEF Candidates
  <2> QED
    BY <1>4, <2>2, <2>3
<1> QED
  BY <1>1, <1>2, <1>3, <1>4 DEF CpStep, Candidates

\* A settler, or a goroutine of rebootAndReport, keeps to its device.
LEMMA SettlerMoves ==
  ASSUME Typed, NEW k \in Settlers, SettlerStep(k)
  PROVE  /\ UNCHANGED <<hub, due, inbox, welcome, ws, cp, rebooters, reported>>
         /\ \A j \in Settlers \ {k} : settlers'[j] = settlers[j]
         /\ settlers[k].stage # "free"
         /\ settlers'[k].stage # "free" => settlers'[k].serial = settlers[k].serial
         /\ settlers[k].stage = "sleep" => settlers'[k].stage = "unflag"
         /\ settlers[k].stage = "unflag" => rebooting' = rebooting \ {settlers[k].serial}
         /\ settlers[k].stage # "unflag" => rebooting' = rebooting
         /\ lowBattery' \subseteq lowBattery \cup {settlers[k].serial}
<1>1. settlers \in [Settlers -> [stage : SettlerStages, serial : Serials \cup {None}]]
  BY DEF Typed, ManagerType
<1> USE <1>1 DEF SettlerAt, SettlerGoto, SettlerDone, NoSettler, flagVars, feedVars, ledgerVars
<1>2. CASE Settle(k) \/ SettlerUnflag(k) \/ SettlerGate(k)
  BY <1>2 DEF Settle, SettlerUnflag, SettlerGate
<1>3. CASE SettlerList(k) \/ SettlerDefer(k) \/ SettlerCreate(k)
  BY <1>3 DEF SettlerList, SettlerDefer, SettlerCreate
<1> QED
  BY <1>2, <1>3 DEF SettlerStep

LEMMA RebooterFlags ==
  ASSUME Typed, NEW u \in Uids, RebooterStep(u)
  PROVE  /\ UNCHANGED <<hub, inbox, welcome, ws, cp, settlers, lowBattery>>
         /\ rebooters'[u].stage # "none" => rebooters'[u].serial = rebooters[u].serial
         /\ due \subseteq due'
         /\ rebooters[u].stage = "request" =>
              /\ rebooting' = rebooting
              /\ rebooters'[u].stage = "failed" \/ rebooters[u].serial \in due'
         /\ rebooters[u].stage = "failed" => rebooting' = rebooting \ {rebooters[u].serial}
         /\ rebooters[u].stage # "failed" => rebooting' = rebooting
<1>1. rebooters \in [Uids -> [stage : RebooterStages, serial : Serials \cup {None}, run : Nat]]
  BY CpTypes
<1> USE <1>1 DEF RebooterAt, RebooterGoto, RebooterDone, NoRebooter, flagVars, feedVars
<1>2. CASE RebootAccepted(u) \/ RebootRefused(u) \/ RebootTimesOut(u)
  BY <1>2 DEF RebootAccepted, RebootRefused, RebootTimesOut
<1>3. CASE RebootSucceeded(u) \/ RebootFailed(u)
  BY <1>3 DEF RebootSucceeded, RebootFailed
<1>4. CASE RetryWake(u) \/ RetryList(u) \/ RetryCreate(u)
  BY <1>4 DEF RetryWake, RetryList, RetryCreate
<1> QED
  BY <1>2, <1>3, <1>4 DEF RebooterStep

LEMMA NextKeepsCandidates == Typed /\ Candidates /\ [Next]_vars => Candidates'
<1> SUFFICES ASSUME Typed, Candidates, [Next]_vars PROVE Candidates'
  OBVIOUS
<1>1. \A s \in Serials : Exists(s)' => s \in Testable
  BY PodsOfCandidates DEF Exists
<1>2. CASE WsStep
  <2>1. UNCHANGED <<cp, rebooters>>
    BY <1>2, OthersLeaveLedger
  <2> QED
    BY <1>1, <1>2, <2>1, WsKeepsCandidates DEF Candidates, Listed
<1>3. CASE CpStep
  <2>1. UNCHANGED <<ws, settlers, lowBattery>>
    <3>1. CheckPods =>
            UNCHANGED <<feedVars, flagVars, infoVars, ledgerVars, ws, settlers, rebooters, epoch>>
      BY DEF CheckPods
    <3>2. \A p : Claim(p) => UNCHANGED <<ws, settlers, lowBattery>>
      BY DEF Claim, flagVars
    <3>3. Collect \/ Delete \/ SaveTestResult \/ MarkRebooting \/ Purge =>
            UNCHANGED <<ws, settlers, lowBattery>>
      BY DEF Collect, Delete, SaveTestResult, MarkRebooting, Purge, flagVars
    <3> QED
      BY <1>3, <3>1, <3>2, <3>3 DEF CpStep, flagVars
  <2> QED
    BY <1>1, <1>3, <2>1, CpKeepsCandidates DEF Candidates
<1>4. ASSUME NEW k \in Settlers, SettlerStep(k)
      PROVE  Candidates'
  <2>1. settlers[k].serial \in Testable
    BY <1>4, SettlerMoves DEF Candidates
  <2>2. \A j \in Settlers : settlers'[j].stage # "free" => settlers'[j].serial \in Testable
    BY <1>4, <2>1, SettlerMoves DEF Candidates
  <2>3. UNCHANGED <<ws, cp, rebooters>> /\ rebooting' \subseteq rebooting
        /\ lowBattery' \subseteq lowBattery \cup {settlers[k].serial}
    BY <1>4, SettlerMoves
  <2> QED
    BY <1>1, <2>1, <2>2, <2>3 DEF Candidates, Listed
<1>5. ASSUME NEW u \in Uids, RebooterStep(u)
      PROVE  Candidates'
  <2>1. \A w \in Uids : rebooters'[w].stage # "none" => rebooters'[w].serial \in Testable
    BY <1>5, RebooterMoves, RebooterFlags DEF Candidates
  <2>2. UNCHANGED <<ws, cp, settlers, lowBattery>>
    BY <1>5, RebooterFlags
  <2>3. rebooting' \subseteq rebooting
    BY <1>5, RebooterFlags
  <2> QED
    BY <1>1, <2>1, <2>2, <2>3 DEF Candidates, Listed
<1>6. CASE HubStep \/ Reconnected \/ (\E s \in Serials : PodStep(s)) \/ UNCHANGED vars
  <2>1. UNCHANGED <<rebooting, lowBattery, ws, cp, settlers, rebooters>>
    BY <1>6 DEF HubStep, Reconnected, PodStep, managerVars, flagVars, vars
  <2> QED
    BY <1>1, <2>1 DEF Candidates, Listed
<1>7. CASE Restart
  BY <1>1, <1>7 DEF Restart, Candidates, Listed, WsIdle, CpIdle, NoSettler, NoRebooter
<1> QED
  BY <1>2, <1>3, <1>4, <1>5, <1>6, <1>7 DEF Next

\* As long as no call has failed, CheckPods meets every pod for the first time.
FirstMeeting ==
  /\ \A p, q \in Listed : p.uid = q.uid => p = q
  /\ faults = MaxFaults =>
       /\ \A u \in reported, s \in Serials :
            pod[s].uid = u => cp.cur.uid = u /\ cp.pc \in {"collect", "delete"}
       /\ \A p \in cp.todo : p.uid \notin reported
       /\ cp.pc # "purge"

LEMMA NextMeetsFirst ==
  ~Graceful /\ Typed /\ Numbered /\ FirstMeeting /\ [Next]_vars => FirstMeeting'
<1> SUFFICES ASSUME ~Graceful, Typed, Numbered, FirstMeeting, [Next]_vars PROVE FirstMeeting'
  OBVIOUS
<1>1. faults' = MaxFaults => faults = MaxFaults /\ faults' = faults
  BY NextPods, PodTypes DEF Spent
<1>2. ASSUME NEW u \in reported, NEW s \in Serials, pod'[s].uid = u
      PROVE  pod[s].uid = u
  <2>1. u \in Uids /\ u < nextUid
    BY PodTypes DEF Numbered
  <2> QED
    BY <1>2, <2>1, NextPods, UidsNeverReused DEF AnyPodMove, Numbered
<1>3. CASE ~CpStep /\ ~Restart
  <2>1. UNCHANGED <<cp, reported>>
    BY <1>3, OthersLeaveLedger, RebooterMoves DEF Next
  <2> QED
    BY <1>1, <1>2, <2>1 DEF FirstMeeting, Listed
<1>4. CASE Restart
  BY <1>4 DEF Restart, CpIdle, FirstMeeting, Listed
<1>5. CASE CheckPods
  <2>1. PodsKept /\ UNCHANGED reported /\ cp.pc = "idle"
    BY <1>5, PodTypes, Calls DEF CheckPods, ledgerVars
  <2>2. CASE cp' = cp
    BY <1>1, <1>2, <2>1, <2>2 DEF FirstMeeting, Listed
  <2>3. CASE cp' = [CpIdle EXCEPT !.pc = "scan",
                                  !.todo = {[serial |-> s, uid |-> pod[s].uid] : s \in Completed}]
    <3>1. cp'.pc = "scan" /\ cp'.todo = {[serial |-> s, uid |-> pod[s].uid] : s \in Completed}
      BY <2>3 DEF CpIdle
    <3>2. Listed' = cp'.todo
      BY <3>1 DEF Listed
    <3>3. \A s \in Completed : s \in Serials /\ Exists(s)
      BY DEF Completed, Exists, NoPod
    <3>4. \A p, q \in Listed' : p.uid = q.uid => p = q
      BY <3>1, <3>2, <3>3 DEF Numbered, PodsNumbered
    <3>5. faults = MaxFaults => \A s \in Completed : pod[s].uid \notin reported
      BY <2>1, <3>3 DEF FirstMeeting
    <3> QED
      BY <1>1, <1>2, <2>1, <3>1, <3>4, <3>5 DEF FirstMeeting
  <2> QED
    BY <1>5, <2>2, <2>3 DEF CheckPods
<1>6. ASSUME NEW p \in cp.todo, Claim(p)
      PROVE  FirstMeeting'
  <2>1. /\ cp'.cur = p /\ cp'.todo = cp.todo \ {p} /\ reported' = reported \cup {p.uid}
        /\ cp.pc = "scan" /\ UNCHANGED pod
        /\ p.uid \notin reported => cp'.pc = "collect"
    BY <1>6, CpTypes DEF Claim, CpType, podVars
  <2>2. Listed' \subseteq Listed /\ p \in Listed
    BY <2>1 DEF Listed
  <2>3. \A q \in cp'.todo : q.uid # p.uid
    BY <2>1, <2>2 DEF FirstMeeting, Listed
  <2>4. ASSUME faults' = MaxFaults
        PROVE  /\ p.uid \notin reported
               /\ \A q \in cp'.todo : q.uid \notin reported'
               /\ \A u \in reported', s \in Serials : pod'[s].uid = u => u = p.uid
    BY <1>1, <2>1, <2>3, <2>4 DEF FirstMeeting
  <2>5. \A q, r \in Listed' : q.uid = r.uid => q = r
    BY <2>2 DEF FirstMeeting
  <2> QED
    BY <2>1, <2>4, <2>5 DEF FirstMeeting
<1>7. CASE Collect \/ SaveTestResult
  <2>1. cp'.cur = cp.cur /\ cp'.todo = cp.todo /\ UNCHANGED reported
        /\ \/ cp.pc = "collect" /\ cp'.pc = "delete"
           \/ cp.pc = "save" /\ cp'.pc = "mark"
    BY <1>7, CpTypes DEF Collect, SaveTestResult, CpType, ledgerVars
  <2> QED
    BY <1>1, <1>2, <2>1 DEF FirstMeeting, Listed
<1>8. CASE Delete
  <2>1. /\ cp'.cur = cp.cur /\ cp'.todo = cp.todo /\ UNCHANGED reported
        /\ cp.pc = "delete" /\ cp'.pc = "save" /\ cp.cur \in Target /\ cp.cur.serial \in Serials
    BY <1>8, CpTypes DEF Delete, CpType, Target, ledgerVars
  <2>2. Listed' = Listed /\ cp.cur \in Listed
    BY <2>1 DEF Listed
  <2>3. faults' = MaxFaults => pod'[cp.cur.serial] = NoPod
    <3>1. Deleted(cp.cur.serial) \/ (PodsKept /\ (Exists(cp.cur.serial) => faults' # faults))
      BY <1>8, PodTypes, Calls DEF Delete
    <3> QED
      BY <1>1, <2>1, <3>1, PodChanges DEF PodsKept, Exists
  <2>4. ASSUME faults' = MaxFaults, NEW u \in reported, NEW s \in Serials, pod'[s].uid = u
        PROVE  FALSE
    <3>1. cp.cur.uid = u /\ pod[s].uid = u
      BY <1>1, <1>2, <2>4 DEF FirstMeeting
    <3>2. s = cp.cur.serial
      BY <2>2, <3>1 DEF Numbered, ListNumbered
    <3>3. u # 0
      BY PodTypes
    <3> QED
      BY <2>3, <2>4, <3>2, <3>3 DEF NoPod
  <2> QED
    BY <1>1, <2>1, <2>2, <2>4 DEF FirstMeeting
<1>9. CASE MarkRebooting \/ Purge
  <2>1. cp' = NextPod /\ cp.pc \in {"mark", "purge"} /\ UNCHANGED reported
    BY <1>9 DEF MarkRebooting, Purge, ledgerVars
  <2>2. cp'.pc \in {"idle", "scan"} /\ cp'.todo \subseteq cp.todo
    BY <2>1, NextPodRests
  <2>3. Listed' \subseteq Listed
    BY <2>2 DEF Listed
  <2> QED
    BY <1>1, <1>2, <2>1, <2>2, <2>3 DEF FirstMeeting
<1> QED
  BY <1>3, <1>4, <1>5, <1>6, <1>7, <1>8, <1>9 DEF CpStep

----------------------------------------------------------------------------
(* A device that the manager is told to drop is gone, or announced anew.   *)

LEMMA OnItsWay ==
  ASSUME NEW queue \in Seq(Message), NEW s
  PROVE  (\E i \in DOMAIN queue : queue[i].event = "INFO ADD" /\ queue[i].serial = s)
           <=> EndsIn(queue, Ups, {}, s)
<1>1. DOMAIN queue = 1..Len(queue)
  OBVIOUS
<1> QED
  BY <1>1 DEF EndsIn, Of, Ups

LEMMA AddIsOnItsWay ==
  ASSUME Typed, NEW s
  PROVE  /\ AddOnItsWay(s) <=> EndsIn(inbox, Ups, {}, s)
         /\ inbox' \in Seq(Message) => (AddOnItsWay(s)' <=> EndsIn(inbox', Ups, {}, s))
<1>1. inbox \in Seq(Message)
  BY DEF Typed, FeedTypeOK
<1> QED
  BY <1>1, OnItsWay DEF AddOnItsWay

\* How long a device that will report back stays one that will: until the
\* manager is told.
LEMMA EnvironmentReturns ==
  ASSUME Typed, Environment, NEW s \in Serials
  PROVE  /\ Returns(s) => Returns(s)'
         /\ hub[s] # "online" \/ AddOnItsWay(s) => hub'[s] # "online" \/ AddOnItsWay(s)'
<1>1. PICK t \in Serials : \/ ComeOnline(t) \/ GoOffline(t) \/ Forget(t)
                           \/ \E l \in Levels : Battery(t, l)
  BY DEF Environment
<1>2. inbox \in Seq(Message) /\ hub \in [Serials -> {"gone", "away", "online"}]
  BY DEF Typed, FeedTypeOK
<1>3. \A e \in Events, l \in InfoLevels : /\ Msg(e, t, l) \in Message
                                          /\ Msg(e, t, l).event = e
                                          /\ Msg(e, t, l).serial = t
  BY <1>1 DEF Msg, Message
<1>4. /\ {"INFO ADD", "INFO DELETE", "DEVICE DELETE", "BATTERY UPDATE"} = Events
      /\ Unknown \in InfoLevels /\ Levels \subseteq InfoLevels
  BY DEF Events, InfoLevels
<1>5. /\ \E m \in Message : inbox' = Append(inbox, m)
      /\ welcome' = welcome
  BY <1>1, <1>3, <1>4 DEF ComeOnline, GoOffline, Forget, Battery, Send
<1>6. inbox' \in Seq(Message)
  BY <1>2, <1>5, AppendProperties
<1>7. AddOnItsWay(s) => AddOnItsWay(s)'
  BY <1>2, <1>5, <1>6, AddIsOnItsWay, Sending DEF Of
<1>8. CASE ComeOnline(s)
  <2>1. PICK m \in Message : inbox' = Append(inbox, m) /\ m.event = "INFO ADD" /\ m.serial = s
    <3>1. \A l \in InfoLevels : /\ Msg("INFO ADD", s, l) \in Message
                                /\ Msg("INFO ADD", s, l).event = "INFO ADD"
                                /\ Msg("INFO ADD", s, l).serial = s
      BY <1>4 DEF Msg, Message
    <3> QED
      BY <1>8, <3>1 DEF ComeOnline, Send
  <2>2. Of(m, Ups, s)
    BY <2>1 DEF Of, Ups
  <2>3. AddOnItsWay(s)'
    BY <1>2, <1>6, <2>1, <2>2, AddIsOnItsWay, Sending
  <2> QED
    BY <2>3 DEF Returns
<1>9. CASE ~ComeOnline(s)
  <2>1. hub'[s] # "online" \/ (hub'[s] = hub[s] /\ (s \in due => s \in due'))
    BY <1>1, <1>2, <1>9 DEF ComeOnline, GoOffline, Forget, Battery
  <2>2. hub[s] # "online" => hub'[s] # "online"
    BY <1>1, <1>2, <1>9 DEF ComeOnline, GoOffline, Forget, Battery
  <2> QED
    BY <1>5, <1>7, <2>1, <2>2 DEF Returns
<1> QED
  BY <1>8, <1>9

FarewellIsOld ==
  ws.pc \in {"deletedList", "deletedDelete"} =>
    /\ ws.serial \in Serials
    /\ hub[ws.serial] # "online" \/ AddOnItsWay(ws.serial)

LEMMA NextSaysFarewell ==
  Typed /\ Announced /\ FarewellIsOld /\ [Next]_vars => FarewellIsOld'
<1> SUFFICES ASSUME Typed, Announced, FarewellIsOld, [Next]_vars,
                    ws'.pc \in {"deletedList", "deletedDelete"}
             PROVE  ws'.serial \in Serials /\ (hub'[ws'.serial] # "online" \/ AddOnItsWay(ws.serial)')
  BY DEF FarewellIsOld
<1>1. inbox \in Seq(Message)
  BY DEF Typed, FeedTypeOK
<1>2. CASE WsStep
  <2>1. PICK s \in Serials :
          \/ \E l \in InfoLevels : \/ OnDeviceReady(s, l) \/ OnDeviceOffline(s, l)
                                   \/ OnDeviceDeleted(s, l) \/ OnBatteryUpdated(s, l)
          \/ ReadyList(s) \/ ReadyGate(s) \/ ReadyStabilize(s) \/ ReadyCreate(s)
          \/ DeletedList(s) \/ DeletedDelete(s) \/ BatteryList(s) \/ BatteryCreate(s)
    BY <1>2 DEF WsStep
  <2>2. CASE DeletedList(s)
    <3>1. WsAt("deletedList", s) /\ ws'.serial = s /\ UNCHANGED <<hub, inbox>>
      BY <2>2 DEF DeletedList, WsGoto, WsDone, WsIdle, feedVars
    <3>2. hub[s] # "online" \/ AddOnItsWay(s)
      BY <3>1 DEF FarewellIsOld, WsAt
    <3> QED
      BY <3>1, <3>2 DEF AddOnItsWay
  <2>3. ASSUME NEW l \in InfoLevels, OnDeviceDeleted(s, l)
        PROVE  ws'.serial \in Serials /\ (hub'[ws'.serial] # "online" \/ AddOnItsWay(ws.serial)')
    <3> DEFINE m == Msg("DEVICE DELETE", s, l)
    <3>1. m.event = "DEVICE DELETE" /\ m.serial = s /\ m \in Message
      BY <2>1, <2>3 DEF Msg, Message, Events
    <3>2. Receive(m) /\ ws'.serial = s
      BY <2>3 DEF OnDeviceDeleted, Handle, WsGoto
    <3> HIDE DEF m
    <3>3. welcome = {} /\ inbox # <<>> /\ m = Head(inbox) /\ inbox' = Tail(inbox) /\ UNCHANGED hub
      BY <3>1, <3>2 DEF Receive
    <3>4. Of(m, Downs, s)
      BY <3>1 DEF Of, Downs
    <3>5. ASSUME hub[s] = "online" PROVE AddOnItsWay(s)'
      <4>1. WillKnow(s)
        BY <2>1, <3>5 DEF Announced, Online
      <4>2. ~NoneOf(inbox, Downs, s)
        <5>1. 1 \in 1..Len(inbox) /\ Head(inbox) = inbox[1]
          BY <1>1, <3>3, EmptySeq
        <5> QED
          BY <3>3, <3>4, <5>1 DEF NoneOf
      <4>3. EndsIn(inbox, Ups, Downs, s)
        BY <4>1, <4>2 DEF WillKnow
      <4>4. EndsIn(inbox', Ups, Downs, s)
        <5>1. ~Of(Head(inbox), Ups, s)
          BY <3>1, <3>3 DEF Of, Ups
        <5> QED
          BY <1>1, <3>3, <4>3, <5>1, Receiving
      <4>5. inbox' \in Seq(Message)
        BY <1>1, <3>3, HeadTailProperties
      <4> QED
        BY <4>4, <4>5, AddIsOnItsWay DEF EndsIn, Of
    <3> QED
      BY <3>2, <3>3, <3>5 DEF AddOnItsWay
  <2>4. ASSUME NEW l \in InfoLevels,
               OnDeviceReady(s, l) \/ OnDeviceOffline(s, l) \/ OnBatteryUpdated(s, l)
        PROVE  FALSE
    <3>1. ws = WsIdle
      BY <2>4 DEF OnDeviceReady, OnDeviceOffline, OnBatteryUpdated, Handle
    <3>2. UNCHANGED ws \/ WsGoto("readyList", s) \/ WsGoto("batteryList", s)
      BY <2>4 DEF OnDeviceReady, OnDeviceOffline, OnBatteryUpdated
    <3> QED
      BY <3>1, <3>2 DEF WsGoto, WsIdle
  <2>5. ASSUME ReadyList(s) \/ ReadyGate(s) \/ ReadyStabilize(s) \/ ReadyCreate(s)
               \/ DeletedDelete(s) \/ BatteryList(s) \/ BatteryCreate(s)
        PROVE  FALSE
    BY <2>5 DEF ReadyList, ReadyGate, ReadyStabilize, ReadyCreate, DeletedDelete, BatteryList,
                BatteryCreate, WsGoto, WsDone, WsIdle
  <2> QED
    BY <2>1, <2>2, <2>3, <2>4, <2>5
<1>3. CASE HubStep
  <2>1. Environment /\ ws' = ws
    BY <1>3 DEF HubStep, managerVars
  <2>2. PICK t : t = ws.serial
    OBVIOUS
  <2>3. t \in Serials /\ (hub[t] # "online" \/ AddOnItsWay(t))
    BY <2>1, <2>2 DEF FarewellIsOld
  <2>4. hub'[t] # "online" \/ AddOnItsWay(t)'
    BY <2>1, <2>3, EnvironmentReturns
  <2> QED
    BY <2>1, <2>2, <2>3, <2>4 DEF AddOnItsWay
<1>4. CASE Reconnected \/ Restart
  BY <1>4 DEF Reconnected, Restart, WsIdle, managerVars
<1>5. CASE ~WsStep /\ ~HubStep /\ ~Reconnected /\ ~Restart
  <2>1. UNCHANGED <<hub, inbox, ws>>
    <3>1. CASE CpStep
      <4>1. CheckPods =>
              UNCHANGED <<feedVars, flagVars, infoVars, ledgerVars, ws, settlers, rebooters, epoch>>
        BY DEF CheckPods
      <4>2. \A p : Claim(p) => UNCHANGED <<feedVars, ws>>
        BY DEF Claim
      <4>3. Collect \/ Delete \/ SaveTestResult \/ MarkRebooting \/ Purge => UNCHANGED <<feedVars, ws>>
        BY DEF Collect, Delete, SaveTestResult, MarkRebooting, Purge
      <4> QED
        BY <3>1, <4>1, <4>2, <4>3 DEF CpStep, feedVars
    <3>2. CASE (\E k \in Settlers : SettlerStep(k)) \/ (\E u \in Uids : RebooterStep(u))
      BY <3>2, SettlerMoves, RebooterFlags
    <3>3. CASE (\E s \in Serials : PodStep(s)) \/ UNCHANGED vars
      BY <3>3 DEF PodStep, managerVars, vars, feedVars
    <3> QED
      BY <1>5, <3>1, <3>2, <3>3 DEF Next
  <2>2. ws.serial \in Serials /\ (hub[ws.serial] # "online" \/ AddOnItsWay(ws.serial))
    BY <2>1 DEF FarewellIsOld
  <2> QED
    BY <2>1, <2>2 DEF AddOnItsWay
<1> QED
  BY <1>2, <1>3, <1>4, <1>5

----------------------------------------------------------------------------
(* The owner of a wait hands it over before it lets go.                    *)

Owner(s) == Returns(s) \/ Greeted(s) \/ Settles(s) \/ Reboots(s) \/ Collected(s)

OwnerInv == /\ LedgerInv /\ StabilizingHasOneWaiter /\ Announced
            /\ Numbered /\ NoneDying /\ Candidates /\ FirstMeeting /\ FarewellIsOld

\* What a step hands on unless it concerns s.
LEMMA OwnerStays ==
  ASSUME NEW s
  PROVE  /\ UNCHANGED <<hub, due, welcome, inbox>> => (Returns(s) => Returns(s)')
         /\ UNCHANGED ws => (Greeted(s) => Greeted(s)')
         /\ UNCHANGED settlers => (Settles(s) => Settles(s)')
         /\ UNCHANGED rebooters => (Reboots(s) => Reboots(s)')
         /\ UNCHANGED cp /\ (Exists(s) => Exists(s)') => (Collected(s) => Collected(s)')
BY DEF Returns, AddOnItsWay, Greeted, Settles, Reboots, Collected, Exists

\* Pods go only where CheckPods or OnDeviceDeleted deletes them.
LEMMA PodsStay ==
  ASSUME Typed, NoneDying, [Next]_vars, NEW s \in Serials, Exists(s), pod'[s] = NoPod
  PROVE  \/ WsAt("deletedDelete", s)
         \/ CpStep /\ (Delete \/ Purge) /\ cp.cur.serial = s
<1>1. CASE CpStep
  <2>1. PodsKept \/ ((Delete \/ Purge) /\ Deleted(cp.cur.serial))
    BY <1>1, PodTypes, CpPods
  <2>2. Delete \/ Purge => cp.cur.serial \in Serials
    BY CpTypes DEF Delete, Purge, Target
  <2>3. ~PodsKept
    BY DEF PodsKept, Exists
  <2> QED
    BY <1>1, <2>1, <2>2, <2>3, PodChanges DEF Exists
<1>2. CASE Restart
  BY <1>2 DEF Restart, podVars, Exists
<1>3. CASE ~CpStep /\ ~Restart
  <2>1. PodMove
    BY <1>3, PodTypes, OthersPods DEF Next
  <2>2. \A t \in Serials : ~PodGone(t)
    BY DEF PodGone, NoneDying
  <2>3. \A t \in Serials : Created(t) \/ Finish(t) => pod'[s] # NoPod
    BY PodChanges, PodTypes DEF Exists, NoPod
  <2>4. ~PodsKept
    BY DEF PodsKept, Exists
  <2>5. PICK t \in Serials : Deleted(t) /\ WsAt("deletedDelete", t)
    BY <2>1, <2>2, <2>3, <2>4 DEF PodMove
  <2>6. t = s
    BY <2>5, PodChanges DEF Exists
  <2> QED
    BY <2>5, <2>6
<1> QED
  BY <1>1, <1>2, <1>3

LEMMA CollectedStays ==
  ASSUME Typed, OwnerInv, [Next]_vars, UNCHANGED cp, NEW s \in Serials, Collected(s)
  PROVE  Collected(s)' \/ Returns(s)
<1>1. CASE Exists(s) => Exists(s)'
  BY <1>1, OwnerStays
<1>2. CASE Exists(s) /\ ~Exists(s)'
  <2>1. WsAt("deletedDelete", s)
    <3>1. Delete \/ Purge => cp'.pc # cp.pc
      BY CpTypes, NextPodRests DEF Delete, Purge, CpType
    <3> QED
      BY <1>2, <3>1, PodsStay DEF OwnerInv, Exists
  <2> QED
    BY <2>1 DEF WsAt, OwnerInv, FarewellIsOld, Returns
<1> QED
  BY <1>1, <1>2

LEMMA WsHandsOver ==
  ASSUME Typed, OwnerInv, WsStep, faults' = faults, NEW s \in rebooting, Owner(s)
  PROVE  Owner(s)'
<1>1. PICK t \in Serials :
        \/ \E l \in InfoLevels : \/ OnDeviceReady(t, l) \/ OnDeviceOffline(t, l)
                                 \/ OnDeviceDeleted(t, l) \/ OnBatteryUpdated(t, l)
        \/ ReadyList(t) \/ ReadyGate(t) \/ ReadyStabilize(t) \/ ReadyCreate(t)
        \/ DeletedList(t) \/ DeletedDelete(t) \/ BatteryList(t) \/ BatteryCreate(t)
  BY DEF WsStep
<1>2. UNCHANGED <<cp, rebooters>>
  BY OthersLeaveLedger
<1>3. s \in Serials /\ s \in Testable /\ faults \in Nat
  BY PodTypes, HubAssumption DEF OwnerInv, Candidates
<1>4. CASE \E l \in InfoLevels : \/ OnDeviceReady(t, l) \/ OnDeviceOffline(t, l)
                                 \/ OnDeviceDeleted(t, l) \/ OnBatteryUpdated(t, l)
  <2>1. PICK l \in InfoLevels : \/ OnDeviceReady(t, l) \/ OnDeviceOffline(t, l)
                                \/ OnDeviceDeleted(t, l) \/ OnBatteryUpdated(t, l)
    BY <1>4
  <2>2. ws = WsIdle /\ UNCHANGED <<podVars, settlers>>
    BY <2>1 DEF OnDeviceReady, OnDeviceOffline, OnDeviceDeleted, OnBatteryUpdated, Handle
  <2>3. \/ Returns(s)
        \/ Settles(s)' \/ Reboots(s)' \/ Collected(s)'
    BY <1>2, <2>2, OwnerStays DEF Owner, Greeted, WsIdle, podVars, Exists
  <2>4. ASSUME Returns(s)
        PROVE  Owner(s)'
    <3>1. PICK m \in Message : /\ Receive(m) /\ m.serial = t
                               /\ m.event = "INFO ADD" => OnDeviceReady(t, l)
      <4>1. \A e \in Events : /\ Msg(e, t, l) \in Message
                              /\ Msg(e, t, l).event = e /\ Msg(e, t, l).serial = t
        BY <1>1, <2>1 DEF Msg, Message
      <4>2. {"INFO ADD", "INFO DELETE", "DEVICE DELETE", "BATTERY UPDATE"} = Events
        BY DEF Events
      <4>3. \/ OnDeviceReady(t, l) /\ Receive(Msg("INFO ADD", t, l))
            \/ Receive(Msg("INFO DELETE", t, l))
            \/ Receive(Msg("DEVICE DELETE", t, l))
            \/ Receive(Msg("BATTERY UPDATE", t, l))
        BY <2>1 DEF OnDeviceReady, OnDeviceOffline, OnDeviceDeleted, OnBatteryUpdated, Handle
      <4> QED
        BY <4>1, <4>2, <4>3
    <3>2. CASE m.event = "INFO ADD" /\ t = s
      <4>1. WsGoto("readyList", s)
        BY <1>3, <3>1, <3>2 DEF OnDeviceReady
      <4> QED
        BY <4>1 DEF Owner, Greeted, WsGoto
    <3>3. CASE m.event # "INFO ADD" \/ t # s
      <4>1. UNCHANGED <<hub, due>> /\ (s \in welcome => s \in welcome')
        BY <3>1, <3>3 DEF Receive
      <4>2. AddOnItsWay(s) => AddOnItsWay(s)'
        <5>1. inbox \in Seq(Message)
          BY DEF Typed, FeedTypeOK
        <5>2. CASE UNCHANGED inbox
          BY <5>2 DEF AddOnItsWay
        <5>3. CASE inbox # <<>> /\ m = Head(inbox) /\ inbox' = Tail(inbox)
          <6>1. ~Of(Head(inbox), Ups, s)
            BY <3>1, <3>3, <5>3 DEF Of, Ups
          <6>2. inbox' \in Seq(Message)
            BY <5>1, <5>3, HeadTailProperties
          <6> QED
            BY <5>1, <5>3, <6>1, <6>2, AddIsOnItsWay, Receiving
        <5> QED
          BY <3>1, <5>2, <5>3 DEF Receive
      <4> QED
        BY <4>1, <4>2, <2>4 DEF Returns, Owner
    <3> QED
      BY <3>1, <3>2, <3>3
  <2> QED
    BY <2>3, <2>4 DEF Owner
<1>5. CASE ~\E l \in InfoLevels : \/ OnDeviceReady(t, l) \/ OnDeviceOffline(t, l)
                                  \/ OnDeviceDeleted(t, l) \/ OnBatteryUpdated(t, l)
  <2>1. UNCHANGED <<hub, due, welcome, inbox>>
    BY <1>1, <1>5 DEF ReadyList, ReadyGate, ReadyStabilize, ReadyCreate, DeletedList,
         DeletedDelete, BatteryList, BatteryCreate, feedVars
  <2>2. ws.serial = t
    BY <1>1, <1>5 DEF ReadyList, ReadyGate, ReadyStabilize, ReadyCreate, DeletedList,
         DeletedDelete, BatteryList, BatteryCreate, WsAt
  <2>3. Settles(s) => Settles(s)'
    <3>1. CASE ReadyStabilize(t)
      <4>1. \A k \in Settlers : settlers[k].stage # "free" => settlers'[k] = settlers[k]
        BY <3>1 DEF ReadyStabilize, Typed, ManagerType
      <4> QED
        BY <4>1 DEF Settles
    <3>2. CASE ~ReadyStabilize(t)
      <4>1. UNCHANGED settlers
        BY <1>1, <1>5, <3>2 DEF ReadyList, ReadyGate, ReadyCreate, DeletedList, DeletedDelete,
             BatteryList, BatteryCreate
      <4> QED
        BY <4>1, OwnerStays
    <3> QED
      BY <3>1, <3>2
  <2>4. Collected(s) => Owner(s)'
    BY <1>2, <1>3, <2>1, CollectedStays, OwnerStays DEF Owner, Next
  <2>5. ASSUME Greeted(s) PROVE Owner(s)'
    <3>1. s = t /\ ws.pc \in {"readyList", "readyGate", "readyStabilize"}
      BY <2>2, <2>5 DEF Greeted
    <3>2. CASE ReadyList(s)
      <4>1. WsGoto("readyGate", s) \/ ListedSome(s)
        BY <3>2 DEF ReadyList
      <4>2. CASE WsGoto("readyGate", s)
        BY <4>2 DEF WsGoto, Owner, Greeted
      <4>3. CASE ListedSome(s)
        <5>1. Exists(s) /\ PodsKept
          BY <1>3, <4>3, Calls
        <5> QED
          BY <5>1 DEF PodsKept, Exists, Owner, Collected
      <4> QED
        BY <4>1, <4>2, <4>3
    <3>3. CASE ReadyGate(s)
      BY <3>3 DEF ReadyGate, WsGoto, Owner, Greeted
    <3>4. CASE ReadyStabilize(s)
      <4>1. CASE s \in stabilizing /\ UNCHANGED settlers
        <5>1. PICK k \in Settlers : settlers[k] = [stage |-> "sleep", serial |-> s]
          BY <1>3, <4>1 DEF OwnerInv, StabilizingHasOneWaiter
        <5> QED
          BY <4>1, <5>1 DEF Owner, Settles
      <4>2. ASSUME NEW k \in Settlers, settlers' = [settlers EXCEPT ![k] = [stage |-> "sleep", serial |-> s]]
            PROVE  Owner(s)'
        <5>1. settlers'[k] = [stage |-> "sleep", serial |-> s]
          BY <4>2 DEF Typed, ManagerType
        <5> QED
          BY <5>1 DEF Owner, Settles
      <4> QED
        BY <3>4, <4>1, <4>2 DEF ReadyStabilize
    <3>5. ~ReadyCreate(t) /\ ~DeletedList(t) /\ ~DeletedDelete(t) /\ ~BatteryList(t) /\ ~BatteryCreate(t)
      BY <3>1 DEF ReadyCreate, DeletedList, DeletedDelete, BatteryList, BatteryCreate, WsAt
    <3> QED
      BY <1>1, <1>5, <3>1, <3>2, <3>3, <3>4, <3>5
  <2> QED
    BY <1>2, <2>1, <2>3, <2>4, <2>5, OwnerStays DEF Owner
<1> QED
  BY <1>4, <1>5

LEMMA CpHandsOver ==
  ASSUME Typed, OwnerInv, CpStep, faults = MaxFaults,
         NEW s \in rebooting', s \in rebooting => Owner(s)
  PROVE  Owner(s)'
<1>1. UNCHANGED <<hub, due, welcome, inbox, ws, settlers>>
  <2>1. CheckPods =>
          UNCHANGED <<feedVars, flagVars, infoVars, ledgerVars, ws, settlers, rebooters, epoch>>
    BY DEF CheckPods
  <2>2. \A p : Claim(p) => UNCHANGED <<feedVars, ws, settlers>>
    BY DEF Claim
  <2>3. Collect \/ Delete \/ SaveTestResult \/ MarkRebooting \/ Purge =>
          UNCHANGED <<feedVars, ws, settlers>>
    BY DEF Collect, Delete, SaveTestResult, MarkRebooting, Purge
  <2> QED
    BY <2>1, <2>2, <2>3 DEF CpStep, feedVars
<1>2. s \in Serials /\ faults \in Nat
  BY PodTypes, CpKeepsTypes DEF Typed, ManagerType
<1>3. CASE MarkRebooting
  <2>1. /\ rebooting' = rebooting \cup {cp.cur.serial}
        /\ cp.pc = "mark" /\ cp.cur.uid \in Uids /\ UNCHANGED podVars
        /\ rebooters' = [rebooters EXCEPT ![cp.cur.uid] =
                           [stage |-> "request", serial |-> cp.cur.serial, run |-> cp.run]]
    BY <1>3, CpTypes DEF MarkRebooting
  <2>2. CASE s = cp.cur.serial
    <3>1. rebooters'[cp.cur.uid].serial = s /\ rebooters'[cp.cur.uid].stage = "request"
      BY <2>1, <2>2, CpTypes
    <3> QED
      BY <2>1, <3>1 DEF Owner, Reboots
  <2>3. CASE s # cp.cur.serial
    <3>1. rebooters[cp.cur.uid].stage = "none"
      BY <2>1 DEF OwnerInv, LedgerInv, CpClaimed
    <3>2. Reboots(s) => Reboots(s)'
      BY <2>1, <3>1, CpTypes DEF Reboots
    <3>3. Collected(s) => Collected(s)'
      BY <2>1, <2>3 DEF Collected, Exists, podVars
    <3> QED
      BY <1>1, <2>1, <2>3, <3>2, <3>3, OwnerStays DEF Owner
  <2> QED
    BY <2>2, <2>3
<1>4. CASE ~MarkRebooting
  <2>1. UNCHANGED <<rebooting, rebooters>>
    <3>1. CheckPods =>
            UNCHANGED <<feedVars, flagVars, infoVars, ledgerVars, ws, settlers, rebooters, epoch>>
      BY DEF CheckPods
    <3>2. \A p : Claim(p) => UNCHANGED <<flagVars, rebooters>>
      BY DEF Claim
    <3>3. Collect \/ Delete \/ SaveTestResult \/ Purge => UNCHANGED <<flagVars, rebooters>>
      BY DEF Collect, Delete, SaveTestResult, Purge
    <3> QED
      BY <1>4, <3>1, <3>2, <3>3 DEF CpStep, flagVars
  <2>2. ~Purge
    BY DEF Purge, OwnerInv, FirstMeeting
  <2>3. Collected(s) => Owner(s)'
    <3>1. CASE Exists(s) /\ ~Exists(s)'
      <4>1. WsAt("deletedDelete", s) \/ (Delete /\ cp.cur.serial = s)
        BY <1>2, <2>2, <3>1, PodsStay DEF OwnerInv, Exists, Next
      <4>2. CASE WsAt("deletedDelete", s)
        <5>1. Returns(s)
          BY <4>2 DEF WsAt, OwnerInv, FarewellIsOld, Returns
        <5> QED
          BY <1>1, <5>1, OwnerStays DEF Owner
      <4>3. CASE Delete /\ cp.cur.serial = s
        <5>1. cp'.pc = "save" /\ cp'.cur = cp.cur
          BY <4>3, CpTypes DEF Delete, CpType
        <5> QED
          BY <4>3, <5>1 DEF Owner, Collected
      <4> QED
        BY <4>1, <4>2, <4>3
    <3>2. CASE Exists(s) /\ Exists(s)'
      BY <3>2 DEF Owner, Collected
    <3>3. CASE cp.cur.serial = s /\ cp.pc \in {"save", "mark"}
      <4>1. SaveTestResult
        BY <1>4, <3>3 DEF CpStep, CheckPods, Claim, Collect, Delete, Purge
      <4>2. cp'.pc = "mark" /\ cp'.cur = cp.cur
        BY <4>1, CpTypes DEF SaveTestResult, CpType
      <4> QED
        BY <3>3, <4>2 DEF Owner, Collected
    <3> QED
      BY <3>1, <3>2, <3>3 DEF Collected
  <2> QED
    BY <1>1, <2>1, <2>3, OwnerStays DEF Owner
<1> QED
  BY <1>3, <1>4

LEMMA WorkersHandOver ==
  ASSUME Typed, OwnerInv, NEW s \in rebooting', Owner(s),
         (\E k \in Settlers : SettlerStep(k)) \/ (\E u \in Uids : RebooterStep(u))
  PROVE  Owner(s)'
<1>1. CASE \E k \in Settlers : SettlerStep(k)
  <2>1. PICK k \in Settlers : SettlerStep(k)
    BY <1>1
  <2>2. UNCHANGED <<hub, due, welcome, inbox, ws, cp, rebooters>> /\ s \in Serials
    BY <2>1, SettlerMoves DEF Typed, ManagerType
  <2>3. ASSUME Settles(s) PROVE Settles(s)'
    <3>1. PICK j \in Settlers : settlers[j].serial = s /\ settlers[j].stage \in {"sleep", "unflag"}
      BY <2>3 DEF Settles
    <3>2. CASE j # k
      BY <2>1, <3>1, <3>2, SettlerMoves DEF Settles
    <3>3. CASE j = k
      BY <2>1, <3>1, <3>3, SettlerMoves DEF Settles
    <3> QED
      BY <3>2, <3>3
  <2>4. Collected(s) => Collected(s)' \/ Returns(s)
    BY <2>1, <2>2, CollectedStays DEF Next
  <2> QED
    BY <2>2, <2>3, <2>4, OwnerStays DEF Owner
<1>2. CASE \E u \in Uids : RebooterStep(u)
  <2>1. PICK u \in Uids : RebooterStep(u)
    BY <1>2
  <2>2. UNCHANGED <<hub, welcome, inbox, ws, cp, settlers>> /\ due \subseteq due'
    BY <2>1, RebooterFlags
  <2>3. s \in rebooting
    BY <2>1, RebooterFlags
  <2>4. Returns(s) => Returns(s)'
    BY <2>2 DEF Returns, AddOnItsWay
  <2>5. ASSUME Reboots(s) PROVE Owner(s)'
    <3>1. PICK w \in Uids : rebooters[w].serial = s /\ rebooters[w].stage \in {"request", "failed"}
      BY <2>5 DEF Reboots
    <3>2. CASE w # u
      <4>1. rebooters'[w] = rebooters[w]
        BY <2>1, <3>2, RebooterMoves
      <4> QED
        BY <3>1, <4>1 DEF Owner, Reboots
    <3>3. CASE w = u
      BY <2>1, <3>1, <3>3, RebooterFlags DEF Owner, Reboots, Returns
    <3> QED
      BY <3>2, <3>3
  <2>6. Collected(s) => Collected(s)' \/ Returns(s)
    BY <2>1, <2>2, <2>3, CollectedStays DEF Next, Typed, ManagerType
  <2> QED
    BY <2>2, <2>4, <2>5, <2>6, OwnerStays DEF Owner
<1> QED
  BY <1>1, <1>2

LEMMA WorldHandsOver ==
  ASSUME Typed, OwnerInv, NEW s \in rebooting, Owner(s),
         HubStep \/ Reconnected \/ (\E t \in Serials : PodStep(t)) \/ UNCHANGED vars
  PROVE  Owner(s)'
<1>1. UNCHANGED <<ws, cp, settlers, rebooters>> /\ s \in Serials
  BY DEF HubStep, Reconnected, PodStep, managerVars, vars, Typed, ManagerType
<1>2. Returns(s) => Returns(s)'
  <2>1. CASE HubStep
    BY <1>1, <2>1, EnvironmentReturns DEF HubStep
  <2>2. CASE Reconnected
    <3>1. /\ UNCHANGED <<hub, due>> /\ welcome' = Online
      BY <2>2 DEF Reconnected, Reconnect, Connected, Online
    <3>2. hub[s] = "online" => s \in welcome'
      BY <1>1, <3>1 DEF Online
    <3> QED
      BY <3>1, <3>2 DEF Returns
  <2>3. CASE (\E t \in Serials : PodStep(t)) \/ UNCHANGED vars
    BY <2>3, OwnerStays DEF PodStep, vars, feedVars
  <2> QED
    BY <2>1, <2>2, <2>3
<1>3. Collected(s) => Collected(s)' \/ Returns(s)
  BY <1>1, CollectedStays DEF Next
<1> QED
  BY <1>1, <1>2, <1>3, OwnerStays DEF Owner

LEMMA NextHandsOver ==
  Typed /\ OwnerInv /\ RebootingHasOwner /\ [Next]_vars => RebootingHasOwner'
<1> SUFFICES ASSUME Typed, OwnerInv, RebootingHasOwner, [Next]_vars,
                    faults' = MaxFaults, NEW s \in rebooting'
             PROVE  Owner(s)'
  BY DEF RebootingHasOwner, Owner
<1>1. faults = MaxFaults /\ faults' = faults
  BY NextPods, PodTypes DEF Spent
<1>2. s \in rebooting => Owner(s)
  BY <1>1 DEF RebootingHasOwner, Owner
<1>3. CASE CpStep
  BY <1>1, <1>2, <1>3, CpHandsOver
<1>4. CASE WsStep
  <2>1. UNCHANGED rebooting
    BY <1>4 DEF WsStep, OnDeviceReady, OnDeviceOffline, OnDeviceDeleted, OnBatteryUpdated,
         ReadyList, ReadyGate, ReadyStabilize, ReadyCreate, DeletedList, DeletedDelete,
         BatteryList, BatteryCreate, flagVars
  <2> QED
    BY <1>1, <1>2, <1>4, <2>1, WsHandsOver
<1>5. CASE (\E k \in Settlers : SettlerStep(k)) \/ (\E u \in Uids : RebooterStep(u))
  <2>1. rebooting' \subseteq rebooting
    BY <1>5, SettlerMoves, RebooterFlags
  <2> QED
    BY <1>1, <1>2, <1>5, <2>1, WorkersHandOver
<1>6. CASE HubStep \/ Reconnected \/ (\E t \in Serials : PodStep(t)) \/ UNCHANGED vars
  <2>1. UNCHANGED rebooting
    BY <1>6 DEF HubStep, Reconnected, PodStep, managerVars, flagVars, vars
  <2> QED
    BY <1>2, <1>6, <2>1, WorldHandsOver
<1>7. CASE Restart
  BY <1>7 DEF Restart
<1> QED
  BY <1>3, <1>4, <1>5, <1>6, <1>7 DEF Next

\* While no call fails and deletions take effect at once, a device never waits for
\* a reboot that nobody will end: the wait passes from CheckPods to the reboot, to
\* the phone, to its announcement and to the settler, and at no step, unplugging,
\* reconnect, forgotten device or restart of the process does it fall between two
\* of them (manager.go 391-409).
THEOREM RebootingOwned ==
  ASSUME ~Graceful
  PROVE  Spec => []RebootingHasOwner
<1>1. Init => /\ Announced /\ StabilizingHasOneWaiter /\ NoneDying /\ Candidates
              /\ FirstMeeting /\ FarewellIsOld /\ RebootingHasOwner
  <2> SUFFICES ASSUME Init
               PROVE  /\ Announced /\ StabilizingHasOneWaiter /\ NoneDying /\ Candidates
                      /\ FirstMeeting /\ FarewellIsOld /\ RebootingHasOwner
    OBVIOUS
  <2>1. Announced
    <3>1. welcome = Online /\ inbox = <<>>
      BY DEF Init, FeedInit
    <3> QED
      BY <3>1 DEF Announced, WillKnow, NoneOf
  <2>2. StabilizingHasOneWaiter
    <3>1. \A s : NoSettler # [stage |-> "sleep", serial |-> s]
      BY DEF NoSettler
    <3>2. stabilizing = {} /\ \A k \in Settlers : settlers[k] = NoSettler
      BY DEF Init
    <3> QED
      BY <3>1, <3>2 DEF StabilizingHasOneWaiter
  <2>3. NoneDying
    BY DEF Init, PodInit, NoneDying, NoPod
  <2>4. Candidates
    BY DEF Init, PodInit, Candidates, Listed, CpIdle, WsIdle, NoSettler, NoRebooter, Exists
  <2>5. FirstMeeting /\ FarewellIsOld /\ RebootingHasOwner
    BY DEF Init, FirstMeeting, FarewellIsOld, RebootingHasOwner, Listed, CpIdle, WsIdle
  <2> QED
    BY <2>1, <2>2, <2>3, <2>4, <2>5
<1>2. /\ Typed /\ NoneDying /\ [Next]_vars => NoneDying'
      /\ Typed /\ Numbered /\ FirstMeeting /\ [Next]_vars => FirstMeeting'
  BY NextKeepsAlive, NextMeetsFirst
<1>3. Typed /\ OwnerInv /\ [Next]_vars => OwnerInv'
  BY <1>2, NextKeepsLedger, NextKeepsWaiters, NextAnnounces, NextKeepsNumbered,
     NextKeepsCandidates, NextSaysFarewell DEF OwnerInv
<1>4. Init => OwnerInv /\ RebootingHasOwner
  BY <1>1, InitLedger, InitNumbered DEF OwnerInv
<1> QED
  BY InitTyped, NextKeepsTypes, NextHandsOver, <1>3, <1>4, PTL DEF Spec
=============================================================================
