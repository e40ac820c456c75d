------------------------------ MODULE DeviceFeed ------------------------------
(***************************************************************************)
(* The stream of device events as the hub-mode manager receives it: the    *)
(* hub-server (external), the WebSocket and the client of                  *)
(* vendor/xfarm.hub/hub-ws-client/hubws.go that dispatches one message at  *)
(* a time.  The handlers themselves are actions of HubManager, which       *)
(* EXTENDS this module and takes its messages with Receive.                *)
(*                                                                         *)
(* Left out: DEVICE ADD and STATUS UPDATE, which reach no handler that     *)
(* changes state, heartbeats, and malformed messages (logged and skipped). *)
(* The hub announces a device before its INFO, so the client's lookup of   *)
(* the device in its own map (hubws.go 247-255) always succeeds.           *)
(***************************************************************************)
EXTENDS Fleet, Integers, Sequences

CONSTANTS
  Levels,      \* battery percentages a device may report
  MaxInbox,    \* bound on messages sent and not yet dispatched
  Unplugs,     \* may a device go offline for a reason other than a reboot?
  Forgets,     \* may the hub tear down the peer of an offline device?
  Reconnects   \* may the WebSocket drop and reconnect?

ASSUME FeedAssumption ==
  /\ Levels \subseteq 0..100
  /\ MaxInbox \in Nat \ {0}
  /\ {Unplugs, Forgets, Reconnects} \subseteq BOOLEAN

VARIABLES
  hub,      \* what the hub-server knows of a device: gone, away or online
  due,      \* devices with an accepted reboot that has not taken them down yet
  inbox,    \* messages on their way to the client, oldest first
  welcome   \* devices of the last welcome still to be handed to OnDeviceReady

feedVars == <<hub, due, inbox, welcome>>

Unknown == -1                       \* INFO without a battery reading
InfoLevels == Levels \cup {Unknown}
Online == {s \in Serials : hub[s] = "online"}

Events == {"INFO ADD", "INFO DELETE", "DEVICE DELETE", "BATTERY UPDATE"}
Message == [event : Events, serial : Serials, level : InfoLevels]
Msg(e, s, l) == [event |-> e, serial |-> s, level |-> l]

FeedTypeOK ==
  /\ hub \in [Serials -> {"gone", "away", "online"}]
  /\ due \subseteq Serials
  /\ inbox \in Seq(Message)
  /\ welcome \subseteq Serials

\* Mutant: the devices of the welcome are not handed over.
MutNoHandOver ==
  /\ inbox' = <<>>
  /\ welcome' = {}

\* A fresh connection: nothing is in flight and the welcome lists the devices
\* that have sent their info (the others only reach OnDeviceConnected).
Connected ==
  /\ inbox' = <<>>
  /\ welcome' = Online

FeedInit ==
  /\ hub \in [Serials -> {"gone", "away", "online"}]
  /\ due = {}
  /\ inbox = <<>>
  /\ welcome = Online

----------------------------------------------------------------------------
(* The hub-server and the devices (external).                              *)

Send(m) ==
  /\ Len(inbox) < MaxInbox
  /\ inbox' = Append(inbox, m)

\* The peer of a plugged or rebooted device sends its info.
ComeOnline(s) ==
  /\ hub[s] # "online"
  /\ hub' = [hub EXCEPT ![s] = "online"]
  /\ \E l \in InfoLevels : Send(Msg("INFO ADD", s, l))
  /\ UNCHANGED <<due, welcome>>

\* The device drops off: a reboot it accepted takes effect, or it is unplugged.
GoOffline(s) ==
  /\ hub[s] = "online"
  /\ s \in due \/ Unplugs
  /\ hub' = [hub EXCEPT ![s] = "away"]
  /\ due' = due \ {s}
  /\ Send(Msg("INFO DELETE", s, Unknown))
  /\ UNCHANGED welcome

\* The peer pod of a device that stayed away is torn down.
Forget(s) ==
  /\ Forgets
  /\ hub[s] = "away"
  /\ hub' = [hub EXCEPT ![s] = "gone"]
  /\ Send(Msg("DEVICE DELETE", s, Unknown))
  /\ UNCHANGED <<due, welcome>>

Battery(s, l) ==
  /\ hub[s] = "online"
  /\ Send(Msg("BATTERY UPDATE", s, l))
  /\ UNCHANGED <<hub, due, welcome>>

Environment ==
  \E s \in Serials :
    \/ ComeOnline(s)
    \/ GoOffline(s)
    \/ Forget(s)
    \/ \E l \in Levels : Battery(s, l)

----------------------------------------------------------------------------
(* The client.                                                             *)

\* runOnce hands the devices of a welcome to OnDeviceReady one by one, in the
\* order of a Go map, before it reads the next message.
Receive(m) ==
  \/ /\ m.event = "INFO ADD"
     /\ m.serial \in welcome
     /\ welcome' = welcome \ {m.serial}
     /\ UNCHANGED <<hub, due, inbox>>
  \/ /\ welcome = {}
     /\ inbox # <<>>
     /\ m = Head(inbox)
     /\ inbox' = Tail(inbox)
     /\ UNCHANGED <<hub, due, welcome>>

\* The connection drops; what the hub sends until the client is back, five
\* seconds later, is lost.  The client notices when it reads its next message,
\* so a welcome is always handed over to its end.
Reconnect ==
  /\ Reconnects
  /\ welcome = {}
  /\ Connected
  /\ UNCHANGED <<hub, due>>

\* Nothing is left to hand to the handler.
Drained == inbox = <<>> /\ welcome = {}
=============================================================================
