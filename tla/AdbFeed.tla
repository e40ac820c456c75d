-------------------------------- MODULE AdbFeed -------------------------------
(***************************************************************************)
(* Local mode's view of the phones: the ADB server (external), the         *)
(* `adb devices` command and the track-devices connection of               *)
(* internal/adb/client.go, with the deduplication main.go puts behind it.  *)
(*                                                                         *)
(* A device list is a function from serials to ADB states, "none" for a    *)
(* device that is not in the list.  Models are left out.                   *)
(***************************************************************************)
EXTENDS Fleet, Naturals, Sequences

CONSTANTS
  Flaky,     \* devices that come and go
  MaxFeed    \* bound on lists sent and not yet read

ASSUME AdbAssumption ==
  /\ Flaky \subseteq Serials
  /\ MaxFeed \in Nat \ {0}

VARIABLES
  adb,           \* the devices the ADB server sees now
  tracking,      \* is the track-devices connection open?
  feed,          \* lists sent on it, oldest first
  prevSnapshot   \* the list the callback saw last

adbVars == <<adb, tracking, feed, prevSnapshot>>

AdbStates == {"none", "offline", "device"}
Lists == [Serials -> AdbStates]
NoDevices == [s \in Serials |-> "none"]

\* IsReady
Ready(list) == {s \in Serials : list[s] = "device"}

AdbTypeOK ==
  /\ adb \in Lists
  /\ tracking \in BOOLEAN
  /\ feed \in Seq(Lists)
  /\ prevSnapshot \in Lists

AdbInit ==
  /\ adb \in {l \in Lists : \A s \in Serials \ Flaky : l[s] = "device"}
  /\ tracking = FALSE
  /\ feed = <<>>
  /\ prevSnapshot = NoDevices

\* A device appears, disappears or changes its state (external).
Change(s, state) ==
  /\ s \in Flaky
  /\ adb[s] # state
  /\ Len(feed) < MaxFeed
  /\ adb' = [adb EXCEPT ![s] = state]
  /\ feed' = IF tracking THEN Append(feed, adb') ELSE feed
  /\ UNCHANGED <<tracking, prevSnapshot>>

\* Mutant: onReconnect does not reset the snapshot.
MutReconnectKeeps ==
  /\ tracking' = TRUE
  /\ feed' = <<adb>>
  /\ UNCHANGED <<adb, prevSnapshot>>

\* TrackDevices connects anew: when it starts, after an error, and when the
\* server was silent for a minute.  onReconnect clears the snapshot to "", which
\* is also the snapshot of an empty list.
Reconnect ==
  /\ tracking' = TRUE
  /\ feed' = <<adb>>
  /\ prevSnapshot' = NoDevices
  /\ UNCHANGED adb

\* trackOnce hands the next list to the callback, which skips a list it knows.
Skip ==
  /\ feed # <<>>
  /\ Head(feed) = prevSnapshot
  /\ feed' = Tail(feed)
  /\ UNCHANGED <<adb, tracking, prevSnapshot>>

Deliver(list) ==
  /\ feed # <<>>
  /\ list = Head(feed)
  /\ list # prevSnapshot
  /\ feed' = Tail(feed)
  /\ prevSnapshot' = list
  /\ UNCHANGED <<adb, tracking>>
=============================================================================
