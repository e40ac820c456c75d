-------------------------------- MODULE PodApi --------------------------------
(***************************************************************************)
(* The Kubernetes API as internal/k8s/client.go calls it, and the kubelet  *)
(* behind it (external).  A device's pod is always named after its serial, *)
(* so there is at most one pod object for each device; every object has a  *)
(* UID of its own.  Each operator is one API call and changes podVars only.*)
(*                                                                         *)
(* A call may fail while the budget of faults lasts.  A call that reports  *)
(* an error after it took effect needs no case of its own: the callers     *)
(* ignore the errors of DELETE and POST.                                   *)
(***************************************************************************)
EXTENDS Fleet, Naturals

CONSTANTS
  MaxUid,      \* bound on pods ever created; the quota is exhausted after it
  MaxFaults,   \* bound on failing calls
  Graceful     \* does a deleted pod terminate for a while before it is gone?

ASSUME PodAssumption ==
  /\ MaxUid \in Nat \ {0}
  /\ MaxFaults \in Nat
  /\ Graceful \in BOOLEAN

VARIABLES
  pod,       \* the pod of each device, NoPod if there is none
  nextUid,   \* UID of the next pod created
  faults     \* calls that may still fail

podVars == <<pod, nextUid, faults>>

Uids == 1..MaxUid
NoPod == [uid |-> 0, phase |-> "none", dying |-> FALSE]

Pods == [uid : Uids, phase : {"active", "done"}, dying : BOOLEAN]

PodTypeOK ==
  /\ pod \in [Serials -> Pods \cup {NoPod}]
  /\ nextUid \in 1..(MaxUid + 1)
  /\ faults \in 0..MaxFaults

PodInit ==
  /\ pod = [s \in Serials |-> NoPod]
  /\ nextUid = 1
  /\ faults = MaxFaults

----------------------------------------------------------------------------
(* Calls of the client.                                                    *)

CallFails ==
  /\ faults > 0
  /\ faults' = faults - 1
  /\ UNCHANGED <<pod, nextUid>>

\* What ListPods returns for one device, and for all: a terminating pod is listed.
Exists(s) == pod[s] # NoPod

\* "active" is a pod whose tests container has not terminated.  "done" is a pod
\* in phase Succeeded or Failed, or Running with a terminated tests container.
Completed == {s \in Serials : pod[s].phase = "done"}

CreatePod(s) ==
  \/ /\ ~Exists(s)
     /\ nextUid <= MaxUid
     /\ pod' = [pod EXCEPT ![s] = [uid |-> nextUid, phase |-> "active", dying |-> FALSE]]
     /\ nextUid' = nextUid + 1
     /\ UNCHANGED faults
  \/ /\ Exists(s) \/ nextUid > MaxUid     \* 409 AlreadyExists, or out of quota
     /\ UNCHANGED podVars
  \/ CallFails

\* By name: whichever pod now has the name goes.  A 404 counts as success.
DeletePod(s) ==
  \/ /\ ~Exists(s)
     /\ UNCHANGED podVars
  \/ /\ Exists(s)
     /\ pod' = [pod EXCEPT ![s] = IF Graceful THEN [@ EXCEPT !.dying = TRUE] ELSE NoPod]
     /\ UNCHANGED <<nextUid, faults>>
  \/ CallFails

----------------------------------------------------------------------------
(* The kubelet (external).                                                 *)

\* The tests container terminates, by itself or because the pod is deleted.
Finish(s) ==
  /\ pod[s].phase = "active"
  /\ pod' = [pod EXCEPT ![s].phase = "done"]
  /\ UNCHANGED <<nextUid, faults>>

\* The grace period of a deleted pod is over.
PodGone(s) ==
  /\ pod[s].dying
  /\ pod' = [pod EXCEPT ![s] = NoPod]
  /\ UNCHANGED <<nextUid, faults>>
=============================================================================
