------------------------------ MODULE Containers ------------------------------
(***************************************************************************)
(* The Docker daemon as internal/docker/manager.go calls it (external).    *)
(* Containers are named appium-<serial> and tests-<serial>, so a device    *)
(* has at most one of each; every container has an ID of its own.          *)
(* Each operator is one API call and changes containerVars only.           *)
(***************************************************************************)
EXTENDS Fleet, Naturals, FiniteSets

CONSTANTS
  MaxAppium,   \* bound on Appium containers ever created
  MaxTest,     \* bound on test containers ever created
  MaxFaults    \* bound on failing calls

ASSUME ContainersAssumption ==
  /\ IsFiniteSet(Serials)
  /\ MaxAppium \in Nat \ {0}
  /\ MaxTest \in Nat \ {0}
  /\ MaxFaults \in Nat

VARIABLES
  appium,   \* the Appium container of each device
  test,     \* the test container of each device
  made,     \* how many of each were created
  faults    \* calls that may still fail

containerVars == <<appium, test, made, faults>>

TestIds == 1..MaxTest
Ports == 1..Cardinality(Serials)   \* 1 is BasePort
Statuses == {"created", "running", "exited"}

NoTest == [id |-> 0, status |-> "none"]
NoAppium == [id |-> 0, status |-> "none", port |-> 0]
TestContainers == [id : TestIds, status : Statuses] \cup {NoTest}
AppiumContainers == [id : 1..MaxAppium, status : Statuses, port : Ports] \cup {NoAppium}

ContainersTypeOK ==
  /\ appium \in [Serials -> AppiumContainers]
  /\ test \in [Serials -> TestContainers]
  /\ made \in [appium : 0..MaxAppium, test : 0..MaxTest]
  /\ faults \in 0..MaxFaults

\* The containers an earlier run of the process has left behind: none, an Appium
\* container, and with it a test that still runs or has ended.
ContainersInit ==
  \/ /\ appium = [s \in Serials |-> NoAppium]
     /\ test = [s \in Serials |-> NoTest]
     /\ made = [appium |-> 0, test |-> 0]
     /\ faults = MaxFaults
  \/ \E s \in Serials, status \in {"running", "exited"} :
       /\ appium = [[t \in Serials |-> NoAppium] EXCEPT ![s] =
                      [id |-> 1, status |-> "running", port |-> 1]]
       /\ test = [[t \in Serials |-> NoTest] EXCEPT ![s] = [id |-> 1, status |-> status]]
       /\ made = [appium |-> 1, test |-> 1]
       /\ faults = MaxFaults

----------------------------------------------------------------------------
CallFails ==
  /\ faults > 0
  /\ faults' = faults - 1
  /\ UNCHANGED <<appium, test, made>>

\* By ID; nothing happens if the container is gone.
RemoveAppium(s, id) ==
  \/ /\ appium' = [appium EXCEPT ![s] = IF @.id = id THEN NoAppium ELSE @]
     /\ UNCHANGED <<test, made, faults>>
  \/ CallFails

RemoveTest(s, id) ==
  \/ /\ test' = [test EXCEPT ![s] = IF @.id = id THEN NoTest ELSE @]
     /\ UNCHANGED <<appium, made, faults>>
  \/ CallFails

\* By name, whatever its ID.
RemoveTestByName(s) ==
  \/ /\ test' = [test EXCEPT ![s] = NoTest]
     /\ UNCHANGED <<appium, made, faults>>
  \/ CallFails

\* killPortHolder, which is no call of the daemon's: the Appium process that
\* listens on the port dies, and its container exits.
Killed(port) ==
  [s \in Serials |-> IF appium[s].status = "running" /\ appium[s].port = port
                     THEN [appium[s] EXCEPT !.status = "exited"] ELSE appium[s]]

----------------------------------------------------------------------------
(* What containers do by themselves (external).                            *)

TestEnds(s) ==
  /\ test[s].status = "running"
  /\ test' = [test EXCEPT ![s].status = "exited"]
  /\ UNCHANGED <<appium, made, faults>>

AppiumCrashes(s) ==
  /\ appium[s].status = "running"
  /\ faults > 0
  /\ faults' = faults - 1
  /\ appium' = [appium EXCEPT ![s].status = "exited"]
  /\ UNCHANGED <<test, made>>
=============================================================================
