SPECIFICATION FairSpec
CONSTANTS
  None = None
  d1 = d1
  d2 = d2
  Serials = {d1, d2}
  Flaky = {d1, d2}
  Debugged = {d1}
  Returning = {d1}
  MaxFeed = 1
  Paths = {p1}
  p1 = p1
  Modes = {mtp, charge}
  mtp = mtp
  charge = charge
  Silent = {charge}
  Configs = {mtp}
  MaxFaults = 1
INVARIANTS TypeOK HistoryShowsSeen
PROPERTIES SwitchReachesCache TestModeServed
