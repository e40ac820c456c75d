SPECIFICATION Spec
CONSTANTS
  None = None
  d1 = d1
  k1 = k1
  k2 = k2
  Serials = {d1}
  Testable = {d1}
  Levels = {}
  MaxInbox = 1
  Unplugs = TRUE
  Forgets = TRUE
  Reconnects = FALSE
  MaxUid = 2
  MaxFaults = 1
  Graceful = TRUE
  Settlers = {k1, k2}
  MaxEpoch = 1
  InsertMayFail = FALSE
SYMMETRY SlotSymmetry
CHECK_DEADLOCK FALSE
INVARIANTS LogsMatchPod
