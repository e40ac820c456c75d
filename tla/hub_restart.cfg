SPECIFICATION Spec
CONSTANTS
  None = None
  d1 = d1
  d2 = d2
  k1 = k1
  k2 = k2
  Serials = {d1, d2}
  Testable = {d1, d2}
  Levels = {}
  MaxInbox = 1
  Unplugs = FALSE
  Forgets = FALSE
  Reconnects = TRUE
  MaxUid = 2
  MaxFaults = 0
  Graceful = FALSE
  Settlers = {k1, k2}
  MaxEpoch = 2
  InsertMayFail = FALSE
SYMMETRY DeviceSymmetry
CHECK_DEADLOCK FALSE
INVARIANTS StabilizingHasOneWaiter KnowsOnline RebootingHasOwner CrashLosesOneResult
