SPECIFICATION Spec
CONSTANTS
  None = None
  d1 = d1
  k1 = k1
  Serials = {d1}
  Testable = {d1}
  Levels = {}
  MaxInbox = 1
  Unplugs = FALSE
  Forgets = TRUE
  Reconnects = FALSE
  MaxUid = 2
  MaxFaults = 1
  Graceful = TRUE
  Settlers = {k1}
  MaxEpoch = 2
  InsertMayFail = TRUE
CHECK_DEADLOCK FALSE
INVARIANTS TypeOK OneReportPerPod VerdictOwed NoGhosts
PROPERTIES BootVerdictOnce ImplementsLedger
