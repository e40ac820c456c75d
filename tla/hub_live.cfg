SPECIFICATION ChargingSpec
CONSTANTS
  None = None
  d1 = d1
  k1 = k1
  Serials = {d1}
  Testable = {d1}
  Levels = {30, 35}
  MaxInbox = 1
  Unplugs = TRUE
  Forgets = FALSE
  Reconnects = FALSE
  MaxUid = 2
  MaxFaults = 0
  Graceful = FALSE
  Settlers = {k1}
  MaxEpoch = 1
  InsertMayFail = FALSE
CHECK_DEADLOCK FALSE
PROPERTIES HandlersRespectBattery FlagCleared ResultsArrive DeferralEnds CycleContinues
