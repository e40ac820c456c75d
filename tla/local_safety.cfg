SPECIFICATION Spec
CONSTANTS
  None = None
  d1 = d1
  Serials = {d1}
  Flaky = {d1}
  MaxFeed = 1
  MaxAppium = 2
  MaxTest = 2
  MaxFaults = 0
  Picky = {d1}
CHECK_DEADLOCK FALSE
INVARIANTS TypeOK OneReportPerTest RebootingHasOwner VerdictOwed
PROPERTIES BootVerdictOnce ImplementsLedger
