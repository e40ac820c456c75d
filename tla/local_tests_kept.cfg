SPECIFICATION Spec
CONSTANTS
  None = None
  d1 = d1
  Serials = {d1}
  Flaky = {}
  MaxFeed = 1
  MaxAppium = 2
  MaxTest = 2
  MaxFaults = 0
  Picky = {}
CHECK_DEADLOCK FALSE
PROPERTIES RunningTestsKept
