SPECIFICATION FairSpec
CONSTANTS
  None = None
  d1 = d1
  Serials = {d1}
  Flaky = {}
  MaxFeed = 1
  MaxAppium = 3
  MaxTest = 1
  MaxFaults = 2
  Picky = {}
CHECK_DEADLOCK FALSE
PROPERTIES EndedTestsLeave SignalsServed VerdictsArrive
