SPECIFICATION FairSpec
CONSTANTS
  Pages = {b1}
  b1 = b1
  Writers = {w1, w2}
  w1 = w1
  w2 = w2
  Refreshes = {r1, r2}
  r1 = r1
  r2 = r2
  MaxVersion = 3
  MaxWire = 2
  MaxFailures = 1
PROPERTIES ChangesShown
INVARIANTS TypeOK NoLostWakeup RestingPageCurrent
