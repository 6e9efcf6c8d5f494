CONSTANTS
  Projects = {p1, p2}
  Contents = {c1, c2}
  MaxLegacy = 1
  MaxEntries = 2
  MaxFaults = 2
SPECIFICATION FairSpec
INVARIANTS
  UpMeansIntact
  ReplayCovers
  EditsDetected
PROPERTIES
  IsMeasuredLog
  Converges
CHECK_DEADLOCK FALSE
