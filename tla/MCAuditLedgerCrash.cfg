CONSTANTS
  Projects = {p1}
  Contents = {c1, c2}
  MaxLegacy = 1
  MaxEntries = 2
  MaxFaults = 1
SPECIFICATION Spec
INVARIANTS
  TruncatedMeansTruncated
CHECK_DEADLOCK FALSE
