SPECIFICATION FairSpec
CONSTANTS
  c1 = c1
  c2 = c2
  c3 = c3
  Renders = {c1, c2, c3}
  Bounded = {c1}
  Size = 2
  MaxFaults = 2
  MaxSweeps = 2
INVARIANTS OneHolder SeesOwnSession
PROPERTY WaitersServed
CHECK_DEADLOCK FALSE
