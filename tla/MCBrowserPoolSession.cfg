SPECIFICATION Spec
CONSTANTS
  c1 = c1
  c2 = c2
  c3 = c3
  Renders = {c1, c2, c3}
  Bounded = {c1}
  Size = 2
  MaxFaults = 0
  MaxSweeps = 1
INVARIANT NobodySeesAnother
CHECK_DEADLOCK FALSE
