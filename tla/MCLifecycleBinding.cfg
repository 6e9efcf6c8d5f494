CONSTANTS
  p1 = p1
  p2 = p2
  t1 = t1
  t2 = t2
  s1 = s1
  s2 = s2
  Daemon = Daemon
  NoTree = NoTree
  Projects = {p1}
  Trees = {t1, t2}
  Kinds = {"isolated"}
  Ops = {"redeploy", "promote"}
  Slots = {s1, s2}
  OneAtATime = FALSE
  MaxRequests = 2
  MaxFaults = 0
SPECIFICATION Spec
INVARIANTS
  BoundIsServed
CHECK_DEADLOCK FALSE
