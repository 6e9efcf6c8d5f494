CONSTANTS
  p1 = p1
  t1 = t1
  t2 = t2
  s1 = s1
  s2 = s2
  Daemon = Daemon
  NoTree = NoTree
  Projects = {p1}
  Trees = {t1, t2}
  Hashes = {t1, t2}
  Kinds = {"static"}
  Ops = {"upload", "promote"}
  Slots = {s1}
  OneAtATime = FALSE
  MaxRequests = 1
  MaxFaults = 0
  Components = {"evidence"}
SPECIFICATION MCSpec
INVARIANTS
  CliWorks
CHECK_DEADLOCK FALSE
