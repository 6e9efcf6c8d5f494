CONSTANTS
  p1 = p1
  p2 = p2
  t1 = t1
  t2 = t2
  s1 = s1
  s2 = s2
  Daemon = Daemon
  NoTree = NoTree
  Projects = {p1}
  Trees = {t1, t2}
  Kinds = {"static", "shared", "isolated"}
  Ops = {"deploy", "upload", "redeploy", "import", "promote", "unpromote", "teardown"}
  Slots = {s1}
  OneAtATime = TRUE
  MaxRequests = 2
  MaxFaults = 1
SPECIFICATION FairSpec
INVARIANTS
  ServedIsRecorded
PROPERTIES
  ComesToRest
CHECK_DEADLOCK FALSE
