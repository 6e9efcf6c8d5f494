SPECIFICATION MCSpec
CONSTANTS
  s1 = s1
  s2 = s2
  c1 = c1
  c2 = c2
  none = none
  e1 = e1
  Projects = {"a", "t"}
  Ports = {8080, 9000, 70000}
  PathPort = 8080
  IngressPort = 8080
  Unbindable = {70000}
  Kinds = {"own", "isolated", "shared"}
  Slots = {s1, s2}
  OneAtATime = FALSE
  MaxRequests = 2
  MaxFaults = 2
  Listed = {1, 2}
  Commits = {c1, c2}
  Callers = {s1}
  Envs = {none, e1}
  MaxPushes = 1
  RestoreRequests = 3
  RestoreFaults = 1
INVARIANTS TypesOK ReachesOwn RestoredAtPins
PROPERTIES BootStopsOnlyFor ChangesAreAsked ComesBack
CHECK_DEADLOCK FALSE
