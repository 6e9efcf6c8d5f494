SPECIFICATION Spec
CONSTANTS
  Grants = {g1, g2}
  Projects = {p1}
  Secrets = {s1, s2}
  Ttls = {0, 1}
  Callers = {i1, i2}
  MaxTime = 2
  MaxUsage = 2
  MaxFaults = 1
INVARIANT RestartForgetsNothing
PROPERTY GrantsEndOnce
CHECK_DEADLOCK FALSE
