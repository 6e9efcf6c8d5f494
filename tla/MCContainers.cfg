SPECIFICATION MCSpec
CONSTANTS
  s1 = s1
  s2 = s2
  c1 = c1
  c2 = c2
  other = other
  Projects = {p, q}
  Tags = {t}
  Digests = {d1, d2}
  MaxRequests = 2
  MaxFaults = 2
  Kinds = {"own", "shared"}
  Pool = 2
  Callers = {s1}
  Overlapping = {s1, s2}
  OverlapFaults = 1
  SerialRequests = 3
  OverlapRequests = 2
  Runtimes = {"deno", "bun", "node"}
  Isolates = TRUE
  RuntimeRequests = 3
  RuntimeFaults = 1
  Ids = {c1, c2, other}
  Others = {other}
  Clients = {s1, s2}
  SocketRequests = 3
  MaxEnds = 3
  MaxFailed = 1
  RouterRequests = 2
INVARIANTS TypesOK UnmovedIsTold PinHolds HoldsItsNeeds ToldIsTrue RoutesAreTrue ClientsListen
PROPERTIES ComesBack ServedOrStopped
CHECK_DEADLOCK FALSE
