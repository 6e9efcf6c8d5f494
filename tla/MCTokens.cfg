SPECIFICATION MCSpec
CONSTANTS
  Tokens = {t1, t2}
  Ttls = {0, 1, 2, 3}
  MaxTtl = 2
  MaxTime = 3
  MaxFaults = 2
  TunnelIds = {t1, t2}
  Timeouts = {0, 1, 2, 3}
  MaxTimeout = 2
  Visitors = {v1}
  t1 = t1
  t2 = t2
  v1 = v1
  Followed = t1
  MaxScope = 4
  MaxPath = 5
INVARIANTS KeptUntilEnded AllowedPartByPart
PROPERTIES TokensEndOnce TunnelsLiveOnce FilesGo RelaysEnd
CHECK_DEADLOCK FALSE
