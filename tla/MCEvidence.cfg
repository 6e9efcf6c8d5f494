CONSTANTS
  p1 = p1
  t1 = t1
  t2 = t2
  s1 = s1
  s2 = s2
  Daemon = Daemon
  NoTree = NoTree
  Projects = {p1}
  Trees = {t1, t2}
  Hashes = {t1, t2}
  Kinds = {"static"}
  Ops = {"deploy", "upload", "redeploy", "import", "promote", "unpromote"}
  Slots = {s1, s2}
  OneAtATime = FALSE
  MaxRequests = 2
  MaxFaults = 1
  Components = {"handlers", "evidence"}
SPECIFICATION MCSpec
SYMMETRY Symmetry
INVARIANTS
  TypesOK
  BindingMatchesRecord
  LedgerTellsRecord
  BundleBindsItsSource
  CalmBundleIsTold
  NoLegFallsSilent
PROPERTIES
  EntryTellsRecord
CHECK_DEADLOCK FALSE
