SPECIFICATION FairSpec
CONSTANTS
  Layout <- MCLayout
  Histories <- MCHistories
  Rows = {4}
  ObjectBytes = 3
  ArenaBytes = 4
  PrefetchBytes = 6
  Integrities = {"sha256", "fast"}
  HotBudgets = {TRUE}
  Executors = {"native", "python"}
  Published = {1, 3}
  ReadWorkers = 2
  Faults = {"damage", "device", "launch", "dead"}
  MaxFaults = 1
  MaxRestores = 2
INVARIANTS
  LaunchedIntact
  ResumesExact
  NoLateWriter
  GivenUpForCause
PROPERTY RestoreReturns
CHECK_DEADLOCK FALSE
