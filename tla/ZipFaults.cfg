\* Fail-fast and best-effort runs, four objects three at a time.
SPECIFICATION FairSpec
CONSTANTS
  Concurrency = 3
  MaxObjects = 4
  GetCap = 1
  MaxBytes = 2
  Size <- MCSize
  Key <- RepeatedKey
  Setups <- MCSetups
INVARIANTS
  ExclusiveChain
  BudgetCoversBodies
  ResolvedRunIsComplete
  NothingRunsUnderTheManifest
PROPERTIES
  RepeatsOnlyInFlight
  RunSettles
CHECK_DEADLOCK FALSE
