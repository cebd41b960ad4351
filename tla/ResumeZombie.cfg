\* Three runs, two objects at a time: a rejected run's saves come late.
SPECIFICATION Spec
CONSTANTS
  a = a
  b = b
  NumObjects = 3
  Names <- MCNames
  Name <- MCName
  MaxRuns = 3
  Setups <- MCParallelSql
INVARIANT NoWorkTwice
CHECK_DEADLOCK FALSE
