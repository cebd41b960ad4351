\* Two runs of a job of three objects, each way of setting it up.
SPECIFICATION Spec
CONSTANTS
  a = a
  b = b
  NumObjects = 3
  Names <- MCNames
  Name <- MCName
  MaxRuns = 2
  Setups <- MCSetups
INVARIANTS
  StoreNeverAhead
  NothingForgotten
  DedupeSpansRuns
  NoWorkTwiceInSequence
CHECK_DEADLOCK FALSE
