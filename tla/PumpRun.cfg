\* Every caller, every source, from the options to the outcome.
SPECIFICATION Spec
CONSTANTS
  Absent = Absent
  NaN = NaN
  Junk = Junk
  Malformed = Malformed
  MaxObjects = 3
  PageSize = 2
  BufferMax = 2
  MaxMoves = 2
  Requests <- MCRequests
  Situations <- MCSituations
  Skippable <- MCSkippable
  Name <- MCName
INVARIANTS
  LossNeedsAnAbort
  OutcomesAddUp
  MeterPartitionsWall
  DuplicatesFound
PROPERTY RunSettles
CHECK_DEADLOCK FALSE
