\* Two runs of a job of three objects into one file.
SPECIFICATION Spec
CONSTANTS
  a = a
  b = b
  NumObjects = 3
  Names <- MCNames
  Name <- MCName
  MaxRuns = 2
  Setups <- MCOneByOne
INVARIANT ResumedFileIsWhole
CHECK_DEADLOCK FALSE
