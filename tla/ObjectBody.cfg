\* Every chain of stages; any body may break, be corrupted or fail in yazl.
SPECIFICATION BodySpec
CONSTANTS
  NumEntries = 3
  NumChunks = 2
  Workers = 2
INVARIANTS
  ErrorReachesAppends
  ResolvedIsWhole
PROPERTIES
  UnheardOnlyInGaps
  AppendSettles
CHECK_DEADLOCK FALSE
