\* Five objects, two slots, a read-ahead of four, ties and unscorable objects.
SPECIFICATION PrioritySpec
CONSTANTS
  Concurrency = 2
  BufferMax = 4
  Scores = {1, 2}
  Unscorable = Unscorable
  MaxObjects = 5
INVARIANTS
  WaitsOnlyWhenBusy
PROPERTIES
  BestFirst
  PoolReturns
CHECK_DEADLOCK FALSE
