\* Two objects through a window of two.
SPECIFICATION PoolSpec
CONSTANTS
  Concurrency = 2
  MaxObjects = 2
INVARIANT NoUnhandledRejection
CHECK_DEADLOCK FALSE
