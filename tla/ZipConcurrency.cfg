\* Three calls under a cap of three, lowered by up to three throttles, or by
\* two slow samples in a row and raised by three fast ones.
SPECIFICATION CFairSpec
CONSTANTS
  j1 = j1
  j2 = j2
  j3 = j3
  Jobs <- MCJobs
  InitialConcurrency = 3
  RecoveryTickMs = 15
  RecoveryQuietMs = 15
  MaxThrottles = 3
  BreachesToDecrease = 2
  SamplesToIncrease = 3
  ControllerMinCap = 2
INVARIANTS
  NoIdleSlot
  TimerExact
PROPERTIES
  Fifo
  Hysteresis
  EveryWaiterStarts
  CapRecovers
CHECK_DEADLOCK FALSE
