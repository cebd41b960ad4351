\* Seven objects, four at a time, in a budget of three bytes.
SPECIFICATION FairSpec
CONSTANTS
  w1 = w1
  w2 = w2
  w3 = w3
  w4 = w4
  Workers <- MCWorkers
  Sizes <- MCSizes
  MaxBytes = 3
  MaxArrivals = 7
INVARIANTS
  AccountingExact
  HeadDoesNotFit
PROPERTIES
  OvertakesOnlyIfSmaller
  EveryWaiterGranted
CHECK_DEADLOCK FALSE
