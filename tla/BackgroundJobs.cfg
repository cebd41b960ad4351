\* Four jobs under two ids; clear() at any time.
SPECIFICATION FairSpec
CONSTANTS
  Ids = {id1, id2}
  Jobs = {j1, j2, j3, j4}
  None = None
INVARIANTS
  OnlyOrphansIntrude
  AnswersMatchTheRun
PROPERTIES
  EveryJobSettles
