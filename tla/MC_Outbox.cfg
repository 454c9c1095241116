CONSTANTS
  Event = {e1, e2}
  Worker = {w1, w2}
  NoEvent = NoEvent
  Batch = 2
  MaxAttempts = 2
  MaxFaults = 1
SPECIFICATION FairSpec
INVARIANTS
  TypeOK
  DistinctClaims
  RetryLimit
PROPERTIES
  KeepsPromise
  EventuallyRetired
CHECK_DEADLOCK FALSE
