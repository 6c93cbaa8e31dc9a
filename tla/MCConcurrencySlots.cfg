\* Once every request has ended nothing is left to do.
CHECK_DEADLOCK FALSE
SPECIFICATION FairSpec
CONSTANTS
  MaxRequests = 4
  Instances = {i1, i2}
  MaxConcurrency = 1
  QueueLimit = 2
  MaxFaults = 2
INVARIANTS
  RunningWithinLimit
  QueueWithinLimit
  NothingLeftBehind
PROPERTY
  CapacityReturns
