SPECIFICATION Spec
CONSTANTS
  Leases = {l1, l2}
  MaxConnections = 1
  TTL = 6
  Interval = 2
  OpTimeout = 1
SYMMETRY LeaseSymmetry
INVARIANTS
  OverrunIsBounded
  LimitHolds
  LostOnlyAfterFailure
  OccupiedMeansThere
