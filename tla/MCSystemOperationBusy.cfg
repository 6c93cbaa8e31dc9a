\* At the end of the bounded clock no operation need be running.
CHECK_DEADLOCK FALSE
SPECIFICATION LockSpec
CONSTANTS
  Operations = {update, rollback}
  None = None
  Lease = 3
  Ttl = 8
  MaxClock = 6
  MaxAcquire = 0
  MaxFailures = 0
SYMMETRY OperationSymmetry
INVARIANT OneSystemOperation
