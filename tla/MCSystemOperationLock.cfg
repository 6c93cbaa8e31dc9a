\* At the end of the bounded clock no operation need be running.
CHECK_DEADLOCK FALSE
SPECIFICATION LockSpec
CONSTANTS
  Operations = {update, rollback, restart}
  None = None
  Lease = 3
  Ttl = 4
  MaxClock = 4
  MaxAcquire = 3
  MaxFailures = 2
SYMMETRY OperationSymmetry
INVARIANTS
  CreatorKeepsLock
