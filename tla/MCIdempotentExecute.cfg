\* At the end of the bounded clock no request need be running.
CHECK_DEADLOCK FALSE
SPECIFICATION Spec
CONSTANTS
  Requests = {r1, r2}
  Payloads = {p1, p2}
  None = None
  Detached = {r2}
  Lease = 1
  Ttl = 2
  Backoff = 1
  MaxClock = 4
  MaxFaults = 2
SYMMETRY PayloadSymmetry
INVARIANTS
  TypeOK
  OneExecutor
  OneEffect
  ReplayMatches
