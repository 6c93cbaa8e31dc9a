\* When every request has ended and the caches are quiet nothing is left to do.
CHECK_DEADLOCK FALSE
SPECIFICATION Spec
CONSTANTS
  Requests = {r1, r2, r3}
  Estimates = {1, 2}
  Opening = 2
  Absent = Absent
  QueueSize = 1
  MaxFaults = 1
SYMMETRY RequestSymmetry
INVARIANTS
  NoJointOverdraft
  HeldUntilDeducted
  NoLeakedReservation
