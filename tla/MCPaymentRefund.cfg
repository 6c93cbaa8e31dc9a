\* A refunded order is at rest: nothing more has to happen.
CHECK_DEADLOCK FALSE
SPECIFICATION Spec
CONSTANTS
  Workers = {w1, w2}
  Amount = 2
  MaxBalance = 3
  MaxDeficit = 1
  MaxFaults = 1
SYMMETRY WorkerSymmetry
INVARIANTS
  TypeOK
  RefundedMeansReturned
  RefundIsExclusive
  TakenIsAccountedFor
  TakenAtMostAmount
PROPERTIES
  RefundedIsFinal
  RefundNeverOverdraws
