SPECIFICATION FairSpec
CONSTANTS
  Workers = {w1, w2}
  MaxFaults = 2
INVARIANTS
  TypeOK
  GrantedAtMostOnce
  GrantedOnlyIfPaid
  CompletedIsGranted
PROPERTIES
  PaidNeverReopened
  CompletedIsFinal
  ImplementsContract
  PaymentIsSettled
