-------------------------- MODULE BatchImageBilling --------------------------
(***************************************************************************)
(* The balance hold of one batch image job: the three transactions of      *)
(* repository/usage_billing_repo.go on the users row and on the table      *)
(* usage_billing_dedup.  Each claims its request id (hold, capture or      *)
(* release of the batch) and changes the row in one transaction, so a      *)
(* call is applied once and refused calls leave no claim.                  *)
(***************************************************************************)
EXTENDS Integers

CONSTANTS
  Amount,    \* hold_amount of the job
  Opening,   \* the most the user may have before the job
  Others     \* frozen_balance that belongs to other jobs of the user

ASSUME AmountAssumption == Amount \in Nat \ {0}
ASSUME OpeningAssumption == Opening \in Nat
ASSUME OthersAssumption == Others \in Nat

VARIABLES
  claims,    \* the request ids of the batch in usage_billing_dedup
  balance,   \* users.balance
  frozen,    \* users.frozen_balance
  charged,   \* history: what the capture has taken
  returned   \* history: what the release has given back

moneyVars == <<balance, frozen, charged, returned>>
billingVars == <<claims, balance, frozen, charged, returned>>

RequestIDs == {"hold", "capture", "release"}

BillingInit ==
  /\ claims = {} /\ balance \in 0..Opening /\ frozen = Others
  /\ charged = 0 /\ returned = 0

\* applyBatchImageBalanceHold: a claimed id succeeds without effect.
Applied(id, apply) ==
  IF id \in claims THEN UNCHANGED billingVars
  ELSE claims' = claims \cup {id} /\ apply

ReserveBatchImageBalance ==
  Applied("hold",
    /\ balance >= Amount
    /\ balance' = balance - Amount /\ frozen' = frozen + Amount
    /\ UNCHANGED <<charged, returned>>)

ReserveRefused == "hold" \notin claims /\ balance < Amount

CaptureBatchImageBalance(cost) ==
  Applied("capture",
    /\ cost <= Amount /\ frozen >= Amount
    /\ balance' = balance + (Amount - cost) /\ frozen' = frozen - Amount
    /\ charged' = charged + cost /\ UNCHANGED returned)

CaptureRefused(cost) == "capture" \notin claims /\ (cost > Amount \/ frozen < Amount)

\* Mutant: the release does not check that the hold was ever reserved.
PhantomRelease ==
  Applied("release",
    /\ frozen >= Amount
    /\ balance' = balance + Amount /\ frozen' = frozen - Amount
    /\ returned' = returned + Amount /\ UNCHANGED charged)

\* Without a reserved hold the release pays nothing, and claims its id all the same.
ReleaseBatchImageBalance ==
  Applied("release",
    IF "hold" \notin claims THEN UNCHANGED moneyVars
    ELSE /\ frozen >= Amount
         /\ balance' = balance + Amount /\ frozen' = frozen - Amount
         /\ returned' = returned + Amount /\ UNCHANGED charged)

ReleaseRefused == "release" \notin claims /\ "hold" \in claims /\ frozen < Amount

\* The money of the job is still frozen: neither captured nor given back.
HoldOpen == "hold" \in claims /\ "capture" \notin claims /\ returned = 0

=============================================================================
