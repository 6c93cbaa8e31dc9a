-------------------------- MODULE PaymentContract ---------------------------
(***************************************************************************)
(* What the payment service promises for one order: money comes in, the    *)
(* purchase is granted once, the inviter's rebate is accrued once and after*)
(* the purchase, and only then is the order settled.  None of these steps  *)
(* is ever undone.                                                         *)
(***************************************************************************)
EXTENDS Naturals

VARIABLES received, grants, rebates, settled

vars == <<received, grants, rebates, settled>>

Init == received = FALSE /\ grants = 0 /\ rebates = 0 /\ settled = FALSE

Receive ==
  /\ ~received /\ received' = TRUE
  /\ UNCHANGED <<grants, rebates, settled>>

Grant ==
  /\ received /\ grants = 0 /\ grants' = 1
  /\ UNCHANGED <<received, rebates, settled>>

Rebate ==
  /\ grants = 1 /\ rebates = 0 /\ rebates' = 1
  /\ UNCHANGED <<received, grants, settled>>

Settle ==
  /\ grants = 1 /\ rebates = 1 /\ ~settled /\ settled' = TRUE
  /\ UNCHANGED <<received, grants, rebates>>

Next == Receive \/ Grant \/ Rebate \/ Settle

Spec == Init /\ [][Next]_vars

=============================================================================
