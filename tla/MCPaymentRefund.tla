--------------------------- MODULE MCPaymentRefund ---------------------------
(* Instances of PaymentRefund for TLC. *)
EXTENDS PaymentRefund, TLC

WorkerSymmetry == Permutations(Workers)

=============================================================================
