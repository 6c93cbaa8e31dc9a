------------------------ MODULE MCPaymentFulfillment ------------------------
(* Instances of PaymentFulfillment for TLC. *)
EXTENDS PaymentFulfillment

=============================================================================
