------------------------- MODULE MCConcurrencySlots -------------------------
(* Instances of ConcurrencySlots for TLC. *)
EXTENDS ConcurrencySlots

=============================================================================
