-------------------------- MODULE MCBatchImageHold ---------------------------
(* Instances of BatchImageHold for TLC. *)
EXTENDS BatchImageHold

=============================================================================
