------------------------ MODULE MCInflightReservation ------------------------
(* Instances of InflightReservation for TLC. *)
EXTENDS InflightReservation, FiniteSetsExt, TLC

\* Counting units is adding up.
ASSUME TotalIsSum ==
  \A f \in [Requests -> 0..3], S \in SUBSET Requests :
    Total(f, S) = MapThenSumSet(LAMBDA s : f[s], S)

RequestSymmetry == Permutations(Requests)

=============================================================================
