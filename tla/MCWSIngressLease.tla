-------------------------- MODULE MCWSIngressLease --------------------------
EXTENDS WSIngressLease, TLC

\* Which connection is which does not matter.
LeaseSymmetry == Permutations(Leases)

=============================================================================
