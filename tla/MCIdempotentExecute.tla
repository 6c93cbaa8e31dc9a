------------------------ MODULE MCIdempotentExecute -------------------------
EXTENDS IdempotentExecute, TLC

PayloadSymmetry == Permutations(Payloads)

=============================================================================
