----------------------- MODULE MCSystemOperationLock ------------------------
EXTENDS SystemOperationLock, TLC

OperationSymmetry == Permutations(Operations)

=============================================================================
