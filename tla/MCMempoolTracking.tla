-------------------------- MODULE MCMempoolTracking --------------------------
EXTENDS MempoolTracking

Symmetry == Permutations(Tx)
=============================================================================
