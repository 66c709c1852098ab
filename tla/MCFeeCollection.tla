-------------------------- MODULE MCFeeCollection --------------------------
EXTENDS FeeCollection, TLC
\* A gain and a loss.
GainAndLoss == {-4, 4}
Symmetry == Permutations(Requests)
=============================================================================
