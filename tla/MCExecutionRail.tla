--------------------------- MODULE MCExecutionRail ---------------------------
EXTENDS ExecutionRail, TLC
Symmetry == Permutations(Workers) \cup Permutations(Exits)
=============================================================================
