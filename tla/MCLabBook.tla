------------------------------ MODULE MCLabBook ------------------------------
EXTENDS LabBook, TLC
Symmetry == Permutations(Coins)
=============================================================================
