----------------------------- MODULE MCEntryBook -----------------------------
EXTENDS EntryBook, TLC
Symmetry == Permutations(Coins) \cup Permutations(Drivers)
=============================================================================
