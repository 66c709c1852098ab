-------------------------- MODULE MCAutotradeSwitch --------------------------
EXTENDS AutotradeSwitch, TLC
CONSTANTS base, q50
\* Two arms, one of which offers a size.
MCChoices == (base :> {}) @@ (q50 :> {1})
Symmetry == Permutations(Requests)
=============================================================================
