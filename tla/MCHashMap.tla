------------------------------ MODULE MCHashMap ------------------------------
(* HashMap on small tables, with every hash function to HashValues.        *)
EXTENDS HashMap, TLC

CONSTANTS k1, k2, k3

MCKeys == {k1, k2, k3}
AnyKeys == Permutations(MCKeys)
=============================================================================
