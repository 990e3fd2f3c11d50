--------------------------- MODULE MCTaskContract ---------------------------
(* Model values for TaskContract.                                          *)
EXTENDS TaskContract, TLC

CONSTANTS t1, t2, c1, c2, c3, b1, b2

Symmetry == Permutations(Callers) \union Permutations(Bodies)
=============================================================================
