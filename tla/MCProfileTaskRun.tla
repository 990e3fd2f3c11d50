-------------------------- MODULE MCProfileTaskRun --------------------------
(* Instances of ProfileTaskRun for TLC.  The actors are model values, and  *)
(* each configuration says which of them take part.  There is no symmetry: *)
(* the runs with two actors of one kind also check temporal properties.    *)
EXTENDS ProfileTaskRun

CONSTANTS s1, s2, c1, o1, o2, L
=============================================================================
