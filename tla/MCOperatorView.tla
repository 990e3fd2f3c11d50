--------------------------- MODULE MCOperatorView ---------------------------
(* Instances of OperatorView for TLC: a task of the oldest schema and an   *)
(* architecture task, which the audit can judge.                           *)
EXTENDS OperatorLineage, TLC

CONSTANTS c1, a1, a2, h1, d1, d2, t1, src

SomeSources ==
    {[kind |-> "implementation", schema |-> 1, mode |-> "none"],
     [kind |-> "architecture", schema |-> 3, mode |-> "design_review"]}

Symmetry == Permutations(Callers) \union Permutations(DecisionIds)
=============================================================================
