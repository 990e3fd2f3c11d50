----------------------------- MODULE MCProjects -----------------------------
(***************************************************************************)
(* Instances of ProjectRegistry and CodegraphIndex for TLC.  A behaviour   *)
(* is about one of the two.                                                *)
(***************************************************************************)
EXTENDS ProjectDesk, CodegraphIndex, TLC

CONSTANTS p1, p2, c1, c2, r1, r2, f1, f2, b1, b2
VARIABLE topic

(* Files of somebody else, nothing, a project whose manifest cannot be     *)
(* loaded, or one, made by hand or copied.                                 *)
SomeEdits ==
    [stage : {"empty", "other"}, id : {None}, text : {None}]
        \cup [stage : {"core"}, id : {None}, text : {"broken"}]
        \cup [stage : {"core"}, id : {p1, p2}, text : {"edited"}]

vars == <<registryVars, codegraphVars, topic>>

Init ==
    \/ topic = "registry" /\ RegistryInit /\ CodegraphIdle
    \/ topic = "codegraph" /\ RegistryInit /\ CodegraphInit
Next ==
    \/ topic = "registry" /\ RegistryNext /\ UNCHANGED <<codegraphVars, topic>>
    \/ topic = "codegraph" /\ CodegraphNext /\ UNCHANGED <<registryVars, topic>>
Spec == Init /\ [][Next]_vars

Symmetry == Permutations({p1, p2}) \cup Permutations({c1, c2}) \cup Permutations({b1, b2})
=============================================================================
