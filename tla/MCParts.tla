------------------------------ MODULE MCParts -------------------------------
(***************************************************************************)
(* Instances for TLC of the parts that stand by themselves: the form of a  *)
(* SPEC, the report of a role, the link of a projected plugin, the         *)
(* deployment of the package and the classification of work.  A behaviour  *)
(* is about one of them, the variables of the others stay as they are.     *)
(***************************************************************************)
EXTENDS SpecForm, RoleReport, SymlinkProjection, PackageDeploy, WorkClassification, TLC

CONSTANTS o1, o2, call1, call2,
          Ill        \* what no fact can be

VARIABLE topic

vars == <<specVars, reportVars, deployVars, topic, layout, facts>>

Symmetry == Permutations({o1, o2}) \union Permutations({call1, call2})

-----------------------------------------------------------------------------
(***************************************************************************)
(* The contracts TLC tries: what a careful author fills in, with at most   *)
(* two of its fields changed, or one and a field that does not belong.     *)
(***************************************************************************)
Careful(kind, mode) ==
  LET fields == FieldsFor(kind, mode)
  IN [n \in {n \in DOMAIN fields : fields[n].required}
              \union (IF kind = "implementation"
                      THEN {"max_changed_files", "forbidden_operations"} ELSE {})
        |-> "fit"]

Strangers(kind) ==
  IF kind = "review" THEN {"required_changes"} ELSE {"verdict_rules"}

Names(kind, mode) ==
  DOMAIN FieldsFor(kind, mode) \union Strangers(kind)
    \union (IF kind = "implementation" THEN DOMAIN BudgetFields ELSE {})

FieldNamed(kind, mode, n) ==
  (FieldsFor(kind, mode) @@ BudgetFields)[n]

\* What TLC tries for a field; a stranger is only there or not.
ValuesOf(kind, mode, n) ==
  {"absent"} \union
    (IF n \in Strangers(kind) THEN {"fit"} ELSE ClassesOf(FieldNamed(kind, mode, n)))

Changed(kind, mode, c, n, v) ==
  IF v = "absent" THEN [x \in DOMAIN c \ {n} |-> c[x]] ELSE (n :> v) @@ c

\* Sub-fields are there only if the dict is.
Formed(c) ==
  IF Given(c, "change_budget") = "fit" THEN c
  ELSE [x \in DOMAIN c \ DOMAIN BudgetFields |-> c[x]]

CareTexts(kind) ==
  [read_scope |-> {}, texts |-> "fit", forbidden_scope |-> {},
   write_scope |-> IF kind = "implementation" THEN {"src"} ELSE {},
   process_path |-> "null", validation_tier |-> "null",
   human_checkpoints |-> "empty"]

Patches(kind) ==
  [{"read_scope"} -> {{"src"}, {"bad"}}]
    \union [{"write_scope"} -> SUBSET {"src", "lib", "bad"}]
    \union [{"forbidden_scope"} -> SUBSET {"src", "lib", "bad"}]
    \union [{"process_path", "validation_tier"} -> {"fit", "foreign"}]
    \union [{"human_checkpoints"} -> {"empty", "fit", "foreign"}]
    \union [{"texts"} -> {"fit", "over", "bulky"}]

CreateAny ==
  \E km \in KindsAndModes :
    LET kind == km[1]  mode == km[2]
        care == Careful(kind, mode)
    IN \/ \E n1 \in Names(kind, mode), n2 \in DOMAIN care :
          \E v1 \in ValuesOf(kind, mode, n1), v2 \in ValuesOf(kind, mode, n2) :
            Create(kind, mode,
              CareTexts(kind) @@ [role_contract |->
                Formed(Changed(kind, mode,
                         Changed(kind, mode, care, n1, v1), n2, v2))])
       \/ \E p \in Patches(kind) :
            Create(kind, mode, p @@ CareTexts(kind) @@ [role_contract |-> care])

UpdateAny ==
  /\ task # NoTask
  /\ \/ \E p \in Patches(task.kind) : Update(p)
     \/ \E n \in Names(task.kind, task.mode) :
        \E v \in ValuesOf(task.kind, task.mode, n) :
          Update([role_contract |->
            Formed(Changed(task.kind, task.mode,
                           Careful(task.kind, task.mode), n, v))])

(***************************************************************************)
(* The trees TLC tries: as the contract has them, with any entry in place  *)
(* of the link, one unusual entry anywhere, and one more at the target or  *)
(* beside it.                                                              *)
(***************************************************************************)
Plain == [p \in Paths |-> IF p = Logical THEN Global ELSE "dir"]

\* Where the tree is not asked about, it is one the first look turns down.
Refused == (Root :> "outside") @@ Plain

Unusual == {"missing", "file"} \union Paths

FindTree ==
  /\ layout = Plain
  /\ \E l, e, d \in Unusual \union {"dir"},
        p \in Paths \ {Logical, "outside"}, q \in {Global, "spare"} :
       layout' = (Logical :> l) @@ (p :> e) @@ (q :> d) @@ Plain

(***************************************************************************)
(* The facts TLC tries: a small piece of work, with any two facts changed  *)
(* or missing.                                                             *)
(***************************************************************************)
SmallWork ==
  [n \in FactFields |->
     CASE n \in Flags -> FALSE
       [] n \in DOMAIN Scales -> Scales[n][1]
       [] n \in {"estimated_duration_days", "services_touched",
                 "human_checkpoints_expected"} -> 0
       [] OTHER -> 1]

\* The numbers beside which a rule changes its mind.
FewCounts == 0 .. 5

LevelsOf(n) ==
  CASE n \in Flags -> BOOLEAN
    [] n \in DOMAIN Scales -> {Scales[n][i] : i \in DOMAIN Scales[n]}
    [] OTHER -> {v \in Counts : v \in Bounds[n]}

\* A fact may also be missing, not known, of no use, or not asked for.
Told(f, n) ==
  {[x \in DOMAIN f \ {n} |-> f[x]], (n :> Ill) @@ f, ("color" :> TRUE) @@ f}
    \union {(n :> v) @@ f : v \in LevelsOf(n)}
    \union (IF n \in DOMAIN Scales THEN {(n :> "unknown") @@ f} ELSE {})

FindFacts ==
  /\ facts = SmallWork
  /\ \E m \in FactFields : \E f \in Told(facts, m) :
       \E n \in FactFields : facts' \in Told(f, n)

-----------------------------------------------------------------------------
Init ==
  /\ topic \in {"spec", "report", "link", "deploy", "work"}
  /\ layout = IF topic = "link" THEN Plain ELSE Refused
  /\ facts = IF topic = "work" THEN SmallWork ELSE <<>>
  /\ SpecInit /\ DeployInit
  /\ ReportInit /\ (topic # "report" => role = "coder")

Next ==
  \/ /\ topic = "spec"
     /\ CreateAny \/ UpdateAny
     /\ UNCHANGED <<reportVars, deployVars, topic, layout, facts>>
  \/ /\ topic = "report" /\ ReportNext
     /\ UNCHANGED <<specVars, deployVars, topic, layout, facts>>
  \/ /\ topic = "link" /\ FindTree
     /\ UNCHANGED <<specVars, reportVars, deployVars, topic, facts>>
  \/ /\ topic = "deploy" /\ DeployNext
     /\ UNCHANGED <<specVars, reportVars, topic, layout, facts>>
  \/ /\ topic = "work" /\ FindFacts
     /\ UNCHANGED <<specVars, reportVars, deployVars, topic, layout>>

Spec == Init /\ [][Next]_vars
=============================================================================
