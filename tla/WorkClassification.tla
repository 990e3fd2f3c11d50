------------------------- MODULE WorkClassification -------------------------
(***************************************************************************)
(* aota_work_classify: from facts about a piece of work to how deep it is  *)
(* planned, whether an architect looks at it and on which path it goes.    *)
(* It reads and writes nothing; the facts are those the orchestrator has   *)
(* gathered so far.  Reason codes and rationale texts are left out, as is  *)
(* the check of title, summary and workspace.                              *)
(***************************************************************************)
EXTENDS Integers, Sequences

CONSTANTS
  NoOverride,    \* the call has none
  Counts         \* bound: the numbers a count is raised to

VARIABLE facts   \* what is known of a piece of work

(***************************************************************************)
(* The facts.  A scale lists its levels from the least to the most.        *)
(***************************************************************************)
Bounds ==
  [estimated_work_items      |-> 1 .. 100, estimated_sessions   |-> 1 .. 100,
   estimated_duration_days   |-> 0 .. 3650, modules_touched     |-> 1 .. 1000,
   repositories_touched      |-> 1 .. 100, services_touched     |-> 0 .. 100,
   human_checkpoints_expected |-> 0 .. 100]

Flags ==
  {"has_dependencies", "has_milestones", "cross_session_required",
   "multiple_profiles_required", "new_durable_contract", "schema_change",
   "data_migration", "auth_or_security_change", "cross_service_protocol_change",
   "deployment_topology_change", "runtime_control_plane_change",
   "irreversible_change", "high_blast_radius", "production_runtime_impact",
   "rollback_required", "external_dependency_change", "novel_architecture",
   "competing_designs", "requested_plan", "requested_architect_review"}

Unsure == {"requirements_ambiguity", "technical_uncertainty"}
Scales ==
  [requirements_ambiguity |-> <<"low", "medium", "high">>,
   technical_uncertainty  |-> <<"low", "medium", "high">>,
   write_scope            |-> <<"none", "local", "multi_module", "cross_repository",
                                "runtime", "infrastructure">>,
   validation_scope       |-> <<"none", "syntax", "isolated", "integration",
                                "live", "end_to_end">>]

FactFields == DOMAIN Bounds \union Flags \union DOMAIN Scales

(* Of the right type, in range, on one of the levels; that a level is not  *)
(* known may be given as such for two of the scales.                       *)
WellGiven(f, n) ==
  IF n \in Flags THEN f[n] \in BOOLEAN
  ELSE IF n \in DOMAIN Bounds THEN f[n] \in Bounds[n]
  ELSE \/ \E i \in DOMAIN Scales[n] : f[n] = Scales[n][i]
       \/ f[n] = "unknown" /\ n \in Unsure

(* What is missing is asked for, before what is there is looked at.        *)
Unanswered(f) ==
  IF FactFields \ DOMAIN f # {} THEN FactFields \ DOMAIN f
  ELSE {n \in Unsure : f[n] = "unknown"}

Validated(f) ==
  IF DOMAIN f \ FactFields # {} THEN "error"
  ELSE IF FactFields \ DOMAIN f # {} THEN "needs_input"
  ELSE IF \E n \in FactFields : ~WellGiven(f, n) THEN "error"
  ELSE IF Unanswered(f) # {} THEN "needs_input" ELSE "classified"

(***************************************************************************)
(* The three axes, each from the least to the most.                        *)
(***************************************************************************)
P0 == 0
P1 == 1
P2 == 2
A0 == 0
A1 == 1
A2 == 2
Fast == 0
Standard == 1
Deep == 2

AnyOf(f, flags) == \E n \in flags : f[n]

FullPlan(f) ==
  \/ AnyOf(f, {"data_migration", "runtime_control_plane_change",
               "deployment_topology_change", "has_milestones"})
  \/ f.new_durable_contract /\ f.has_dependencies
  \/ f.repositories_touched >= 2 \/ f.services_touched >= 2
  \/ f.multiple_profiles_required /\ f.estimated_work_items >= 3
  \/ f.estimated_work_items >= 5 \/ f.estimated_sessions >= 4
  \/ f.human_checkpoints_expected >= 2
  \/ f.requested_plan /\ f.estimated_work_items >= 3

SingleBoundedTask(f) ==
  /\ f.estimated_work_items = 1 /\ f.estimated_sessions = 1
  /\ f.repositories_touched = 1 /\ f.services_touched <= 1
  /\ ~AnyOf(f, {"cross_session_required", "has_dependencies", "has_milestones",
                "requested_plan"})

Planning(f) ==
  IF FullPlan(f) THEN P2 ELSE IF SingleBoundedTask(f) THEN P0 ELSE P1

Wide == {"runtime", "infrastructure", "cross_repository"}

ReviewRequired(f) ==
  \/ AnyOf(f, {"auth_or_security_change", "data_migration", "irreversible_change",
               "runtime_control_plane_change", "deployment_topology_change",
               "cross_service_protocol_change", "high_blast_radius",
               "requested_architect_review"})
  \/ f.production_runtime_impact /\ f.rollback_required
  \/ f.novel_architecture /\ f.competing_designs
  \/ f.requirements_ambiguity = "high"
  \/ f.technical_uncertainty = "high" /\ f.write_scope \in Wide

ReviewAdvised(f) ==
  \/ AnyOf(f, {"new_durable_contract", "schema_change", "external_dependency_change",
               "novel_architecture", "competing_designs"})
  \/ \E n \in Unsure : f[n] = "medium"
  \/ f.repositories_touched >= 2 \/ f.services_touched >= 2
  \/ f.write_scope \in Wide
  \/ f.validation_scope \in {"integration", "live", "end_to_end"}

Architect(f) ==
  IF ReviewRequired(f) THEN A2 ELSE IF ReviewAdvised(f) THEN A1 ELSE A0

HighRisk(f) ==
  \/ AnyOf(f, {"auth_or_security_change", "data_migration", "irreversible_change",
               "runtime_control_plane_change", "deployment_topology_change",
               "high_blast_radius"})
  \/ f.validation_scope = "end_to_end"

SmallAndLocal(f) ==
  /\ f.write_scope \in {"none", "local"}
  /\ f.validation_scope \in {"none", "syntax", "isolated"}
  /\ ~f.production_runtime_impact
  /\ f.human_checkpoints_expected = 0

\* Mutation: the gate is not looked at, the facts alone make a path deep.
DeliveryByFacts(planning, architect, f) ==
  IF HighRisk(f) THEN Deep
  ELSE IF planning = P0 /\ architect = A0 /\ SmallAndLocal(f) THEN Fast ELSE Standard

Delivery(planning, architect, f) ==
  IF HighRisk(f) \/ architect = A2 THEN Deep
  ELSE IF planning = P0 /\ architect = A0 /\ SmallAndLocal(f) THEN Fast ELSE Standard

Derived(f) ==
  LET p == Planning(f)  a == Architect(f)
  IN [planning |-> p, architect |-> a, delivery |-> Delivery(p, a, f)]

Axes == {"planning", "architect", "delivery"}

(* An override names some of the axes; what it leaves out stays.           *)
Asked(derived, override) ==
  [a \in Axes |-> IF a \in DOMAIN override THEN override[a] ELSE derived[a]]

OverrideFits(derived, override) ==
  LET asked == Asked(derived, override)
  IN /\ DOMAIN override # {}
     /\ \A a \in Axes : asked[a] >= derived[a]
     /\ asked.architect = A2 => asked.delivery = Deep
     /\ asked.planning # P0 => asked.delivery # Fast

Status(f, override) ==
  IF /\ Validated(f) = "classified" /\ override # NoOverride
     /\ ~OverrideFits(Derived(f), override)
    THEN "error" ELSE Validated(f)

Classified(f, override) ==
  IF override = NoOverride THEN Derived(f) ELSE Asked(Derived(f), override)

-----------------------------------------------------------------------------
(* What a fact may turn out to be when the work is larger or riskier.      *)
Higher(n, v) ==
  IF n \in Flags THEN {TRUE} \ {v}
  ELSE IF n \in DOMAIN Bounds THEN {w \in Counts : w \in Bounds[n] /\ v < w}
  ELSE {Scales[n][j] : j \in {j \in DOMAIN Scales[n] :
                               \E i \in DOMAIN Scales[n] : i < j /\ Scales[n][i] = v}}

AllOverrides == UNION {[S -> 0 .. 2] : S \in SUBSET Axes}

(* Work that turns out larger or riskier is never planned less deeply, nor *)
(* reviewed less, nor sent on a faster path, save where high uncertainty   *)
(* about local work replaces medium, of which alone a review is advised;   *)
(* nor does an override do so.  Whatever it asks for, a required review    *)
(* goes with the deep path, and planned work is not on the fast one.       *)
NeverDowngraded ==
  Validated(facts) = "classified" =>
    LET base == Derived(facts)
    IN /\ \A n \in FactFields : \A v \in Higher(n, facts[n]) :
            LET raised == Derived([facts EXCEPT ![n] = v])
            IN \/ \A a \in Axes : base[a] <= raised[a]
               \/ /\ n = "technical_uncertainty" /\ v = "high"
                  /\ facts.write_scope \notin Wide
       /\ \A o \in AllOverrides \union {NoOverride} :
            Status(facts, o) = "classified" =>
              LET c == Classified(facts, o)
              IN /\ \A a \in Axes : c[a] >= base[a]
                 /\ c.architect = A2 => c.delivery = Deep
                 /\ c.delivery = Fast => c.planning = P0
=============================================================================
