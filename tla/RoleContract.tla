---------------------------- MODULE RoleContract ----------------------------
(***************************************************************************)
(* The role contract of a task: the part of a SPEC whose fields depend on  *)
(* the kind of work (_role_contracts.py), with the validators, the         *)
(* defaults and the two projections of it, one into SPEC.md and one into   *)
(* the worker's prompt.                                                    *)
(*                                                                         *)
(* A contract is a function from the names it holds to classes of values,  *)
(* which are what the validators can tell apart:                           *)
(*   "null"     JSON null                                                  *)
(*   "empty"    an empty list, dict or string                              *)
(*   "fit"      a value of the type, within its limits and enumeration;    *)
(*              of forbidden_operations one that names "delete", of        *)
(*              mutation_policy "readonly", of a flag TRUE                 *)
(*   "other"    as fit, but without "delete", not "readonly", or FALSE     *)
(*   "mixed"    a list in which an item is not a string                    *)
(*   "foreign"  a value, or an item, outside the enumeration               *)
(*   "over"     past a limit of length, number or size                     *)
(*   "sized"    of another type, and len() is defined on it                *)
(*   "unsized"  of another type, and len() raises                          *)
(* The sub-fields of the one dict are names of their own.                  *)
(***************************************************************************)
CONSTANTS NoMode      \* the task has no architecture mode

Classes == {"null", "empty", "fit", "other", "mixed", "foreign", "over", "sized", "unsized"}

Kinds == {"implementation", "diagnosis", "review", "architecture",
          "stewardship"}

Modes == {"design_review", "spec_preflight"}

(***************************************************************************)
(* The field tables.                                                       *)
(***************************************************************************)
FieldOf(type, enum, default) ==
  [type |-> type, enum |-> enum, default |-> default, required |-> FALSE]

Listed == FieldOf("list", FALSE, "empty")    \* free text, bounded

Chosen == FieldOf("list", TRUE, "empty")     \* items of an enumeration

Must(field) == [field EXCEPT !.required = TRUE]

\* The classes that what is given for a field can be told apart into; what has
\* no content is, for a flag or a number, of another type.
ClassesOf(field) ==
  {"null", "fit", "sized", "unsized"}
    \union (IF field.enum THEN {"foreign"} ELSE {})
    \union (IF field.type = "list" THEN {"empty", "other", "mixed", "over"} ELSE {})
    \union (IF field.type = "str" THEN {"empty", "other", "over"} ELSE {})
    \union (IF field.type = "bool" THEN {"other"} ELSE {})
    \union (IF field.type = "int" THEN {"over"} ELSE {})
    \union (IF field.type = "dict" THEN {"empty"} ELSE {})

ImplementationFields ==
  [required_changes |-> Must(Listed),
   behavioral_invariants |-> Listed,
   change_budget |-> Must(FieldOf("dict", FALSE, "empty")),
   allowed_validation_targets |-> Listed,
   forbidden_operations |-> Chosen,
   checkpoint_conditions |-> Listed,
   compatibility_requirements |-> Listed]

\* The sub-fields of change_budget; allow_create, allow_move and
\* allow_dependency_change are checked as allow_delete is and bind nothing.
BudgetFields ==
  [max_changed_files |-> Must(FieldOf("int", FALSE, "fit")),
   allow_delete |-> FieldOf("bool", FALSE, "other")]

DiagnosisFields ==
  [observed_symptoms |-> Must(Listed),
   reproduction_context |-> Listed,
   suspected_components |-> Listed,
   diagnostic_questions |-> Must(Listed),
   initial_hypotheses |-> Listed,
   evidence_plan |-> Listed,
   mutation_policy |-> FieldOf("str", TRUE, "fit"),
   confidence_expectation |-> FieldOf("str", TRUE, "fit")]

ReviewFields ==
  [artifacts_under_review |-> Must(Chosen),
   review_dimensions |-> Must(Chosen),
   acceptance_mapping_required |-> FieldOf("bool", FALSE, "other"),
   verdict_rules |-> Listed,
   inconclusive_conditions |-> Listed,
   independence_requirements |-> FieldOf("list", FALSE, "fit")]

ArchitectureCommonFields ==
  [review_questions |-> Must(Listed),
   constraints |-> Listed,
   risk_focus |-> Listed,
   gate_criteria |-> Must(Listed)]

ArchitectureDesignReviewFields ==
  [problem_statement |-> Must(Listed),
   proposed_design |-> Must(Listed),
   alternatives_considered |-> Listed,
   blast_radius |-> Listed,
   rollback_strategy |-> Listed,
   compatibility_strategy |-> Listed,
   unresolved_decisions |-> Listed,
   validation_strategy |-> Listed]

ArchitectureSpecPreflightFields == [preflight_dimensions |-> Must(Chosen)]

StewardshipFields ==
  [project_id |-> Must(FieldOf("str", FALSE, "empty")),
   allowed_project_artifacts |-> Must(Chosen),
   operation |-> Must(FieldOf("str", TRUE, "empty")),
   forbidden_actions |-> Must(Listed),
   work_item_id |-> FieldOf("str", FALSE, "empty")]

ModeFields(mode) ==
  CASE mode = "design_review"  -> ArchitectureDesignReviewFields
    [] mode = "spec_preflight" -> ArchitectureSpecPreflightFields
    [] OTHER                   -> << >>

\* A dict with what it lacks taken from another.
Filled(c, d) ==
  [n \in DOMAIN c \union DOMAIN d |-> IF n \in DOMAIN c THEN c[n] ELSE d[n]]

\* get_fields_for_kind: the merge of the common and the mode's fields.
FieldsFor(kind, mode) ==
  CASE kind = "implementation" -> ImplementationFields
    [] kind = "diagnosis"      -> DiagnosisFields
    [] kind = "review"         -> ReviewFields
    [] kind = "stewardship"    -> StewardshipFields
    [] kind = "architecture"   -> Filled(ModeFields(mode), ArchitectureCommonFields)

(***************************************************************************)
(* The projections: which fields SPEC.md shows and which the worker is     *)
(* told in its prompt.                                                     *)
(***************************************************************************)
RenderedAlways ==
  [implementation |->
     {"required_changes", "behavioral_invariants", "change_budget",
      "allowed_validation_targets", "compatibility_requirements",
      "forbidden_operations", "checkpoint_conditions"},
   diagnosis |->
     {"observed_symptoms", "reproduction_context", "suspected_components",
      "diagnostic_questions", "initial_hypotheses", "evidence_plan",
      "mutation_policy", "confidence_expectation"},
   review |->
     {"artifacts_under_review", "review_dimensions",
      "acceptance_mapping_required", "verdict_rules",
      "inconclusive_conditions", "independence_requirements"},
   stewardship |->
     {"project_id", "allowed_project_artifacts", "operation",
      "forbidden_actions", "work_item_id"}]

RenderedInMode ==
  [design_review |->
     {"problem_statement", "constraints", "proposed_design",
      "alternatives_considered", "blast_radius", "rollback_strategy",
      "compatibility_strategy", "unresolved_decisions",
      "validation_strategy", "review_questions", "gate_criteria",
      "risk_focus"},
   spec_preflight |->
     {"preflight_dimensions", "constraints", "risk_focus",
      "review_questions", "gate_criteria"}]

Rendered(kind, mode) ==
  IF kind # "architecture" THEN RenderedAlways[kind]
  ELSE IF mode \in Modes THEN RenderedInMode[mode] ELSE {}

PromptProjection ==
  [implementation |->
     {"required_changes", "behavioral_invariants", "change_budget",
      "forbidden_operations", "checkpoint_conditions",
      "allowed_validation_targets", "compatibility_requirements"},
   diagnosis |->
     {"observed_symptoms", "reproduction_context", "suspected_components",
      "diagnostic_questions", "initial_hypotheses", "evidence_plan",
      "mutation_policy", "confidence_expectation"},
   review |->
     {"artifacts_under_review", "review_dimensions",
      "acceptance_mapping_required", "inconclusive_conditions",
      "independence_requirements"},
   architecture |->
     {"review_questions", "gate_criteria", "constraints", "risk_focus"},
   stewardship |->
     {"project_id", "allowed_project_artifacts", "operation",
      "forbidden_actions", "work_item_id"}]

PromptProjectionInMode ==
  [design_review |->
     {"problem_statement", "proposed_design", "alternatives_considered",
      "blast_radius", "rollback_strategy", "compatibility_strategy",
      "unresolved_decisions", "validation_strategy"},
   spec_preflight |-> {"preflight_dimensions"}]

Prompted(kind, mode) ==
  PromptProjection[kind]
    \union (IF kind = "architecture" /\ mode \in Modes
            THEN PromptProjectionInMode[mode] ELSE {})

(***************************************************************************)
(* The validators.                                                         *)
(***************************************************************************)
Given(c, name) == IF name \in DOMAIN c THEN c[name] ELSE "null"

BadList(field, v) ==
  \/ v \in {"sized", "unsized", "over"}
  \/ field.enum /\ v \in {"foreign", "mixed"}

BadStr(field, v) ==
  \/ v \in {"sized", "unsized", "over"}
  \/ field.enum /\ v \in {"foreign", "empty"}

BadBool(v) == v \notin {"fit", "other"}

BadInt(v) == v # "fit"

\* A sub-field is wrong if it is needed and missing, or ill typed.
BadDict(c, v) ==
  \/ v \in {"sized", "unsized"}
  \/ \E name \in DOMAIN BudgetFields :
       LET field == BudgetFields[name]
           sub   == Given(c, name)
       IN IF sub = "null" THEN field.required
          ELSE IF field.type = "int" THEN BadInt(sub) ELSE BadBool(sub)

BadValue(c, name, field) ==
  LET v == c[name]
  IN /\ v # "null"
     /\ CASE field.type = "list" -> BadList(field, v)
          [] field.type = "str"  -> BadStr(field, v)
          [] field.type = "bool" -> BadBool(v)
          [] field.type = "dict" -> BadDict(c, v)

\* Null and what has no content do not meet a requirement; the length of a
\* number or a flag cannot be taken, which raises (see Raises).
Unmet(c, name, field) ==
  field.required /\ Given(c, name) \in {"null", "empty"}

\* validate_role_contract: the names it complains of.  A field of another
\* kind, of the other mode or of nobody is refused in the same way.
ContractErrors(kind, mode, c) ==
  LET fields == FieldsFor(kind, mode)
      names  == DOMAIN c \ DOMAIN BudgetFields
  IN   (names \ DOMAIN fields)
       \union {n \in names \intersect DOMAIN fields :
                 BadValue(c, n, fields[n])}
       \union {n \in DOMAIN fields : Unmet(c, n, fields[n])}

\* The check of a requirement calls len() whatever the type was.
Raises(kind, mode, c) ==
  LET fields == FieldsFor(kind, mode)
  IN \E n \in DOMAIN fields :
       /\ fields[n].required /\ fields[n].type \in {"list", "dict"}
       /\ Given(c, n) = "unsized"

ImplementationErrorsMild(c) == {}   \* mutant: the warning does not refuse

\* Deletion is off unless the budget allows it, and then the list of
\* forbidden operations has to say so; called a warning, it refuses as an
\* error does.  A list that is null is not looked into.
ImplementationErrors(c) ==
  LET named == "change_budget" \in DOMAIN c
      dict  == ~named \/ c["change_budget"] \in {"empty", "fit"}
  IN {n \in {"max_changed_files"} :
        dict /\ n \in DOMAIN c /\ c[n] # "fit"}
     \union
     {n \in {"forbidden_operations"} :
        /\ ~(dict /\ Given(c, "allow_delete") \in {"fit", "sized"})
        /\ n \in DOMAIN c => c[n] \in {"empty", "other", "mixed", "foreign"}}

DiagnosisErrors(c) ==
  {n \in {"mutation_policy"} : n \in DOMAIN c /\ c[n] # "fit"}

\* What has to be a list with something in it.
ArchitectureErrors(mode, c) ==
  LET needed ==
        CASE mode = "design_review" ->
               {"problem_statement", "proposed_design", "review_questions"}
          [] mode = "spec_preflight" -> {"preflight_dimensions"}
          [] OTHER -> {"architecture_mode"}
  IN {n \in needed :
        Given(c, n) \in {"null", "empty", "sized", "unsized"}}

SemanticErrors(kind, mode, c) ==
  CASE kind = "implementation" -> ImplementationErrors(c)
    [] kind = "diagnosis"      -> DiagnosisErrors(c)
    [] kind = "architecture"   -> ArchitectureErrors(mode, c)
    [] OTHER                   -> {}

\* validate_role_contract_for_task: "raised", or what is wrong.
Verdict(kind, mode, c) ==
  IF Raises(kind, mode, c) THEN "raised"
  ELSE IF ContractErrors(kind, mode, c) \union SemanticErrors(kind, mode, c) = {}
       THEN "valid" ELSE "invalid"

\* apply_defaults: names that are missing, and only those.
WithDefaults(kind, mode, c) ==
  Filled(c, [n \in DOMAIN FieldsFor(kind, mode) |-> FieldsFor(kind, mode)[n].default])

=============================================================================
