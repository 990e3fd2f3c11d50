------------------------------ MODULE SpecForm ------------------------------
(***************************************************************************)
(* The form of a task SPEC: what aota_followup_task_create accepts, what   *)
(* aota_task_spec_update turns it into, and what the approver (SPEC.md)    *)
(* and the worker (its prompt) are then shown of it.  A text, a scope and  *)
(* a shared field are classes of values as in RoleContract; a scope is a   *)
(* set of expressions.                                                     *)
(***************************************************************************)
EXTENDS RoleContract, Naturals

CONSTANTS Exprs,        \* expressions of a scope
          BadExprs,     \* of these: absolute, blank, with "..", NUL or a backslash
          NoTask,
          MaxRevision   \* bound: revisions of the task

VARIABLES task,         \* meta.json of the draft
          reply         \* of the last call

specVars == <<task, reply>>

(***************************************************************************)
(* Validators of _task_spec_common.                                        *)
(***************************************************************************)
ScopesFit(spec) ==
  /\ \A scope \in {spec.read_scope, spec.write_scope, spec.forbidden_scope} :
       scope \intersect BadExprs = {}

\* Only implementation writes; a review and an architecture task have a
\* subject, the latter a mode as well.
SemanticRules(kind, mode, subject, spec) ==
  /\ kind = "implementation" <=> spec.write_scope # {}
  /\ kind \in {"review", "architecture"} => subject
  /\ kind = "architecture" => mode \in Modes

NoOverlap(spec) == spec.write_scope \intersect spec.forbidden_scope = {}

PathFits(spec)  == spec.process_path \in {"null", "fit"}

TierFits(spec)  == spec.validation_tier \in {"null", "fit"}

CheckpointsFit(spec) == spec.human_checkpoints \in {"empty", "fit"}

\* A text that is "bulky" is within every limit and makes SPEC.md too long.
LimitsKept(spec) == spec.texts # "over"

SizeKept(spec) == spec.texts # "bulky"

(***************************************************************************)
(* A call of the follow-up tool, past its handoff and its decision, which  *)
(* HandoffRail models; the subject of a review and of an architecture task *)
(* is the task of the handoff.                                             *)
(***************************************************************************)
Valid(kind, mode, spec) == Verdict(kind, mode, spec.role_contract) = "valid"

CreateRefusal(kind, mode, subject, spec) ==
  IF ~ /\ ScopesFit(spec)
       /\ SemanticRules(kind, mode, subject, spec) /\ NoOverlap(spec)
       /\ PathFits(spec) /\ TierFits(spec) /\ CheckpointsFit(spec)
    THEN "rejected"
  ELSE IF Verdict(kind, mode, spec.role_contract) = "raised" THEN "failed"
  ELSE IF Valid(kind, mode, spec) /\ LimitsKept(spec) /\ SizeKept(spec)
    THEN "none" ELSE "rejected"

Create(kind, mode, spec) ==
  LET subject == kind \in {"review", "architecture"}
      refusal == CreateRefusal(kind, mode, subject, spec)
  IN /\ task = NoTask
     /\ IF refusal = "none"
        THEN /\ task' = [kind |-> kind, mode |-> mode, subject |-> subject,
                         revision |-> 1,
                         spec |-> [spec EXCEPT !.role_contract =
                                     WithDefaults(kind, mode, @)]]
             /\ reply' = "created"
        ELSE reply' = refusal /\ UNCHANGED task

(***************************************************************************)
(* A call of the update tool on a draft.  A patch is a function on some of *)
(* the names of the spec; what it leaves out is checked again as it is     *)
(* stored, the shared fields and the contract are checked when given.      *)
(***************************************************************************)
Patched(patch) == Filled(patch, task.spec)

UpdateRefusal(patch) ==
  LET spec == Patched(patch)
  IN IF ~ /\ spec # task.spec
          /\ ScopesFit(spec)
          /\ SemanticRules(task.kind, task.mode, task.subject, spec)
          /\ NoOverlap(spec) /\ LimitsKept(spec)
          /\ "process_path" \in DOMAIN patch => PathFits(spec)
          /\ "validation_tier" \in DOMAIN patch => TierFits(spec)
          /\ "human_checkpoints" \in DOMAIN patch => CheckpointsFit(spec)
       THEN "rejected"
     ELSE IF "role_contract" \in DOMAIN patch
             /\ Verdict(task.kind, task.mode, spec.role_contract) = "raised"
       THEN "failed"
     ELSE IF /\ "role_contract" \in DOMAIN patch =>
                  Valid(task.kind, task.mode, spec)
             /\ SizeKept(spec)
       THEN "none" ELSE "rejected"

Update(patch) ==
  /\ task # NoTask
  /\ task.revision < MaxRevision
  /\ LET spec    == Patched(patch)
         refusal == UpdateRefusal(patch)
     IN IF refusal = "none"
        THEN /\ task' = [task EXCEPT !.revision = @ + 1,
                  !.spec = IF "role_contract" \in DOMAIN patch
                           THEN [spec EXCEPT !.role_contract =
                                   WithDefaults(task.kind, task.mode, @)]
                           ELSE spec]
             /\ reply' = "updated"
        ELSE reply' = refusal /\ UNCHANGED task

(***************************************************************************)
(* What is shown of a contract.                                            *)
(***************************************************************************)
HasContent(c, name) == Given(c, name) \notin {"null", "empty"}

\* Sections of SPEC.md with something in them; an empty contract has none.
ShownInSpec ==
  {n \in Rendered(task.kind, task.mode) : HasContent(task.spec.role_contract, n)}

\* What the prompt tells the worker of the contract.
ToldToWorker ==
  {n \in Prompted(task.kind, task.mode) : HasContent(task.spec.role_contract, n)}

\* The fields all kinds have.  What is null is told as a standard path and as
\* tier 0, on paper as in the prompt; the prompt names a subject only if one
\* is needed.
OrDefault(v, default) == IF v = "null" THEN default ELSE v

CommonShown ==
  [read |-> task.spec.read_scope, write |-> task.spec.write_scope,
   forbidden |-> task.spec.forbidden_scope,
   path |-> OrDefault(task.spec.process_path, "standard"),
   tier |-> OrDefault(task.spec.validation_tier, 0),
   checkpoints |-> task.spec.human_checkpoints,
   subject |-> task.subject]

CommonTold ==
  [CommonShown EXCEPT !.subject =
     @ /\ task.kind \in {"review", "architecture"}]

\* What the consistency audit says of them.
AuditedFields ==
  {n \in {"process_path", "validation_tier"} : task.spec[n] \notin {"null", "fit"}}
    \union {n \in {"human_checkpoints"} : task.spec[n] \notin {"empty", "fit"}}

SpecInit == task = NoTask /\ reply = "none"

(***************************************************************************)
(* What the tools can be called with.                                      *)
(***************************************************************************)
KindsAndModes ==
  {<<"architecture", m>> : m \in Modes \union {NoMode}}
    \union {<<k, NoMode>> : k \in Kinds \ {"architecture"}}

Contracts(kind, mode) ==
  LET fields == FieldsFor(kind, mode)
  IN {c \in UNION {[names -> Classes] : names \in SUBSET STRING} :
        /\ \A n \in DOMAIN c \intersect DOMAIN fields : c[n] \in ClassesOf(fields[n])
        /\ \A n \in DOMAIN c \intersect DOMAIN BudgetFields :
             c[n] \in ClassesOf(BudgetFields[n]) /\ Given(c, "change_budget") = "fit"}

Specs(kind, mode) ==
  [read_scope : SUBSET Exprs, write_scope : SUBSET Exprs, forbidden_scope : SUBSET Exprs,
   texts : {"fit", "over", "bulky"}, process_path : {"null", "fit", "foreign"},
   validation_tier : {"null", "fit", "foreign"}, human_checkpoints : {"empty", "fit", "foreign"},
   role_contract : Contracts(kind, mode)]

SpecNext ==
  \/ \E km \in KindsAndModes : \E spec \in Specs(km[1], km[2]) : Create(km[1], km[2], spec)
  \/ /\ task # NoTask
     /\ \E spec \in Specs(task.kind, task.mode) : \E names \in SUBSET DOMAIN spec :
          Update([n \in names |-> spec[n]])

FormSpec == SpecInit /\ [][SpecNext]_specVars

-----------------------------------------------------------------------------
Answered(v) == v \in {"fit", "other", "mixed"}

(* Whatever calls made it, a draft is one a worker can be held to: each    *)
(* required field says something, no field is ill typed, out of bounds or  *)
(* of another kind of work; deletion is allowed or forbidden by name, save *)
(* where the list is null; a diagnosis changes nothing; only an            *)
(* implementation writes, and nowhere it must not.  Its defaults included, *)
(* the consistency audit has nothing against it.                           *)
RecordSound ==
  task # NoTask =>
    LET c      == task.spec.role_contract
        fields == FieldsFor(task.kind, task.mode)
    IN /\ DOMAIN c \subseteq DOMAIN fields \union DOMAIN BudgetFields
       /\ \A n \in DOMAIN fields :
            IF fields[n].required THEN Answered(c[n])
            ELSE Answered(c[n]) \/ c[n] \in {"null", "empty"}
       /\ task.kind = "implementation" =>
            /\ c["max_changed_files"] = "fit"
            /\ \/ Given(c, "allow_delete") = "fit"
               \/ c["forbidden_operations"] \in {"fit", "null"}
       /\ task.kind = "diagnosis" => c["mutation_policy"] = "fit"
       /\ (task.spec.write_scope # {}) = (task.kind = "implementation")
       /\ task.spec.write_scope \intersect
            (task.spec.forbidden_scope \union BadExprs) = {}
       /\ Verdict(task.kind, task.mode, c) = "valid" /\ AuditedFields = {}

(* Nothing that was agreed is hidden: a field with content is in the       *)
(* SPEC.md that is approved and in the worker's prompt, save the verdict   *)
(* rules of a review, which the prompt leaves to SPEC.md; of the fields    *)
(* all kinds have both say the same.                                       *)
NothingHidden ==
  task # NoTask =>
    LET content == {n \in DOMAIN task.spec.role_contract \ DOMAIN BudgetFields :
                   HasContent(task.spec.role_contract, n)}
    IN /\ content = ShownInSpec
       /\ content \ {"verdict_rules"} = ToldToWorker
       /\ CommonTold = CommonShown

(* A draft is a contract a worker can be held to, and shown to all who     *)
(* approve it or work on it.                                               *)
SpecKept == RecordSound /\ NothingHidden
=============================================================================
