----------------------------- MODULE PlanCommon -----------------------------
(***************************************************************************)
(* The canonical plan, plan.json: what makes it valid and what the bounded *)
(* operations of aota_plan_update make of it.  Everything here is a        *)
(* function of the plan; who reads and writes it is in PlanMutation.       *)
(*                                                                         *)
(* Titles, goals, current_state, next_action and evidence texts stand for  *)
(* one another in the field note: no rule looks at them.                   *)
(***************************************************************************)
EXTENDS Naturals, FiniteSets

CONSTANTS Milestones, WorkItems, Decisions, TaskIds, Notes, None

ASSUME PlanAssumption ==
    None \notin Milestones \union WorkItems \union Decisions \union TaskIds

(* From each status, the ones an operation may set.                        *)
PlanTransitions ==
    [draft            |-> {"approved", "cancelled"},
     approved         |-> {"in_progress", "cancelled", "superseded"},
     in_progress      |-> {"human_checkpoint", "blocked", "completed", "cancelled",
                           "superseded"},
     human_checkpoint |-> {"in_progress", "cancelled"},
     blocked          |-> {"in_progress", "cancelled"},
     completed        |-> {"superseded"},
     cancelled        |-> {},
     superseded       |-> {}]

MilestoneTransitions ==
    [planned          |-> {"ready", "cancelled"},
     ready            |-> {"in_progress", "blocked", "cancelled"},
     in_progress      |-> {"human_checkpoint", "blocked", "closed", "cancelled"},
     human_checkpoint |-> {"in_progress", "blocked", "cancelled"},
     blocked          |-> {"ready", "cancelled"},
     closed           |-> {"superseded"},
     cancelled        |-> {},
     superseded       |-> {}]

WorkItemTransitions ==
    [planned             |-> {"ready", "cancelled"},
     ready               |-> {"in_progress", "blocked", "cancelled"},
     in_progress         |-> {"execution_completed", "needs_input",
                              "human_checkpoint", "blocked", "cancelled"},
     execution_completed |-> {"review_required", "closed", "blocked"},
     review_required     |-> {"closed", "needs_fix", "blocked"},
     needs_fix           |-> {"ready", "blocked", "cancelled"},
     needs_input         |-> {"ready", "blocked", "cancelled"},
     human_checkpoint    |-> {"in_progress", "blocked", "cancelled"},
     blocked             |-> {"ready", "cancelled"},
     closed              |-> {"superseded"},
     cancelled           |-> {},
     superseded          |-> {}]

DecisionTransitions ==
    [proposed   |-> {"accepted", "rejected", "superseded"},
     accepted   |-> {"superseded"},
     rejected   |-> {"superseded"},
     superseded |-> {}]

PlanStatuses == DOMAIN PlanTransitions
MilestoneStatuses == DOMAIN MilestoneTransitions
WorkItemStatuses == DOMAIN WorkItemTransitions
DecisionStatuses == DOMAIN DecisionTransitions
Closed == {"closed", "cancelled", "superseded"}

(* An entry the plan has not is None.                                      *)
MilestoneEntries == [status : MilestoneStatuses, deps : SUBSET Milestones]
WorkItemEntries == [status : WorkItemStatuses, milestone : Milestones,
                    deps : SUBSET WorkItems, links : SUBSET TaskIds]
DecisionEntries == [status : DecisionStatuses, about : SUBSET WorkItems]
Plans ==
    [status : PlanStatuses, note : Notes,
     milestones : [Milestones -> MilestoneEntries \union {None}],
     items : [WorkItems -> WorkItemEntries \union {None}],
     decisions : [Decisions -> DecisionEntries \union {None}],
     activeMilestone : Milestones \union {None},
     activeItem : WorkItems \union {None}]

Present(entries) == {x \in DOMAIN entries : entries[x] # None}

-----------------------------------------------------------------------------
(* validate_plan *)

(* No entry waits for itself, directly or over others: every set of        *)
(* entries has one that waits for none of them.                            *)
Acyclic(entries) ==
    \A S \in SUBSET Present(entries) :
        S # {} => \E x \in S : entries[x].deps \intersect S = {}

DependenciesExist(entries) ==
    \A x \in Present(entries) : entries[x].deps \subseteq Present(entries)

ActiveValid(p) ==
    /\ p.activeMilestone # None =>
           /\ p.activeMilestone \in Present(p.milestones)
           /\ p.milestones[p.activeMilestone].status \notin Closed
    /\ p.activeItem # None =>
           /\ p.activeItem \in Present(p.items)
           /\ p.items[p.activeItem].status \notin Closed
           /\ p.activeMilestone # None =>
                  p.items[p.activeItem].milestone = p.activeMilestone

ValidPlan(p) ==
    /\ DependenciesExist(p.milestones) /\ Acyclic(p.milestones)
    /\ \A w \in Present(p.items) : p.items[w].milestone \in Present(p.milestones)
    /\ DependenciesExist(p.items) /\ Acyclic(p.items)
    /\ \A d \in Present(p.decisions) : p.decisions[d].about \subseteq Present(p.items)
    /\ ActiveValid(p)

-----------------------------------------------------------------------------
(* The operations: what the plan may look like after one of them.          *)

NewPlan(note) ==
    [status |-> "draft", note |-> note,
     milestones |-> [m \in Milestones |-> None],
     items |-> [w \in WorkItems |-> None],
     decisions |-> [d \in Decisions |-> None],
     activeMilestone |-> None, activeItem |-> None]

SetPlanStatus(p) ==
    {[p EXCEPT !.status = s] : s \in PlanTransitions[p.status]}

Annotate(p) == {[p EXCEPT !.note = n] : n \in Notes}

(* Identifiers are generated; what the new entry depends on is given.      *)
AddMilestone(p) ==
    {[p EXCEPT !.milestones[m] = [status |-> "planned", deps |-> D]] :
        m \in Milestones \ Present(p.milestones), D \in SUBSET Milestones}

SetMilestoneStatus(p) ==
    UNION {{[p EXCEPT !.milestones[m].status = s] :
               s \in MilestoneTransitions[p.milestones[m].status]} :
           m \in Present(p.milestones)}

SetActiveMilestone(p) ==
    {[p EXCEPT !.activeMilestone = m] :
        m \in {x \in Present(p.milestones) : p.milestones[x].status \notin Closed}
              \union (IF p.activeItem = None THEN {None} ELSE {})}

AddWorkItem(p) ==
    {[p EXCEPT !.items[w] = [status |-> "planned", milestone |-> m,
                             deps |-> D, links |-> {}]] :
        w \in WorkItems \ Present(p.items), m \in Present(p.milestones),
        D \in SUBSET WorkItems}

SetWorkItemStatus(p) ==
    UNION {{[p EXCEPT !.items[w].status = s] :
               s \in WorkItemTransitions[p.items[w].status]} :
           w \in Present(p.items)}

SetActiveWorkItem(p) ==
    {[p EXCEPT !.activeItem = w] :
        w \in {None} \union
              {x \in Present(p.items) :
                  /\ p.items[x].status \notin Closed
                  /\ p.activeMilestone # None
                  /\ p.items[x].milestone = p.activeMilestone}}

(* Linking the same task once more is not a mutation.                      *)
LinkTask(p) ==
    UNION {{[p EXCEPT !.items[w].links = @ \union {t}] : t \in TaskIds \ p.items[w].links} :
           w \in Present(p.items)}

RecordDecision(p) ==
    {[p EXCEPT !.decisions[d] = [status |-> s, about |-> A]] :
        d \in Decisions \ Present(p.decisions), s \in DecisionStatuses,
        A \in SUBSET WorkItems}

SetDecisionStatus(p) ==
    UNION {{[p EXCEPT !.decisions[d].status = s] :
               s \in DecisionTransitions[p.decisions[d].status]} :
           d \in Present(p.decisions)}

Operation(p, op) ==
    CASE op = "set_plan_status"      -> SetPlanStatus(p)
      [] op = "annotate"             -> Annotate(p)
      [] op = "add_milestone"        -> AddMilestone(p)
      [] op = "set_milestone_status" -> SetMilestoneStatus(p)
      [] op = "set_active_milestone" -> SetActiveMilestone(p)
      [] op = "add_work_item"        -> AddWorkItem(p)
      [] op = "set_work_item_status" -> SetWorkItemStatus(p)
      [] op = "set_active_work_item" -> SetActiveWorkItem(p)
      [] op = "link_task"            -> LinkTask(p)
      [] op = "record_decision"      -> RecordDecision(p)
      [] op = "set_decision_status"  -> SetDecisionStatus(p)
PlanOps == {"set_plan_status", "annotate", "add_milestone", "set_milestone_status",
            "set_active_milestone", "add_work_item", "set_work_item_status",
            "set_active_work_item", "link_task", "record_decision",
            "set_decision_status"}

(* The whole result is validated before anything is written.               *)
Outcomes(p, op) == {q \in Operation(p, op) : ValidPlan(q)}

-----------------------------------------------------------------------------
(* No sequence of bounded operations leads to a plan whose active work     *)
(* item hangs in the air: validate_plan would accept one without an active *)
(* milestone, but then no operation could ever activate another.           *)
ActiveItemIsPlaced(p) == p.activeItem # None => p.activeMilestone # None
=============================================================================
