-------------------------- MODULE PlanMutation_proofs --------------------------
(* Proofs about PlanMutation, for any number of callers and drafts, any    *)
(* set of operations and any plan to start from: however the calls         *)
(* overlap, fail and die, the plan and its audit ledger tell the same      *)
(* story, an unresolved event stops the plan, and what is frozen was fit.  *)
EXTENDS PlanMutation, TLAPS

InFlight == {"write", "commit", "project"}
Base(j) == j.new.by \ {j.event}
Creates(j) == j.op = "create_plan"

(* A history `by` of a plan of revision `rev`, in a ledger l and with the  *)
(* events w written: every revision the plan went through was left by one  *)
(* event of the history, but for the first one when the plan was there     *)
(* from the start.                                                         *)
Chained(l, w, by, rev) ==
    /\ \A e \in by : l[e].prev < rev
    /\ \A e, f \in by : l[e].prev = l[f].prev => e = f
    /\ \A n \in Nat : n < rev =>
           \/ \E e \in by : l[e].prev = n
           \/ n = 0 /\ \A e \in w : l[e].prev # 0

(* What a call carries belongs to where it is, and to the plan, the ledger *)
(* and the events written.                                                 *)
JobFits(step, j, p, l, w) ==
    /\ step = "idle" <=> j = None
    /\ step # "idle" =>
        /\ ValidPlan(j.new.content) /\ ActiveItemIsPlaced(j.new.content)
        /\ Base(j) \subseteq w
        /\ Chained(l, w, Base(j), j.new.rev - 1)
        /\ Creates(j) => j.new.rev = 1 /\ Base(j) = {} /\ step # "project"
        /\ ~Creates(j) => j.new.rev >= 2 /\ p # None
    /\ step \in {"gate", "prepare"} => j.event = 0 /\ j.new.by \subseteq w
    /\ step \in InFlight =>
        /\ j.event \in DOMAIN l /\ j.event \in j.new.by
        /\ l[j.event].prev = j.new.rev - 1
        /\ step = "write" <=> j.event \notin w
        /\ l[j.event].status = IF step = "project" THEN "committed" ELSE "prepared"

PlanOK ==
    /\ plan = None => written = {}
    /\ plan # None => /\ plan.rev >= 1
                      /\ plan.by \subseteq written
                      /\ ValidPlan(plan.content)
                      /\ ActiveItemIsPlaced(plan.content)
                      /\ Chained(ledger, written, plan.by, plan.rev)

LedgerOK ==
    /\ written \subseteq Recorded
    /\ \A e \in Recorded :
           /\ ledger[e].status = "committed" =>
                  e \in written /\ ledger[e].new = ledger[e].prev + 1
           /\ ledger[e].status = "aborted" => e \notin written

JobsOK == \A c \in Callers : JobFits(pc[c], job[c], plan, ledger, written)

OwnEvents ==
    \A c, d \in Callers :
        c # d /\ pc[c] \in InFlight /\ pc[d] \in InFlight =>
            job[c].event # job[d].event

(* A plan is created by a call that is alone until the plan is there.      *)
CreatesAlone ==
    \A c \in Callers :
        pc[c] \in {"gate", "prepare", "write"} /\ Creates(job[c]) =>
            plan = None /\ \A d \in Callers \ {c} : pc[d] = "idle"

LossOK ==
    (plan # None /\ ~(written \subseteq plan.by)) =>
        \E e, f \in written : e # f /\ ledger[e].prev = ledger[f].prev

(* Without an overlap, a call that is going to write carries on from the   *)
(* plan that is there.                                                     *)
TurnOK ==
    ~raced =>
        /\ plan # None => written = plan.by
        /\ \A c, d \in Callers : c # d => pc[c] = "idle" \/ pc[d] = "idle"
        /\ \A c \in Callers :
               pc[c] \in {"gate", "prepare", "write"} /\ plan # None =>
                   Base(job[c]) = plan.by

StepOK == /\ PlanOK /\ LedgerOK /\ JobsOK
          /\ OwnEvents /\ CreatesAlone /\ LossOK /\ TurnOK
IInv == TypeOK /\ StepOK

(* A draft that is checked is bound to the plan in which it was fit.       *)
FitOK ==
    \A s \in Specs : specs[s] # None /\ specs[s].stage \in {"checked", "frozen"} =>
        /\ SourceIn(specs[s].source.content, specs[s].milestone, specs[s].item,
                    FreezePlan, FreezeMilestone, FreezeItem)
        /\ specs[s].item \in Preflight => specs[s].review

-----------------------------------------------------------------------------
(* The operations on a plan *)

(* No status leads out of the statuses there are.                          *)
LEMMA TransitionsStay ==
    /\ \A s \in PlanStatuses : PlanTransitions[s] \subseteq PlanStatuses
    /\ \A s \in MilestoneStatuses : MilestoneTransitions[s] \subseteq MilestoneStatuses
    /\ \A s \in WorkItemStatuses : WorkItemTransitions[s] \subseteq WorkItemStatuses
    /\ \A s \in DecisionStatuses : DecisionTransitions[s] \subseteq DecisionStatuses
<1>1. \A s \in PlanStatuses : PlanTransitions[s] \subseteq PlanStatuses
    BY DEF PlanStatuses, PlanTransitions
<1>2. \A s \in MilestoneStatuses : MilestoneTransitions[s] \subseteq MilestoneStatuses
    BY DEF MilestoneStatuses, MilestoneTransitions
<1>3. \A s \in WorkItemStatuses : WorkItemTransitions[s] \subseteq WorkItemStatuses
    BY DEF WorkItemStatuses, WorkItemTransitions
<1>4. \A s \in DecisionStatuses : DecisionTransitions[s] \subseteq DecisionStatuses
    BY DEF DecisionStatuses, DecisionTransitions
<1>5. QED BY <1>1, <1>2, <1>3, <1>4

(* A new plan is a valid one in which nothing is active.                   *)
LEMMA NewPlanValid ==
    ASSUME NEW n \in Notes
    PROVE  /\ NewPlan(n) \in Plans
           /\ ValidPlan(NewPlan(n)) /\ ActiveItemIsPlaced(NewPlan(n))
<1>1. "draft" \in PlanStatuses BY DEF PlanStatuses, PlanTransitions
<1>2. NewPlan(n) \in Plans BY <1>1 DEF NewPlan, Plans
<1>3. /\ Present(NewPlan(n).milestones) = {}
      /\ Present(NewPlan(n).items) = {}
      /\ Present(NewPlan(n).decisions) = {}
    BY DEF Present, NewPlan
<1>4. NewPlan(n).activeMilestone = None /\ NewPlan(n).activeItem = None
    BY DEF NewPlan
<1>5. ValidPlan(NewPlan(n))
    BY <1>3, <1>4 DEF ValidPlan, DependenciesExist, Acyclic, ActiveValid
<1>6. QED BY <1>2, <1>4, <1>5 DEF ActiveItemIsPlaced

(* What an operation makes of a plan is a plan.                            *)
LEMMA OperationType ==
    ASSUME NEW p \in Plans, NEW op \in PlanOps, NEW q \in Operation(p, op)
    PROVE  q \in Plans
<1> USE DEF Plans, Present
<1>1. CASE op = "set_plan_status"
    BY <1>1, TransitionsStay DEF Operation, SetPlanStatus
<1>2. CASE op = "annotate"
    BY <1>2 DEF Operation, Annotate
<1>3. CASE op = "add_milestone"
    BY <1>3 DEF Operation, AddMilestone, MilestoneEntries, MilestoneStatuses, MilestoneTransitions
<1>4. CASE op = "set_milestone_status"
    BY <1>4, TransitionsStay DEF Operation, SetMilestoneStatus, MilestoneEntries
<1>5. CASE op = "set_active_milestone"
    BY <1>5 DEF Operation, SetActiveMilestone
<1>6. CASE op = "add_work_item"
    BY <1>6 DEF Operation, AddWorkItem, WorkItemEntries, WorkItemStatuses, WorkItemTransitions
<1>7. CASE op = "set_work_item_status"
    BY <1>7, TransitionsStay DEF Operation, SetWorkItemStatus, WorkItemEntries
<1>8. CASE op = "set_active_work_item"
    BY <1>8 DEF Operation, SetActiveWorkItem
<1>9. CASE op = "link_task"
    BY <1>9 DEF Operation, LinkTask, WorkItemEntries
<1>10. CASE op = "record_decision"
    BY <1>10 DEF Operation, RecordDecision, DecisionEntries
<1>11. CASE op = "set_decision_status"
    BY <1>11, TransitionsStay DEF Operation, SetDecisionStatus, DecisionEntries
<1>12. QED
    BY <1>1, <1>2, <1>3, <1>4, <1>5, <1>6, <1>7, <1>8, <1>9, <1>10, <1>11 DEF PlanOps

(* No operation leaves the active work item in the air.                    *)
LEMMA OperationPlaces ==
    ASSUME NEW p \in Plans, NEW op \in PlanOps, NEW q \in Operation(p, op),
           ActiveItemIsPlaced(p)
    PROVE  ActiveItemIsPlaced(q)
<1> USE DEF ActiveItemIsPlaced
<1>1. CASE op = "set_active_milestone"
    BY <1>1, PlanAssumption DEF Operation, SetActiveMilestone, Plans, Present
<1>2. CASE op = "set_active_work_item"
    BY <1>2 DEF Operation, SetActiveWorkItem, Plans
<1>3. CASE op \in PlanOps \ {"set_active_milestone", "set_active_work_item"}
  <2>1. q.activeMilestone = p.activeMilestone /\ q.activeItem = p.activeItem
    BY <1>3 DEF PlanOps, Operation, Plans, SetPlanStatus, Annotate, AddMilestone,
        SetMilestoneStatus, AddWorkItem, SetWorkItemStatus, LinkTask, RecordDecision,
        SetDecisionStatus
  <2>2. QED BY <2>1
<1>4. QED BY <1>1, <1>2, <1>3

(* What an operation of a call may bring about.                            *)
LEMMA OutcomeOK ==
    ASSUME NEW p \in Plans, NEW op \in Ops, NEW q \in Outcomes(p, op),
           ActiveItemIsPlaced(p)
    PROVE  q \in Plans /\ ValidPlan(q) /\ ActiveItemIsPlaced(q)
BY OperationType, OperationPlaces, MutationAssumption DEF Outcomes
-----------------------------------------------------------------------------
(* Type correctness *)

(* None is neither a call's record nor a draft's link, and a step's name   *)
(* is one of six.                                                          *)
LEMMA InitType == Init => TypeOK
<1> SUFFICES ASSUME Init PROVE TypeOK OBVIOUS
<1>1. plan \in Files \union {None}
    BY MutationAssumption DEF Init, Files
<1>2. ledger \in Seq(Audits) BY DEF Init
<1>3. QED BY <1>1, <1>2 DEF Init, TypeOK, Steps

LEMMA NextType == TypeOK /\ JobsOK /\ [Next]_vars => TypeOK'
<1> SUFFICES ASSUME TypeOK, JobsOK, [Next]_vars PROVE TypeOK' OBVIOUS
<1> DEFINE JobType == job' \in [Callers -> Jobs \union {None}]
           PcType == pc' \in [Callers -> Steps]
<1>0. ASSUME NEW c \in Callers, NEW step \in Steps, Goto(c, step) PROVE PcType
    BY <1>0 DEF Goto, TypeOK
<1>01. ASSUME NEW c \in Callers, NEW j \in Jobs \union {None},
              job' = [job EXCEPT ![c] = j] PROVE JobType
    BY <1>01 DEF TypeOK
<1>02. ASSUME NEW c \in Callers, Return(c) PROVE PcType /\ JobType
    BY <1>02, <1>0, <1>01 DEF Return, Steps
<1>03. ASSUME NEW c \in Callers, NEW st \in EventStatuses, NEW n \in Nat,
              Resolve(c, st, n)
       PROVE  ledger' \in Seq(Audits)
    <2> DEFINE e == job[c].event
    <2>1. ledger \in Seq(Audits) BY DEF TypeOK
    <2>2. CASE e \in DOMAIN ledger
      <3>1. e \in 1 .. Len(ledger) /\ ledger[e] \in Audits BY <2>1, <2>2
      <3>2. [ledger[e] EXCEPT !.status = st, !.new = n] \in Audits BY <3>1 DEF Audits
      <3>3. ledger' = [ledger EXCEPT ![e] = [ledger[e] EXCEPT !.status = st, !.new = n]]
        BY <1>03, <2>1, <2>2 DEF Resolve
      <3>4. QED BY <2>1, <3>1, <3>2, <3>3
    <2>3. CASE e \notin DOMAIN ledger
      <3>1. ledger' = ledger BY <1>03, <2>1, <2>3 DEF Resolve
      <3>2. QED BY <2>1, <3>1
    <2>4. QED BY <2>2, <2>3
<1>1. CASE UNCHANGED vars BY <1>1 DEF vars, TypeOK
<1>2. ASSUME NEW s \in Specs, LinkDraft(s) \/ FreezeCheck(s) \/ FreezeWrite(s)
      PROVE  TypeOK'
  <2>1. specs' \in [Specs -> Links \union {None}]
    BY <1>2 DEF TypeOK, LinkDraft, FreezeCheck, FreezeWrite, Opened, Links
  <2>2. QED BY <1>2, <2>1 DEF TypeOK, LinkDraft, FreezeCheck, FreezeWrite
<1>3. ASSUME NEW c \in Callers, CreateBegin(c) PROVE TypeOK'
  <2>1. PICK n \in Notes :
            Start(c, [op |-> "create_plan", event |-> 0,
                      new |-> [rev |-> 1, content |-> NewPlan(n), by |-> {}]])
    BY <1>3 DEF CreateBegin
  <2>2. JobType BY <2>1, NewPlanValid, <1>01 DEF Start, Jobs, Files
  <2>3. PcType BY <1>3, <1>0 DEF CreateBegin, Steps
  <2>4. raced' \in BOOLEAN BY <2>1 DEF Start
  <2>5. QED BY <1>3, <2>2, <2>3, <2>4 DEF CreateBegin, TypeOK
<1>4. ASSUME NEW c \in Callers, ReadPlan(c) PROVE TypeOK'
  <2>1. PICK op \in Ops : \E content \in Outcomes(plan.content, op) :
            Start(c, [op |-> op, event |-> 0,
                      new |-> [rev |-> plan.rev + 1, content |-> content, by |-> plan.by]])
    BY <1>4 DEF ReadPlan
  <2>2. PICK content \in Outcomes(plan.content, op) :
            Start(c, [op |-> op, event |-> 0,
                      new |-> [rev |-> plan.rev + 1, content |-> content, by |-> plan.by]])
    BY <2>1
  <2>3. plan \in Files BY <1>4 DEF ReadPlan, Opened, TypeOK
  <2>4. content \in Plans
    <3>1. plan.content \in Plans BY <2>3 DEF Files
    <3>2. op \in PlanOps /\ content \in Operation(plan.content, op)
      BY <2>2, MutationAssumption DEF Outcomes
    <3>3. QED BY <3>1, <3>2, OperationType
  <2>5. JobType
    <3> DEFINE j == [op |-> op, event |-> 0,
                     new |-> [rev |-> plan.rev + 1, content |-> content, by |-> plan.by]]
    <3>1. j \in Jobs BY <2>3, <2>4 DEF Jobs, Files
    <3>2. job' = [job EXCEPT ![c] = j] BY <2>2 DEF Start
    <3>3. QED BY <3>1, <3>2, <1>01
  <2>6. PcType BY <1>4, <1>0 DEF ReadPlan, Steps
  <2>7. raced' \in BOOLEAN BY <2>2 DEF Start
  <2>8. QED BY <1>4, <2>5, <2>6, <2>7 DEF ReadPlan, TypeOK
<1>5. ASSUME NEW c \in Callers, PassGate(c) PROVE TypeOK'
  <2>1. PcType BY <1>5, <1>0 DEF PassGate, Steps
  <2>2. QED BY <1>5, <2>1 DEF PassGate, TypeOK
<1>6. ASSUME NEW c \in Callers, pc[c] # "idle"
      PROVE  /\ job[c] \in Jobs /\ job[c].op \in Ops \union {"create_plan"}
             /\ job[c].new \in Files /\ job[c].new.rev \in Nat
             /\ job[c].new.by \subseteq Events
             /\ job[c].event \in Events \union {0}
  <2>1. job[c] \in Jobs BY <1>6 DEF TypeOK, JobsOK, JobFits
  <2>2. QED BY <2>1 DEF Jobs, Files
<1>7. ASSUME NEW c \in Callers, Prepare(c) PROVE TypeOK'
  <2> DEFINE e == Len(ledger) + 1
             r == [op |-> job[c].op, prev |-> job[c].new.rev - 1, new |-> 0,
                   status |-> "prepared"]
  <2>1. pc[c] # "idle" /\ pc[c] = "prepare" BY <1>7 DEF Prepare
  <2>2. e \in Events BY DEF TypeOK, Events
  <2>3. r \in Audits
    <3>1. job[c].new.rev - 1 \in Nat
      <4>1. ~Creates(job[c]) => job[c].new.rev >= 2
        BY <2>1 DEF JobsOK, JobFits
      <4>2. Creates(job[c]) => job[c].new.rev = 1
        BY <2>1 DEF JobsOK, JobFits
      <4>3. QED BY <4>1, <4>2, <1>6, <2>1
    <3>2. QED BY <3>1, <1>6, <2>1 DEF Audits, EventStatuses
  <2>4. ledger' = Append(ledger, r) BY <1>7 DEF Prepare
  <2>5. ledger' \in Seq(Audits) BY <2>3, <2>4 DEF TypeOK
  <2>6. job' = [job EXCEPT ![c] = [job[c] EXCEPT !.event = e,
                     !.new = [job[c].new EXCEPT !.by = job[c].new.by \union {e}]]]
    BY <1>6, <1>7, <2>1 DEF Prepare, TypeOK, Jobs, Files
  <2>7. [job[c] EXCEPT !.event = e,
                     !.new = [job[c].new EXCEPT !.by = job[c].new.by \union {e}]] \in Jobs
    BY <1>6, <2>1, <2>2 DEF Jobs, Files
  <2>8. JobType BY <2>6, <2>7, <1>01
  <2>9. PcType BY <1>7, <1>0 DEF Prepare, Steps
  <2>10. QED BY <1>7, <2>5, <2>8, <2>9 DEF Prepare, TypeOK
<1>8. ASSUME NEW c \in Callers, WritePlan(c) PROVE TypeOK'
  <2>1. pc[c] # "idle" /\ pc[c] = "write" BY <1>8 DEF WritePlan
  <2>2. job[c].event \in Events
    BY <1>6, <2>1 DEF JobsOK, JobFits, InFlight, TypeOK, Events
  <2>3. plan' \in Files \union {None} /\ projection' \in Files \union {None}
    BY <1>8, <1>6, <2>1 DEF WritePlan, TypeOK
  <2>4. PcType BY <1>8, <1>0 DEF WritePlan, Steps
  <2>5. QED BY <1>8, <2>2, <2>3, <2>4 DEF WritePlan, TypeOK
<1>9. ASSUME NEW c \in Callers, WriteFails(c) PROVE TypeOK'
  <2>1. ledger' \in Seq(Audits) BY <1>9, <1>03 DEF WriteFails, EventStatuses, TypeOK
  <2>2. QED BY <1>9, <1>02, <2>1 DEF WriteFails, TypeOK
<1>10. ASSUME NEW c \in Callers, CommitFails(c) PROVE TypeOK'
  <2>1. ledger' \in Seq(Audits) BY <1>10, <1>03 DEF CommitFails, EventStatuses, TypeOK
  <2>2. QED BY <1>10, <1>02, <2>1 DEF CommitFails, TypeOK
<1>11. ASSUME NEW c \in Callers, CommitAudit(c) PROVE TypeOK'
  <2>1. ledger' \in Seq(Audits)
    BY <1>11, <1>03, <1>6 DEF CommitAudit, EventStatuses
  <2>2. PcType /\ JobType
    <3>1. CASE Return(c) BY <3>1, <1>02
    <3>2. CASE Goto(c, "project") /\ UNCHANGED job
      BY <3>2, <1>0 DEF Steps, TypeOK
    <3>3. QED BY <1>11, <3>1, <3>2 DEF CommitAudit
  <2>3. QED BY <1>11, <2>1, <2>2 DEF CommitAudit, TypeOK
<1>12. ASSUME NEW c \in Callers, WriteProjection(c) PROVE TypeOK'
  <2>1. projection' \in Files \union {None}
    BY <1>12, <1>6 DEF WriteProjection, TypeOK
  <2>2. QED BY <1>12, <1>02, <2>1 DEF WriteProjection, TypeOK
<1>13. ASSUME NEW c \in Callers, Gone(c) PROVE TypeOK'
  BY <1>13, <1>02 DEF Gone, TypeOK
<1>14. QED
  BY <1>1, <1>2, <1>3, <1>4, <1>5, <1>7, <1>8, <1>9, <1>10, <1>11, <1>12, <1>13 DEF Next
-----------------------------------------------------------------------------
(* Histories *)

(* A history stands when the ledger keeps what the events left, and what   *)
(* is written besides did not leave revision 0.                            *)
LEMMA ChainKept ==
    ASSUME NEW l, NEW k, NEW w, NEW v, NEW by, NEW rev,
           Chained(l, w, by, rev), by \subseteq w,
           \A e \in w : k[e].prev = l[e].prev,
           \A e \in v \ w : k[e].prev # 0
    PROVE  Chained(k, v, by, rev)
BY DEF Chained

(* One more event makes one more revision.                                 *)
LEMMA ChainExtends ==
    ASSUME NEW l, NEW w, NEW by, NEW rev \in Nat, NEW e,
           Chained(l, w, by, rev), e \notin by, l[e].prev = rev,
           \A f \in by : l[f].prev \in Nat
    PROVE  Chained(l, w, by \union {e}, rev + 1)
<1>1. \A f \in by \union {e} : l[f].prev < rev + 1
    BY DEF Chained
<1>2. \A f, g \in by \union {e} : l[f].prev = l[g].prev => f = g
    <2>1. \A f \in by : l[f].prev # l[e].prev BY DEF Chained
    <2>2. QED BY <2>1 DEF Chained
<1>3. ASSUME NEW n \in Nat, n < rev + 1
      PROVE  \/ \E f \in by \union {e} : l[f].prev = n
             \/ n = 0 /\ \A f \in w : l[f].prev # 0
    <2>1. CASE n = rev BY <2>1
    <2>2. CASE n < rev BY <2>2 DEF Chained
    <2>3. QED BY <1>3, <2>1, <2>2
<1>4. QED BY <1>1, <1>2, <1>3 DEF Chained

(* Two histories of the same ledger: when an event of one is not in the    *)
(* other, the one has left the revision that the other has come to.        *)
LEMMA ChainsMeet ==
    ASSUME NEW l, NEW w, NEW by, NEW rev \in Nat, NEW base, NEW q \in Nat,
           Chained(l, w, by, rev), Chained(l, w, base, q),
           by \subseteq w, base \subseteq by, q > 0,
           \A f \in w : l[f].prev \in Nat,
           NEW y \in by, y \notin base
    PROVE  \E f \in by : l[f].prev = q
<1>1. q < rev
    <2>1. SUFFICES ASSUME ~(q < rev) PROVE FALSE OBVIOUS
    <2>2. l[y].prev \in Nat /\ l[y].prev < q BY <2>1 DEF Chained
    <2>3. \E z \in base : l[z].prev = l[y].prev BY <2>2 DEF Chained
    <2>4. QED BY <2>3 DEF Chained
<1>2. QED BY <1>1 DEF Chained

(* What holds of one call still holds when others have moved the plan, the *)
(* ledger and the events written, but not its own event.                   *)
LEMMA JobKept ==
    ASSUME NEW step, NEW j, NEW p, NEW l, NEW w, NEW q, NEW k, NEW v,
           JobFits(step, j, p, l, w),
           w \subseteq v, p # None => q # None,
           DOMAIN l \subseteq DOMAIN k, w \subseteq DOMAIN l,
           \A e \in DOMAIN l : k[e].prev = l[e].prev,
           step # "idle" => \A e \in v \ w : k[e].prev # 0,
           step \in InFlight =>
               k[j.event].status = l[j.event].status /\ (j.event \in v => j.event \in w)
    PROVE  JobFits(step, j, q, k, v)
<1>1. ASSUME step # "idle"
      PROVE  Chained(k, v, Base(j), j.new.rev - 1)
    <2>1. Chained(l, w, Base(j), j.new.rev - 1) /\ Base(j) \subseteq w
      BY <1>1 DEF JobFits
    <2>2. \A e \in w : k[e].prev = l[e].prev OBVIOUS
    <2>3. \A e \in v \ w : k[e].prev # 0 BY <1>1
    <2>4. QED BY <2>1, <2>2, <2>3, ChainKept
<1>2. ASSUME step \in InFlight
      PROVE  /\ j.event \in DOMAIN k /\ j.event \in j.new.by
             /\ k[j.event].prev = j.new.rev - 1
             /\ step = "write" <=> j.event \notin v
             /\ k[j.event].status = IF step = "project" THEN "committed" ELSE "prepared"
    BY <1>2 DEF JobFits
<1>3. QED BY <1>1, <1>2 DEF JobFits
-----------------------------------------------------------------------------
(* The inductive step, one kind of step after the other.  TypeOK' is in    *)
(* NextType.                                                               *)

LEMMA InitStepOK == Init => StepOK
<1> SUFFICES ASSUME Init PROVE StepOK OBVIOUS
<1>1. Chained(ledger, {}, {}, 1)
    <2>1. \A n \in Nat : n < 1 => n = 0 OBVIOUS
    <2>2. QED BY <2>1 DEF Chained
<1>2. PlanOK
    <2>1. CASE plan = None BY <2>1 DEF Init, PlanOK
    <2>2. ASSUME NEW q \in Starts, plan = [rev |-> 1, content |-> q, by |-> {}]
          PROVE  PlanOK
      <3>1. ValidPlan(q) /\ ActiveItemIsPlaced(q) BY MutationAssumption
      <3>2. plan.rev = 1 /\ plan.content = q /\ plan.by = {} /\ written = {}
        BY <2>2 DEF Init
      <3>3. QED BY <1>1, <3>1, <3>2 DEF PlanOK
    <2>3. QED BY <2>1, <2>2 DEF Init
<1>3. LedgerOK BY DEF Init, LedgerOK, Recorded
<1>4. JobsOK BY DEF Init, JobsOK, JobFits, InFlight
<1>5. OwnEvents /\ CreatesAlone /\ LossOK /\ TurnOK
    BY DEF Init, OwnEvents, CreatesAlone, LossOK, TurnOK, InFlight
<1>6. QED BY <1>2, <1>3, <1>4, <1>5 DEF StepOK

(* A call that starts knows the plan that is there.                        *)
LEMMA BeginStep ==
    ASSUME TypeOK, StepOK, NEW c \in Callers, NEW j, j # None,
           Start(c, j), Goto(c, "gate"),
           UNCHANGED <<plan, ledger, written>>,
           JobFits("gate", j, plan, ledger, written),
           Creates(j) => plan = None /\ \A d \in Callers : pc[d] = "idle",
           plan # None => Base(j) = plan.by
    PROVE  StepOK'
<1> USE DEF StepOK
<1>1. /\ pc[c] = "idle" /\ pc'[c] = "gate" /\ job'[c] = j
      /\ \A d \in Callers \ {c} : pc'[d] = pc[d] /\ job'[d] = job[d]
    BY DEF Start, Goto, TypeOK
<1>2. PlanOK' /\ LedgerOK' /\ LossOK'
    BY DEF PlanOK, LedgerOK, LossOK, Recorded
<1>3. JobsOK' BY <1>1 DEF JobsOK
<1>4. OwnEvents' BY <1>1 DEF OwnEvents, InFlight
<1>5. CreatesAlone'
    <2> SUFFICES ASSUME NEW d \in Callers, pc'[d] \in {"gate", "prepare", "write"},
                        Creates(job'[d])
                 PROVE  plan' = None /\ \A e \in Callers \ {d} : pc'[e] = "idle"
        BY DEF CreatesAlone
    <2>1. CASE d = c BY <1>1, <2>1
    <2>2. CASE d # c
        <3>1. plan = None /\ ~Creates(j)
          BY <1>1, <2>2 DEF CreatesAlone
        <3>2. QED BY <3>1 DEF JobFits
    <2>3. QED BY <2>1, <2>2
<1>6. TurnOK'
    <2> SUFFICES ASSUME ~raced' PROVE
               /\ plan' # None => written' = plan'.by
               /\ \A d, e \in Callers : d # e => pc'[d] = "idle" \/ pc'[e] = "idle"
               /\ \A d \in Callers :
                      pc'[d] \in {"gate", "prepare", "write"} /\ plan' # None =>
                          Base(job'[d]) = plan'.by
        BY DEF TurnOK
    <2>1. ~raced /\ \A d \in Callers \ {c} : pc[d] = "idle" BY DEF Start, TypeOK
    <2>2. plan' # None => written' = plan'.by BY <2>1 DEF TurnOK
    <2>3. \A d \in Callers \ {c} : pc'[d] = "idle" BY <1>1, <2>1
    <2>4. QED BY <1>1, <2>2, <2>3
<1>7. QED BY <1>2, <1>3, <1>4, <1>5, <1>6

LEMMA CreateBeginStep ==
    ASSUME TypeOK, StepOK, NEW c \in Callers, CreateBegin(c) PROVE StepOK'
<1>1. PICK n \in Notes :
          Start(c, [op |-> "create_plan", event |-> 0,
                    new |-> [rev |-> 1, content |-> NewPlan(n), by |-> {}]])
    BY DEF CreateBegin
<1> DEFINE j == [op |-> "create_plan", event |-> 0,
                 new |-> [rev |-> 1, content |-> NewPlan(n), by |-> {}]]
<1>2. Base(j) = {} /\ Creates(j) BY DEF Base, Creates
<1>3. Chained(ledger, written, {}, 0) BY DEF Chained
<1>4. j \in Jobs BY NewPlanValid DEF Jobs, Files
<1>5. JobFits("gate", j, plan, ledger, written)
    BY <1>2, <1>3, <1>4, NewPlanValid, NoneAssumption DEF JobFits, InFlight
<1>6. QED BY <1>1, <1>2, <1>4, <1>5, NoneAssumption, BeginStep DEF CreateBegin

LEMMA ReadPlanStep ==
    ASSUME TypeOK, StepOK, NEW c \in Callers, ReadPlan(c) PROVE StepOK'
<1>1. PICK op \in Ops : \E content \in Outcomes(plan.content, op) :
          Start(c, [op |-> op, event |-> 0,
                    new |-> [rev |-> plan.rev + 1, content |-> content, by |-> plan.by]])
    BY DEF ReadPlan
<1>2. PICK content \in Outcomes(plan.content, op) :
          Start(c, [op |-> op, event |-> 0,
                    new |-> [rev |-> plan.rev + 1, content |-> content, by |-> plan.by]])
    BY <1>1
<1> DEFINE j == [op |-> op, event |-> 0,
                 new |-> [rev |-> plan.rev + 1, content |-> content, by |-> plan.by]]
<1>3. plan # None /\ plan \in Files BY DEF ReadPlan, Opened, TypeOK
<1>4. plan.content \in Plans /\ plan.rev \in Nat /\ plan.by \subseteq Events
    BY <1>3 DEF Files
<1>5. /\ plan.rev >= 1 /\ plan.by \subseteq written
      /\ ActiveItemIsPlaced(plan.content)
      /\ Chained(ledger, written, plan.by, plan.rev)
    BY <1>3 DEF StepOK, PlanOK
<1>6. content \in Plans /\ ValidPlan(content) /\ ActiveItemIsPlaced(content)
    BY <1>4, <1>5, OutcomeOK
<1>7. j \in Jobs BY <1>4, <1>6 DEF Jobs, Files
<1>8. Base(j) = plan.by BY <1>4 DEF Base, Events
<1>9. ~Creates(j) BY MutationAssumption DEF Creates, PlanOps
<1>10. Chained(ledger, written, Base(j), j.new.rev - 1)
    <2>1. j.new.rev - 1 = plan.rev BY <1>4
    <2>2. QED BY <1>5, <1>8, <2>1
<1>11. JobFits("gate", j, plan, ledger, written)
    BY <1>3, <1>4, <1>5, <1>6, <1>7, <1>8, <1>9, <1>10, NoneAssumption DEF JobFits, InFlight
<1>12. QED BY <1>2, <1>7, <1>8, <1>9, <1>11, NoneAssumption, BeginStep DEF ReadPlan

LEMMA PassGateStep ==
    ASSUME TypeOK, StepOK, NEW c \in Callers, PassGate(c) PROVE StepOK'
<1> USE DEF StepOK
<1>1. /\ pc[c] = "gate" /\ pc'[c] = "prepare" /\ job' = job
      /\ \A d \in Callers \ {c} : pc'[d] = pc[d]
    BY DEF PassGate, Goto, TypeOK
<1>2. PlanOK' /\ LedgerOK' /\ LossOK'
    BY DEF PassGate, PlanOK, LedgerOK, LossOK, Recorded
<1>3. JobsOK'
    <2>1. UNCHANGED <<plan, ledger, written>> BY DEF PassGate
    <2>2. JobFits("gate", job[c], plan, ledger, written) BY <1>1 DEF JobsOK
    <2>3. JobFits("prepare", job[c], plan, ledger, written) BY <2>2 DEF JobFits, InFlight
    <2>4. QED BY <1>1, <2>1, <2>3 DEF JobsOK
<1>4. OwnEvents' BY <1>1 DEF OwnEvents, InFlight
<1>5. CreatesAlone' BY <1>1 DEF CreatesAlone, PassGate
<1>6. TurnOK' BY <1>1 DEF TurnOK, PassGate
<1>7. QED BY <1>2, <1>3, <1>4, <1>5, <1>6
(* The event is appended; the events before it stand as they were.         *)
LEMMA PrepareStep ==
    ASSUME TypeOK, StepOK, NEW c \in Callers, Prepare(c) PROVE StepOK'
<1> USE DEF StepOK
<1> DEFINE e == Len(ledger) + 1
           j == job[c]
<1>1. /\ pc[c] = "prepare" /\ pc'[c] = "write"
      /\ \A d \in Callers \ {c} : pc'[d] = pc[d] /\ job'[d] = job[d]
      /\ UNCHANGED <<plan, written, raced>>
    BY DEF Prepare, Goto, TypeOK
<1>2. JobFits("prepare", j, plan, ledger, written) BY <1>1 DEF JobsOK
<1>3. j \in Jobs /\ j.new \in Files /\ j.new.rev \in Nat /\ j.new.by \subseteq written
    <2>1. j \in Jobs BY <1>2 DEF JobFits, TypeOK
    <2>2. QED BY <2>1, <1>2 DEF Jobs, Files, JobFits
<1>4. /\ job'[c].event = e /\ job'[c].op = j.op
      /\ job'[c].new.by = j.new.by \union {e}
      /\ job'[c].new.rev = j.new.rev /\ job'[c].new.content = j.new.content
    BY <1>3 DEF Prepare, TypeOK, Jobs, Files
<1>5. /\ Recorded = 1 .. Len(ledger) /\ Recorded' = 1 .. e /\ e \notin Recorded
      /\ \A f \in Recorded : ledger'[f] = ledger[f]
      /\ ledger'[e].prev = j.new.rev - 1 /\ ledger'[e].status = "prepared"
    <2> DEFINE r == [op |-> j.op, prev |-> j.new.rev - 1, new |-> 0, status |-> "prepared"]
    <2>1. ledger' = Append(ledger, r) BY DEF Prepare
    <2>2. ledger \in Seq(Audits) BY DEF TypeOK
    <2>3. \A f \in 1 .. Len(ledger) : ledger'[f] = ledger[f] BY <2>1, <2>2
    <2>4. ledger'[e] = r /\ DOMAIN ledger' = 1 .. e BY <2>1, <2>2
    <2>5. QED BY <2>2, <2>3, <2>4 DEF Recorded
<1>6. \A f \in written : f \in Recorded BY DEF LedgerOK
<1>7. ASSUME NEW by, NEW rev, by \subseteq written, Chained(ledger, written, by, rev)
      PROVE  Chained(ledger', written, by, rev)
    BY <1>5, <1>6, <1>7 DEF Chained
<1>8. PlanOK' BY <1>1, <1>7 DEF PlanOK
<1>9. LedgerOK' BY <1>1, <1>5, <1>6 DEF LedgerOK
<1>10. LossOK' BY <1>1, <1>5, <1>6 DEF LossOK
<1>11. Base(job'[c]) = j.new.by /\ Base(j) = j.new.by
    <2>1. j.event = 0 /\ 0 \notin Recorded
      BY <1>1, <1>2, <1>5 DEF JobFits
    <2>2. QED BY <1>3, <1>4, <1>5, <1>6, <2>1 DEF Base
<1>12. JobsOK'
    <2> SUFFICES ASSUME NEW d \in Callers
                 PROVE  JobFits(pc'[d], job'[d], plan', ledger', written')
        BY DEF JobsOK
    <2>1. CASE d = c
        <3>1. job'[c] # None
          <4>1. job'[c] = [j EXCEPT !.event = e,
                                    !.new = [j.new EXCEPT !.by = j.new.by \union {e}]]
            BY <1>3 DEF Prepare, TypeOK, Jobs, Files
          <4>2. e \in Events /\ j.new.by \union {e} \subseteq Events
            BY <1>3 DEF TypeOK, Events
          <4>3. job'[c] \in Jobs BY <1>3, <4>1, <4>2 DEF Jobs, Files
          <4>4. QED BY <4>3, NoneAssumption
        <3>2. Chained(ledger', written, Base(job'[c]), job'[c].new.rev - 1)
          <4>1. Chained(ledger, written, j.new.by, j.new.rev - 1)
            BY <1>1, <1>2, <1>11 DEF JobFits
          <4>2. QED BY <4>1, <1>3, <1>4, <1>7, <1>11
        <3>3. /\ ValidPlan(j.new.content) /\ ActiveItemIsPlaced(j.new.content)
              /\ Creates(j) => j.new.rev = 1 /\ j.new.by = {}
              /\ ~Creates(j) => j.new.rev >= 2 /\ plan # None
          BY <1>2, <1>11 DEF JobFits
        <3>4. Creates(job'[c]) <=> Creates(j) BY <1>4 DEF Creates
        <3>5. e \in DOMAIN ledger' /\ e \notin written
          BY <1>5, <1>6 DEF TypeOK, Recorded
        <3>6. QED
          BY <2>1, <1>1, <1>3, <1>4, <1>5, <1>11, <3>1, <3>2, <3>3, <3>4, <3>5
          DEF JobFits, InFlight
    <2>2. CASE d # c
        <3>1. JobFits(pc[d], job[d], plan, ledger, written) BY DEF JobsOK
        <3>2. DOMAIN ledger \subseteq DOMAIN ledger' BY <1>5 DEF Recorded, TypeOK
        <3>3. \A f \in DOMAIN ledger : ledger'[f] = ledger[f] BY <1>5 DEF Recorded
        <3>4. pc[d] \in InFlight => job[d].event \in DOMAIN ledger
          BY <3>1 DEF JobFits
        <3>5. JobFits(pc[d], job[d], plan, ledger', written)
          BY <1>6, <3>1, <3>2, <3>3, <3>4, JobKept DEF Recorded
        <3>6. QED BY <1>1, <2>2, <3>5
    <2>3. QED BY <2>1, <2>2
<1>13. OwnEvents'
    <2>1. \A d \in Callers \ {c} : pc[d] \in InFlight => job[d].event \in Recorded
      BY DEF JobsOK, JobFits, Recorded
    <2>2. QED BY <1>1, <1>4, <1>5, <2>1 DEF OwnEvents
<1>14. CreatesAlone' BY <1>1, <1>4 DEF CreatesAlone, Creates
<1>15. TurnOK' BY <1>1, <1>11 DEF TurnOK
<1>16. QED BY <1>8, <1>9, <1>10, <1>12, <1>13, <1>14, <1>15
(* The call's own history, its event included, becomes that of the plan.   *)
(* When nothing was lost yet, what the plan had and the call does not know *)
(* has left the revision from which the call comes.                        *)
LEMMA WritePlanStep ==
    ASSUME TypeOK, StepOK, NEW c \in Callers, WritePlan(c) PROVE StepOK'
<1> USE DEF StepOK
<1> DEFINE j == job[c]
           e == j.event
           q == j.new.rev - 1
<1>1. /\ pc[c] = "write" /\ pc'[c] = "commit" /\ job' = job
      /\ \A d \in Callers \ {c} : pc'[d] = pc[d]
      /\ plan' = j.new /\ written' = written \union {e}
      /\ UNCHANGED <<ledger, raced>>
    BY DEF WritePlan, Goto, TypeOK
<1>2. /\ j # None /\ ValidPlan(j.new.content) /\ ActiveItemIsPlaced(j.new.content)
      /\ Base(j) \subseteq written /\ Chained(ledger, written, Base(j), q)
      /\ Creates(j) => j.new.rev = 1 /\ Base(j) = {}
      /\ ~Creates(j) => j.new.rev >= 2 /\ plan # None
      /\ e \in Recorded /\ e \in j.new.by /\ ledger[e].prev = q
      /\ e \notin written /\ ledger[e].status = "prepared"
    <2>1. JobFits("write", j, plan, ledger, written) BY <1>1 DEF JobsOK
    <2>2. QED BY <2>1 DEF JobFits, InFlight, Recorded
<1>3. j.new \in Files /\ j.new.rev \in Nat /\ j.new # None
    <2>1. j \in Jobs BY <1>2 DEF TypeOK
    <2>2. QED BY <2>1, NoneAssumption DEF Jobs, Files
<1>4. q \in Nat /\ (~Creates(j) => q # 0 /\ q > 0) BY <1>2, <1>3
<1>5. j.new.by = Base(j) \union {e} /\ e \notin Base(j) BY <1>2 DEF Base
<1>6. \A f \in Recorded : ledger[f].prev \in Nat
    <2>1. ledger \in Seq(Audits) BY DEF TypeOK
    <2>2. \A f \in Recorded : ledger[f] \in Audits BY <2>1 DEF Recorded
    <2>3. QED BY <2>2 DEF Audits
<1>7. written \subseteq Recorded BY DEF LedgerOK
<1>8. ASSUME Creates(j)
      PROVE  plan = None /\ written = {} /\ \A d \in Callers \ {c} : pc[d] = "idle"
    BY <1>1, <1>8 DEF CreatesAlone, PlanOK
<1>9. Chained(ledger, written', j.new.by, j.new.rev)
    <2>1. Chained(ledger, written', Base(j), q)
      <3>1. CASE Creates(j)
        <4>1. q = 0 /\ Base(j) = {} BY <1>2, <1>3, <3>1
        <4>2. QED BY <4>1 DEF Chained
      <3>2. CASE ~Creates(j)
        <4>1. \A f \in written' \ written : ledger[f].prev # 0
          BY <1>1, <1>2, <1>4, <3>2
        <4>2. QED BY <1>2, <4>1, ChainKept
      <3>3. QED BY <3>1, <3>2
    <2>2. \A f \in Base(j) : ledger[f].prev \in Nat BY <1>2, <1>6, <1>7
    <2>3. Chained(ledger, written', Base(j) \union {e}, q + 1)
      BY <2>1, <2>2, <1>2, <1>4, <1>5, ChainExtends
    <2>4. q + 1 = j.new.rev BY <1>3
    <2>5. QED BY <2>3, <2>4, <1>5
<1>10. PlanOK' BY <1>1, <1>2, <1>3, <1>4, <1>5, <1>9 DEF PlanOK
<1>11. LedgerOK' BY <1>1, <1>2 DEF LedgerOK, Recorded
<1>12. JobsOK'
    <2> SUFFICES ASSUME NEW d \in Callers
                 PROVE  JobFits(pc'[d], job[d], plan', ledger, written')
        BY <1>1 DEF JobsOK
    <2>1. CASE d = c
        <3>1. Chained(ledger, written', Base(j), q)
          <4>1. CASE Creates(j)
            <5>1. q = 0 /\ Base(j) = {} BY <1>2, <1>3, <4>1
            <5>2. QED BY <5>1 DEF Chained
          <4>2. CASE ~Creates(j)
            <5>1. \A f \in written' \ written : ledger[f].prev # 0
              BY <1>1, <1>2, <1>4, <4>2
            <5>2. QED BY <1>2, <5>1, ChainKept
          <4>3. QED BY <4>1, <4>2
        <3>2. QED BY <2>1, <3>1, <1>1, <1>2, <1>3 DEF JobFits, InFlight, Recorded
    <2>2. CASE d # c
        <3>1. JobFits(pc[d], job[d], plan, ledger, written) BY DEF JobsOK
        <3>2. pc[d] # "idle" => \A f \in written' \ written : ledger[f].prev # 0
          BY <1>1, <1>2, <1>4, <1>8, <2>2
        <3>3. pc[d] \in InFlight => job[d].event # e
          BY <1>1, <2>2 DEF OwnEvents, InFlight
        <3>4. JobFits(pc[d], job[d], plan', ledger, written')
          BY <3>1, <3>2, <3>3, <1>1, <1>3, <1>7, JobKept DEF Recorded
        <3>5. QED BY <3>4, <1>1, <2>2
    <2>3. QED BY <2>1, <2>2
<1>13. OwnEvents' BY <1>1 DEF OwnEvents, InFlight
<1>14. CreatesAlone'
    <2> SUFFICES ASSUME NEW d \in Callers, pc'[d] \in {"gate", "prepare", "write"},
                        Creates(job[d])
                 PROVE  FALSE
        BY <1>1 DEF CreatesAlone
    <2>1. d # c /\ pc[d] = pc'[d] BY <1>1
    <2>2. pc[c] = "idle" BY <2>1 DEF CreatesAlone
    <2>3. QED BY <1>1, <2>2
<1>15. LossOK'
    <2> SUFFICES ASSUME NEW y \in written', y \notin j.new.by
                 PROVE  \E f, g \in written' : f # g /\ ledger[f].prev = ledger[g].prev
        BY <1>1 DEF LossOK
    <2>1. y \in written /\ y \notin Base(j) BY <1>1, <1>5
    <2>2. ~Creates(j) /\ plan # None BY <1>2, <1>8, <2>1
    <2>3. CASE ~(written \subseteq plan.by)
        BY <1>1, <2>2, <2>3 DEF LossOK
    <2>4. CASE written \subseteq plan.by
        <3>1. /\ written = plan.by /\ plan.rev \in Nat
              /\ Chained(ledger, written, plan.by, plan.rev)
          <4>1. plan \in Files BY <2>2 DEF TypeOK
          <4>2. QED BY <2>2, <2>4, <4>1 DEF PlanOK, Files
        <3>2. q \in Nat /\ q > 0 BY <1>4, <2>2
        <3>3. \A f \in written : ledger[f].prev \in Nat BY <1>6, <1>7
        <3>4. \E f \in plan.by : ledger[f].prev = q
          BY <1>2, <2>1, <3>1, <3>2, <3>3, ChainsMeet
        <3>5. PICK f \in written : ledger[f].prev = q BY <3>1, <3>4
        <3>6. f # e /\ f \in written' /\ e \in written' BY <1>1, <1>2
        <3>7. QED BY <1>2, <3>5, <3>6
    <2>5. QED BY <2>3, <2>4
<1>16. TurnOK'
    <2> SUFFICES ASSUME ~raced
                 PROVE  /\ written' = j.new.by
                        /\ \A d, f \in Callers : d # f => pc'[d] = "idle" \/ pc'[f] = "idle"
                        /\ \A d \in Callers : pc'[d] \notin {"gate", "prepare", "write"}
        BY <1>1 DEF TurnOK
    <2>1. \A d \in Callers \ {c} : pc[d] = "idle" BY <1>1 DEF TurnOK
    <2>2. written = Base(j)
        <3>1. CASE plan = None BY <3>1, <1>2, <1>8
        <3>2. CASE plan # None BY <3>2, <1>1 DEF TurnOK
        <3>3. QED BY <3>1, <3>2
    <2>3. QED BY <1>1, <1>5, <2>1, <2>2
<1>17. QED BY <1>10, <1>11, <1>12, <1>13, <1>14, <1>15, <1>16

(* A step that resolves an event, or none, and moves one call on or ends   *)
(* it leaves the plan and what is written as they are.                     *)
LEMMA ResolveStep ==
    ASSUME TypeOK, StepOK, NEW c \in Callers,
           UNCHANGED <<plan, written, raced>>,
           Recorded' = Recorded,
           \A e \in Recorded : ledger'[e].prev = ledger[e].prev,
           \A d \in Callers \ {c} :
               /\ pc'[d] = pc[d] /\ job'[d] = job[d]
               /\ pc[d] \in InFlight => ledger'[job[d].event] = ledger[job[d].event],
           LedgerOK',
           \/ pc'[c] = "idle" /\ job'[c] = None
           \/ /\ pc[c] = "commit" /\ pc'[c] = "project" /\ job'[c] = job[c]
              /\ ~Creates(job[c]) /\ ledger'[job[c].event].status = "committed"
    PROVE  StepOK'
<1> USE DEF StepOK
<1>1. written \subseteq Recorded BY DEF LedgerOK
<1>2. ASSUME NEW by, NEW rev, by \subseteq written, Chained(ledger, written, by, rev)
      PROVE  Chained(ledger', written, by, rev)
    BY <1>1, <1>2 DEF Chained
<1>3. PlanOK' BY <1>2 DEF PlanOK
<1>4. LossOK' BY <1>1 DEF LossOK
<1>5. JobsOK'
    <2> SUFFICES ASSUME NEW d \in Callers
                 PROVE  JobFits(pc'[d], job'[d], plan, ledger', written)
        BY DEF JobsOK
    <2>0. JobFits(pc[d], job[d], plan, ledger, written) BY DEF JobsOK
    <2>1. CASE d # c
        BY <1>1, <2>0, <2>1, JobKept DEF Recorded
    <2>2. CASE d = c /\ pc'[c] = "idle" /\ job'[c] = None
        BY <2>2 DEF JobFits, InFlight
    <2>3. CASE d = c /\ pc[c] = "commit" /\ pc'[c] = "project" /\ job'[c] = job[c]
               /\ ~Creates(job[c]) /\ ledger'[job[c].event].status = "committed"
        <3>1. Chained(ledger', written, Base(job[c]), job[c].new.rev - 1)
          BY <1>2, <2>0, <2>3 DEF JobFits
        <3>2. QED BY <2>0, <2>3, <3>1 DEF JobFits, InFlight, Recorded
    <2>4. QED BY <2>1, <2>2, <2>3
<1>6. OwnEvents' BY DEF OwnEvents, InFlight
<1>7. CreatesAlone' BY DEF CreatesAlone
<1>8. TurnOK' BY DEF TurnOK
<1>9. QED BY <1>3, <1>4, <1>5, <1>6, <1>7, <1>8
(* What Resolve does to the event of the call, and to no other.            *)
LEMMA ResolveDoes ==
    ASSUME TypeOK, StepOK, NEW c \in Callers, pc[c] \in InFlight,
           NEW st, NEW n, Resolve(c, st, n)
    PROVE  /\ Recorded' = Recorded
           /\ \A e \in Recorded : ledger'[e].prev = ledger[e].prev
           /\ \A e \in Recorded \ {job[c].event} : ledger'[e] = ledger[e]
           /\ ledger'[job[c].event].status = st /\ ledger'[job[c].event].new = n
           /\ job[c].event \in Recorded
           /\ \A d \in Callers \ {c} : pc[d] \in InFlight =>
                  ledger'[job[d].event] = ledger[job[d].event]
<1> DEFINE e == job[c].event
<1>1. e \in Recorded BY DEF StepOK, JobsOK, JobFits, Recorded
<1>2. ledger \in Seq(Audits) /\ ledger[e] \in Audits
    <2>1. ledger \in Seq(Audits) BY DEF TypeOK
    <2>2. QED BY <2>1, <1>1 DEF Recorded
<1>3. ledger' = [ledger EXCEPT ![e] = [ledger[e] EXCEPT !.status = st, !.new = n]]
    BY <1>1, <1>2 DEF Resolve, Recorded
<1>4. /\ Recorded' = Recorded
      /\ \A f \in Recorded \ {e} : ledger'[f] = ledger[f]
      /\ ledger'[e] = [ledger[e] EXCEPT !.status = st, !.new = n]
    BY <1>1, <1>2, <1>3 DEF Recorded
<1>5. /\ ledger'[e].prev = ledger[e].prev
      /\ ledger'[e].status = st /\ ledger'[e].new = n
    BY <1>2, <1>4 DEF Audits
<1>6. \A d \in Callers \ {c} : pc[d] \in InFlight =>
          job[d].event \in Recorded /\ job[d].event # e
    BY DEF StepOK, JobsOK, JobFits, Recorded, OwnEvents
<1>7. QED BY <1>1, <1>4, <1>5, <1>6

LEMMA LedgerStands ==
    ASSUME TypeOK, StepOK, NEW c \in Callers, ledger' = ledger
    PROVE  /\ Recorded' = Recorded
           /\ \A e \in Recorded : ledger'[e].prev = ledger[e].prev
           /\ \A d \in Callers \ {c} : pc[d] \in InFlight =>
                  ledger'[job[d].event] = ledger[job[d].event]
BY DEF Recorded

LEMMA ReturnDoes ==
    ASSUME TypeOK, NEW c \in Callers, Return(c)
    PROVE  /\ pc'[c] = "idle" /\ job'[c] = None
           /\ \A d \in Callers \ {c} : pc'[d] = pc[d] /\ job'[d] = job[d]
BY DEF Return, Goto, TypeOK

(* An event is aborted only when its mutation was not written.             *)
LEMMA WriteFailsStep ==
    ASSUME TypeOK, StepOK, NEW c \in Callers, WriteFails(c) PROVE StepOK'
<1>1. pc[c] = "write" /\ Return(c) /\ UNCHANGED <<plan, written, raced>>
    BY DEF WriteFails
<1>2. CASE ledger' = ledger
    <2>1. LedgerOK' BY <1>1, <1>2 DEF StepOK, LedgerOK, Recorded
    <2>2. QED BY <1>1, <1>2, <2>1, LedgerStands, ReturnDoes, ResolveStep
<1>3. CASE Resolve(c, "aborted", 0)
    <2>1. pc[c] \in InFlight /\ job[c].event \notin written
      BY <1>1 DEF StepOK, JobsOK, JobFits, InFlight
    <2>2. LedgerOK'
      <3>1. LedgerOK BY DEF StepOK
      <3>2. /\ Recorded' = Recorded
            /\ \A e \in Recorded \ {job[c].event} : ledger'[e] = ledger[e]
            /\ ledger'[job[c].event].status = "aborted"
        BY <1>3, <2>1, ResolveDoes
      <3>3. QED BY <1>1, <2>1, <3>1, <3>2 DEF LedgerOK
    <2>3. QED BY <1>1, <1>3, <2>1, <2>2, ResolveDoes, ReturnDoes, ResolveStep
<1>4. QED BY <1>2, <1>3 DEF WriteFails

LEMMA CommitFailsStep ==
    ASSUME TypeOK, StepOK, NEW c \in Callers, CommitFails(c) PROVE StepOK'
<1>1. pc[c] = "commit" /\ Return(c) /\ UNCHANGED <<plan, written, raced>>
    BY DEF CommitFails
<1>2. CASE ledger' = ledger
    <2>1. LedgerOK' BY <1>1, <1>2 DEF StepOK, LedgerOK, Recorded
    <2>2. QED BY <1>1, <1>2, <2>1, LedgerStands, ReturnDoes, ResolveStep
<1>3. CASE Resolve(c, "reconciliation_required", 0)
    <2>1. pc[c] \in InFlight BY <1>1 DEF InFlight
    <2>2. LedgerOK'
      <3>1. LedgerOK BY DEF StepOK
      <3>2. /\ Recorded' = Recorded
            /\ \A e \in Recorded \ {job[c].event} : ledger'[e] = ledger[e]
            /\ ledger'[job[c].event].status = "reconciliation_required"
        BY <1>3, <2>1, ResolveDoes
      <3>3. QED BY <1>1, <3>1, <3>2 DEF LedgerOK
    <2>3. QED BY <1>1, <1>3, <2>1, <2>2, ResolveDoes, ReturnDoes, ResolveStep
<1>4. QED BY <1>2, <1>3 DEF CommitFails

LEMMA CommitAuditStep ==
    ASSUME TypeOK, StepOK, NEW c \in Callers, CommitAudit(c) PROVE StepOK'
<1> DEFINE e == job[c].event
           n == job[c].new.rev
<1>1. /\ pc[c] = "commit" /\ pc[c] \in InFlight
      /\ Resolve(c, "committed", n) /\ UNCHANGED <<plan, written, raced>>
    BY DEF CommitAudit, InFlight
<1>2. e \in written /\ ledger[e].prev = n - 1 /\ n \in Nat
    <2>1. JobFits("commit", job[c], plan, ledger, written)
      BY <1>1 DEF StepOK, JobsOK
    <2>2. e \in written /\ ledger[e].prev = n - 1 /\ job[c] # None
      BY <2>1 DEF JobFits, InFlight
    <2>3. QED BY <2>2 DEF TypeOK, Jobs, Files
<1>3. /\ Recorded' = Recorded /\ e \in Recorded
      /\ \A f \in Recorded : ledger'[f].prev = ledger[f].prev
      /\ \A f \in Recorded \ {e} : ledger'[f] = ledger[f]
      /\ ledger'[e].status = "committed" /\ ledger'[e].new = n
      /\ \A d \in Callers \ {c} : pc[d] \in InFlight =>
             ledger'[job[d].event] = ledger[job[d].event]
    BY <1>1, ResolveDoes
<1>4. LedgerOK'
    <2>1. LedgerOK BY DEF StepOK
    <2>2. ledger'[e].new = ledger'[e].prev + 1 BY <1>2, <1>3
    <2>3. QED BY <1>1, <1>2, <1>3, <2>1, <2>2 DEF LedgerOK
<1>5. CASE Creates(job[c])
    <2>1. Return(c) BY <1>5 DEF CommitAudit, Creates
    <2>2. QED BY <1>1, <1>3, <1>4, <2>1, ReturnDoes, ResolveStep
<1>6. CASE ~Creates(job[c])
    <2>1. Goto(c, "project") /\ job' = job BY <1>6 DEF CommitAudit, Creates
    <2>2. /\ pc'[c] = "project" /\ job'[c] = job[c]
          /\ \A d \in Callers \ {c} : pc'[d] = pc[d] /\ job'[d] = job[d]
      BY <2>1 DEF Goto, TypeOK
    <2>3. QED BY <1>1, <1>3, <1>4, <1>6, <2>2, ResolveStep
<1>7. QED BY <1>5, <1>6

LEMMA LeaveStep ==
    ASSUME TypeOK, StepOK, NEW c \in Callers, WriteProjection(c) \/ Gone(c)
    PROVE  StepOK'
<1>1. Return(c) /\ UNCHANGED <<plan, ledger, written, raced>>
    BY DEF WriteProjection, Gone
<1>2. LedgerOK' BY <1>1 DEF StepOK, LedgerOK, Recorded
<1>3. QED BY <1>1, <1>2, LedgerStands, ReturnDoes, ResolveStep

(* The drafts touch nothing of it.                                         *)
LEMMA StillStep ==
    ASSUME StepOK, UNCHANGED <<plan, ledger, pc, job, written, raced>>
    PROVE  StepOK'
BY DEF StepOK, PlanOK, LedgerOK, JobsOK, OwnEvents, CreatesAlone, LossOK, TurnOK, Recorded

LEMMA NextStepOK == TypeOK /\ StepOK /\ [Next]_vars => StepOK'
<1> SUFFICES ASSUME TypeOK, StepOK, [Next]_vars PROVE StepOK' OBVIOUS
<1>1. CASE UNCHANGED vars BY <1>1, StillStep DEF vars
<1>2. ASSUME NEW s \in Specs, LinkDraft(s) \/ FreezeCheck(s) \/ FreezeWrite(s)
      PROVE  StepOK'
    BY <1>2, StillStep DEF LinkDraft, FreezeCheck, FreezeWrite
<1>3. ASSUME NEW c \in Callers,
             \/ CreateBegin(c) \/ ReadPlan(c) \/ PassGate(c) \/ Prepare(c)
             \/ WritePlan(c) \/ WriteFails(c) \/ CommitAudit(c) \/ CommitFails(c)
             \/ WriteProjection(c) \/ Gone(c)
      PROVE  StepOK'
    BY <1>3, CreateBeginStep, ReadPlanStep, PassGateStep, PrepareStep, WritePlanStep,
       WriteFailsStep, CommitAuditStep, CommitFailsStep, LeaveStep
<1>4. QED BY <1>1, <1>2, <1>3 DEF Next
-----------------------------------------------------------------------------
(* The theorems *)

(* The inductive invariant: types, histories, jobs and ledger, for all the *)
(* ways in which calls overlap, fail and die.                              *)
THEOREM Inductive == Spec => []IInv
<1>1. Init => IInv BY InitType, InitStepOK DEF IInv
<1>2. IInv /\ [Next]_vars => IInv'
    <2> SUFFICES ASSUME TypeOK, StepOK, [Next]_vars PROVE TypeOK' /\ StepOK'
        BY DEF IInv
    <2>1. TypeOK' BY NextType DEF StepOK
    <2>2. StepOK' BY NextStepOK
    <2>3. QED BY <2>1, <2>2
<1>3. QED BY <1>1, <1>2, PTL DEF Spec

(* Every variable keeps its type: no operation of aota_plan_update makes   *)
(* of a plan something that is none.                                       *)
THEOREM TypeCorrect == Spec => []TypeOK
<1>1. IInv => TypeOK BY DEF IInv
<1>2. QED BY <1>1, Inductive, PTL

(* The plan and its ledger tell the same story: the ledger never says of a *)
(* mutation that was written that it did not happen, a lost update leaves  *)
(* two events for one revision, and nothing is lost while one call is made *)
(* at a time.                                                              *)
THEOREM LedgerTellsAllHolds == Spec => []LedgerTellsAll
<1>1. ASSUME IInv PROVE LedgerTellsAll
    <2> USE <1>1 DEF IInv, StepOK
    <2>1. LedgerTruthful BY DEF LedgerTruthful, PlanOK, LedgerOK
    <2>2. LossShowsInLedger
        <3> SUFFICES ASSUME plan # None, ~(written \subseteq plan.by)
                     PROVE  \E e, f \in Recorded :
                                /\ e # f /\ ledger[e].prev = ledger[f].prev
                                /\ ledger[e].status # "aborted"
                                /\ ledger[f].status # "aborted"
            BY DEF LossShowsInLedger
        <3>1. PICK e, f \in written : e # f /\ ledger[e].prev = ledger[f].prev
            BY DEF LossOK
        <3>2. QED BY <3>1 DEF LedgerOK
    <2>3. NothingLostInTurn
        BY DEF NothingLostInTurn, TurnOK, PlanOK, Chained
    <2>4. QED BY <2>1, <2>2, <2>3 DEF LedgerTellsAll
<1>2. QED BY <1>1, Inductive, PTL

(* Validation, with the rules of the operations, keeps the active work     *)
(* item of plan.json where an operation can get at it.                     *)
THEOREM ActivePlaced == Spec => [](plan # None => ActiveItemIsPlaced(plan.content))
<1>1. IInv => (plan # None => ActiveItemIsPlaced(plan.content))
    BY DEF IInv, StepOK, PlanOK
<1>2. QED BY <1>1, Inductive, PTL

(* A spec that is frozen is bound to a plan in which its work item was fit *)
(* to be worked on: the freeze has compared the snapshot with the plan it  *)
(* has checked, digest included.                                           *)
THEOREM FrozenWhenFitHolds == Spec => []FrozenWhenFit
<1>1. Init => FitOK BY DEF Init, FitOK
<1>2. ASSUME TypeOK, FitOK, [Next]_vars PROVE FitOK'
    <2>1. CASE UNCHANGED specs BY <1>2, <2>1 DEF FitOK
    <2>2. ASSUME NEW s \in Specs, LinkDraft(s) PROVE FitOK'
        BY <1>2, <2>2 DEF FitOK, LinkDraft, TypeOK
    <2>3. ASSUME NEW s \in Specs, FreezeCheck(s) PROVE FitOK'
        <3>1. specs[s] \in Links BY <1>2, <2>3 DEF FreezeCheck, TypeOK
        <3>2. specs' = [specs EXCEPT ![s] = [specs[s] EXCEPT !.stage = "checked"]]
            BY <1>2, <2>3 DEF FreezeCheck, TypeOK
        <3>3. specs[s].source = plan BY <2>3 DEF FreezeCheck, Advanced
        <3>4. /\ specs'[s].source = specs[s].source
              /\ specs'[s].milestone = specs[s].milestone /\ specs'[s].item = specs[s].item
              /\ specs'[s].review = specs[s].review
              /\ \A t \in Specs \ {s} : specs'[t] = specs[t]
            BY <1>2, <3>1, <3>2 DEF Links, TypeOK
        <3>5. QED BY <1>2, <2>3, <3>3, <3>4 DEF FitOK, FreezeCheck
    <2>4. ASSUME NEW s \in Specs, FreezeWrite(s) PROVE FitOK'
        <3>1. specs[s] \in Links /\ specs[s].stage = "checked" BY <1>2, <2>4 DEF FreezeWrite, TypeOK
        <3>2. PICK stage \in {"frozen", "draft"} :
                  specs' = [specs EXCEPT ![s] = [specs[s] EXCEPT !.stage = stage]]
            BY <1>2, <2>4 DEF FreezeWrite, TypeOK
        <3>3. /\ specs'[s].source = specs[s].source
              /\ specs'[s].milestone = specs[s].milestone /\ specs'[s].item = specs[s].item
              /\ specs'[s].review = specs[s].review
              /\ \A t \in Specs \ {s} : specs'[t] = specs[t]
            BY <1>2, <3>1, <3>2 DEF Links, TypeOK
        <3>4. QED BY <1>2, <2>4, <3>1, <3>3 DEF FitOK, FreezeWrite
    <2>5. QED
        BY <1>2, <2>1, <2>2, <2>3, <2>4 DEF Next, vars, CreateBegin, ReadPlan, PassGate,
           Prepare, WritePlan, WriteFails, CommitAudit, CommitFails, WriteProjection, Gone
<1>3. FitOK => FrozenWhenFit BY DEF FitOK, FrozenWhenFit
<1>4. QED BY <1>1, <1>2, <1>3, TypeCorrect, PTL DEF Spec

(* An unresolved event that nobody is at work on stays, and no call passes *)
(* the gate any more.                                                      *)
THEOREM FailsClosedHolds == Spec => FailsClosed
<1>1. ASSUME IInv, [Next]_vars
      PROVE  /\ Abandoned \subseteq Abandoned'
             /\ Abandoned # {} => PastGate' \subseteq PastGate
    <2> USE <1>1 DEF IInv
    <2>1. ASSUME NEW c \in Callers, CreateBegin(c) \/ ReadPlan(c)
          PROVE  Abandoned \subseteq Abandoned' /\ PastGate' \subseteq PastGate
        <3>1. PICK j : Start(c, j) /\ j.event = 0 /\ Goto(c, "gate") /\ ledger' = ledger
            BY <2>1 DEF CreateBegin, ReadPlan
        <3>2. 0 \notin Recorded BY DEF TypeOK, Recorded
        <3>3. QED BY <3>1, <3>2 DEF Abandoned, Unresolved, Recorded, PastGate, Start, Goto, TypeOK
    <2>2. ASSUME NEW c \in Callers, PassGate(c) PROVE Abandoned = {} /\ Abandoned \subseteq Abandoned'
        BY <2>2 DEF PassGate, GateOpen, Abandoned
    <2>3. ASSUME NEW c \in Callers, job[c] # None, Recorded \subseteq Recorded',
                 \A e \in Recorded \ {job[c].event} : ledger'[e] = ledger[e],
                 \A d \in Callers \ {c} : job'[d] = job[d],
                 \/ job'[c] = None \/ job'[c].event = job[c].event
                 \/ job'[c].event \notin Recorded
          PROVE  Abandoned \subseteq Abandoned'
        BY <2>3 DEF Abandoned, Unresolved
    <2>4. \A c \in Callers : pc[c] # "idle" => job[c] # None
        BY DEF StepOK, JobsOK, JobFits
    <2>5. ASSUME NEW c \in Callers, Prepare(c)
          PROVE  Abandoned \subseteq Abandoned' /\ PastGate' \subseteq PastGate
        <3> DEFINE n == Len(ledger) + 1
        <3>1. /\ pc[c] = "prepare" /\ pc'[c] = "write"
              /\ \A d \in Callers \ {c} : pc'[d] = pc[d] /\ job'[d] = job[d]
            BY <2>5 DEF Prepare, Goto, TypeOK
        <3>2. job[c] \in Jobs BY <2>4, <3>1 DEF TypeOK
        <3>3. job'[c].event = n BY <2>5, <3>2 DEF Prepare, TypeOK, Jobs
        <3>4. /\ Recorded \subseteq Recorded' /\ n \notin Recorded
              /\ \A e \in Recorded : ledger'[e] = ledger[e]
            <4> DEFINE r == [op |-> job[c].op, prev |-> job[c].new.rev - 1, new |-> 0,
                             status |-> "prepared"]
            <4>1. ledger' = Append(ledger, r) BY <2>5 DEF Prepare
            <4>2. ledger \in Seq(Audits) BY DEF TypeOK
            <4>3. QED BY <4>1, <4>2 DEF Recorded
        <3>5. Abandoned \subseteq Abandoned' BY <2>3, <2>4, <3>1, <3>3, <3>4
        <3>6. PastGate' \subseteq PastGate BY <3>1 DEF PastGate
        <3>7. QED BY <3>5, <3>6
    <2>6. ASSUME NEW c \in Callers, WritePlan(c)
          PROVE  Abandoned \subseteq Abandoned' /\ PastGate' \subseteq PastGate
        <3>1. /\ pc[c] = "write" /\ UNCHANGED <<job, ledger>>
              /\ \A d \in Callers \ {c} : pc'[d] = pc[d]
            BY <2>6 DEF WritePlan, Goto, TypeOK
        <3>2. QED BY <3>1 DEF Abandoned, Unresolved, Recorded, PastGate
    <2>7. ASSUME NEW c \in Callers, Return(c), pc[c] # "idle",
                 \/ ledger' = ledger
                 \/ pc[c] \in InFlight /\ \E st, k : Resolve(c, st, k)
          PROVE  Abandoned \subseteq Abandoned' /\ PastGate' \subseteq PastGate
        <3>1. /\ Recorded' = Recorded
              /\ \A e \in Recorded \ {job[c].event} : ledger'[e] = ledger[e]
            BY <2>7, ResolveDoes DEF Recorded
        <3>2. /\ pc'[c] = "idle" /\ job'[c] = None
              /\ \A d \in Callers \ {c} : pc'[d] = pc[d] /\ job'[d] = job[d]
            BY <2>7, ReturnDoes
        <3>3. QED BY <2>3, <2>4, <2>7, <3>1, <3>2 DEF PastGate
    <2>8. ASSUME NEW c \in Callers, CommitAudit(c)
          PROVE  Abandoned \subseteq Abandoned' /\ PastGate' \subseteq PastGate
        <3>1. pc[c] = "commit" /\ Resolve(c, "committed", job[c].new.rev)
            BY <2>8 DEF CommitAudit
        <3>2. CASE Return(c) BY <2>7, <3>1, <3>2 DEF InFlight
        <3>3. CASE Goto(c, "project") /\ UNCHANGED job
            <4>1. /\ pc'[c] = "project"
                  /\ \A d \in Callers \ {c} : pc'[d] = pc[d]
                BY <3>3 DEF Goto, TypeOK
            <4>2. /\ Recorded' = Recorded
                  /\ \A e \in Recorded \ {job[c].event} : ledger'[e] = ledger[e]
                BY <3>1, ResolveDoes DEF InFlight
            <4>3. Abandoned \subseteq Abandoned' BY <2>3, <2>4, <3>1, <3>3, <4>2
            <4>4. PastGate' \subseteq PastGate BY <4>1 DEF PastGate
            <4>5. QED BY <4>3, <4>4
        <3>4. QED BY <2>8, <3>2, <3>3 DEF CommitAudit
    <2>9. CASE UNCHANGED <<pc, job, ledger>>
        BY <2>9 DEF Abandoned, Unresolved, Recorded, PastGate
    <2>10. ASSUME NEW c \in Callers,
                  WriteFails(c) \/ CommitFails(c) \/ WriteProjection(c) \/ Gone(c)
           PROVE  Abandoned \subseteq Abandoned' /\ PastGate' \subseteq PastGate
        <3>1. pc[c] # "idle" /\ Return(c)
            BY <2>10 DEF WriteFails, CommitFails, WriteProjection, Gone
        <3>2. \/ ledger' = ledger
              \/ pc[c] \in InFlight /\ \E st, k : Resolve(c, st, k)
            BY <2>10 DEF WriteFails, CommitFails, WriteProjection, Gone, InFlight
        <3>3. QED BY <2>7, <3>1, <3>2
    <2>11. QED
        BY <1>1, <2>1, <2>2, <2>5, <2>6, <2>8, <2>9, <2>10
        DEF Next, vars, LinkDraft, FreezeCheck, FreezeWrite
<1>2. QED BY <1>1, Inductive, PTL DEF Spec, FailsClosed
==============================================================================
