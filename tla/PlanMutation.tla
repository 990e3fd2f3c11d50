---------------------------- MODULE PlanMutation ----------------------------
(***************************************************************************)
(* aota_plan_create, aota_plan_update, the audit ledger they write, the    *)
(* projection PLAN.md, and the task drafts that bind themselves to a       *)
(* revision of the plan.  Each call is a process of its own: it reads the  *)
(* plan, passes the audit gate, prepares an audit event, writes plan.json, *)
(* commits the event and writes PLAN.md.  No lock is held meanwhile.       *)
(*                                                                         *)
(* A plan file is the plan's content with its revision; `by` stands for    *)
(* what makes its SHA-256 differ from any other: the mutations it has in   *)
(* it, which is also the history the properties look at.                   *)
(***************************************************************************)
EXTENDS PlanCommon, Sequences

CONSTANTS
    Callers,
    Specs,        \* drafts of plan-linked tasks
    Ops,          \* the operations callers ask for
    Starts,       \* contents the plan may have at the start
    Preflight,    \* work items that were added with spec_preflight "required"
    MaxAudits     \* MAX_AUDIT_FILES

ASSUME MutationAssumption ==
    /\ MaxAudits \in Nat
    /\ Ops \subseteq PlanOps
    /\ Preflight \subseteq WorkItems
    /\ Starts \subseteq Plans
    /\ \A p \in Starts : ValidPlan(p) /\ ActiveItemIsPlaced(p)
    /\ None \notin Callers

VARIABLES
    plan,        \* plan.json, None before the plan is created
    projection,  \* the plan that PLAN.md shows
    ledger,      \* the audit events, in the order they were prepared
    pc, job,     \* where each call is and what it carries
    specs,       \* the source_traceability of each draft, and whether it is frozen
    written,     \* history: the events whose mutation reached plan.json
    raced        \* history: two calls were under way at the same time

vars == <<plan, projection, ledger, pc, job, specs, written, raced>>

Events == Nat \ {0}
Files == [rev : Nat, content : Plans, by : SUBSET Events]
EventStatuses == {"prepared", "committed", "aborted", "reconciliation_required"}
Audits == [op : Ops \union {"create_plan"}, prev : Nat, new : Nat,
           status : EventStatuses]
Steps == {"idle", "gate", "prepare", "write", "commit", "project"}
Jobs == [op : Ops \union {"create_plan"}, new : Files, event : Events \union {0}]
Links == [source : Files, milestone : Milestones, item : WorkItems,
          review : BOOLEAN,    \* an architect_review_id is given
          stage : {"draft", "checked", "frozen"}]

ASSUME NoneAssumption == None \notin Files \union Jobs \union Links

TypeOK ==
    /\ plan \in Files \union {None} /\ projection \in Files \union {None}
    /\ ledger \in Seq(Audits)
    /\ pc \in [Callers -> Steps] /\ job \in [Callers -> Jobs \union {None}]
    /\ specs \in [Specs -> Links \union {None}]
    /\ written \subseteq Events /\ raced \in BOOLEAN

-----------------------------------------------------------------------------
(* Helpers *)

Recorded == DOMAIN ledger
Unresolved == {e \in Recorded :
                  ledger[e].status \in {"prepared", "reconciliation_required"}}
(* Mutation: the gate does not look for unresolved events.                 *)
GateOpenToAll == Len(ledger) <= MaxAudits
(* find_unresolved_plan_audits gives up on a ledger that is too long.      *)
GateOpen == Len(ledger) <= MaxAudits /\ Unresolved = {}

(* plan.json is there, is bound to its digest and is valid.                *)
Opened == plan # None /\ ValidPlan(plan.content)

Goto(c, step) == pc' = [pc EXCEPT ![c] = step]
Return(c) == Goto(c, "idle") /\ job' = [job EXCEPT ![c] = None]
Resolve(c, status, new) ==
    ledger' = [ledger EXCEPT ![job[c].event].status = status,
                             ![job[c].event].new = new]
Start(c, j) ==
    /\ pc[c] = "idle"
    /\ job' = [job EXCEPT ![c] = j]
    /\ raced' = (raced \/ \E d \in Callers \ {c} : pc[d] # "idle")

Init ==
    /\ plan \in {None} \union {[rev |-> 1, content |-> p, by |-> {}] : p \in Starts}
    /\ projection = plan
    /\ ledger = <<>>
    /\ pc = [c \in Callers |-> "idle"]
    /\ job = [c \in Callers |-> None]
    /\ specs = [s \in Specs |-> None]
    /\ written = {} /\ raced = FALSE

-----------------------------------------------------------------------------
(* The calls *)

(* A new plan gets an identifier no other has, so that two calls to create *)
(* one never meet; the model follows the first of them.                    *)
CreateBegin(c) ==
    /\ plan = None /\ \A d \in Callers : pc[d] = "idle"
    /\ \E n \in Notes :
           Start(c, [op |-> "create_plan", event |-> 0,
                     new |-> [rev |-> 1, content |-> NewPlan(n), by |-> {}]])
    /\ Goto(c, "gate")
    /\ UNCHANGED <<plan, projection, ledger, specs, written>>

(* The plan is read and its revision is the one the caller expects; the    *)
(* result of the operation is computed and validated in memory.            *)
ReadPlan(c) ==
    /\ Opened
    /\ \E op \in Ops : \E content \in Outcomes(plan.content, op) :
           Start(c, [op |-> op, event |-> 0,
                     new |-> [rev |-> plan.rev + 1, content |-> content,
                              by |-> plan.by]])
    /\ Goto(c, "gate")
    /\ UNCHANGED <<plan, projection, ledger, specs, written>>

PassGate(c) ==
    /\ pc[c] = "gate" /\ GateOpen
    /\ Goto(c, "prepare")
    /\ UNCHANGED <<plan, projection, ledger, job, specs, written, raced>>

(* The intent is durable before anything else is written.                  *)
Prepare(c) ==
    /\ pc[c] = "prepare"
    /\ LET e == Len(ledger) + 1
       IN /\ ledger' = Append(ledger,
                 [op |-> job[c].op, prev |-> job[c].new.rev - 1, new |-> 0,
                  status |-> "prepared"])
          /\ job' = [job EXCEPT ![c].event = e, ![c].new.by = @ \union {e}]
    /\ Goto(c, "write")
    /\ UNCHANGED <<plan, projection, specs, written, raced>>

(* A plan is created with its projection, by one rename of a directory.    *)
WritePlan(c) ==
    /\ pc[c] = "write"
    /\ plan' = job[c].new
    /\ projection' = IF job[c].op = "create_plan" THEN job[c].new ELSE projection
    /\ written' = written \union {job[c].event}
    /\ Goto(c, "commit")
    /\ UNCHANGED <<ledger, job, specs, raced>>

(* plan.json cannot be written: the event is aborted, unless that fails    *)
(* as well.                                                                *)
WriteFails(c) ==
    /\ pc[c] = "write"
    /\ ledger' = ledger \/ Resolve(c, "aborted", 0)
    /\ Return(c)
    /\ UNCHANGED <<plan, projection, specs, written, raced>>

CommitAudit(c) ==
    /\ pc[c] = "commit"
    /\ Resolve(c, "committed", job[c].new.rev)
    /\ IF job[c].op = "create_plan" THEN Return(c)
       ELSE Goto(c, "project") /\ UNCHANGED job
    /\ UNCHANGED <<plan, projection, specs, written, raced>>

(* Mutation: the event is aborted when it cannot be committed.             *)
CommitFailsAborted(c) ==
    /\ pc[c] = "commit"
    /\ ledger' = ledger \/ Resolve(c, "aborted", 0)
    /\ Return(c)
    /\ UNCHANGED <<plan, projection, specs, written, raced>>

(* The commit fails: the event is marked, unless that fails as well.       *)
CommitFails(c) ==
    /\ pc[c] = "commit"
    /\ ledger' = ledger \/ Resolve(c, "reconciliation_required", 0)
    /\ Return(c)
    /\ UNCHANGED <<plan, projection, specs, written, raced>>

(* A projection that cannot be written is reported as stale and left so.   *)
WriteProjection(c) ==
    /\ pc[c] = "project"
    /\ projection' \in {job[c].new, projection}
    /\ Return(c)
    /\ UNCHANGED <<plan, ledger, specs, written, raced>>

(* A call is refused by the gate, or dies.                                 *)
Gone(c) ==
    /\ pc[c] # "idle"
    /\ Return(c)
    /\ UNCHANGED <<plan, projection, ledger, specs, written, raced>>

-----------------------------------------------------------------------------
(* Plan-linked drafts *)

LinkPlan      == {"draft", "approved", "in_progress", "human_checkpoint", "blocked"}
LinkMilestone == {"planned", "ready", "in_progress", "human_checkpoint", "blocked"}
LinkItem      == LinkMilestone \union {"needs_fix", "needs_input"}
FreezePlan      == {"approved", "in_progress", "blocked"}
FreezeMilestone == {"ready", "in_progress", "blocked"}
FreezeItem      == FreezeMilestone \union {"needs_fix"}

SourceIn(p, m, w, planStates, milestoneStates, itemStates) ==
    /\ m \in Present(p.milestones) /\ w \in Present(p.items)
    /\ p.items[w].milestone = m
    /\ p.status \in planStates
    /\ p.milestones[m].status \in milestoneStates
    /\ p.items[w].status \in itemStates

(* A draft is created with a link, or its link is set or refreshed: the    *)
(* snapshot is of the plan that is there.                                  *)
LinkDraft(s) ==
    /\ Opened
    /\ specs[s] # None => specs[s].stage = "draft"
    /\ \E m \in Milestones, w \in WorkItems, review \in BOOLEAN :
           /\ SourceIn(plan.content, m, w, LinkPlan, LinkMilestone, LinkItem)
           /\ specs' = [specs EXCEPT ![s] =
                  [source |-> plan, milestone |-> m, item |-> w, review |-> review,
                   stage |-> "draft"]]
    /\ UNCHANGED <<plan, projection, ledger, pc, job, written, raced>>

(* Mutation: the revisions are compared, the digests are not.              *)
AdvancedByRevision(snapshot) == plan.rev # snapshot.rev

(* Revision and SHA-256 of the plan must still be those of the snapshot.   *)
Advanced(snapshot) == plan.rev # snapshot.rev \/ plan # snapshot

(* The freeze checks the source, with the task's lock and without the plan's; *)
(* it writes afterwards.                                                   *)
FreezeCheck(s) ==
    /\ specs[s] # None /\ specs[s].stage = "draft"
    /\ Opened
    /\ SourceIn(plan.content, specs[s].milestone, specs[s].item,
                FreezePlan, FreezeMilestone, FreezeItem)
    /\ specs[s].item \in Preflight => specs[s].review
    /\ ~Advanced(specs[s].source)
    /\ specs' = [specs EXCEPT ![s].stage = "checked"]
    /\ UNCHANGED <<plan, projection, ledger, pc, job, written, raced>>

FreezeWrite(s) ==
    /\ specs[s] # None /\ specs[s].stage = "checked"
    /\ specs' \in {[specs EXCEPT ![s].stage = stage] : stage \in {"frozen", "draft"}}
    /\ UNCHANGED <<plan, projection, ledger, pc, job, written, raced>>

Next ==
    \/ \E c \in Callers :
        \/ CreateBegin(c) \/ ReadPlan(c) \/ PassGate(c) \/ Prepare(c)
        \/ WritePlan(c) \/ WriteFails(c) \/ CommitAudit(c) \/ CommitFails(c)
        \/ WriteProjection(c) \/ Gone(c)
    \/ \E s \in Specs : LinkDraft(s) \/ FreezeCheck(s) \/ FreezeWrite(s)

Spec == Init /\ [][Next]_vars

-----------------------------------------------------------------------------
(* Safety *)

(* However calls overlap, die and fail, what is in plan.json is a valid    *)
(* plan, every mutation in it has its event in the ledger, and the ledger  *)
(* never says of one of them that it did not happen, nor of another that   *)
(* it did.                                                                 *)
LedgerTruthful ==
    /\ plan # None => ValidPlan(plan.content) /\ plan.by \subseteq written
    /\ written \subseteq Recorded
    /\ \A e \in Recorded :
           /\ ledger[e].status = "committed" =>
                  e \in written /\ ledger[e].new = ledger[e].prev + 1
           /\ ledger[e].status = "aborted" => e \notin written

(* A mutation that was written and is no longer in the plan has been       *)
(* overwritten by a call that had expected the same revision as another    *)
(* one: the loss shows in the ledger as two events, not aborted, for one   *)
(* previous revision.                                                      *)
LossShowsInLedger ==
    (plan # None /\ ~(written \subseteq plan.by)) =>
        \E e, f \in Recorded :
            /\ e # f /\ ledger[e].prev = ledger[f].prev
            /\ ledger[e].status # "aborted" /\ ledger[f].status # "aborted"

(* As long as the host makes one call at a time, whatever dies or fails,   *)
(* no mutation is lost and the revision counts them.                       *)
NothingLostInTurn ==
    (~raced /\ plan # None) =>
        /\ written = plan.by
        /\ \A e, f \in written : ledger[e].prev = ledger[f].prev => e = f

(* The ledger and the plan tell the same story, lost updates included, and *)
(* only overlapping calls lose one.                                        *)
LedgerTellsAll == LedgerTruthful /\ LossShowsInLedger /\ NothingLostInTurn

(* Fail closed: an event that is unresolved when nobody is at work on it   *)
(* any more stays so, and no call gets past the gate after that, so that   *)
(* the plan stands still but for the calls that had passed before.         *)
Abandoned == {e \in Unresolved : \A c \in Callers : job[c] # None => job[c].event # e}
PastGate == {c \in Callers : pc[c] \in {"prepare", "write", "commit"}}
FailsClosed ==
    [][/\ Abandoned \subseteq Abandoned'
       /\ Abandoned # {} => PastGate' \subseteq PastGate]_vars

(* A spec that is frozen is bound to a plan in which its work item was fit *)
(* to be worked on, even when two plans have had the same revision, and to *)
(* an architect's review where the item asks for one.                      *)
FrozenWhenFit ==
    \A s \in Specs : specs[s] # None /\ specs[s].stage = "frozen" =>
        /\ SourceIn(specs[s].source.content, specs[s].milestone, specs[s].item,
                    FreezePlan, FreezeMilestone, FreezeItem)
        /\ specs[s].item \in Preflight => specs[s].review
=============================================================================
