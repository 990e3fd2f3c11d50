# A TLA+ model of AOTA Forge

AOTA Forge (`src/plugin/aota-tools/`) is a Hermes plugin through which an orchestrating agent hands
work to profile agents. Its tools are Python functions that share no memory. They run in different
processes (the WebUI's agent turns, a detached launcher per task, the worker) and meet only through
files in a workspace's registry, written by temp-file-and-rename, and a few `flock`s. Everything
that is hard about the program comes from that: the order in which independent calls read, check
and write those files, and what is left when one of them dies in between.

The project models the way of a task from its plan and contract over its launch and its work to
the report, the decision and the follow-up it calls for, together with the desks people look at it
from, the registry of projects, the CodeGraph index, and the deployment of the package. TLC checks the modules on
small instances; TLAPS proves every safety property and every refinement that holds there for all instances.

    tlc -workers 2 -config MCTaskContract_contract.cfg MCTaskContract
    tlapm TaskContract_proofs.tla

Paths below are relative to `src/plugin/aota-tools/` unless they begin with `src/`.

## 1. Inventory

| component | state it keeps | operations that change it | what makes it correct | module |
|---|---|---|---|---|
| profile task start (`_profile_task_start.py`) | `meta.json` of the task | start: gate, durable `running`, spawn, commit, failure path | one launcher per task; a start that fails leaves a concluded task | `ProfileTaskRun`, `TaskContract` (its gate), `LaunchBinding` (what it freezes) |
| launcher (`_profile_task_launcher.py`) | its child process | binding checks, spawn, deadline, reap, finalize, fallback | always tries to conclude the task; runs what the start has seen | `ProfileTaskRun`, `LaunchBinding` |
| worker outcome (`_worker_outcome_submit.py`) | `worker-outcome.<id>.json` | submit | written once, only by a running task's worker | `ProfileTaskRun`, `RoleReport` |
| finalizer and failure artifacts (`_profile_task_finalize.py`) | `completion.<id>.json`, `meta.json` | receipt, status, handoff, event | status final and backed by evidence, receipt before status | `ProfileTaskRun` |
| cancel (`_profile_task_cancel.py`) | `meta.execution.termination` | intent, query and kill, conclusion | cancelled exactly when the termination is confirmed | `ProfileTaskRun` |
| status (`_profile_task_status.py`) | `meta.json`, handoff | reconciliation from receipt and from registry, handoff recovery | a dead launcher's task ends; what is concluded stays | `ProfileTaskRun` |
| delivery outbox and adapter (`_delivery_outbox.py`, `_delivery_adapter.py`) | `pending/`, `delivered/` | write, drain, mark | at least once, right session, nothing lost | `DeliveryOutbox`, `CompletionNotice` (its promise) |
| handoff rail (`_handoff_*.py`) | `pending/`, `acknowledged/`, ack artifacts, a lock per handoff | create, acknowledge | ack follows a decision and stands; no second handoff | `HandoffRail` |
| decisions (`_orchestration_*.py`) | `DECISION.<id>.json`, a lock per decision | record, resume | a decision's course is monotone | `HandoffRail`, `DecidedWork` (its promise) |
| follow-up creation (`_followup_task_create.py`) | a draft task, the decision | create | one follow-up, only where the decision calls for it | `HandoffRail` |
| task contract (`_task_spec_*.py`) and approval (`_profile_task_approve.py`) | `SPEC.md`, `meta.json`, approval | create, update, freeze (each canonical and legacy), approve | what is launched is the revision and text that was frozen and approved | `TaskContract` |
| form of a contract (`_role_contracts.py`, `_spec_contract.py`) | the draft's fields | validate, default, project into SPEC.md and prompt | what is agreed reaches the worker, whatever the sequence of calls | `RoleContract`, `SpecForm` |
| plan authority (`_plan_*.py`, `_spec_traceability.py`) | `plan.json`, `PLAN.md`, audit events | create, bounded operations, plan link of a draft | the ledger tells what happened; unresolved events stop the plan | `PlanCommon`, `PlanMutation` |
| operator inbox, audit, lineage (`_operator_*.py`, `_orchestration_lineage.py`) | none | none (they read everybody's files) | what is listed exists, can be opened and is said right | `OperatorView`, `OperatorLineage` |
| scope verification (`_profile_task_scope.py`) and project file tools (`_project_file_mutation.py`, `_file_copy.py`, `_read_file.py`) | workspace, `scope-events.jsonl`, baseline | read, write, patch, copy, verify | compliant means in scope; an honest worker is compliant | `ProjectScope`, `WorkerTools` |
| environment and credentials (`_profile_task_env.py`, ...) | launch manifest | freeze, compare | one configuration, whoever edits it meanwhile | `LaunchBinding` |
| mutation audit (`_mutation_audit.py`) | the ledger of the copy tool | record | a refusal that cannot be recorded ends the call | `WorkerTools` |
| project registry and lifecycle (`_project_*.py`) | `projects.json`, a lock, the project cores | initialize, refresh, search, open, brief | one home per id; what was reported stays listed and is found | `ProjectRegistry`, `ProjectDesk` |
| CodeGraph (`_codegraph_*.py`) | the index and its lock | status, rebuild | ready means indexed | `CodegraphIndex` |
| role reports (`_*_report_submit.py`, `_handoff_common.py`) | card, full report | five report tools, handoff made of the card, event | the verdict that was given is the one that is told | `RoleReport` |
| work classification (`_work_classifier.py`) | none | none | riskier work is not planned lighter | `WorkClassification` |
| deployment (`src/scripts/aota_forge_plan_package.py`, `_host_symlink_projection.py`, `profile_runtime_assembly.py`) | the runtime, backups | deploy, save, roll back | a command that says it succeeded left the whole package; only approved content is removed | `PackageDeploy`, `SymlinkProjection` |
| workspace and security contexts; project steward's document tools | task binding; documents | | | partly (section 7) |
| web fetch, attachments; capture and verification scripts | none | | | not modelled (section 7) |

How they interact. A *plan* mutation and a draft's plan link read each other's revision. *create*,
*update* and *freeze* write `SPEC.md` and its binding in `meta.json`; *approve* and the gate of
*start* compare them. *start* freezes a launch manifest and spawns the *launcher* through Hermes'
process registry; the launcher compares manifest and world again, supervises the *worker*, whose
file tools leave events and whose report tools leave card and outcome, and then runs the
*finalizer*, and on its failure the fallback (`write_failure_artifacts`). *cancel* signals the
launcher through the registry. *status* reconciles what the launcher left undone, calling the same
failure path. All of them create the *handoff*; finalizer and failure path also write the *outbox*
event, which the WebUI process drains. The orchestrator reads the handoff, *records* a decision,
*acknowledges*, perhaps *resumes* after asking the user, and creates a *follow-up*, which starts
the cycle again. *Inbox*, *audit* and *lineage* look at all these files while they change.

The hazards this code is exposed to, each at its line and with the properties that would catch it,
are in `PROJECT.json`.

## 2. Plan

The order was: the run rail and its abstract specification, the outbox, the handoff rail (first
part); then the contract that gates a start, the plan, the operator's tools on the composed rail,
the worker's tools with launch binding and scope verification, the projects, and the parts that stand
by themselves: role contract and SPEC form, reports, links, deployment, classification. All of it is done.
The abstract specifications came with the rails they belong to. What would come next: the steward's
document tools.

Three abstract specifications name no file, lock or call: `ProfileTaskRun` implements
`TaskLifecycle`, `HandoffRail` implements `DecidedWork`, `DeliveryOutbox` implements
`CompletionNotice`. All three are checked by a run and proved.

Composition: `OperatorView` EXTENDS `HandoffRail`, adds the source task and the follow-up drafts
as tasks of their own and looks at the composed state, and `OperatorLineage` adds the walk over it;
every behaviour of the composition is one of the rail (`DeskIsRail`). `WorkerTools` EXTENDS `LaunchBinding` and
`ProjectScope`; `ProjectDesk` EXTENDS `ProjectRegistry`; `SpecForm` EXTENDS `RoleContract`.
`MCLiveness`, `MCPlanWork`, `MCProjects` and `MCParts` put several of them into one run; there a behaviour
is about one of the parts, chosen in the initial state by the variable `topic`, and the others stand still.

## 3. The modules and the code

### TaskLifecycle

Four variables: the task's phase, and whether a receipt, a handoff and an event are on disk. A
task starts once, becomes terminal only with a receipt and only once, is handed over only then,
and is announced only after that.

### ProfileTaskRun

One task, since every artifact and the lock belong to one task. The actors are any number of start
calls, cancel calls and status callers, and the launcher with its worker. `meta.json` is `status`,
`session` (the recorded process session id) and `term` (the termination state); the files are
`receipt`, `outcome`, `handoff` (by writer) and `event`; `lock` is the task's `flock`.

An action is what happens between two points where another process could interfere: an unlocked
read, the taking of the lock, a write of a file. Under the lock the receipt and the meta stay
separate actions, since unlocked readers and crashes see the state between them. `pc` says where
an actor is, `loc` what it carries from an earlier read. A call that returns or dies drops the
lock, as the kernel does.

* start: `StartBegin` (lock, gate, durable `running`), `StartSpawn`, `StartCommit`; a failure
  after the gate, or a gate that rejects, runs the failure path (`StartFails`, `StartRejected`).
* launcher: `LauncherRefuses`, `LauncherSpawnsWorker`, `LauncherTimesOut`, `LauncherReaps`, then
  `FinalizeRender`, `FinalizeRecord`, `FinalizeLock`, `FinalizeReceipt`, `FinalizeMeta`.
  `FinalizeAborts` is every exception of the finalizer; it leads to the fallback.
* fallback and failure path (`FailureCheck` to `FailureAborts`) is one set of actions for its
  three callers: launcher (which takes the lock for the meta only), failed start and
  reconciliation (which hold theirs).
* hand over: `ScanHandoff`, `PublishHandoff`, `WriteEvent`, `PublishFails`.
* cancel: `CancelIntent` (phase A), `CancelQuery`/`CancelKill` (phase B, without the lock),
  `CancelPersist` (phase C), `CancelGivesUp`.
* status: `ObserveTerminal`, `ObserveRunning`, the `Reconcile...` actions, `RecoverScan`,
  `RecoverHandoff`.

Abstractions. `partial` is merged into `needs_input`, which the code treats alike. Exit codes are
zero, error and signal (137 and 143, the ones the finalizer tests). Preflights of a start are one
failing step (`LaunchBinding` has them). The scope verification of the finalizer changes
diagnostics and no status, and is in `WorkerTools`. `Steward` stands for the extra card check of a
project-steward task. That a card is missing, so that no handoff is made, is one outcome of the
fault `publish`; `RoleReport` says when it happens. External, and modelled from how the code uses
them: the process registry (`LauncherUp`, `LauncherGone`), the delivery of a signal
(`LauncherDies`), process death (`Crash`).

### DeliveryOutbox

`pending` and `delivered` are the two directories, `shown` and `woken` what the WebUI boundary has
done. Producers check and write (`Produce`, `ProducerWrites`); a drain call lists its session's
events (`DrainBegin`, with the limit applied before the session filter, as in the code), hands
them over one by one (`Deliver`, `DeliverFails`: the boundary may fail wholly or show the card and
start no turn) and marks (`Mark`, `MarkFails`). Nothing takes a lock, so loops of one session
overlap and two producers may write one event. A listing is one step: events of one second come in any order, and
a file renamed while the directory is read is skipped, which an earlier or later listing shows as
well.

### CompletionNotice

What the outbox promises a session. The notes that wait, those that are settled, and who has had
which card and which turn are `pending`, `delivered`, `shown` and `woken`. A note may be taken again and
a card shown again; a note is settled only after its own session had card and turn, and leaves
the waiting ones in the same step. What the abstract module leaves out is every list, loop and limit of a
drain call: that what a drain call found an hour ago was once noted is what makes it a `Show`.

### DecidedWork

What the decision rail promises about the work after a task. The handoffs there are (`pending/` or
`acknowledged/`), what each decision says (its artifact without its state), what a handoff was consumed
with (the ack artifact) and the commissions (the drafts). Overlapping calls may decide twice and may
leave a commission that nobody takes on, as the code does; a verdict, an answer of the user, a
consumption and a commission that was taken on are never changed, and a commission is of a kind its
decision calls for. The moves between directories, the locks and the two halves of each call are
stutters.

### HandoffRail, OperatorView, OperatorLineage

The handoff's `place`, the decision in its ack artifact (`ack`), the decision artifacts, the
follow-up drafts, and the two kinds of lock. Creators are the finalizer's and the status tool's
calls of `find_existing_handoff` and `write_handoff_atomic`; callers are orchestrator sessions,
each making one tool call at a time.

* `FindPending`, `FindAcked`, `WriteHandoff`: the two directories are listed one after the other.
* `RecordBegin`, `RecordWrite`: look for another decision, then write, without a lock.
* `AckBegin` (unlocked checks), `AckLock`, `AckMove`, `AckFile` (the artifact is looked for again
  under the lock), `AckFails`.
* `Resume`: one critical section with one write, so one action.
* `FollowRead` (every check of steps 2 to 8, unlocked), `FollowLock` (the second look),
  `FollowRefused` (whatever refuses the draft's contract), `FollowCreate` (the draft),
  `FollowClaim` (the decision).
* `LockTimesOut`, `Crash`: calls that end early.

`late` is a history variable: the creators whose call began after a handoff existed.

`OperatorView` adds what the readers see besides: the source task with its meta, receipt and card,
what the handoff file says of them (`said`; `Told` is what it can say of the end: the finalizer and a
status call copy the status of the meta, the failure path and a canonical handoff without a card say
`failed` of any task), the `state` field inside the handoff file, which the
ack call rewrites after it has released the lock (`MarkAcked`) or dies before it has (`MarkLost`), the drafts as tasks that are
approved, revised and started, and the cleanup script (`Cleanup`, which deletes only what
`Deletable` admits). `Inbox`, `Opened`, `AuditTask`, `AuditHandoff` and `AuditDecision` are
operators on that state, one operator per group of rules. An architecture task is a design review
of some task; the binding of a preflight to the revision of its subject is left out.
`OperatorLineage` has the lineage, a walk in rounds: what is at the head of the queue was visited, is
missing, or is added and queues what it led to and what it came from. Each node that is added queues
two at most, so `MaxRounds` rounds end every walk of `MaxNodes` nodes, and the walk is a recursive function
of the round.

`AuditQuiet`, the half of `AuditExact` that says the audit accuses nobody, has two exceptions. The first is
what the code itself writes: a handoff that says `failed` of a task that ended otherwise is
accused as `HANDOFF_TERMINAL_MISMATCH` (`SaidFailed`). The other one
the bounds of the run do not meet and the proof found: a call that dies between draft and decision leaves
its draft behind, the retry may create one of another kind (`needs_followup` admits several), and the
audit of the orphan compares it with the kind the decision has now and says `TASK_KIND_CONSTRAINT`
(`LeftBeside`). With one caller, one decision, two drafts, the kinds implementation and
architecture and the value `needs_followup`, TLC shows the behaviour in a few steps.

### TaskContract

Each task has `SPEC.md` (a content, which stands for bytes and for their SHA-256) and `meta.json`
(kind, status, revision, frozen revision, recorded digests, spec dict, approval and, once started,
the binding in `execution`). A canonical update or freeze is one action for the check and the
first write, taken under the lock, and one for the second write (`Update`/`Freeze`, then
`WriteMeta`): a crash or an unlocked reader can be between them. The legacy path checks before it
takes the lock (`EditCheck`) and rechecks little (`Edit`). `ApproveCheck`/`Approve` and
`StartGate`/`StartLaunch` are the unlocked and locked halves of those two tools. `subject` binds a
review to the task it reviews. The legacy update takes canonical drafts too, as in the code; the history
`overtaken` is the set of canonical tasks it has rewritten after a freeze that it had not seen, which is the one
way a frozen SPEC changes (section 6), and the properties speak of the others.

### PlanCommon and PlanMutation

`PlanCommon` is the domain: transition tables, validity, and the effect of every bounded
operation, as functions of a plan. `PlanMutation` is who reads and writes: a call reads the plan,
passes the audit gate, prepares an audit event, writes `plan.json`, commits the event, and writes
`PLAN.md`; there is no lock, each of these is an action, and each write can fail. Drafts link
themselves to a revision (`LinkDraft`) and are compared with the plan when they are frozen
(`FreezeCheck`, `FreezeWrite`), when an item that requires a preflight also has to name its review
(`Preflight`, and `review` in the link). The ledger is the sequence of audit events, oldest first; the
history field `by` of a plan is the set of the events that made it.

### LaunchBinding, ProjectScope, WorkerTools

`LaunchBinding`: the start reads the runner once and the profile config twice and files a
manifest; the launcher reads the manifest and compares it with runner, scope file, config and
credentials, each read being an action that others' edits interleave with. `ProjectScope` has the
three matchers the code uses for a scope pattern (the guard of the file tools, the copy tool, the
verifier), which differ. `WorkerTools`: the tool calls of a worker, with the write and the event
of the write apart, other people's edits, commits and restores, and the verification: delta
against the baseline, attribution by events, verdict.

### ProjectRegistry, ProjectDesk, CodegraphIndex

`ProjectRegistry`: an initialization looks at the root, scans the workspace, makes directories,
writes the manifest and `observed.json`, takes the lock, builds the registry from another scan and
writes it; a refresh does the last three; a search compares the registry with the tree and takes
a live scan when they differ. `ProjectDesk` has the read-only tools, each with the place where it
looks. `CodegraphIndex` is the status call (report, look at the sizes of pending files, look at
the lock) against rebuilds, which are external command lines holding a lock of their own.

### RoleContract, SpecForm, RoleReport

`RoleContract` has the field tables of every kind of work, the validators and defaults, and the
two projections (SPEC.md and prompt); a contract is a function from names to classes of values
that the validators can tell apart. `SpecForm` is create and update over it, with the stored
draft, patches and revisions; `Contracts` and `Specs` are what its tools can be called with at all,
of which TLC tries a few (any two fields changed, any one patch). `RoleReport`: a report is accepted, its card written, its full
report written, while the task is ended by the finalizer, by the launcher's fallback, by a status call that
finds no receipt or adopts one, or by phase C of a cancel (`Finalize`, `Fallback`, `StatusFallback`,
`StatusAdopts`, `CancelConcludes`). The first three then hand over: the handoff is made from the card or, failing
that, from the failure stage (`Publish`), and the event after it (`Announce`). Either may fail or its writer
die (`TellerStops`), which the code swallows; a later status call makes up for the handoff (`Recover`) and
nobody for the event. The failure path's own handoff and event say `failed` whatever the meta says.

### SymlinkProjection, PackageDeploy, WorkClassification

`SymlinkProjection` is the check of a projected plugin directory beside what the operating system
does with the same path, over any layout of the places it names (`Trees`). `PackageDeploy` is the command lines that deploy, save and roll back,
file by file, with kills, edits and other operators in between; what a command has still to do is
the set of the steps of its plan that are left, and their order is that of the code's table
(`First`, `Rest`). `WorkClassification` is one function from facts to questions or axes; `facts` is
whatever the orchestrator knows of a piece of work, and `Counts` bounds only what TLC raises a
count to.

## 4. Runs

| run | instance | what it shows |
|---|---|---|
| `benign_faults` | 2 starts, cancel, status, launcher; all may crash; launch, commit, finalize and publish faults; steward task | one launch; a terminal task has a receipt; cancelled exactly when confirmed; the code implements `TaskLifecycle` |
| `all_faults` | 1 start, cancel, 2 status callers, launcher; every fault after the launch | terminal statuses are backed by evidence and final |
| `liveness` | either 1 start, cancel, status, a launcher that may die; or 4 events (one without a session, one of a session that nobody has open), 2 overlapping drain loops, limit 2, all faults (58,747 states) | `RunConcludes`, `HandoffAppears`; an event is delivered only when its session has seen it; the code implements `CompletionNotice` (right session, nothing lost, a mark is one step); what is not hidden is delivered |
| `drain_starves` | the same events, limit 1, no faults | a violation (section 6) |
| `rail` | 1 handoff, 1 creator, 2 sessions, 2 decisions, 2 drafts, all faults | an ack follows a decision; a handoff is created once; the code implements `DecidedWork` (the first verdict, answer, ack and follow-up stands, of the kind that was called for); an interrupted ack can be completed |
| `contract` | 2 tasks, one possibly legacy, an implementation and a review; 2 callers, 2 texts; one of the tasks is revised (`Revised`), 3 revisions; both paths | what is launched is what was frozen and approved, no update is lost, what is frozen stays unless an edit overtakes it |
| `frozen_rewritten` | 1 canonical task, 2 callers, 2 revisions | a violation (section 6) |
| `plan_work` | the plan of one milestone and one item at work, which requires a preflight, 2 callers, one draft, a ledger of one event (three at most, with the calls under way); a launch with 3 configs, 2 runners, 2 keys and 2 edits; a worker with 2 SPECs, 3 files, 2 events, 1 trouble (1,794,136 states) | the ledger tells the truth, unresolved events stop the plan, a draft is frozen only when it fits; one configuration runs; compliant means in scope; an honest worker is compliant |
| `operator` | 1 source task that ends done or cancelled, 1 handoff, 2 decisions, 1 draft of up to 2 revisions, 2 sessions, a creator; all may die (864,956 states) | inbox, audit, lineage and listings are true to the files at any moment |
| `projects` | 2 directories, 2 ids, 2 callers with 3 calls, 1 edit, damage or death; 2 sources, 2 rebuilders | one home per id, what was reported stays, what is there is found by all tools, ready means indexed |
| `parts` | careful contracts with two fields changed; 2 overlapping reports of one of 5 roles; trees with two odd paths; 2 operators, 2 commands, 3 events; small work with two facts changed | the eight properties of the parts that stand by themselves |
| `start_repeated` | 2 starts | the violation of section 6 |

The bounds are enough for the cases that matter.

* A task needs two racing calls of a kind to show a race, and a third finds what the second finds.
  The same holds of callers of a contract, a plan, a decision, a registry and a deployment.
* The outbox needs two loops of one session and more events than a listing holds: with limit 2 and two
  events that nobody takes, which are never removed, a third can be hidden for good; with one such event
  none is. `drain_starves` needs one of them and limit 1; both limits stand for the code's 50.
* On the rail, handoffs interact only through a creator's listing, decisions only through their
  handoff and drafts only through their decision, so one handoff with two decisions and two drafts
  meets every conflict. Values leave out `no_action`, `needs_followup` and `reopen_required`,
  which behave as `accepted` and as a less restricted `review_required`.
* A contract needs a revision that is read, one that overtakes it and one that overtakes that;
  two tasks, because the only relation among tasks is that of a review to its subject, of which
  it does not matter which one is revised: either may be the review.
* The plan's races do not depend on which operation is asked for; `set_work_item_status` is the
  one that can be refused by the domain, by the revision and by the gate.
* The operator's source tasks are those the audit can judge (section 6: it dies on the others). They end
  `done` or `cancelled`, the one that every handoff tells as it is and one that a failure handoff does not.
* `plan_work`: the three parts are independent. A plan and a worker share only files that the one never writes
  and the other never reads, and a worker begins with what its launch has committed, which does not change
  afterwards. So nothing is lost by looking at one at a time, and a worker's part begins after the launch.
  Project and workspace are the same directory in the instance; the two SPECs have
  patterns on which the matchers agree and patterns on which they do not. An event trace of two
  is what read-back after write and unattributed change need.
* `projects`: a rejected call, a late one and a third that finds their traces; project directories
  lie below the workspace (`Top = None`).
* `parts`: every validator looks at one field or at two, so two changed fields reach every
  combination of its outcomes; a third change of a fact (raising one) is made by the property.
  The gate of a deployment (readiness, evidence, link) is one step, and nobody edits while two
  commands run: either is enough for a mixture.

No property is checked under a state constraint. Symmetry is used only where no liveness property
is checked and the sets are only compared for equality, with one exception: the lineage takes the
first of two decisions of a handoff in the order of a directory, a CHOOSE in the model, so TLC sees it for one
order, while the theorem is about any. Where a run says `CHECK_DEADLOCK FALSE`
the system may really stop: a task ends, an outbox runs empty, ids or calls run out.

### Fairness

`ProfileTaskRun`: a call or process that is not killed runs to its end, and signals arrive. The
status tool is called again and again, by the process that holds the registry entry, and often
enough 30 seconds apart not to be rejected as polling; the orchestration prompt and the WebUI's
polling do that, while two observers that each poll within 30 seconds can keep each other out, since a rejected
poll is itself recorded (`_profile_task_status.py:147-197`). The `flock` is polled by sleeping,
without a queue, so taking it needs strong fairness. Nothing is assumed of the worker (the
deadline ends it), of the number of starts and cancels, or that anybody starts the task at all.

`DeliveryOutbox`: the WebUI of an open session polls for ever; a delivery and a rename that are tried again and
again succeed at last (`SF`). Nothing is assumed of producers, nor of sessions that nobody has open.
`MCLiveness` assumes the fairness of the part a behaviour is about.

`HandoffRail`: a call that has begun goes on (`WF`); somebody repeats an ack that was interrupted,
and not every repetition fails (`SF`). The code does not repeat it by itself. What `AckCompletes`
shows is therefore that the half-done state is one a repeated call gets out of, rather than one in
which every later call is refused, as it would be if a moved handoff were simply answered as
acknowledged.

The other modules promise nothing that must eventually happen: their calls are asked for by people
and agents, and nothing in the code repeats them.

## 5. What is proved

Every theorem holds for any number of actors, sessions, events, handoffs, decisions, tasks,
projects, files, commands and revisions, and for any set of faults, from the named assumptions on
the constants only and what the theorem itself assumes. Most assumptions say that actors of
different kinds differ and that `None` is none of them (`ActorsAssumption`, `OutboxAssumption`,
`RailAssumption`, `ContractAssumption`, `PlanAssumption`, `NoneAssumption`, `ReportAssumption`). The others:

* `MutationAssumption`: a plan to start from is one an operation can have left.
* `RegistryAssumption`: what people turn a root into (`Edited`) is something a root can be.
* `LineageAssumption`: the limit of a lineage is a natural number.
* `CodegraphAssumption` and `DeskAssumption`: there are finitely many sources, and decision ids; the
  source task is no draft and ends in a terminal status; an architecture source is a design review.
* `ConfigsAssumption`: a profile has a config. `PathsAssumption`: paths, patterns and the place of the
  project are made of names.

* `ProfileTaskRun_proofs`: `InductiveInvariance`, `TypeCorrect`, `OneLaunch`,
  `CancelledConfirmed`, `EvidenceBacked`, `TerminalFiled` (without fallback faults), `Finality`
  and `Refinement` (without fallback and reconciliation faults). None of the safety properties is
  inductive. That a terminal status is final needs to know that whoever is about to write one
  found the task running *and* holds the lock (`LockInv`, `RunningInv`); that a status has
  evidence needs what the launcher still carries to be true of the worker (`WorkerInv`,
  `EvidenceInv`), and what a late reconciliation reads in the receipt to be true as well. `IndInv`
  is their conjunction, with one lemma for each action.
* `DeliveryOutbox_proofs`: `OutboxInvariance`, `SeenBeforeDelivered`, `NoForeignCard`,
  `EventsStay`. The strengthening is what a drain call holds between delivery and mark: its
  event has been shown and woken for its own session, even if another loop has renamed it since.
  `NoticeImplemented` is the refinement: each step is a `Note`, a `Show`, a `Settle` or nothing, once it
  is known that whatever a drain call lists was written by somebody (`Noted`), and that files leave
  `pending/` only for `delivered/`.
* `HandoffRail_proofs`: `RailInvariance`, `AckAfterDecision`, `NoSecondHandoff`,
  `OnlyAllowedFollowups`, `FirstAckStands`, `FollowupFinal`, and from these `DecidedFirst` and
  `SettledForGood`, which state the run's properties. `RailInv` says what a call's unlocked
  checks are worth later (`CallInv`): a decision that once allowed a follow-up of some kind still
  allows it, because a resume touches only decisions that wait and a waiting decision allows none;
  that a decision has no follow-up stays true only under its lock (`LockInv`). A creator that
  missed the handoff in `pending/` although one existed will meet it in `acknowledged/`
  (`CreatorInv`). `DecisionsImplemented` and `DeskImplements` are the refinement, for the rail and for
  the rail under the desk, with one lemma per abstract action (`HandOnStep` to `TakeOnStep`): from
  `RailInv` a call that creates a draft still has the verdict it read without the lock, and from `LinkInv` the draft
  a call is about to name was made for that decision.
* `TaskContract_proofs`: `ContractTyped`, `ApprovedLaunch`, `UpdatesKept`, `LaunchedOnFrozen` and
  `FrozenForGood`, whichever path the callers use on whichever tasks. `ContractInv` says that a call past its first write
  holds the lock (`LockInv`) and that what it is about to write is what meta lacks (`WriteInv`),
  that a review keeps its subject (`SubjectInv`), that what an approval names was asked for by a
  human (`ApprovalInv`) and that a gated start carries what it has checked (`GatedInv`). The last three
  theorems need `SeparateInv` as well: what a canonical file says (`CanonicalInv`), what
  a caller has seen of a draft (`SightInv`, `DraftInv`) and what a launched worker was given
  (`LaunchInv`), each of the tasks no edit has overtaken, since an overtaken one loses all of this; and
  of every task that what passes the gate as frozen was written by a freeze (`FreezeInv`), for an
  overtaken task does not start unless it is frozen again. So `overtaken` is the exact extent of the defect:
  no other interleaving changes a frozen SPEC. Steps are grouped by shape: those
  that only look, that revise, that write meta, that mark or start a task.

* `HandoffRail_proofs` proves the desk as well: `DeskInvariance`, `DeskIsRail`,
  `InboxFaithfulHolds`, `AuditExactHolds`. `DeskInv` adds to `RailInv` what the files of several
  owners say of each other: a follow-up that a decision names, or that a call is about to
  name, is a draft for that decision (`LinkInv`); a task that has ended has its receipt, its handoff
  says how it ended or that it failed, and the handoff's own state field may be behind its directory but never ahead
  (`FileInv`); only implementations are approved (`PaperInv`). The inbox keeps the most urgent of the
  items with one id; that there is one is a minimum in the order of priorities.
* `LineageWholeHolds`, in the same module: from a task, or a decision without a follow-up, a lineage that is not
  cut short is everything its artifacts lead to, and reports no cycle. What such an artifact leads
  to is closed after five steps (`FiveSteps`). `Fit` is the invariant of the walk between two rounds: what was added
  is reached and leads only to what was added or waits; at most two nodes wait, none of them was added, and of two
  that wait neither leads to the other (`Waiting`, `Two`). A node that came to the queue by two ways
  would be the reported cycle; `Fit` excludes it. So each round adds a node, and the walk is over
  after `MaxRounds` (`Walked`); that the recursive function exists is shown by a minimal counterexample
  (`RoundsExist`).
* `PlanMutation_proofs`: `TypeCorrect`, `LedgerTellsAllHolds`, `FrozenWhenFitHolds`,
  `FailsClosedHolds`, `ActivePlaced`. `IInv` relates the plan on disk and what each call has prepared to
  the ledger (`Chained`): the events of a plan's history are there, and are those up to its revision.
  Without lost updates a call between its write and its commit is the only one (`TurnOK`), which is
  what makes the ledger complete. `FitOK` says of a
  draft that was checked that the plan content it is bound to has its work item in a fit state.
* `Projects_proofs`: `RegistryTypeCorrect`, `NoTwoHomesHolds`, `SuccessStaysHolds`,
  `FoundAlikeHolds`, `ReadyMeansIndexedHolds`. `RInv` says what a walk over the tree is worth later:
  whoever is about to write the registry holds the lock, and its walk has seen every manifest
  that was reported and not touched since (`WriterFits`); a search that takes no lock has seen
  what was there all the while (`SearchFits`). `CInv` says the same of the codegraph's report.
* `WorkerTools_proofs`: `LaunchBound`, `OneConfigHolds`, `WorkTypeCorrect`,
  `CompliantMeansInScopeHolds`, `HonestIsCompliantHolds`. `BoundToOne`: from the launcher's comparison on
  the manifest is that of a config there was. `WInv` follows each file from the baseline through calls
  and other people's changes to the verdict: an event that counts is backed by a write in scope
  (`EventsOK`), and without a mishap every write has its event (`WroteOK`, `ChangesOK`).
* `Parts_proofs`: `VerdictKeptHolds`, `NeverSilentHolds`, `HandedOnHolds` about the reports, where
  `RepInv` carries what was said through calls that overlap with the end of the task (`Tells`, `CardOK`,
  `EndOK`), and what whoever hands over takes along from the end to the handoff and from there to the event
  (`HandoffOK`, `EventOK`), whoever ended the task and whatever fails; `DeployInductive`, `AllOrNothingHolds`, `RemovalApprovedHolds` about the deployment,
  where `DeployInv` says of every command what it has done, saved and still has to do, save
  for files others have touched (`CommandsFit`), and that no two commands share a backup (`OwnBackups`);
  `WorkNeverDowngraded`, which needs no invariant: raising a fact makes facts that are larger
  in every respect the rules look at (`GrowsOrStays`), and each axis grows with those. `SpecKeptHolds`
  is over every contract the tools can be called with (`FormSpec`), where TLC changes two fields:
  a contract that passes the validators passes them again with its defaults filled in
  (`ContractSound`), which an update of another part of the draft relies on (`FormInv`).
  `LandsHomeHolds` is over every layout: the real path is a recursive function, whose existence is
  shown by a minimal counterexample (`HopsExist`), and unfolding its last hops along the way to the
  link and to the one plugin directory (`WayToLink`, `WayHome`) leaves no room for a link.

Only model-checked are the liveness properties (`RunConcludes`, `HandoffAppears`, `DrainReachesAll`,
`AckCompletes`), since liveness under fairness is out of the prover's reach, and the violations of
`start_repeated`, `frozen_rewritten` and `drain_starves`.

Two theorems state properties that a refinement contains and that no run checks by themselves:
`SettledForGood` (an ack, a follow-up and an answer stand) and `EventsStay` (no event is lost).

## 6. Where the code and its own words differ

Three runs check what comments of the repository say, and TLC finds behaviours of the code that break them.

* `start_repeated`: the start's failure path is "for failures before background launch"
  (`_profile_task_start.py:294`), but a second start call on a running task is rejected by the gate,
  and the rejection runs the failure path on the running task.
* `frozen_rewritten`: "Once a SPEC is frozen (status=frozen), it is immutable" (`_task_spec_update.py:70`). The
  legacy update accepts a canonical draft, checks status and frozen revision before it takes the lock (`:265-279`),
  and rechecks digest and revision only (`:308-335`), which a canonical freeze leaves as they were. An edit
  that a freeze overtakes rewrites the frozen SPEC and makes the task a draft again, with its approval in
  place. The task does not start in this state (`LaunchedOnFrozen`), but a task that has started meanwhile, or
  a review of it, loses the text it works on. The properties of `contract` say so task by task (`overtaken`).
* `drain_starves`: "Drain all pending outbox events" (`_delivery_adapter.py:146`). A listing is cut to the limit
  before it is filtered by session (`_delivery_outbox.py:483`), and events that no session drains are never
  removed; as many of them as the limit hide every younger event for good. `DrainReachesAll` says that nothing
  else does.

The following were met while modelling and are in the behaviour of the modules, without a run of
their own. Properties state the exceptions they make necessary.

### Run rail and outbox

* The handoff's status can differ from the task's (rule E of the audit): phase C of a cancel
  between the fallback's receipt and its meta leaves a `failed` handoff of a `cancelled` task; a
  failure handoff says `failed` also where meta says cancelled or timeout (`_profile_task_finalize.py:1205`,
  `_handoff_common.py:386`), and the audit then calls the code's own work broken. The failure path's event says
  the same (`:1141`).
* A success receipt "must never be replaced by a late fallback path" (`_profile_task_finalize.py:1014`);
  after a lock timeout the launcher asks the fallback to do exactly that. The meta that is then to be
  reconciled from the receipt (`:502`) waits for ever while a termination stays `requested`.
* A cancel that ends unresolved may conclude `done` from exit code 0 without an outcome artifact
  (`_profile_task_cancel.py:488`); `already_exited` is recorded as `signal_sent` (`:135`).
* The failure path writes `failed` without looking at the termination
  (`_profile_task_finalize.py:1087`); a failure receipt that cannot be written leaves a terminal
  task without receipt, hence the assumption of `TerminalFiled` (`_profile_task_status.py:679`).
* A start that dies before its commit leaves an empty session id, and the cancel is refused
  (`_profile_task_start.py:862`). A grandchild that keeps the worker's pipe open outlives the
  deadline (`_profile_task_launcher.py:270`).
* The event is best-effort (`_profile_task_finalize.py:904-906`, `:944-949`, `:1163`): when its writer dies or its
  write fails after the handoff, it is lost for good, for a status call recovers only the handoff. Where
  a status call that adopts a receipt or phase C of a cancel ends the task (`_profile_task_status.py:522-573`,
  `_profile_task_cancel.py:459-499`), nobody writes one at all. The branch "exceeded time limit" of an event's summary is
  dead: the status is already `timed_out` there (`_delivery_outbox.py:128`, `:200-204`).
* `count_pending_events` passes limit 0, which
  is clamped to 1, and never exceeds one (`_delivery_outbox.py:458`). An event written again after
  its delivery is created again (`:346`).

### Rail of decisions, and the desk

* Recording takes no lock: two sessions both find no decision of a handoff and both write one
  (rule L, "One active decision per handoff"). A call that dies between draft and decision leaves
  a draft, and the retry creates another, although the lock is to "prevent duplicate follow-up
  creation" (`_followup_task_create.py:522`); the audit does not see the duplicate.
* The `state` field of a moved handoff is rewritten after the lock is released and never repaired
  after a crash: the audit warns `DECISION_ACK_PENDING` and the inbox keeps a
  `failed_unconsumed` item.
* The audit of every task of schema 2 or later that is no architecture task dies
  (`_operator_consistency_check.py:557`, `arch_mode` unassigned). `RESUME_KIND_MISMATCH` can never
  fire. Every follow-up gets `SOURCE_BINDING` warnings.
* A lineage that begins at a decision with a follow-up reports `cycle_detected`
  (`docs/P11-Closure-Result.md:29` of the source has the symptom).
* The inbox does not list `recorded` decisions that need a follow-up, scans no done task and no
  task with a scope violation, and does not see a failed task without handoff. A timeout item
  opens as "task", a broken lineage as a decision; the approval opener of a running task says
  "approved_ready_to_start".
* `aota_handoff_list` takes value and state from two decisions when there are two;
  `decision_open` shows the handoff's state field, the inbox opener its directory. The profile
  filter of the list lacks architect and project-steward.

### Contract and approval

* A legacy update of a canonical draft can also make the next freeze return a lower revision, and
  legacy-only fields make every later canonical update or freeze fail.
* A crash between SPEC.md and meta leaves a legacy draft that every call refuses; a canonical one
  recovers by retry. Tasks of the legacy format can no longer be created or launched
  (`invalid_frozen_scope`, after `running` was written); canonical reviews never bind
  `subject_spec_revision`.
* Role contracts: an explicit `forbidden_operations: null` escapes the rule about "delete"; items
  of a plain list are not type-checked; a required field given as number or flag raises TypeError;
  `verdict_rules` is not in the prompt; `isolated_reproduction_only` is always rejected; the
  defaults of the budget's sub-fields are never applied.

### Plan

* Two updates of one expected revision are both accepted (`_plan_common.py:129`): the later file
  wins, and the ledger shows both.
* A crash between prepare and commit blocks the plan for good; a ledger of more than 200 events
  refuses every plan of the workspace; `PLAN.md` may stay older, unreported.
  `apply_plan_operation` is used by tests only.

### Work and scope

* The guard takes `src/**` from the right and admits `lib/src/a`, the verifier does not; the copy
  tool does not expand a plain directory name. A copy leaves no scope event, so each permitted copy
  yields "violated"; it counts its change budget as one file per call, never over the run.
* With the project in a subdirectory every tool write is an unattributed delta. Commits hide
  changes, since head and index are captured and never compared. Git failing at postflight fails
  open, against `_profile_task_scope.py:172-175`. More than 2000 events drop telemetry, and an
  honest worker is accused. A refused read counts as a violation, a refused write does not.
* The start reads the profile config twice: `key_env` may come from an older version than the
  digest. Credential failures are never recorded under the three documented classifications
  (`_profile_task_launcher.py:386-397`; `src/skills/aota-tool-failure-fallback/SKILL.md:33-35`).

### Projects and index

* Two initializations of one id are both rejected and leave both scaffolds; the scaffold of a
  rejected late duplicate drops the project that is already registered at the next refresh. Two
  ids at the same root can both be reported as done. A crash in between leaves `partial_scaffold`
  for ever, a lock timeout an unregistered core until a refresh.
* Content that changes under one revision is only warned of; a corrupted registry restarts at
  revision 1.
* `project_open` keeps the first of two projects with one id, the registry drops both; a search
  may return a project that is gone and say fresh, or miss one while a writer holds the lock. The
  brief's "fresh" is about this project's hash only; it cuts its warnings alphabetically without
  saying so; a project the registry does not list is not found by it even when a live scan has it.
* Two rebuilds both see nobody and both start; only the command line's own lock decides. A timeout
  kills it and leaves `codegraph.lock`, after which the status is "busy" and the rebuild refuses
  for ever. A pending item that is listed twice is counted twice.

### Reports, deployment, classification

* A task that exits with 0 and an outcome but no card gets no handoff and no event, against "the
  fallback handoff does not require worker CARD/RESULT" (`src/skills/aota-task-lifecycle/SKILL.md`). Phase C of a cancel sets no failure stage
  (`_profile_task_cancel.py:459-499`), so a failed or cancelled task without a card gets none either.
  The architect's verdicts and the reviewer's `inconclusive` become `not_applicable` on the card.
  The marking of stale bindings is dead code; `full_exists` is always true in a canonical handoff.
* Deployment: when the alias of an orphan exists it alone is hash-checked, and the orphan is removed
  unchecked; rollback restores and removes source files too, against "No Git cleanup or source
  deletion is part of rollback" (`PCF-WI-05C.2.md:42`); a failed deployment and a failed rollback
  print the same line; rollback without argument takes the newest directory even if it is
  incomplete; a skill file removed from the sources makes every later deployment fail at the gate.
* Classification: high technical uncertainty about local work gives A0 although medium gives A1
  (`_work_classifier.py:286`, `:297`; excepted in `NeverDowngraded`). An override of the architect
  gate on P0 work gives the fast path with A1 although
  `docs/aota-forge-plan/WORK-CLASSIFICATION.md:28-30` wants P0 and A0; the P0 rule looks neither
  at modules, profiles nor checkpoints (`:39-42` of that document).

## 7. Not modelled

* Web fetch and attachments: one call, one network or file read, no state that a second actor
  could interleave with.
* The capture and verification scripts under `src/scripts/`: they test texts and a running host,
  and keep no state of the system.
* The steward's document update and artifact link (`_project_steward_mutation.py`): an unlocked read,
  compare and write each, on documents no other tool decides by; artifact link refuses at 100
  links even a repeat. `WORKSPACE_RECOMMENDATION.json` is likewise left out.
* CodeGraph's queries, relationship candidates of projects, the search, path, status, diff and command
  tools, the compact view of the plan: read-only, and nothing they return is decided by here.
* How a workspace root is found, and the loading of the plugin.
* Within the modelled components: what JSON files say beyond what decisions are made from; symlink
  and permission checks other than the deployment's (a refusal like any other); audit lines and
  logging; the polling guard of the status tool (it refuses calls and changes nothing else); filters,
  limits and sorting of listings; paths outside the workspace and the cut at 4000 paths in the
  scope verification; two deployments in one second; reason codes and wording; hardware failures
  that lose a renamed file.
