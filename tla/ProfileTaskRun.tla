--------------------------- MODULE ProfileTaskRun ---------------------------
(***************************************************************************)
(* The execution of one AOTA Profile Task, from the start call to its      *)
(* terminal status, handoff and outbox event.  Every actor is a process of *)
(* its own that meets the others only through the task directory           *)
(* (meta.json, completion.<id>.json, worker-outcome.<id>.json), the        *)
(* workspace's handoff directory and delivery outbox, and the flock of the *)
(* task.  All artifacts are per task, so one task is modelled.             *)
(*                                                                         *)
(*   Starters    calls of aota_profile_task_start                          *)
(*   Launcher    the detached launcher with its finalizer and fallback     *)
(*   worker      the agent process the launcher supervises                 *)
(*   Cancellers  calls of aota_profile_task_cancel (three phases)          *)
(*   Observers   callers of aota_profile_task_status (reconciliation)      *)
(***************************************************************************)
EXTENDS Naturals

CONSTANTS
    Starters, Cancellers, Observers, Launcher,
    NoActor,    \* the lock is free
    Timed,      \* BOOLEAN: the start call passed timeout_seconds
    Steward,    \* BOOLEAN: the task runs under profile project-steward
    Faults,     \* which of FaultKinds may happen
    MayCrash    \* actors that may be killed between two steps

(* What may fail: the launch (an unusable reply of terminal_tool, a launch *)
(* manifest that cannot be read), start's commit of the meta, a write or a *)
(* validation of the primary finalizer, the handoff or the outbox event, a *)
(* write of write_failure_artifacts, the meta write of a status call.      *)
FaultKinds == {"launch", "commit", "finalize", "publish", "fallback", "reconcile"}

Actors == Starters \union Cancellers \union Observers \union {Launcher}

ASSUME ActorsAssumption ==
    /\ NoActor \notin Actors
    /\ Launcher \notin Starters \union Cancellers \union Observers
    /\ Starters \intersect Cancellers = {}
    /\ Starters \intersect Observers = {}
    /\ Cancellers \intersect Observers = {}
    /\ MayCrash \subseteq Actors
    /\ Timed \in BOOLEAN /\ Steward \in BOOLEAN
    /\ Faults \subseteq FaultKinds

VARIABLES
    status,      \* meta.status
    session,     \* meta.execution.process_session_id is recorded
    term,        \* meta.execution.termination.state, "none" if absent
    receipt,     \* completion.<start_id>.json, or NoReceipt
    outcome,     \* worker-outcome.<start_id>.json, "none" if absent
    handoff,     \* terminal_status of the handoff each actor wrote, or "none"
    event,       \* terminal_status of the outbox event, or "none"
    lock,        \* holder of the task's flock
    pc,          \* where each actor is
    loc,         \* each actor's local: the status or outcome it carries
    worker,      \* the worker process
    intent,      \* the outcome the worker is submitting
    workerExit,  \* exit code class the launcher passes to the finalizer
    killed,      \* a termination signal is on its way to the launcher
    launches     \* how many launchers were ever spawned

metaVars   == <<status, session, term>>
fileVars   == <<receipt, outcome, handoff, event>>
workerVars == <<worker, intent, workerExit>>
procVars   == <<worker, intent, workerExit, killed, launches>>
vars == <<status, session, term, receipt, outcome, handoff, event, lock, pc,
          loc, worker, intent, workerExit, killed, launches>>

-----------------------------------------------------------------------------
(* Types *)

Terminal == {"done", "failed", "needs_input", "cancelled", "timeout"}
Statuses == {"frozen", "running"} \union Terminal
TermStates == {"none", "requested", "signal_sent", "confirmed", "unresolved"}
(* "partial" is handled everywhere as "needs_input" is and is merged into it *)
Outcomes == {"completed", "failed", "needs_input"}
(* "signal" stands for 137 and 143, the codes run_finalize tests for *)
Exits == {"zero", "error", "signal"}

NoReceipt == [status |-> "none", exit |-> "none", outcome |-> "none"]
Receipts  == [status: {"running"} \union Terminal, exit: Exits, outcome: Outcomes]

Labels == {"idle", "preflight", "commit", "done",                    \* start
           "absent", "boot", "run", "render", "record", "finLock",   \* launcher
           "finReceipt", "finMeta", "exited", "dead",
           "faCheck", "faWrite", "faLock", "faMeta",                 \* fallback
           "scan", "publish", "notify",                              \* hand over
           "query", "kill", "persist",                               \* cancel
           "reconcile", "registry", "conclude",                      \* status
           "recover", "recreate"}

TypeOK ==
    /\ status \in Statuses
    /\ session \in BOOLEAN
    /\ term \in TermStates
    /\ receipt \in Receipts \union {NoReceipt}
    /\ outcome \in Outcomes \union {"none"}
    /\ handoff \in [Actors -> Terminal \union {"none"}]
    /\ event \in Terminal \union {"none"}
    /\ lock \in Actors \union {NoActor}
    /\ pc \in [Actors -> Labels]
    /\ loc \in [Actors -> Statuses \union Outcomes \union TermStates]
    /\ worker \in {"absent", "running", "submitting", "exited"}
    /\ intent \in Outcomes \union {"none"}
    /\ workerExit \in Exits \union {"none"}
    /\ killed \in BOOLEAN
    /\ launches \in Nat

-----------------------------------------------------------------------------
(* Helpers *)

Goto(p, label)  == pc' = [pc EXCEPT ![p] = label]
Carry(p, value) == loc' = [loc EXCEPT ![p] = value]
Take(p)         == lock = NoActor /\ lock' = p
Drop(p)         == lock' = IF lock = p THEN NoActor ELSE lock

HasReceipt == receipt # NoReceipt
(* find_existing_handoff scans pending/ and acknowledged/ for the binding *)
HasHandoff == \E p \in Actors : handoff[p] # "none"

(* ProcessRegistry's view of the background session *)
LauncherUp   == pc[Launcher] \notin {"absent", "exited", "dead"}
LauncherGone == pc[Launcher] \in {"exited", "dead"}

(* Where an actor goes when its call returns or its process ends *)
Home(p) == IF p = Launcher THEN "exited"
           ELSE IF p \in Observers THEN "idle" ELSE "done"
Return(p) == Goto(p, Home(p)) /\ Drop(p)

(* The receipt that makes a success authoritative *)
IsSuccess(r) == r = [status |-> "done", exit |-> "zero", outcome |-> "completed"]

(* Without a trusted outcome artifact the worker failed, whatever its code *)
TrustedOutcome == IF outcome = "none" THEN "failed" ELSE outcome

(* Status of a receipt rendered before the lock is taken *)
RenderedStatus(out, code) ==
    IF out = "needs_input" THEN "needs_input"
    ELSE IF code = "zero" /\ out = "completed" THEN "done" ELSE "failed"

(* run_finalize's precedence: cancel, then timeout, then the outcome.  A   *)
(* termination still "requested" defers and leaves the task running.  The  *)
(* ids of the termination always match those of the execution: both are    *)
(* written from the same meta and session is recorded once.                *)
FinalStatus(out, code) ==
    IF term \in {"signal_sent", "confirmed"} THEN "cancelled"
    ELSE IF term = "requested" THEN "running"
    ELSE IF Timed /\ code = "signal" THEN "timeout"
    ELSE RenderedStatus(out, code)

(* Mutation: the exit code alone decides.                                  *)
AuthoritativeStatusByCode(r) == IF r.exit = "zero" THEN "done" ELSE "failed"

(* _authoritative_receipt_status: only these two receipts keep their status *)
AuthoritativeStatus(r) ==
    IF IsSuccess(r) THEN "done"
    ELSE IF r.status = "needs_input" /\ r.outcome = "needs_input"
         THEN "needs_input" ELSE "failed"

(* The status a reconciliation gives a running task: the termination comes *)
(* first, then what the receipt or the registry says.                      *)
ReconciledStatus(evidence) ==
    IF term \in {"signal_sent", "confirmed"} THEN "cancelled"
    ELSE IF term = "requested" THEN "running"
    ELSE evidence

(* exit_code of a failure receipt: the launcher passes final_exit_code or 1 *)
FailureExit(p) == IF p = Launcher /\ workerExit \in {"error", "signal"}
                  THEN workerExit ELSE "error"

-----------------------------------------------------------------------------
Init ==
    /\ status = "frozen" /\ session = FALSE /\ term = "none"
    /\ receipt = NoReceipt /\ outcome = "none"
    /\ handoff = [p \in Actors |-> "none"] /\ event = "none"
    /\ lock = NoActor
    /\ pc = [p \in Actors |-> IF p = Launcher THEN "absent" ELSE "idle"]
    /\ loc = [p \in Actors |-> "none"]
    /\ worker = "absent" /\ intent = "none" /\ workerExit = "none"
    /\ killed = FALSE /\ launches = 0

-----------------------------------------------------------------------------
(* aota_profile_task_start.  The lock is held from the gate to the return. *)

(* Mutation: the running status is left to the final commit.               *)
StartBeginUnrecorded(s) ==
    /\ pc[s] = "idle" /\ status = "frozen"
    /\ Take(s)
    /\ Goto(s, "preflight")
    /\ UNCHANGED <<metaVars, fileVars, procVars, loc>>

(* The gate needs a frozen spec.  The running status is durable before any *)
(* preflight, so that a second call does not pass it.                      *)
StartBegin(s) ==
    /\ pc[s] = "idle"
    /\ status = "frozen"
    /\ Take(s)
    /\ status' = "running" /\ session' = FALSE /\ term' = "none"
    /\ Goto(s, "preflight")
    /\ UNCHANGED <<fileVars, procVars, loc>>

(* A call the gate rejects raises like one whose launch failed.  start_id  *)
(* is always the task id, so _record_start_failure takes a running task    *)
(* for its own and runs the failure path on it.                            *)
StartRejected(s) ==
    /\ pc[s] = "idle"
    /\ status = "running"
    /\ Take(s)
    /\ Goto(s, "faCheck")
    /\ UNCHANGED <<metaVars, fileVars, procVars, loc>>

(* A preflight or the launch itself raises: _record_start_failure.         *)
StartFails(s) ==
    /\ pc[s] = "preflight"
    /\ Goto(s, "faCheck")
    /\ UNCHANGED <<metaVars, fileVars, procVars, lock, loc>>

(* terminal_tool starts the launcher.  Its reply may be unusable.          *)
StartSpawn(s) ==
    /\ pc[s] = "preflight"
    /\ \E next \in {"commit"} \union (IF "launch" \in Faults THEN {"faCheck"} ELSE {}) :
           pc' = [pc EXCEPT ![s] = next, ![Launcher] = "boot"]
    /\ launches' = launches + 1
    /\ UNCHANGED <<metaVars, fileVars, workerVars, killed, lock, loc>>

(* The running meta with the session id, unless the task is terminal.      *)
StartCommit(s) ==
    /\ pc[s] = "commit"
    /\ IF status \in Terminal /\ HasReceipt
       THEN UNCHANGED metaVars
       ELSE status' = "running" /\ session' = TRUE /\ term' = "none"
    /\ Return(s)
    /\ UNCHANGED <<fileVars, procVars, loc>>

(* The commit fails: _rollback_kill (not if no temporary file could be     *)
(* made), then the failure path, while the launcher may still be alive.    *)
StartCommitFails(s) ==
    /\ "commit" \in Faults
    /\ pc[s] = "commit"
    /\ killed' \in {killed, killed \/ LauncherUp}
    /\ Goto(s, "faCheck")
    /\ UNCHANGED <<metaVars, fileVars, workerVars, launches, lock, loc>>

-----------------------------------------------------------------------------
(* The worker: it submits one outcome and exits.  _do_submit checks        *)
(* meta.status without the lock and writes afterwards; a second submit is  *)
(* idempotent or rejected and changes nothing.                             *)

WorkerSubmit(out) ==
    /\ worker = "running"
    /\ status = "running"
    /\ outcome = "none"
    /\ worker' = "submitting" /\ intent' = out
    /\ UNCHANGED <<metaVars, fileVars, lock, pc, loc, workerExit, killed, launches>>

WorkerWrite ==
    /\ worker = "submitting"
    /\ outcome' = intent
    /\ worker' = "running"
    /\ UNCHANGED <<metaVars, receipt, handoff, event, lock, pc, loc, intent,
                   workerExit, killed, launches>>

WorkerExit(code) ==
    /\ worker \in {"running", "submitting"}
    /\ worker' = "exited" /\ workerExit' = code
    /\ UNCHANGED <<metaVars, fileVars, lock, pc, loc, intent, killed, launches>>

-----------------------------------------------------------------------------
(* The launcher *)

LauncherSpawnsWorker ==
    /\ pc[Launcher] = "boot"
    /\ worker' = "running"
    /\ Goto(Launcher, "run")
    /\ UNCHANGED <<metaVars, fileVars, lock, loc, intent, workerExit, killed, launches>>

(* A binding, credential or runner check fails: _fallback without a        *)
(* worker.  An unreadable manifest leaves nothing to finalize with.        *)
LauncherRefuses ==
    /\ pc[Launcher] = "boot"
    /\ \E next \in {"faCheck"} \union (IF "launch" \in Faults THEN {"exited"} ELSE {}) :
           Goto(Launcher, next)
    /\ UNCHANGED <<metaVars, fileVars, procVars, lock, loc>>

(* The deadline passes: SIGTERM, SIGKILL, and 137 for the finalizer        *)
(* whatever the worker's own code was.                                     *)
LauncherTimesOut ==
    /\ Timed
    /\ pc[Launcher] = "run" /\ worker # "exited"
    /\ worker' = "exited" /\ workerExit' = "signal"
    /\ Goto(Launcher, "render")
    /\ UNCHANGED <<metaVars, fileVars, lock, loc, intent, killed, launches>>

LauncherReaps ==
    /\ pc[Launcher] = "run" /\ worker = "exited"
    /\ Goto(Launcher, "render")
    /\ UNCHANGED <<metaVars, fileVars, procVars, lock, loc>>

-----------------------------------------------------------------------------
(* run_finalize, primary mode *)

(* Read the trusted outcome (none means failed) and look for a receipt:    *)
(* none, the same one (idempotent), or another one (conflict, exit 2).     *)
(* Two nonzero codes of one class may still differ.                        *)
FinalizeRender ==
    /\ pc[Launcher] = "render"
    /\ LET out == TrustedOutcome
           same == receipt.exit = workerExit /\ receipt.outcome = out
       IN /\ Carry(Launcher, out)
          /\ \/ ~HasReceipt /\ Goto(Launcher, "record")
             \/ HasReceipt /\ same /\ Goto(Launcher, "finLock")
             \/ /\ HasReceipt /\ (~same \/ workerExit # "zero")
                /\ Goto(Launcher, "faWrite")
    /\ UNCHANGED <<metaVars, fileVars, procVars, lock>>

FinalizeRecord ==
    /\ pc[Launcher] = "record"
    /\ receipt' = [status  |-> RenderedStatus(loc[Launcher], workerExit),
                   exit    |-> workerExit,
                   outcome |-> loc[Launcher]]
    /\ Goto(Launcher, "finLock")
    /\ UNCHANGED <<metaVars, outcome, handoff, event, procVars, lock, loc>>

FinalizeLock ==
    /\ pc[Launcher] = "finLock"
    /\ \/ Take(Launcher) /\ Goto(Launcher, "finReceipt")
       \* five seconds pass: exit 1, and the launcher falls back
       \/ lock # NoActor /\ Goto(Launcher, "faWrite") /\ UNCHANGED lock
    /\ UNCHANGED <<metaVars, fileVars, procVars, loc>>

(* The receipt completed by the status that was decided.  The execution    *)
(* record that goes with it, the scope verification and the cut of the     *)
(* worker's log are left out here.                                         *)
DecidedReceipt(new) ==
    [status |-> new, exit |-> workerExit, outcome |-> loc[Launcher]]

(* Mutation: a task that became terminal in the meantime is not noticed.   *)
FinalizeReceiptUnguarded ==
    /\ pc[Launcher] = "finReceipt"
    /\ LET new == FinalStatus(loc[Launcher], workerExit)
       IN /\ receipt' = DecidedReceipt(new)
          /\ Carry(Launcher, new)
    /\ Goto(Launcher, "finMeta")
    /\ UNCHANGED <<metaVars, outcome, handoff, event, procVars, lock>>

(* Under the lock: an already terminal task is left alone; otherwise the   *)
(* status is decided and the receipt rewritten with it.  status cannot be  *)
(* "frozen" here (exit 3): a launcher exists only after StartBegin.        *)
FinalizeReceipt ==
    /\ pc[Launcher] = "finReceipt"
    /\ IF status \in Terminal
       THEN Return(Launcher) /\ UNCHANGED <<receipt, loc>>
       ELSE LET new == FinalStatus(loc[Launcher], workerExit)
            IN /\ receipt' = DecidedReceipt(new)
               /\ Carry(Launcher, new)
               /\ Goto(Launcher, "finMeta")
               /\ UNCHANGED lock
    /\ UNCHANGED <<metaVars, outcome, handoff, event, procVars>>

(* The steward's card may turn out missing or unbound after the receipt    *)
(* was written: the meta then says failed.                                 *)
FinalizeMeta ==
    /\ pc[Launcher] = "finMeta"
    /\ \E new \in {loc[Launcher]} \union
                  (IF Steward /\ loc[Launcher] = "done" THEN {"failed"} ELSE {}) :
          /\ status' = new
          /\ term' = IF new = "cancelled" THEN "confirmed" ELSE term
          /\ Carry(Launcher, new)
          /\ IF new = "running"
             THEN Return(Launcher)
             ELSE Goto(Launcher, "scan") /\ UNCHANGED lock
    /\ UNCHANGED <<session, fileVars, procVars>>

(* A write raises, or SPEC.md no longer matches its hash: the finalizer    *)
(* exits nonzero after releasing the lock and the launcher falls back.     *)
FinalizeAborts ==
    /\ "finalize" \in Faults
    /\ pc[Launcher] \in {"record", "finReceipt", "finMeta"}
    /\ Goto(Launcher, "faWrite")
    /\ Drop(Launcher)
    /\ UNCHANGED <<metaVars, fileVars, procVars, loc>>

-----------------------------------------------------------------------------
(* write_failure_artifacts, called by the launcher's fallback (no lock),   *)
(* a failed start and status reconciliation (both holding the lock).       *)

(* A caller it leaves without a result: a status call concludes from what  *)
(* the registry said, the others return.                                   *)
GiveUp(p) ==
    IF p \in Observers THEN Goto(p, "conclude") /\ UNCHANGED lock ELSE Return(p)

(* A success receipt wins.  After a failed primary finalizer the launcher  *)
(* passes replace_success_on_primary_failure and enters at "faWrite".      *)
FailureCheck(p) ==
    /\ pc[p] = "faCheck"
    /\ IF IsSuccess(receipt) THEN GiveUp(p) ELSE Goto(p, "faWrite") /\ UNCHANGED lock
    /\ UNCHANGED <<metaVars, fileVars, procVars, loc>>

FailureReceipt(p) ==
    /\ pc[p] = "faWrite"
    /\ receipt' = [status |-> "failed", exit |-> FailureExit(p), outcome |-> "failed"]
    /\ Goto(p, IF p = Launcher THEN "faLock" ELSE "faMeta")
    /\ UNCHANGED <<metaVars, outcome, handoff, event, procVars, lock, loc>>

FailureLock(p) ==
    /\ pc[p] = "faLock"
    /\ \/ Take(p) /\ Goto(p, "faMeta")
       \* timeout: return True with neither meta nor handoff written
       \/ lock # NoActor /\ Goto(p, Home(p)) /\ UNCHANGED lock
    /\ UNCHANGED <<metaVars, fileVars, procVars, loc>>

(* Mutation: the failure path overrides whatever the task already is.      *)
FailureMetaOverrides(p) ==
    /\ pc[p] = "faMeta"
    /\ status' = "failed"
    /\ Carry(p, "failed")
    /\ Goto(p, "scan")
    /\ IF p = Launcher THEN Drop(p) ELSE UNCHANGED lock
    /\ UNCHANGED <<session, term, fileVars, procVars>>

(* The launcher releases the lock here; the other callers keep theirs.     *)
FailureMeta(p) ==
    /\ pc[p] = "faMeta"
    /\ status' = IF status \in Terminal THEN status ELSE "failed"
    /\ Carry(p, "failed")
    /\ Goto(p, "scan")
    /\ IF p = Launcher THEN Drop(p) ELSE UNCHANGED lock
    /\ UNCHANGED <<session, term, fileVars, procVars>>

(* The receipt or the meta cannot be written: every caller swallows it.    *)
FailureAborts(p) ==
    /\ "fallback" \in Faults
    /\ pc[p] \in {"faWrite", "faMeta"}
    /\ GiveUp(p)
    /\ UNCHANGED <<metaVars, fileVars, procVars, loc>>

-----------------------------------------------------------------------------
(* Handoff and outbox event.  Looking for a handoff and writing one are    *)
(* two steps.  Errors are swallowed: a lost handoff skips the event.       *)

ScanHandoff(p) ==
    /\ pc[p] = "scan"
    /\ Goto(p, IF HasHandoff THEN "notify" ELSE "publish")
    /\ UNCHANGED <<metaVars, fileVars, procVars, lock, loc>>

PublishHandoff(p) ==
    /\ pc[p] = "publish"
    /\ handoff' = [handoff EXCEPT ![p] = loc[p]]
    /\ Goto(p, "notify")
    /\ UNCHANGED <<metaVars, receipt, outcome, event, procVars, lock, loc>>

(* A status call goes on to build its answer, which looks for a handoff    *)
(* once more; the other callers are done.                                  *)
HandedOver(p) ==
    IF p \in Observers THEN Goto(p, "recover") /\ UNCHANGED lock ELSE Return(p)

(* An event that is already pending is returned as it is.                  *)
WriteEvent(p) ==
    /\ pc[p] = "notify"
    /\ event' = IF event = "none" THEN loc[p] ELSE event
    /\ HandedOver(p)
    /\ UNCHANGED <<metaVars, receipt, outcome, handoff, procVars, loc>>

PublishFails(p) ==
    /\ "publish" \in Faults
    /\ pc[p] \in {"publish", "notify"}
    /\ HandedOver(p)
    /\ UNCHANGED <<metaVars, fileVars, procVars, loc>>

-----------------------------------------------------------------------------
(* aota_profile_task_cancel.  Calls the gate rejects change nothing.       *)

(* Phase A, under the lock: durable intent.                                *)
CancelIntent(c) ==
    /\ pc[c] = "idle"
    /\ lock = NoActor
    /\ status = "running" /\ session /\ term = "none"
    /\ term' = "requested"
    /\ Goto(c, "query")
    /\ UNCHANGED <<status, session, fileVars, procVars, lock, loc>>

(* Phase B, no lock: ask the registry.  In another process, or after the   *)
(* session was pruned, it does not know the session.                       *)
CancelQuery(c) ==
    /\ pc[c] = "query"
    /\ \/ LauncherUp /\ Goto(c, "kill") /\ UNCHANGED loc
       \/ Carry(c, "unresolved") /\ Goto(c, "persist")
    /\ UNCHANGED <<metaVars, fileVars, procVars, lock>>

(* kill_process answers "killed", "already_exited" or an error.  The first *)
(* two both return kill_ok, so the "not_sent" branch is never taken.       *)
CancelKill(c) ==
    /\ pc[c] = "kill"
    /\ \/ LauncherUp /\ killed' = TRUE /\ Carry(c, "signal_sent")
       \/ LauncherGone /\ Carry(c, "signal_sent") /\ UNCHANGED killed
       \/ Carry(c, "unresolved") /\ UNCHANGED killed
    /\ Goto(c, "persist")
    /\ UNCHANGED <<metaVars, fileVars, workerVars, launches, lock>>

(* Mutation: phase C cancels the task but leaves the termination unconfirmed. *)
CancelPersistUnconfirmed(c) ==
    /\ pc[c] = "persist" /\ lock = NoActor
    /\ IF status # "running"
       THEN UNCHANGED metaVars
       ELSE /\ status' = IF ~HasReceipt THEN "running"
                         ELSE IF loc[c] = "signal_sent" THEN "cancelled"
                         ELSE IF receipt.exit = "zero" THEN "done" ELSE "failed"
            /\ term' = loc[c]
            /\ UNCHANGED session
    /\ Goto(c, "done")
    /\ UNCHANGED <<fileVars, procVars, lock, loc>>

(* Phase C, under the lock again: persist the result and reconcile with a  *)
(* receipt if one is there.  Phase C writes neither handoff nor event.     *)
CancelPersist(c) ==
    /\ pc[c] = "persist"
    /\ lock = NoActor
    /\ IF status # "running"
       THEN UNCHANGED metaVars
       ELSE /\ status' = IF ~HasReceipt THEN "running"
                         ELSE IF loc[c] = "signal_sent" THEN "cancelled"
                         ELSE IF receipt.exit = "zero" THEN "done" ELSE "failed"
            /\ term' = IF HasReceipt /\ loc[c] = "signal_sent"
                       THEN "confirmed" ELSE loc[c]
            /\ UNCHANGED session
    /\ Goto(c, "done")
    /\ UNCHANGED <<fileVars, procVars, lock, loc>>

(* The lock cannot be had within five seconds: the call returns and the    *)
(* termination stays "requested".                                          *)
CancelGivesUp(c) ==
    /\ pc[c] = "persist"
    /\ lock # NoActor
    /\ Goto(c, "done")
    /\ UNCHANGED <<metaVars, fileVars, procVars, lock, loc>>

-----------------------------------------------------------------------------
(* aota_profile_task_status *)

(* A terminal task is answered without the lock.                           *)
ObserveTerminal(o) ==
    /\ pc[o] = "idle"
    /\ status \in Terminal
    /\ Carry(o, status)
    /\ Goto(o, "recover")
    /\ UNCHANGED <<metaVars, fileVars, procVars, lock>>

(* A task read as running needs the lock; it may be terminal by then.      *)
ObserveRunning(o) ==
    /\ pc[o] = "idle"
    /\ status # "frozen"
    /\ Take(o)
    /\ Goto(o, "reconcile")
    /\ UNCHANGED <<metaVars, fileVars, procVars, loc>>

ReconcileTerminal(o) ==
    /\ pc[o] = "reconcile"
    /\ status \in Terminal
    /\ Carry(o, status)
    /\ Goto(o, "recover")
    /\ UNCHANGED <<metaVars, fileVars, procVars, lock>>

(* Both reconciliations end alike: the meta gets the status, unless that   *)
(* write fails (the error is swallowed), and the answer is built from it.  *)
Reconcile(o, new) ==
    /\ \/ /\ status' = new
          /\ term' = IF new = "cancelled" THEN "confirmed" ELSE term
       \/ "reconcile" \in Faults /\ UNCHANGED <<status, term>>
    /\ Carry(o, new)
    /\ IF new = "running" THEN Return(o) ELSE Goto(o, "recover") /\ UNCHANGED lock
    /\ UNCHANGED <<session, fileVars, procVars>>

(* _reconcile_from_receipt *)
ReconcileReceipt(o) ==
    /\ pc[o] = "reconcile"
    /\ status = "running"
    /\ HasReceipt
    /\ Reconcile(o, ReconciledStatus(AuthoritativeStatus(receipt)))

ReconcileNoReceipt(o) ==
    /\ pc[o] = "reconcile"
    /\ status = "running"
    /\ ~HasReceipt
    /\ Goto(o, "registry")
    /\ UNCHANGED <<metaVars, fileVars, procVars, lock, loc>>

(* Mutation: the meta is written without the failure receipt.              *)
ReconcileRegistryUnfiled(o) ==
    /\ pc[o] = "registry"
    /\ session /\ LauncherGone
    /\ Goto(o, IF HasReceipt THEN "conclude" ELSE "faMeta")
    /\ UNCHANGED <<metaVars, fileVars, procVars, lock, loc>>

(* Mutation: only a launcher that exited by itself counts as gone.         *)
ReconcileRegistryExitedOnly(o) ==
    /\ pc[o] = "registry"
    /\ session /\ pc[Launcher] = "exited"
    /\ Goto(o, IF HasReceipt THEN "conclude" ELSE "faCheck")
    /\ UNCHANGED <<metaVars, fileVars, procVars, lock, loc>>

(* _reconcile_from_registry: the launcher is gone.  A receipt may have     *)
(* appeared since ReconcileNoReceipt; without one the failure path is run. *)
ReconcileRegistry(o) ==
    /\ pc[o] = "registry"
    /\ session /\ LauncherGone
    /\ Goto(o, IF HasReceipt THEN "conclude" ELSE "faCheck")
    /\ UNCHANGED <<metaVars, fileVars, procVars, lock, loc>>

(* No failure artifacts: the registry's word decides.  A launcher that did *)
(* not get the lock, which this call holds, did not exit with code 0.      *)
ReconcileConclude(o) ==
    /\ pc[o] = "conclude"
    /\ IF status \in Terminal
       THEN /\ Carry(o, status) /\ Goto(o, "recover")
            /\ UNCHANGED <<metaVars, fileVars, procVars, lock>>
       ELSE Reconcile(o, ReconciledStatus("failed"))

(* A repeated poll is rejected; the registry does not know the session, or *)
(* the launcher still runs.                                                *)
ReconcileNothing(o) ==
    /\ pc[o] \in {"reconcile", "registry"}
    /\ status = "running"
    /\ Return(o)
    /\ UNCHANGED <<metaVars, fileVars, procVars, loc>>

(* Mutation: a status answer does not recover a missing handoff.           *)
RecoverScanIdle(o) ==
    /\ pc[o] = "recover"
    /\ Return(o)
    /\ UNCHANGED <<metaVars, fileVars, procVars, loc>>

(* _build_status_dict: a terminal task with a receipt but no handoff gets  *)
(* one, under the lock or not; no event is written for it.                 *)
RecoverScan(o) ==
    /\ pc[o] = "recover"
    /\ IF HasHandoff \/ ~HasReceipt
       THEN Return(o)
       ELSE Goto(o, "recreate") /\ UNCHANGED lock
    /\ UNCHANGED <<metaVars, fileVars, procVars, loc>>

RecoverHandoff(o) ==
    /\ pc[o] = "recreate"
    /\ \/ handoff' = [handoff EXCEPT ![o] = loc[o]]
       \/ "publish" \in Faults /\ UNCHANGED handoff
    /\ Return(o)
    /\ UNCHANGED <<metaVars, receipt, outcome, event, procVars, loc>>

-----------------------------------------------------------------------------
(* Process death.  The kernel releases the flock of a dead process.        *)

(* The signal of a cancel or of a rollback arrives.  A worker runs in a    *)
(* session of its own and may outlive its launcher.                        *)
LauncherDies ==
    /\ killed
    /\ LauncherUp
    /\ Goto(Launcher, "dead")
    /\ Drop(Launcher)
    /\ UNCHANGED <<metaVars, fileVars, procVars, loc>>

Crash(p) ==
    /\ p \in MayCrash
    /\ pc[p] \notin {"idle", "done", "absent", "exited", "dead"}
    /\ Goto(p, IF p = Launcher THEN "dead" ELSE Home(p))
    /\ Drop(p)
    /\ UNCHANGED <<metaVars, fileVars, procVars, loc>>

-----------------------------------------------------------------------------
StartStep(s) ==
    StartFails(s) \/ StartSpawn(s) \/ StartCommit(s) \/ StartCommitFails(s)

WorkerStep ==
    (\E out \in Outcomes : WorkerSubmit(out)) \/ WorkerWrite
        \/ (\E code \in Exits : WorkerExit(code))

LauncherStep ==
    \/ LauncherSpawnsWorker \/ LauncherRefuses \/ LauncherTimesOut \/ LauncherReaps
    \/ FinalizeRender \/ FinalizeRecord \/ FinalizeLock \/ FinalizeReceipt
    \/ FinalizeMeta \/ FinalizeAborts

FailureStep(p) ==
    \/ FailureCheck(p) \/ FailureReceipt(p) \/ FailureLock(p) \/ FailureMeta(p)
    \/ FailureAborts(p)

HandOverStep(p) ==
    ScanHandoff(p) \/ PublishHandoff(p) \/ WriteEvent(p) \/ PublishFails(p)

CancelStep(c) ==
    CancelQuery(c) \/ CancelKill(c) \/ CancelPersist(c) \/ CancelGivesUp(c)

ObserveStep(o) ==
    \/ ReconcileTerminal(o) \/ ReconcileReceipt(o) \/ ReconcileNoReceipt(o)
    \/ ReconcileRegistry(o) \/ ReconcileConclude(o) \/ ReconcileNothing(o)
    \/ RecoverScan(o) \/ RecoverHandoff(o)

Next ==
    \/ \E s \in Starters : StartBegin(s) \/ StartRejected(s) \/ StartStep(s)
    \/ WorkerStep
    \/ LauncherStep
    \/ \E p \in Actors : FailureStep(p) \/ HandOverStep(p)
    \/ \E c \in Cancellers : CancelIntent(c) \/ CancelStep(c)
    \/ \E o \in Observers : ObserveTerminal(o) \/ ObserveRunning(o) \/ ObserveStep(o)
    \/ LauncherDies
    \/ \E p \in Actors : Crash(p)

Spec == Init /\ [][Next]_vars

-----------------------------------------------------------------------------
(* Safety *)

(* The terminal status of a task is decided once: of the finalizer, the    *)
(* fallback, a failed start, cancel's phase C and any number of status     *)
(* calls, only the first to reach the meta writes it, and StartCommit      *)
(* never puts a finished task back to running.                             *)
TerminalIsFinal == [][(status \in Terminal) => UNCHANGED status]_vars

(* Whatever start calls race or die half-way, one launcher is spawned: the *)
(* running status is durable before the spawn.                             *)
AtMostOneLaunch == launches <= 1

(* Operator consistency rule A: a terminal task has its receipt, whichever *)
(* of the writers made it terminal.                                        *)
TerminalHasReceipt == status \in Terminal => HasReceipt

(* A status is backed by what the worker really did: done needs a clean    *)
(* exit and a trusted completed outcome (unless a cancel that could not    *)
(* signal concluded from the exit code), needs_input a trusted request,    *)
(* timeout a configured deadline and a signal exit.                        *)
Evidence(st) ==
    /\ st = "done" =>
          /\ workerExit = "zero"
          /\ term # "unresolved" => outcome = "completed"
    /\ st = "needs_input" => outcome = "needs_input"
    /\ st = "timeout" => Timed /\ workerExit = "signal"
StatusHasEvidence == Evidence(status)

(* The meta says cancelled exactly when the termination it records is      *)
(* confirmed, although four call sites write the two fields.               *)
CancelledIffConfirmed == status = "cancelled" <=> term = "confirmed"

(* The code implements the promise of TaskLifecycle.                       *)
Lifecycle == INSTANCE TaskLifecycle WITH
    phase     <- status,
    filed     <- HasReceipt,
    published <- HasHandoff,
    notified  <- event # "none"

ImplementsLifecycle == Lifecycle!ALSpec

-----------------------------------------------------------------------------
(* The inductive invariant behind the safety properties, in named parts.   *)

(* Which labels each kind of actor can be at *)
FailureLabels == {"faCheck", "faWrite", "faMeta", "scan", "publish", "notify"}
LabelInv ==
    /\ \A s \in Starters :
           pc[s] \in {"idle", "preflight", "commit", "done"} \union FailureLabels
    /\ pc[Launcher] \in {"absent", "boot", "run", "render", "record", "finLock",
                         "finReceipt", "finMeta", "faLock", "exited", "dead"}
                       \union FailureLabels
    /\ \A c \in Cancellers : pc[c] \in {"idle", "query", "kill", "persist", "done"}
    /\ \A o \in Observers :
           pc[o] \in {"idle", "reconcile", "registry", "conclude", "recover",
                     "recreate"} \union FailureLabels

(* Where an actor holds the lock: the launcher's failure path runs without *)
(* it but for the meta, the other callers of that path hold theirs.        *)
Critical(p) ==
    {"preflight", "commit", "finReceipt", "finMeta", "reconcile", "registry",
     "conclude", "faMeta"}
    \union (IF p = Launcher THEN {} ELSE FailureLabels)
LockInv == \A p \in Actors : pc[p] \in Critical(p) => lock = p

(* Nothing happens to a task before it is running; one start call spawns.  *)
LaunchInv ==
    /\ status = "frozen" =>
          /\ launches = 0
          /\ \A p \in Actors : pc[p] \in {"idle", "absent"}
    /\ \A s \in Starters : pc[s] = "preflight" => launches = 0
    /\ launches = 0 => pc[Launcher] = "absent"
    /\ launches <= 1

(* Whoever is about to write the status found the task running and keeps   *)
(* everybody else from changing that.                                      *)
RunningInv ==
    /\ \A s \in Starters : pc[s] \in {"preflight", "commit"} => status = "running"
    /\ pc[Launcher] = "finMeta" => status = "running"

(* What the launcher knows of the worker *)
WorkerInv ==
    /\ worker = "submitting" => intent \in Outcomes
    /\ worker = "exited" => workerExit \in Exits
    /\ pc[Launcher] \in {"render", "record", "finLock", "finReceipt"} =>
          workerExit \in Exits

(* What each actor carries *)
CarryInv ==
    /\ pc[Launcher] \in {"record", "finLock", "finReceipt"} => loc[Launcher] \in Outcomes
    /\ pc[Launcher] = "finMeta" => loc[Launcher] \in {"running"} \union Terminal
    /\ \A c \in Cancellers : pc[c] = "persist" => loc[c] \in {"signal_sent", "unresolved"}
    /\ \A p \in Actors :
          pc[p] \in {"scan", "publish", "notify", "recover", "recreate"} =>
              loc[p] \in Terminal

(* Whoever is about to make the task terminal has filed a receipt, unless  *)
(* the failure path could not write one.                                   *)
FiledInv ==
    /\ \A p \in Actors : pc[p] \in {"finMeta", "faLock", "faMeta"} => HasReceipt
    /\ "fallback" \notin Faults =>
          /\ \A p \in Actors : pc[p] = "conclude" => HasReceipt
          /\ status \in Terminal => HasReceipt

(* A handoff is made for a terminal task, unless a status call could not   *)
(* write the meta, and the event after the handoff.                        *)
PublishInv ==
    \A p \in Actors :
        /\ pc[p] \in {"scan", "publish", "notify"} => status \in Terminal
        /\ pc[p] \in {"recover", "recreate"} =>
              ("reconcile" \notin Faults => status \in Terminal)
        /\ pc[p] = "notify" => HasHandoff

(* The worker is gone once the launcher finalizes, so what the launcher    *)
(* and the receipt say of it stays true.                                   *)
EvidenceInv ==
    /\ pc[Launcher] \in {"absent", "boot"} => worker = "absent"
    /\ pc[Launcher] \in {"render", "record", "finLock", "finReceipt", "finMeta"} =>
          worker = "exited"
    /\ pc[Launcher] \in {"record", "finLock", "finReceipt"} => loc[Launcher] = TrustedOutcome
    /\ pc[Launcher] = "finMeta" =>
          /\ loc[Launcher] = "done" => workerExit = "zero" /\ outcome = "completed"
          /\ Evidence(loc[Launcher])
    /\ receipt.exit = "zero" => worker = "exited" /\ workerExit = "zero"
    /\ receipt.outcome \in {"completed", "needs_input"} =>
          worker = "exited" /\ outcome = receipt.outcome
    /\ status \in {"done", "needs_input", "timeout"} => worker = "exited"
    /\ StatusHasEvidence

IndInv ==
    /\ TypeOK /\ LabelInv /\ LockInv /\ LaunchInv /\ RunningInv /\ WorkerInv
    /\ CarryInv /\ FiledInv /\ PublishInv /\ CancelledIffConfirmed /\ EvidenceInv

-----------------------------------------------------------------------------
(* Liveness.  Nobody need call start.  A call or process that is under way *)
(* and not killed runs to its end; signals arrive; somebody keeps asking   *)
(* for the status, and asks 30 seconds apart often enough not to be        *)
(* rejected as polling (_detect_repeated_poll).  The flock is polled       *)
(* without a queue, hence SF for taking it.  Nothing is assumed of the     *)
(* worker: with Timed the launcher ends it.                                *)
Fairness ==
    /\ \A s \in Starters :
           WF_vars(/\ pc[s] # "idle"
                   /\ StartStep(s) \/ FailureStep(s) \/ HandOverStep(s))
    /\ WF_vars(LauncherStep \/ FailureStep(Launcher) \/ HandOverStep(Launcher))
    /\ WF_vars(LauncherDies)
    /\ \A c \in Cancellers : WF_vars(CancelStep(c))
    /\ \A o \in Observers :
           /\ WF_vars(ObserveTerminal(o))
           /\ SF_vars(ObserveRunning(o))
           /\ SF_vars(ReconcileReceipt(o) \/ ReconcileNoReceipt(o))
           /\ SF_vars(ReconcileRegistry(o))
           /\ WF_vars(ObserveStep(o) \/ FailureStep(o) \/ HandOverStep(o))

FairSpec == Spec /\ Fairness

(* Every running task reaches a terminal status, through the finalizer or, *)
(* when the launcher died or lost the lock, through reconciliation; unless *)
(* a cancel that could not finish phase C leaves it requested for good.    *)
RunConcludes ==
    (status = "running") ~>
        \/ status \in Terminal
        \/ [](status = "running" /\ term = "requested")

(* A terminal task always gets a handoff, whichever path ended it: the     *)
(* paths that write none (cancel's phase C, a fallback that lost the lock) *)
(* are made up for by the next status call.                                *)
HandoffAppears == (status \in Terminal) ~> HasHandoff

-----------------------------------------------------------------------------
(* A statement of the repository that the code does not meet (README).     *)

(* _profile_task_start.py: the failure path of a start call is for what    *)
(* fails before the background launch.                                     *)
StartFailsBeforeLaunch == \A s \in Starters : pc[s] = "faWrite" => launches = 0
=============================================================================
