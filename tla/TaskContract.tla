---------------------------- MODULE TaskContract ----------------------------
(***************************************************************************)
(* The contract of a task: SPEC.md and the binding of meta.json to it,     *)
(* from the draft over its updates, the freeze and the human approval to   *)
(* the start gate that reads them.  Every tool call is a process of its    *)
(* own.  Writers take the task's lock for SPEC.md and meta.json, which are *)
(* two files; the legacy path (tasks without contract_version) decides     *)
(* part of what it needs to know before it takes the lock.                 *)
(*                                                                         *)
(* A content stands for the bytes of a SPEC.md, and for their SHA-256.     *)
(***************************************************************************)
EXTENDS Naturals

CONSTANTS
    Tasks,
    OldTasks,    \* tasks of the legacy format that may exist at the start
    Callers,     \* each makes one tool call at a time
    Bodies,      \* what the text of a contract says
    Kinds,       \* among implementation, review, and the other, read-only ones
    MaxRev,      \* bound: no task is revised beyond it,
    Revised,     \* bound: and only these are revised at all
    None

Contracts == {"canonical", "legacy"}
Statuses == {"draft", "frozen", "running", "needs_input", "done", "failed"}
(* cancelled counts as failed here.                                        *)
Reviewable == {"done", "failed"}

Revs == 0 .. MaxRev
Contents == [rev : Revs, body : Bodies, status : Statuses,
             form : {"json", "markdown"}]
(* canonical_hash leaves out the status and the timestamps.                *)
Hashes == [rev : Revs, body : Bodies, foreign : BOOLEAN]
Digests == Hashes \union Contents
Bindings == [rev : Revs, sha : Contents, hash : Digests]
(* body, srev, sstatus and foreign are the spec dict: its text, the        *)
(* revision and status the canonical form repeats, and whether it has      *)
(* fields only the legacy form knows.                                      *)
Metas == [contract : Contracts, kind : Kinds, subject : Tasks \union {None},
          schema : {2, 3}, status : Statuses, rev : Revs, frozen : Revs,
          sha : Contents, hash : Hashes \union {None},
          body : Bodies, srev : Revs, sstatus : Statuses, foreign : BOOLEAN,
          exec : Bindings \union {None}]

(* None is no task, no caller, no content and no record.                   *)
ASSUME ContractAssumption ==
    /\ OldTasks \subseteq Tasks /\ Revised \subseteq Tasks
    /\ MaxRev \in Nat \ {0}
    /\ None \notin Tasks \union Callers
    /\ None \notin Contents /\ None \notin Hashes /\ None \notin Metas

VARIABLES
    meta,      \* meta.json of each task, None while there is none
    specmd,    \* SPEC.md of each task
    approval,  \* APPROVAL.json of each task
    lock,      \* the task-spec lock of each task
    pc,        \* where each call is
    job,       \* what it was asked and what it has read
    approved,  \* history: what a human asked to approve
    frozen,    \* history: what a freeze has written
    launches,  \* history: the workers launched
    overtaken  \* history: canonical tasks an edit found frozen behind its check

vars == <<meta, specmd, approval, lock, pc, job, approved, frozen, launches, overtaken>>
files   == <<meta, specmd, approval>>
history == <<approved, frozen, launches, overtaken>>

Ops == {"create", "update", "freeze", "edit", "lock_in", "approve", "start"}
(* What a call is about: the text it proposes, what its caller or the call *)
(* itself has read without the lock, the meta it is about to write.        *)
Sights == [rev : Revs, body : Bodies, asked : BOOLEAN, bound : Digests \union {None}]
Jobs == [op : Ops, task : Tasks, body : Bodies, saw : Sights \union {None},
         meta : Metas \union {None}]

TypeOK ==
    /\ meta \in [Tasks -> Metas \union {None}]
    /\ specmd \in [Tasks -> Contents \union {None}]
    /\ approval \in [Tasks -> [rev : Revs, hash : Digests \union {None}] \union {None}]
    /\ lock \in [Tasks -> Callers \union {None}]
    /\ pc \in [Callers -> {"idle", "called", "checked", "write", "gated"}]
    /\ job \in [Callers -> Jobs \union {None}]
    /\ approved \subseteq [task : Tasks, rev : Revs, hash : Digests \union {None}]
    /\ frozen \subseteq [task : Tasks, content : Contents]
    /\ launches \subseteq [task : Tasks, kind : Kinds, exec : Bindings,
                           subject : Metas \union {None}]
    /\ overtaken \subseteq Tasks

-----------------------------------------------------------------------------
(* Helpers *)

Canonical(m) == m.contract = "canonical"
CanonicalHash(m) == [rev |-> m.srev, body |-> m.body, foreign |-> m.foreign]
Json(m) == [rev |-> m.srev, body |-> m.body, status |-> m.sstatus,
            form |-> "json"]
Markdown(m, status) == [rev |-> m.rev, body |-> m.body, status |-> status,
                        form |-> "markdown"]

(* A contract that is frozen, and what a freeze commits the task to.       *)
Committed(m) == m # None /\ m.frozen # 0 /\ m.frozen = m.rev
SpecPart(m) == <<m.rev, m.frozen, m.sha, m.hash, m.body>>

(* The bounds.                                                             *)
Revisable(t) == t \in Revised /\ meta[t].rev < MaxRev

(* What a start and an approval bind to.                                   *)
BoundHash(t) == IF Canonical(meta[t]) THEN meta[t].hash ELSE specmd[t]
Intact(t) == specmd[t] = meta[t].sha

Lock(c, t) == lock[t] = None /\ lock' = [lock EXCEPT ![t] = c]
(* A call that ends, in whatever way, drops its lock and what it carried.  *)
Return(c) ==
    /\ pc' = [pc EXCEPT ![c] = "idle"]
    /\ job' = [job EXCEPT ![c] = None]
    /\ lock' = [t \in Tasks |-> IF lock[t] = c THEN None ELSE lock[t]]

Sight(t) == [rev |-> meta[t].rev, body |-> meta[t].body,
             asked |-> meta[t].status = "needs_input", bound |-> BoundHash(t)]
Begin(c, label, op, t, body, saw) ==
    /\ pc' = [pc EXCEPT ![c] = label]
    /\ job' = [job EXCEPT ![c] = [op |-> op, task |-> t, body |-> body,
                                 saw |-> saw, meta |-> None]]
At(c, label, op) == pc[c] = label /\ job[c].op = op

(* The first of the two writes; the second is WriteMeta.                   *)
WriteSpec(c, t, content, m) ==
    /\ specmd' = [specmd EXCEPT ![t] = content]
    /\ pc' = [pc EXCEPT ![c] = "write"]
    /\ job' = [job EXCEPT ![c].meta = [m EXCEPT !.sha = content]]

-----------------------------------------------------------------------------
Init ==
    /\ \E old \in SUBSET OldTasks :
           \E first \in [old -> [kind : Kinds \ {"review"}, schema : {2, 3},
                                 status : {"draft", "needs_input"}, body : Bodies]] :
               /\ \A t \in old : first[t].status = "needs_input" => first[t].schema = 2
               /\ specmd = [t \in Tasks |-> IF t \in old
                       THEN [rev |-> 1, body |-> first[t].body, status |-> "draft",
                             form |-> "markdown"] ELSE None]
               /\ meta = [t \in Tasks |-> IF t \in old
                       THEN [contract |-> "legacy", kind |-> first[t].kind,
                             subject |-> None, schema |-> first[t].schema,
                             status |-> first[t].status, rev |-> 1, frozen |-> 0,
                             sha |-> specmd[t], hash |-> None, body |-> first[t].body,
                             srev |-> 0, sstatus |-> "draft", foreign |-> FALSE,
                             exec |-> None] ELSE None]
    /\ approval = [t \in Tasks |-> None]
    /\ lock = [t \in Tasks |-> None]
    /\ pc = [c \in Callers |-> "idle"]
    /\ job = [c \in Callers |-> None]
    /\ approved = {} /\ frozen = {} /\ launches = {} /\ overtaken = {}

(* aota_task_spec_create: a review names an existing task.  The directory  *)
(* of a task is made exclusively.                                          *)
Create(c, t, kind, body, subject) ==
    /\ pc[c] = "idle"
    /\ meta[t] = None /\ specmd[t] = None
    /\ kind = "review" => subject # None
    /\ subject # None => meta[subject] # None
    /\ LET m == [contract |-> "canonical", kind |-> kind, subject |-> subject,
                 schema |-> 2, status |-> "draft", rev |-> 1, frozen |-> 0,
                 sha |-> [rev |-> 1, body |-> body, status |-> "draft", form |-> "json"],
                 hash |-> None, body |-> body, srev |-> 1, sstatus |-> "draft",
                 foreign |-> FALSE, exec |-> None]
       IN /\ specmd' = [specmd EXCEPT ![t] = m.sha]
          /\ job' = [job EXCEPT ![c] =
                 [op |-> "create", task |-> t, body |-> body, saw |-> None, meta |-> m]]
    /\ pc' = [pc EXCEPT ![c] = "write"]
    /\ UNCHANGED <<meta, approval, lock, history>>

(* A caller that has read a task proposes another text for the revision    *)
(* it has read.  The other calls name what they are about as well; a call  *)
(* that names something else than it finds is refused and changes nothing. *)
CallUpdate(c, t, body) ==
    /\ pc[c] = "idle"
    /\ meta[t] # None /\ Canonical(meta[t])
    /\ Begin(c, "called", "update", t, body, Sight(t))
    /\ UNCHANGED <<files, lock, history>>

(* A call is refused, fails, waits too long for the lock or is killed.     *)
Dies(c) ==
    /\ pc[c] \in {"called", "checked", "write"}
    /\ Return(c)
    /\ UNCHANGED <<files, history>>

(* The second write of create, update and freeze.                          *)
WriteMeta(c) ==
    /\ pc[c] = "write"
    /\ meta' = [meta EXCEPT ![job[c].task] = job[c].meta]
    /\ frozen' = IF job[c].op \in {"freeze", "lock_in"}
                 THEN frozen \union {[task |-> job[c].task, content |-> job[c].meta.sha]}
                 ELSE frozen
    /\ Return(c)
    /\ UNCHANGED <<specmd, approval, approved, launches, overtaken>>

(* Mutation: the update does not look whether the spec is still a draft.   *)
UpdateUnfrozen(c) ==
    LET t == job[c].task
        m == meta[t]
        new == [m EXCEPT !.rev = m.rev + 1, !.srev = m.rev + 1, !.body = job[c].body,
                         !.status = m.sstatus, !.hash = None, !.frozen = 0]
    IN /\ At(c, "called", "update")
       /\ Canonical(m) /\ m.rev = job[c].saw.rev
       /\ ~m.foreign
       /\ Revisable(t)
       /\ Lock(c, t)
       /\ WriteSpec(c, t, Json(new), new)
       /\ UNCHANGED <<meta, approval, history>>

(* Mutation: the expected revision is not compared.                        *)
UpdateStale(c) ==
    LET t == job[c].task
        m == meta[t]
        new == [m EXCEPT !.rev = m.rev + 1, !.srev = m.rev + 1, !.body = job[c].body,
                         !.status = m.sstatus, !.hash = None, !.frozen = 0]
    IN /\ At(c, "called", "update")
       /\ Canonical(m) /\ m.status = "draft"
       /\ ~m.foreign
       /\ Revisable(t)
       /\ Lock(c, t)
       /\ WriteSpec(c, t, Json(new), new)
       /\ UNCHANGED <<meta, approval, history>>

(* The canonical update decides everything under the lock.                 *)
Update(c) ==
    LET t == job[c].task
        m == meta[t]
        new == [m EXCEPT !.rev = m.rev + 1, !.srev = m.rev + 1, !.body = job[c].body,
                         !.status = m.sstatus, !.hash = None, !.frozen = 0]
    IN /\ At(c, "called", "update")
       /\ Canonical(m) /\ m.status = "draft" /\ m.rev = job[c].saw.rev
       /\ ~m.foreign
       /\ Revisable(t)
       /\ Lock(c, t)
       /\ WriteSpec(c, t, Json(new), new)
       /\ UNCHANGED <<meta, approval, history>>

(* So does the canonical freeze, which keeps the revision.                 *)
Freeze(c, t) ==
    LET m == meta[t]
        new == [m EXCEPT !.status = "frozen", !.sstatus = "frozen", !.rev = m.srev,
                         !.frozen = m.srev, !.hash = CanonicalHash(m),
                         !.sha = Json([m EXCEPT !.sstatus = "frozen"])]
    IN /\ pc[c] = "idle"
       /\ m # None
       /\ Canonical(m) /\ m.status = "draft"
       /\ ~m.foreign
       /\ Lock(c, t)
       /\ specmd' = [specmd EXCEPT ![t] = new.sha]
       /\ pc' = [pc EXCEPT ![c] = "write"]
       /\ job' = [job EXCEPT ![c] =
              [op |-> "freeze", task |-> t, body |-> m.body, saw |-> None, meta |-> new]]
       /\ UNCHANGED <<meta, approval, history>>

(* The legacy update and freeze look at the status, at the frozen revision *)
(* and at the integrity of SPEC.md before they take the lock, of canonical *)
(* tasks as well ...                                                       *)
EditCheck(c, t, op, body) ==
    LET m == meta[t]
    IN /\ pc[c] = "idle"
       /\ m # None
       /\ m.frozen = 0
       /\ m.status = "draft" \/ (op = "edit" /\ m.status = "needs_input")
       /\ op = "lock_in" => body = m.body
       /\ Intact(t)
       /\ Begin(c, "checked", op, t, body, Sight(t))
       /\ UNCHANGED <<files, lock, history>>

(* ... and only at the integrity and the revision after they took it.      *)
Rechecked(c) ==
    /\ Intact(job[c].task)
    /\ meta[job[c].task].rev = job[c].saw.rev
    /\ Revisable(job[c].task)

(* The legacy update of a canonical draft may touch fields both forms have *)
(* or bring in foreign ones, which an implementation cannot avoid: without *)
(* a write scope it is refused.  The canonical freeze keeps the revision,  *)
(* so that an edit may reach a task that was frozen after it was checked.  *)
Edit(c) ==
    LET t == job[c].task
        m == meta[t]
    IN At(c, "checked", "edit") /\ \E foreign \in {m.foreign, Canonical(m)} :
       LET new == [m EXCEPT !.rev = m.rev + 1, !.body = job[c].body, !.status = "draft",
                            !.foreign = foreign]
       IN /\ Rechecked(c)
          /\ Canonical(m) /\ m.kind = "implementation" => foreign
          /\ Lock(c, t)
          /\ approval' = IF job[c].saw.asked
                         THEN [approval EXCEPT ![t] = None] ELSE approval
          /\ WriteSpec(c, t, Markdown(new, "draft"), new)
          /\ overtaken' = IF Canonical(m) /\ Committed(m)
                           THEN overtaken \union {t} ELSE overtaken
          /\ UNCHANGED <<meta, approved, frozen, launches>>

(* The legacy freeze counts as a revision; the status remains draft.       *)
LockIn(c) ==
    LET t == job[c].task
        m == meta[t]
        new == [m EXCEPT !.rev = m.rev + 1, !.frozen = m.rev + 1]
    IN /\ At(c, "checked", "lock_in") /\ Rechecked(c)
       /\ Canonical(m) => m.foreign
       /\ Lock(c, t)
       /\ WriteSpec(c, t, Markdown(new, "frozen"), new)
       /\ UNCHANGED <<meta, approval, history>>

(* aota_profile_task_approve: revision and hash that the human names are   *)
(* compared without the lock ...                                           *)
ApproveCheck(c, t) ==
    LET m == meta[t]
    IN /\ pc[c] = "idle"
       /\ m # None
       /\ m.kind = "implementation"
       /\ IF Canonical(m) THEN m.status = "frozen"
          ELSE m.status = "draft" /\ m.frozen = m.rev /\ Intact(t)
       /\ Begin(c, "checked", "approve", t, m.body, Sight(t))
       /\ approved' = approved \union
              {[task |-> t, rev |-> m.rev, hash |-> BoundHash(t)]}
       /\ UNCHANGED <<files, lock, frozen, launches, overtaken>>

(* ... and with it, only that the task is still a frozen one.              *)
Approve(c) ==
    LET t == job[c].task
        m == meta[t]
        saw == job[c].saw
    IN /\ At(c, "checked", "approve")
       /\ lock[t] = None
       /\ IF Canonical(m) THEN m.status = "frozen"
          ELSE m.status = "draft" /\ m.frozen = saw.rev
       /\ approval' = [approval EXCEPT ![t] =
              [rev |-> saw.rev, hash |-> saw.bound]]
       /\ Return(c)
       /\ UNCHANGED <<meta, specmd, history>>

(* The start gate ...                                                      *)
Bound(m) ==
    IF Canonical(m)
    THEN /\ m.status = "frozen" /\ m.rev = m.srev /\ ~m.foreign
         /\ CanonicalHash(m) = m.hash
    ELSE /\ m.status = "draft" /\ (m.schema = 3 => m.frozen = m.rev)
(* Mutation: only the newer schema is held to the approval.                *)
ApprovedNewSchema(t) ==
    meta[t].kind = "implementation" /\ meta[t].schema = 3 =>
        /\ approval[t] # None
        /\ approval[t].rev = meta[t].rev
        /\ approval[t].hash = BoundHash(t)
Approved(t) ==
    meta[t].kind = "implementation" =>
        /\ approval[t] # None
        /\ approval[t].rev = meta[t].rev
        /\ approval[t].hash = BoundHash(t)

(* ... makes the start durable before any worker runs.                     *)
StartGate(c, t) ==
    LET m == meta[t]
    IN /\ pc[c] = "idle"
       /\ m # None
       /\ Bound(m)
       /\ Intact(t)
       /\ Approved(t)
       /\ Lock(c, t)
       /\ meta' = [meta EXCEPT ![t].status = "running",
              ![t].frozen = IF Canonical(m) THEN m.rev ELSE m.frozen,
              ![t].exec = [rev |-> m.rev, sha |-> specmd[t], hash |-> BoundHash(t)]]
       /\ Begin(c, "gated", "start", t, m.body, None)
       /\ UNCHANGED <<specmd, approval, history>>

(* The scope is projected from the payload, which a legacy contract has    *)
(* not; the subject of a review must have concluded.                       *)
StartLaunch(c) ==
    LET t == job[c].task
        m == meta[t]
    IN /\ pc[c] = "gated"
       /\ Canonical(m)
       /\ m.kind = "review" => meta[m.subject].status \in Reviewable
       /\ launches' = launches \union
              {[task |-> t, kind |-> m.kind, exec |-> m.exec,
                subject |-> IF m.kind = "review" THEN meta[m.subject] ELSE None]}
       /\ Return(c)
       /\ UNCHANGED <<files, approved, frozen, overtaken>>

(* Whatever fails after the gate concludes the task.                       *)
StartFails(c) ==
    /\ pc[c] = "gated"
    /\ meta' = [meta EXCEPT ![job[c].task].status = "failed"]
    /\ Return(c)
    /\ UNCHANGED <<specmd, approval, history>>

(* The start dies between the gate and the launch.                         *)
StartDies(c) ==
    /\ pc[c] = "gated"
    /\ Return(c)
    /\ UNCHANGED <<files, history>>

(* The run rail concludes the task, under its lock (see ProfileTaskRun).   *)
Conclude(t) ==
    /\ meta[t] # None
    /\ meta[t].status = "running"
    /\ lock[t] = None
    /\ \E s \in {"done", "failed", "needs_input"} :
           meta' = [meta EXCEPT ![t].status = s]
    /\ UNCHANGED <<specmd, approval, lock, pc, job, history>>

Next ==
    \/ \E c \in Callers, t \in Tasks :
        \/ \E k \in Kinds, b \in Bodies, s \in Tasks \union {None} : Create(c, t, k, b, s)
        \/ \E b \in Bodies : CallUpdate(c, t, b)
        \/ \E op \in {"edit", "lock_in"}, b \in Bodies : EditCheck(c, t, op, b)
        \/ Freeze(c, t) \/ ApproveCheck(c, t) \/ StartGate(c, t)
    \/ \E c \in Callers :
        \/ Dies(c) \/ WriteMeta(c) \/ Update(c) \/ Edit(c) \/ LockIn(c)
        \/ Approve(c) \/ StartLaunch(c) \/ StartFails(c) \/ StartDies(c)
    \/ \E t \in Tasks : Conclude(t)

Spec == Init /\ [][Next]_vars

-----------------------------------------------------------------------------
(* Safety *)

(* However updates, freezes, approvals and starts of a task interleave and *)
(* die half-way, an implementation runs under a revision and a hash that a *)
(* human asked to approve, and that hash is the one of the SPEC.md its     *)
(* worker is given.                                                        *)
LaunchedAsApproved ==
    \A l \in launches : l.kind = "implementation" =>
        /\ [task |-> l.task, rev |-> l.exec.rev, hash |-> l.exec.hash] \in approved
        /\ l.exec.sha.rev = l.exec.hash.rev /\ l.exec.sha.body = l.exec.hash.body

(* "Once a SPEC is frozen, it is immutable": neither SPEC.md nor what meta *)
(* says of it changes, and the task never becomes a draft again.           *)
Unchanging(t) ==
    /\ specmd'[t] = specmd[t]
    /\ SpecPart(meta'[t]) = SpecPart(meta[t])
    /\ meta'[t].status = "draft" => meta[t].status = "draft"
FrozenImmutable == [][\A t \in Tasks : Committed(meta[t]) => Unchanging(t)]_vars

(* The one way a frozen contract changes is an edit on the legacy path of  *)
(* a canonical task that was still a draft when the edit looked.           *)
FrozenStays ==
    [][\A t \in Tasks : Committed(meta[t]) => Unchanging(t) \/ t \in overtaken']_vars

(* Every worker is launched with a SPEC.md that a freeze has written, and  *)
(* finds that file as long as no such edit overtakes it.                   *)
LaunchedAsFrozen ==
    \A l \in launches :
        /\ [task |-> l.task, content |-> l.exec.sha] \in frozen
        /\ l.task \notin overtaken => specmd[l.task] = l.exec.sha

(* Optimistic locking: an update that is accepted for its revision is      *)
(* applied to the very text its caller had read under that revision, so no *)
(* concurrent update is lost, before the task is overtaken.                *)
NoLostUpdate ==
    \A c \in Callers : pc[c] = "write" /\ job[c].op \in {"update", "edit"} =>
        job[c].task \in overtaken \/ job[c].saw.body = meta[job[c].task].body

(* What a reviewer is launched on does not change under it: the contract   *)
(* and the conclusion of a frozen subject stay as the gate has seen them.  *)
SubjectStays ==
    \A l \in launches : l.subject # None =>
        LET now == meta[meta[l.task].subject]
        IN Committed(l.subject) /\ meta[l.task].subject \notin overtaken => now = l.subject

(* What a worker is launched on is what was frozen, and stays so, be it    *)
(* its own SPEC or the one it reviews.                                     *)
WorkedOnAsFrozen == LaunchedAsFrozen /\ SubjectStays
=============================================================================
