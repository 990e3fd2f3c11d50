---------------------------- MODULE WorkerTools ----------------------------
(***************************************************************************)
(* A coder at work.  Its launch is in LaunchBinding.  Its tools read,      *)
(* write, patch and copy files of the project inside the scope of the      *)
(* frozen SPEC and leave an event for every access; when it is over, the   *)
(* finalizer compares the workspace with the baseline of the start and     *)
(* with the events, and records a verdict.  Other people and commands work *)
(* in the same directory.                                                  *)
(*                                                                         *)
(* A file's content is who wrote it last.  The launch and the work are     *)
(* looked at one at a time: the work begins behind a launch nobody edited. *)
(***************************************************************************)
EXTENDS LaunchBinding, ProjectScope

CONSTANTS
    Paths,      \* paths of the workspace
    Plugin,     \* those among them that are code of the plugin
    FrozenSpecs,
    Sites,      \* where the project is: [root, runtime]
    Faults,     \* which of "telemetry", "ledger", "kill", "revise", "git" happen
    MaxEvents,  \* bound: events of the run
    MaxTroubles \* bound: changes by somebody else, and failures of git

(* A path is a sequence of names, the root of the project is one too.      *)
ASSUME PathsAssumption ==
    /\ Paths \subseteq Seq(STRING)
    /\ \A s \in Sites : s.root \in Seq(STRING) /\ s.runtime \in BOOLEAN

VARIABLES
    site, spec,
    disk, head, \* content of the files, and of the last commit
    baseline,   \* workspace-baseline.json: the dirty files and their content
    events,     \* scope-events.jsonl
    audit,      \* audit-ledger.jsonl: the last result of the copy tool in it
    call,       \* the tool call under way
    task,       \* whether the SPEC the worker was started with is in force
    verdict,    \* execution.scope_compliance, "none" before the finalizer
    git,        \* whether git answers
    troubles,   \* number of changes by somebody else, and failures of git
    past        \* history: see Clear

work == <<site, spec, disk, head, baseline, events, audit, call, task, verdict,
          git, troubles, past>>

Idle == [tool |-> "none", path |-> <<>>, stage |-> "idle"]

(* What has happened: the content at the start, the paths the file tools   *)
(* wrote, whether somebody else changed a file, whether a call died, lost  *)
(* its event or was a refused read, and whether the copy tool was used.    *)
Clear == [begin |-> disk, wrote |-> {}, others |-> FALSE, mishap |-> FALSE, copied |-> FALSE]

Dirty == {p \in Paths : disk[p] # head[p]}

(* capture_workspace_snapshot: git status, and a fingerprint of each file. *)
Snapshot == [p \in Dirty |-> disk[p]]

WorkInit ==
    /\ site \in Sites /\ spec \in FrozenSpecs
    /\ head = [p \in Paths |-> "old"]
    /\ disk \in {head} \union {[head EXCEPT ![p] = "edited"] : p \in Paths}
    /\ baseline = Snapshot
    /\ events \in {<<>>, <<[op |-> "write", path |-> <<>>, allowed |-> TRUE, mine |-> FALSE]>>}
    /\ audit = "empty" /\ call = Idle
    /\ task = "running" /\ verdict = "none" /\ git = TRUE /\ troubles = 0
    /\ past = Clear

Launched ==
    LET c == CHOOSE x \in Configs : TRUE
        r == CHOOSE x \in Runners : TRUE
    IN /\ config = c /\ env = [file |-> "ok", keys |-> Keys] /\ runner = r
       /\ session = 1 /\ edits = MaxEdits
       /\ sp = "committed" /\ seen = <<>> /\ lp = "running" /\ why = Nothing
       /\ manifest = [runner |-> r, provider |-> c.provider, key |-> c.key,
                      model |-> c.model, digest |-> c, session |-> 1]
       /\ held = manifest

-----------------------------------------------------------------------------
Scope == CanonicalScope(spec)

(* The tools take paths relative to the project, and so do their events.   *)
Project    == {p \in Paths : IsPrefix(site.root, p)}
Relative(p) == SubSeq(p, Len(site.root) + 1, Len(p))
TierOf(q, op) == Tier(q, op, Plugin, site.runtime)

Working == call.stage = "idle" /\ verdict = "none" /\ sp = "committed"

(* load_coder_binding: the task runs, with the SPEC it was started with.   *)
Bound == task = "running"

(* record_scope_event, which gives up on any failure and when the file is  *)
(* full.                                                                   *)
Record(op, q, allowed) ==
    \/ /\ Len(events) < MaxEvents
       /\ events' = Append(events, [op |-> op, path |-> q, allowed |-> allowed, mine |-> TRUE])
       /\ past' = [past EXCEPT !.mishap = @ \/ ~allowed]
    \/ /\ Len(events) = MaxEvents \/ "telemetry" \in Faults
       /\ UNCHANGED events
       /\ past' = [past EXCEPT !.mishap = TRUE]

(* has_current_task_prior_write, with the matcher of the verifier.         *)
PriorWrite(q) ==
    /\ VerifierAllows(q, Scope["write_scope"]) /\ ~VerifierAllows(q, Scope["forbidden_scope"])
    /\ TierOf(q, "write") = "PROJECT_WRITE"
    /\ \E i \in DOMAIN events :
          events[i].mine /\ events[i].op = "write" /\ events[i].path = q

(* handle_read: what is refused is recorded as well.                       *)
ReadFile(p) ==
    LET q == Relative(p)
        forbidden == GuardAllows(q, Scope["forbidden_scope"])
        granted == ~forbidden /\ (GuardAllows(q, Scope["read_scope"]) \/ PriorWrite(q))
    IN /\ Working /\ Bound
       /\ Record("read", q, granted)
       /\ UNCHANGED <<launch, site, spec, disk, head, baseline, audit, call, task,
                      verdict, git, troubles>>

(* handle_write and handle_patch up to the write: a refusal is not         *)
(* recorded.  A patch names the digest of what it replaces, a write may.   *)
WriteBegin(p, tool) ==
    /\ Working /\ Bound
    /\ ~GuardAllows(Relative(p), Scope["forbidden_scope"])
    /\ GuardAllows(Relative(p), Scope["write_scope"])
    /\ call' = [tool |-> tool, path |-> p, stage |-> "checked"]
    /\ UNCHANGED <<launch, site, spec, disk, head, baseline, events, audit, task,
                   verdict, git, troubles, past>>

(* _atomic_write; a write may bring the old content back.                  *)
WriteFile ==
    /\ call.stage = "checked" /\ call.tool \in {"write", "patch"}
    /\ \E c \in {"mine"} \union IF call.tool = "write" THEN {"old"} ELSE {} :
          disk' = [disk EXCEPT ![call.path] = c]
    /\ past' = [past EXCEPT !.wrote = @ \union {call.path}]
    /\ call' = [call EXCEPT !.stage = "written"]
    /\ UNCHANGED <<launch, site, spec, head, baseline, events, audit, task, verdict,
                   git, troubles>>

WriteEvent ==
    /\ call.stage = "written" /\ call.tool \in {"write", "patch"}
    /\ Record("write", Relative(call.path), TRUE)
    /\ call' = Idle
    /\ UNCHANGED <<launch, site, spec, disk, head, baseline, audit, task, verdict,
                   git, troubles>>

-----------------------------------------------------------------------------
(* aota_file_copy.  Its paths are relative to the workspace, and it leaves *)
(* no scope event; it checks the SPEC, but not that the task runs.         *)
(* get_security_context, on every call: the revision of the SPEC the       *)
(* worker was started with, the one in its directory, and its scopes.      *)
SecurityContext ==
    [bound   |-> 1,
     current |-> IF task = "revised" THEN 2 ELSE 1,
     scope   |-> Scope]
SpecRevised   == SecurityContext.current # SecurityContext.bound
DirtyConflict == git /\ Dirty # {}

Refusal(src, dst) ==
    LET Both(p, q, field) == CopyAllows(p, SecurityContext.scope[field]) /\ CopyAllows(q, SecurityContext.scope[field])
        Either(p, q, field) == CopyAllows(p, SecurityContext.scope[field]) \/ CopyAllows(q, SecurityContext.scope[field])
    IN IF SpecRevised THEN "STALE_SPEC"
       ELSE IF ~Both(src, dst, "write_scope") THEN "WRITE_SCOPE_VIOLATION"
       ELSE IF Either(src, dst, "forbidden_scope") THEN "FORBIDDEN_SCOPE"
       ELSE IF DirtyConflict THEN "DIRTY_CONFLICT" ELSE "none"

(* mutation_audit_boundary: a refusal is written to the ledger; when that  *)
(* fails, the call ends with an audit gap, and the copy is not made either.*)
CopyRefused(src, dst) ==
    /\ Working /\ Refusal(src, dst) # "none"
    /\ \/ audit' = Refusal(src, dst)
       \/ "ledger" \in Faults /\ audit' = audit
    /\ UNCHANGED <<launch, site, spec, disk, head, baseline, events, call, task,
                   verdict, git, troubles, past>>

CopyFile(src, dst) ==
    /\ Working /\ Refusal(src, dst) = "none"
    /\ disk' = [disk EXCEPT ![dst] = disk[src]]
    /\ past' = [past EXCEPT !.copied = TRUE]
    /\ call' = [tool |-> "copy", path |-> dst, stage |-> "written"]
    /\ UNCHANGED <<launch, site, spec, head, baseline, events, audit, task, verdict,
                   git, troubles>>

(* The entry for the copy is written afterwards; nobody asks whether it is.*)
CopyEntry ==
    /\ call.stage = "written" /\ call.tool = "copy"
    /\ \/ audit' = "copied"
       \/ "ledger" \in Faults /\ audit' = audit
    /\ call' = Idle
    /\ UNCHANGED <<launch, site, spec, disk, head, baseline, events, task, verdict,
                   git, troubles, past>>

-----------------------------------------------------------------------------
(* verify_scope.  The events of this process, classified against the root  *)
(* of the workspace; another process's events are counted as foreign.      *)
InScope(q, field) ==
    VerifierAllows(q, Scope[field]) /\ ~VerifierAllows(q, Scope["forbidden_scope"])

Relevant == {i \in DOMAIN events :
               events[i].mine /\ TierOf(events[i].path, events[i].op) \in ProjectTiers}
Writes   == {i \in Relevant : TierOf(events[i].path, events[i].op) = "PROJECT_WRITE"}

(* Mutation: the read of what was written is judged like any other.        *)
EventAllowedPlain(i) ==
    InScope(events[i].path, IF events[i].op = "read" THEN "read_scope" ELSE "write_scope")

EventAllowed(i) ==
    LET e == events[i]
    IN \/ InScope(e.path, IF e.op = "read" THEN "read_scope" ELSE "write_scope")
       \/ /\ TierOf(e.path, e.op) = "PROJECT_READ"
          /\ ~VerifierAllows(e.path, Scope["forbidden_scope"])
          /\ \E j \in Writes : /\ j < i /\ events[j].path = e.path
                               /\ InScope(e.path, "write_scope")

(* _workspace_delta: none when git does not answer.                        *)
Delta ==
    IF ~git THEN {}
    ELSE {p \in Paths : \/ (p \in Dirty) # (p \in DOMAIN baseline)
                        \/ p \in Dirty /\ Snapshot[p] # baseline[p]}

(* Mutation: a change is attributed to any event about the path.           *)
AttributedToAny(p) == \E i \in Relevant : events[i].path = p

Attributed(p) == \E i \in Writes : events[i].path = p

Unexplained ==
    {p \in Delta : /\ TierOf(p, "write") \in ProjectTiers
                   /\ ~(Attributed(p) /\ InScope(p, "write_scope"))}

Verdict ==
    IF Unexplained # {} \/ \E i \in Relevant : ~EventAllowed(i) THEN "violated"
    ELSE IF (\E i \in DOMAIN events : ~events[i].mine) \/ (~git /\ events = <<>>) THEN "unknown"
    ELSE IF Relevant # {} \/ \E p \in Delta : TierOf(p, "write") \in ProjectTiers
         THEN "compliant" ELSE "not_applicable"

(* The worker exits, or is killed in the middle of a call.                 *)
WorkerEnds ==
    /\ sp = "committed" /\ verdict = "none" /\ call.stage # "gone"
    /\ call.stage = "idle" \/ "kill" \in Faults
    /\ past' = [past EXCEPT !.mishap = @ \/ call.stage # "idle"]
    /\ call' = [Idle EXCEPT !.stage = "gone"]
    /\ UNCHANGED <<launch, site, spec, disk, head, baseline, events, audit, task,
                   verdict, git, troubles>>

Finalize ==
    /\ call.stage = "gone" /\ verdict = "none"
    /\ verdict' = Verdict
    /\ UNCHANGED <<launch, site, spec, disk, head, baseline, events, audit, call, task,
                   git, troubles, past>>

-----------------------------------------------------------------------------
(* Somebody else: an edit, a restored file, a commit; the SPEC rewritten   *)
(* by an update that started before it was frozen; a cancel; git.          *)
Trouble ==
    /\ sp = "committed" /\ verdict = "none"
    /\ troubles < MaxTroubles /\ troubles' = troubles + 1

Foreign ==
    /\ Trouble
    /\ \/ \E p \in Paths : \E c \in {"theirs", head[p]} \ {disk[p]} :
             disk' = [disk EXCEPT ![p] = c] /\ UNCHANGED head
       \/ Dirty # {} /\ head' = disk /\ UNCHANGED disk
    /\ past' = [past EXCEPT !.others = TRUE]
    /\ UNCHANGED <<launch, site, spec, baseline, events, audit, call, task, verdict, git>>

LosesTask ==
    /\ Trouble /\ Bound /\ "revise" \in Faults
    /\ task' \in {"revised", "ended"}
    /\ UNCHANGED <<launch, site, spec, disk, head, baseline, events, audit, call,
                   verdict, git, past>>

GitFails ==
    /\ Trouble /\ git /\ "git" \in Faults
    /\ git' = FALSE
    /\ UNCHANGED <<launch, site, spec, disk, head, baseline, events, audit, call, task,
                   verdict, past>>

WorkerNext ==
    \/ LaunchNext /\ UNCHANGED work
    \/ \E p \in Project : ReadFile(p) \/ \E tool \in {"write", "patch"} : WriteBegin(p, tool)
    \/ WriteFile \/ WriteEvent
    \/ \E src, dst \in Paths : src # dst /\ (CopyRefused(src, dst) \/ CopyFile(src, dst))
    \/ CopyEntry
    \/ WorkerEnds \/ Finalize
    \/ Foreign \/ LosesTask \/ GitFails

WorkerInit ==
    /\ WorkInit
    /\ \/ Launched
       \/ LaunchInit /\ Dirty = {} /\ events = <<>>
WorkerSpec == WorkerInit /\ [][WorkerNext]_<<launch, work>>

-----------------------------------------------------------------------------
(* A run is called compliant only when, of what is uncommitted or was at   *)
(* the start, everything that changed is in the write scope and was        *)
(* written by a file tool of this run, whoever else worked there; provided *)
(* git answered and the project is the workspace.                          *)
CompliantMeansInScope ==
    verdict = "compliant" /\ git /\ site.root = <<>> =>
        \A p \in Paths :
            /\ disk[p] # past.begin[p] /\ p \in Dirty \union DOMAIN baseline
            /\ TierOf(p, "write") \in ProjectTiers
            => p \in past.wrote /\ InScope(p, "write_scope")

(* A worker whose every call was granted and recorded, in a workspace      *)
(* nobody else touched, is not accused; provided git answered, the project *)
(* is the workspace, the copy tool was not used, nothing below .aota was   *)
(* written, and guard and verifier read the patterns alike.                *)
Alike(q) == \A f \in Fields : GuardAllows(q, Scope[f]) <=> VerifierAllows(q, Scope[f])
Honest ==
    /\ ~past.others /\ ~past.mishap /\ ~past.copied /\ git /\ site.root = <<>>
    /\ \A i \in DOMAIN events : events[i].mine /\ Alike(events[i].path)
    /\ \A p \in past.wrote : TierOf(p, "write") # "PROJECT_METADATA"
HonestIsCompliant ==
    verdict # "none" /\ Honest => verdict \in {"compliant", "not_applicable"}
=============================================================================
