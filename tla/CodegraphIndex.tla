--------------------------- MODULE CodegraphIndex ---------------------------
(***************************************************************************)
(* What the plugin says of a project's CodeGraph index.  The CodeGraph     *)
(* command line, external, keeps the index: "init" and "index" read the    *)
(* sources, leave out files above a size limit and hold a lock file while  *)
(* they work; "status" reports what is pending.  A status call asks for    *)
(* that report, looks at the reported files itself, and then at the lock;  *)
(* a rebuild call runs the command when nobody seems to, and kills it when *)
(* it takes too long.  Meanwhile people edit the sources.                  *)
(***************************************************************************)
EXTENDS Naturals, FiniteSets

CONSTANTS
    Sources,       \* paths the command line reports on
    Unfit,         \* those .gitignore names, or with another extension
    Rebuilders,    \* callers of the rebuild tool
    MaxRebuilds,   \* bound
    MaxSourceEdits,\* bound
    MaxItems       \* _MAX_PENDING_ITEMS

ASSUME CodegraphAssumption == IsFiniteSet(Sources)

VARIABLES
    source,  \* each path: its size, "none" when absent, and version
    index,   \* [present, files: the version indexed, 0 for none, stale]
    cli,     \* what the installed command line reports: [items, limit]
    cglock,  \* codegraph.lock: "none", "held" by a live process, "dead"
    job,     \* where each rebuild is
    ask,     \* where the status call is
    rebuilds, sourceEdits,
    still    \* history: the files nothing has happened to since it began

codegraphVars == <<source, index, cli, cglock, job, ask, rebuilds, sourceEdits, still>>

Kinds == {"added", "modified", "removed"}

-----------------------------------------------------------------------------
(* The report of the command line (external): each file that differs from  *)
(* its entry, as added, modified or removed.                               *)
Pending(kind) ==
    {f \in Sources :
        CASE kind = "added"    -> source[f].size # "none" /\ index.files[f] = 0
          [] kind = "modified" -> source[f].size # "none" /\ index.files[f] \notin {0, source[f].version}
          [] kind = "removed"  -> source[f].size = "none" /\ index.files[f] # 0}

Report ==
    [count |-> [k \in Kinds |-> Cardinality(Pending(k))],
     items |-> IF cli.items THEN UNION {{[path |-> f, reason |-> k, indexed |-> index.files[f] # 0] : f \in Pending(k)} : k \in Kinds}
               ELSE {},
     limit |-> cli.limit,
     empty |-> \A f \in Sources : index.files[f] = 0,
     reindex |-> index.reindex]

(* _pending_items keeps the first ones of the list.                        *)
Cut(items) == {s \in SUBSET items :
    Cardinality(s) = IF Cardinality(items) > MaxItems THEN MaxItems ELSE Cardinality(items)}

-----------------------------------------------------------------------------
(* _safe_file, _ignored and the extension: a source of this project.       *)
Fit(f) == f \notin Unfit

(* _eligible_oversized: a new regular source file, in no index, above the  *)
(* limit when looked at.                                                   *)
EligibleAnySize(item) ==   \* mutant: whatever its size
    item.reason = "added" /\ ~item.indexed /\ Fit(item.path)
EligibleOversized(item) ==
    /\ item.reason = "added" /\ ~item.indexed
    /\ Fit(item.path)
    /\ source[item.path].size = "large"

(* project_pending_scope: exclusions are taken off the added count while   *)
(* it lasts; without items or a limit nothing is excluded.                 *)
Projection(report, items) ==
    LET total      == report.count["added"] + report.count["modified"] + report.count["removed"]
        eligible   == Cardinality({i \in items : EligibleOversized(i)})
        exclusions == IF total = 0 \/ ~report.limit THEN 0
                      ELSE IF eligible < report.count["added"] THEN eligible ELSE report.count["added"]
    IN  [effective  |-> total - exclusions,
         exclusions |-> exclusions,
         classified |-> /\ total = exclusions
                        /\ ~(total > 0 /\ items # {} /\ ~report.limit)]

(* derive_codegraph_lifecycle, the first case that fits.                   *)
SourceExists == \E f \in Sources : source[f].size # "none"
Lifecycle(present, report, projection) ==
    CASE ~present -> "not_initialized"
      [] present /\ report.reindex -> "reindex_recommended"
      [] present /\ ~report.reindex /\ report.empty /\ SourceExists -> "initialized_empty"
      [] OTHER -> IF projection.effective > 0 \/ ~projection.classified THEN "stale" ELSE "ready"

(* status_handle: a lock of any kind means busy.                           *)
Answer(state) ==
    CASE cglock # "none" -> "busy"
      [] cglock = "none" /\ state = "ready" -> "ready"
      [] cglock = "none" /\ state \in {"not_initialized", "initialized_empty"} -> "missing"
      [] OTHER -> "stale"

-----------------------------------------------------------------------------
(* status_handle, _resolve_project done: the index directory, then the     *)
(* report, the files it names, and last the lock.                          *)
AskBegin ==
    /\ ask.at \in {"idle", "told"}
    /\ ask' = [at |-> IF index.present THEN "report" ELSE "lock", state |-> "not_initialized"]
    /\ still' = Sources
    /\ UNCHANGED <<source, index, cli, cglock, job, rebuilds, sourceEdits>>

AskReport ==
    /\ ask.at = "report"
    /\ ask' = [at |-> "look", report |-> Report]
    /\ UNCHANGED <<source, index, cli, cglock, job, rebuilds, sourceEdits, still>>

(* The command line fails or answers something else.                       *)
AskFails ==
    /\ ask.at = "report"
    /\ ask' = [at |-> "lock", state |-> "runtime_unavailable"]
    /\ UNCHANGED <<source, index, cli, cglock, job, rebuilds, sourceEdits, still>>

AskLook ==
    /\ ask.at = "look"
    /\ \E items \in Cut(ask.report.items) :
          ask' = [at |-> "lock", state |-> Lifecycle(TRUE, ask.report, Projection(ask.report, items))]
    /\ UNCHANGED <<source, index, cli, cglock, job, rebuilds, sourceEdits, still>>

AskLock ==
    /\ ask.at = "lock"
    /\ ask' = [at |-> "told",
               state |-> IF ask.state = "runtime_unavailable" /\ cglock = "none" THEN "broken"
                         ELSE Answer(ask.state)]
    /\ UNCHANGED <<source, index, cli, cglock, job, rebuilds, sourceEdits, still>>

-----------------------------------------------------------------------------
(* _codegraph_rebuild.handle.  No lock, no other process: go ahead.        *)
Busy == cglock # "none" \/ ask.at = "report" \/ \E b \in Rebuilders : job[b].at = "running"

RebuildBegin(b) ==
    /\ job[b].at = "idle" /\ rebuilds < MaxRebuilds
    /\ rebuilds' = rebuilds + 1
    /\ job' = [job EXCEPT ![b].at = IF Busy THEN "idle" ELSE "spawn"]
    /\ UNCHANGED <<source, index, cli, cglock, ask, sourceEdits, still>>

(* The command takes its lock, or fails on it (external).                  *)
RebuildSpawn(b) ==
    /\ job[b].at = "spawn"
    /\ IF cglock = "none" THEN job' = [job EXCEPT ![b] = [at |-> "running", read |-> source]] /\ cglock' = "held"
       ELSE job' = [job EXCEPT ![b].at = "idle"] /\ UNCHANGED cglock
    /\ UNCHANGED <<source, index, cli, ask, rebuilds, sourceEdits, still>>

RebuildDone(b) ==
    /\ job[b].at = "running"
    /\ LET read == job[b].read
       IN  index' = [present |-> TRUE, reindex |-> FALSE,
                     files |-> [f \in Sources |-> IF read[f].size = "small" THEN read[f].version ELSE 0]]
    /\ still' = {f \in still : index'.files[f] = index.files[f]}
    /\ cglock' = "none" /\ job' = [job EXCEPT ![b] = [at |-> "idle", read |-> source]]
    /\ UNCHANGED <<source, cli, ask, rebuilds, sourceEdits>>

(* _run: at the deadline the process group is killed; its lock file stays. *)
RebuildTimeout(b) ==
    /\ job[b].at = "running"
    /\ cglock' = "dead"
    /\ job' = [job EXCEPT ![b] = [at |-> "idle", read |-> source]]
    /\ UNCHANGED <<source, index, cli, ask, rebuilds, sourceEdits, still>>

(* Somebody writes, enlarges or removes a file, or removes a dead lock.    *)
EditSource(f) ==
    /\ sourceEdits < MaxSourceEdits /\ sourceEdits' = sourceEdits + 1
    /\ \E size \in {"none", "small", "large"} :
          source' = [source EXCEPT ![f] = [size |-> size, version |-> source[f].version + 1]]
    /\ still' = still \ {f}
    /\ UNCHANGED <<index, cli, cglock, job, ask, rebuilds>>

RemoveLock ==
    /\ cglock = "dead" /\ cglock' = "none"
    /\ UNCHANGED <<source, index, cli, job, ask, rebuilds, sourceEdits, still>>

CodegraphInit ==
    /\ source \in [Sources -> [size : {"none", "small", "large"}, version : {1}]]
    /\ \E present, reindex \in BOOLEAN, sofar \in SUBSET Sources :
          /\ ~present => sofar = {} /\ ~reindex
          /\ index = [present |-> present, reindex |-> reindex,
                      files |-> [f \in Sources |-> IF f \in sofar THEN 1 ELSE 0]]
    /\ cli \in [items : BOOLEAN, limit : BOOLEAN]
    /\ cglock = "none"
    /\ job = [b \in Rebuilders |-> [at |-> "idle", read |-> source]]
    /\ ask = [at |-> "idle", state |-> "none"]
    /\ rebuilds = 0 /\ sourceEdits = 0 /\ still = {}

CodegraphIdle == CodegraphInit /\ source = [f \in Sources |-> [size |-> "none", version |-> 1]]
                               /\ ~index.present /\ cli = [items |-> TRUE, limit |-> TRUE]

CodegraphNext ==
    \/ AskBegin \/ AskReport \/ AskFails \/ AskLook \/ AskLock
    \/ \E b \in Rebuilders : RebuildBegin(b) \/ RebuildSpawn(b) \/ RebuildDone(b) \/ RebuildTimeout(b)
    \/ \E f \in Sources : EditSource(f)
    \/ RemoveLock

CodegraphSpec == CodegraphInit /\ [][CodegraphNext]_codegraphVars

-----------------------------------------------------------------------------
(* When the status tool says ready, every file that nothing has happened   *)
(* to during the call is indexed as it is, or is a new file above the size *)
(* limit that the index leaves out.                                        *)
ReadyMeansIndexed ==
    ask.at = "told" /\ ask.state = "ready" =>
        \A f \in still :
            \/ \A k \in Kinds : f \notin Pending(k)
            \/ f \in Pending("added") /\ source[f].size = "large" /\ Fit(f)
=============================================================================
