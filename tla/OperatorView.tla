---------------------------- MODULE OperatorView ----------------------------
(***************************************************************************)
(* The read-only tools with which an operator looks at the rail: the inbox *)
(* that lists what waits for somebody, and the consistency audit of a      *)
(* task, a handoff or a decision.  They are operators on the files.  The   *)
(* files are those of HandoffRail, together with the source task the rail  *)
(* is about, the follow-up drafts as tasks of their own, and the cleanup   *)
(* script.                                                                 *)
(***************************************************************************)
EXTENDS HandoffRail

CONSTANTS
    Source,       \* the task whose end starts the rail
    Sources,      \* what it may be: [kind, schema, mode]
    Endings,      \* the terminal statuses it may end in
    MaxRev        \* bound: revisions of a draft

VARIABLES
    source,    \* the source task: its status and its files
    said,      \* what a handoff file says of task status and role card
    mark,      \* the state field inside a handoff file
    owed,      \* handoffs whose ack call has yet to rewrite that field
    paper      \* the drafts as tasks: status, revision, approved revision

desk == <<source, said, mark, owed, paper>>

Terminal == {"done", "failed", "needs_input", "cancelled", "timeout", "scope_violation"}

(* An architecture task is a design review here: the binding of a          *)
(* preflight to the revision of its subject is left out.                   *)
ASSUME DeskAssumption ==
    /\ IsFiniteSet(DecisionIds)
    /\ Source \notin Drafts \union {None}
    /\ Endings \subseteq Terminal
    /\ \A is \in Sources : is.kind = "architecture" => is.mode = "design_review"
    /\ MaxRev \in Nat \ {0}

Papers == [status : {"none", "draft", "running"}, rev : 0 .. MaxRev, approved : 0 .. MaxRev]

(* The values the variables take.                                         *)
DeskTypeOK ==
    /\ TypeOK
    /\ source \in [is : Sources, status : {"running"} \union Endings,
                   meta : BOOLEAN, receipt : BOOLEAN, card : BOOLEAN]
    /\ said \in [Handoffs -> [status : Endings \union {"none", "failed"}, card : BOOLEAN]]
    /\ mark \in [Handoffs -> {"none", "pending", "acknowledged"}]
    /\ owed \subseteq Handoffs
    /\ paper \in [Drafts -> Papers]

DeskInit ==
    /\ Init
    /\ \E is \in Sources :
          source = [is |-> is, status |-> "running", meta |-> TRUE,
                    receipt |-> FALSE, card |-> FALSE]
    /\ said = [h \in Handoffs |-> [status |-> "none", card |-> FALSE]]
    /\ mark = [h \in Handoffs |-> "none"]
    /\ owed = {}
    /\ paper = [t \in Drafts |-> [status |-> "none", rev |-> 0, approved |-> 0]]

-----------------------------------------------------------------------------
(* Reading the files *)

Tasks == {Source} \union {t \in Drafts : paper[t].status # "none"}
Meta(t) ==
    IF t = Source
    THEN [kind |-> source.is.kind, schema |-> source.is.schema, mode |-> source.is.mode,
          status |-> source.status, started |-> TRUE, from |-> None,
          subject |-> IF source.is.kind = "architecture" THEN "other" ELSE "none",
          rev |-> 1, approved |-> 1]
    ELSE [kind |-> draft[t].kind, schema |-> 3,
          mode |-> IF draft[t].kind = "architecture" THEN "design_review" ELSE "none",
          status |-> paper[t].status, started |-> paper[t].status # "draft",
          from |-> draft[t].decision,
          subject |-> IF draft[t].kind \in {"review", "architecture"} THEN "source" ELSE "none",
          rev |-> paper[t].rev, approved |-> paper[t].approved]
Readable(t) == t = Source => source.meta
ReceiptOf(t) == t = Source /\ source.receipt

(* find_existing_handoff: by task and start.                               *)
HandoffOf(t) == IF t = Source THEN {h \in Handoffs : Exists(h)} ELSE {}
CardGone(h) == said[h].card /\ ~source.card

-----------------------------------------------------------------------------
(* aota_operator_inbox_list *)

Priority == [pending_handoff |-> 50, awaiting_user |-> 30, ready_for_followup |-> 60,
    draft_requires_approval |-> 70, approved_ready_to_start |-> 80,
    draft_ready_to_start |-> 90, needs_input_task_without_decision |-> 40,
    failed_task_unconsumed |-> 40, cancelled_task_unconsumed |-> 45,
    timeout_task_unconsumed |-> 35, broken_lineage |-> 10, artifact_gap |-> 20,
    running_task |-> 999]
Item(type, id) == [type |-> type, id |-> id]

HandoffItems ==
    {Item("pending_handoff", <<"handoff", h>>) : h \in {h \in Handoffs : place[h] = "pending"}}

(* Mutation: only decisions that wait for the user make an item.           *)
DecisionItemsAwaiting ==
    {Item("awaiting_user", <<"decision", d>>) :
        d \in {d \in DecisionIds : decision[d].state = "awaiting_user"}}

(* Of the active states only these two make an item.                       *)
DecisionItems ==
    {Item(decision[d].state, <<"decision", d>>) :
        d \in {d \in DecisionIds :
                 \/ decision[d].state = "awaiting_user"
                 \/ decision[d].state = "ready_for_followup" /\ decision[d].task = None}}

(* The inbox scans neither done tasks nor scope violations.                *)
Scanned == {t \in Tasks : Readable(t) /\ Meta(t).status \notin {"done", "scope_violation"}}

DraftItem(t) ==
    IF Meta(t).kind # "implementation"
    THEN Item("draft_ready_to_start", <<"task", t, "ready_to_start">>)
    ELSE IF Meta(t).approved = Meta(t).rev
         THEN Item("approved_ready_to_start", <<"task", t, "approved_ready">>)
         ELSE Item("draft_requires_approval", <<"task", t, "needs_approval">>)

Unconsumed == [failed |-> "failed_task_unconsumed", timeout |-> "timeout_task_unconsumed",
               cancelled |-> "cancelled_task_unconsumed"]
EndedItems(t) ==
    {Item(IF Meta(t).status = "needs_input" THEN "needs_input_task_without_decision"
          ELSE Unconsumed[Meta(t).status], <<"task", t, Meta(t).status>>) :
        h \in {h \in HandoffOf(t) :
                 /\ Meta(t).status \in {"needs_input"} \union DOMAIN Unconsumed
                 /\ \/ About(h) = {}
                    \/ Meta(t).status # "needs_input" /\ mark[h] = "pending"}}

TaskItems ==
    {DraftItem(t) : t \in {t \in Scanned : Meta(t).status = "draft"}}
    \union UNION {EndedItems(t) : t \in Scanned}
RunningItems ==
    {Item("running_task", <<"task", t, "running">>) :
        t \in {t \in Scanned : Meta(t).status = "running"}}

(* A decision whose handoff or source task cannot be read.                 *)
LineageItems ==
    {Item("broken_lineage", <<"decision", d>>) :
        d \in {d \in DecisionIds : Written(d) /\ (~Exists(decision[d].handoff) \/ ~source.meta)}}

GapItems ==
    LET ended == {t \in Scanned : Meta(t).status \in Terminal}
    IN {Item("artifact_gap", <<"task", t, "receipt_missing">>) :
           t \in {t \in ended : ~ReceiptOf(t)}}
       \union {Item("artifact_gap", <<"task", t, "card_gap">>) :
           t \in {t \in ended : \E h \in HandoffOf(t) : CardGone(h)}}

(* Of two items with one id the more urgent one is kept.                   *)
MostUrgent(items) ==
    {i \in items : \A j \in items : j.id = i.id => Priority[i.type] <= Priority[j.type]}

Inbox == MostUrgent(HandoffItems \union DecisionItems \union TaskItems
                    \union LineageItems \union GapItems)

-----------------------------------------------------------------------------
(* aota_operator_inbox_open resolves the id of an item again.              *)
OpenedTask(suffix) ==
    CASE suffix = "needs_approval" -> "draft_requires_approval"
      [] suffix = "approved_ready" -> "approved_ready_to_start"
      [] suffix = "ready_to_start" -> "draft_ready_to_start"
      [] suffix = "needs_input" -> "needs_input_task_without_decision"
      [] suffix \in {"failed", "cancelled"} -> Unconsumed[suffix]
      [] suffix = "running" -> "running_task"
      [] suffix \in {"receipt_missing", "card_gap"} -> "artifact_gap"
      [] OTHER -> "task"
OpenedDecision(d) ==
    IF decision[d].state = "awaiting_user" THEN "awaiting_user"
    ELSE IF decision[d].state = "ready_for_followup" /\ decision[d].task = None
         THEN "ready_for_followup" ELSE "decision"
Opened(id) ==
    CASE id[1] = "handoff" -> IF Exists(id[2]) THEN "pending_handoff" ELSE "error"
      [] id[1] = "decision" -> OpenedDecision(id[2])
      [] id[1] = "task" -> IF Readable(id[2]) THEN OpenedTask(id[3]) ELSE "error"

(* What an item shows once it is open.  A decision is looked for in a      *)
(* directory, in the order in which that is listed.                        *)
Missing == "missing"
SomeDecision(h) == IF About(h) = {} THEN {None} ELSE About(h)
HandoffFile(h) == IF Exists(h) THEN [state |-> mark[h], status |-> said[h].status] ELSE Missing
TaskFile(t) == IF Readable(t) THEN [status |-> Meta(t).status, kind |-> Meta(t).kind] ELSE Missing

(* The state of a handoff is told from the directory it lies in.           *)
OpenedHandoff(h) ==
    [state : {place[h]}, status : {said[h].status}, source : {TaskFile(Source)},
     cardMissing : {~(said[h].card /\ source.card)}, decision : SomeDecision(h)]

OpenedEvidence(d) ==
    LET it == decision[d]
    IN [state |-> it.state, value |-> it.value, handoff |-> HandoffFile(it.handoff),
        source |-> TaskFile(Source),
        followup |-> IF it.task = None THEN None ELSE TaskFile(it.task)]

OpenedTaskEvidence(t) ==
    UNION {[handoff : {HandoffFile(h)}, decision : SomeDecision(h),
            receipt : {ReceiptOf(t)}, card : {source.card}] : h \in HandoffOf(t)}

(* An approval that is not that of the draft asks for another one.         *)
OpenedApproval(t) ==
    IF ~Readable(t) \/ Meta(t).approved = 0 THEN "error"
    ELSE IF Meta(t).approved = Meta(t).rev THEN "approved_ready_to_start"
         ELSE "draft_requires_approval"

-----------------------------------------------------------------------------
(* aota_handoff_list, aota_orchestration_decision_list and _open           *)

(* The first decision that is found gives an entry its value; the last one *)
(* gives it its state and its follow-up.                                   *)
PendingEntries ==
    UNION {{[handoff |-> h, status |-> said[h].status, first |-> d, last |-> None] :
                d \in SomeDecision(h)} : h \in {h \in Handoffs : place[h] = "pending"}}
HandoffList ==
    UNION {{[e EXCEPT !.last = d] : d \in SomeDecision(e.handoff)} : e \in PendingEntries}

ActiveStates == {"awaiting_user", "ready_for_followup", "recorded"}
DecisionList(filter) ==
    {d \in DecisionIds : Written(d) /\ decision[d].state \in filter}

DecisionOpen(d) ==
    [value |-> decision[d].value, state |-> decision[d].state, task |-> decision[d].task,
     handoff |-> HandoffFile(decision[d].handoff), source |-> TaskFile(Source)]

-----------------------------------------------------------------------------
(* aota_operator_consistency_check: sets of findings, <<code, level>>.     *)

Finding(code, level, when) == IF when THEN {<<code, level>>} ELSE {}

SchemaFindings(it) == Finding("SCHEMA_VERSION_LEGACY", "warning", it.schema = 1)
TerminalFindings(t, it) ==
    Finding("TASK_TERMINAL_RECEIPT_MISSING", "broken",
            it.status \in Terminal /\ ~ReceiptOf(t))
(* The meta of a terminal task names the receipt, so that a missing        *)
(* handoff is one a status call can still write.                           *)
MissingHandoffFindings(t, it) ==
    Finding("HANDOFF_MISSING_RECOVERABLE", "warning",
            it.status \in Terminal /\ it.started /\ HandoffOf(t) = {})
FoundHandoffFindings(t, it) ==
    Finding("HANDOFF_TERMINAL_MISMATCH", "broken",
            \E h \in HandoffOf(t) : said[h].status # it.status)
    \union Finding("ROLE_CARD_DECLARATION_MISMATCH", "broken",
                   \E h \in HandoffOf(t) : CardGone(h))

(* What the task was created for.  The kind a resume asks for stays in the *)
(* resume until the follow-up is entered.                                  *)
KindOf(d) ==
    IF decision[d].task # None THEN draft[decision[d].task].kind
    ELSE IF decision[d].value = "review_required" THEN "review" ELSE None
DecisionFindings(it) ==
    Finding("TASK_KIND_CONSTRAINT", "broken",
            it.from # None /\ KindOf(it.from) \notin {None, it.kind})
    \union Finding("REVIEW_SUBJECT", "broken",
            it.from # None /\ it.kind = "review"
            /\ decision[it.from].value = "review_required" /\ it.subject # "source")

(* A review is never bound to a revision of its subject.                   *)
BindingFindings(it) ==
    Finding("REVIEW_BINDING_MISSING", "warning",
            it.kind = "review" /\ it.schema >= 2 /\ it.subject # "none")
ArchitectureFindings(it) ==
    Finding("ARCHITECTURE_MODE_INVALID", "broken",
            it.kind = "architecture" /\ it.mode \notin {"design_review", "spec_preflight"})
    \union Finding("ARCHITECTURE_MISSING_SUBJECT", "broken",
            it.kind = "architecture" /\ it.subject = "none")

(* The role contract is handed over with arch_mode, a local that only the  *)
(* branch for architecture tasks assigns: the audit dies.                  *)
Dies(it) == it.schema >= 2 /\ it.kind # "architecture"

ApprovalFindings(it) ==
    LET draftOnly == it.kind = "implementation" /\ it.status = "draft" /\ it.approved # 0
    IN Finding("APPROVAL_REVISION_HASH", "warning", draftOnly /\ it.approved # it.rev)
       \union Finding("APPROVAL_STALE", "warning", draftOnly /\ it.approved # it.rev)
(* The source handoff of a follow-up is about another task, always.        *)
SourceHandoffFindings(it) ==
    Finding("SOURCE_BINDING_CONSISTENCY", "warning", it.from # None)

AuditTask(t) ==
    LET it == Meta(t)
    IN IF ~Readable(t) THEN {<<"TASK_META_UNREADABLE", "broken">>}
       ELSE IF Dies(it) THEN {<<"none", "error">>}
       ELSE SchemaFindings(it) \union TerminalFindings(t, it)
            \union MissingHandoffFindings(t, it) \union FoundHandoffFindings(t, it)
            \union DecisionFindings(it) \union BindingFindings(it)
            \union ArchitectureFindings(it) \union ApprovalFindings(it)
            \union SourceHandoffFindings(it)

(* Mutation: two decisions are tolerated.                                  *)
DuplicatesTolerant(h) ==
    Finding("SINGLE_ACTIVE_DECISION", "warning", Cardinality(About(h)) > 2)

Duplicates(h) == Finding("SINGLE_ACTIVE_DECISION", "warning", Cardinality(About(h)) > 1)

(* An acknowledgement is compared with the decision that is listed first,  *)
(* which may be any.                                                       *)
AckFindings(h, first) ==
    Finding("DECISION_ACK_PENDING", "warning", mark[h] = "pending")
    \union Finding("ACK_DECISION_MISMATCH", "broken",
            mark[h] = "acknowledged" /\ ack[h] # None /\ ack[h] # decision[first].value)
AuditHandoff(h) ==
    (UNION {AckFindings(h, d) : d \in About(h)})
    \union Duplicates(h)
    \union Finding("HANDOFF_TERMINAL_MISMATCH", "broken",
            source.meta /\ said[h].status # source.status)
    \union Finding("ROLE_CARD_DECLARATION_MISMATCH", "broken", CardGone(h))

FollowupFindings(d) ==
    LET it == decision[d]
        t == it.task
    IN Finding("FOLLOWUP_TASK_CREATED", "broken", it.state = "followup_created" /\ t = None)
       \union Finding("FOLLOWUP_SOURCE_DECISION", "broken",
            t # None /\ draft[t].decision # d)
       \union Finding("RESUME_KIND_MISMATCH", "warning",
            it.state = "ready_for_followup" /\ KindOf(d) \notin {None, it.resume})
AuditDecision(d) ==
    Finding("SOURCE_HANDOFF_EXISTS", "broken", ~Exists(decision[d].handoff))
    \union Finding("SOURCE_BINDING_CONSISTENCY", "broken",
            Exists(decision[d].handoff) /\ said[decision[d].handoff].status = "none")
    \union Finding("SOURCE_BINDING_CONSISTENCY", "warning",
            source.meta /\ said[decision[d].handoff].status # source.status)
    \union Duplicates(decision[d].handoff)
    \union FollowupFindings(d)

(* Everything an operator can ask about.                                   *)
Findings ==
    (UNION {AuditTask(t) : t \in Tasks})
    \union (UNION {AuditHandoff(h) : h \in {h \in Handoffs : Exists(h)}})
    \union (UNION {AuditDecision(d) : d \in {d \in DecisionIds : Written(d)}})

-----------------------------------------------------------------------------
(* What changes the files *)

(* The finalizer files the receipt, then the terminal status.              *)
Conclude ==
    /\ source.status = "running"
    /\ \E s \in Endings, c \in BOOLEAN :
          source' = [source EXCEPT !.status = s, !.receipt = TRUE, !.card = c]
    /\ UNCHANGED <<vars, said, mark, owed, paper>>

(* A canonical task that is done without a card gets no handoff.           *)
CanBeHandedOn ==
    source.is.schema > 1 /\ source.status = "done" => source.card

(* How a new handoff says the task ended.  The finalizer and a status call *)
(* say what the meta says; the failure path says "failed" of any task, and *)
(* so does whoever hands on a canonical task without its card.             *)
Told ==
    IF source.is.schema > 1 /\ ~source.card THEN {"failed"} ELSE {source.status, "failed"}

(* A step of the rail.  A new handoff also says whether there is a card.   *)
(* An ack call that has filed its artifact still owes the handoff's own    *)
(* state field; a new draft is a task of its own.                          *)
RailStep ==
    /\ source.status \in Terminal
    /\ Next
    /\ (\E h \in Handoffs : ~Exists(h) /\ place'[h] # "none") => CanBeHandedOn
    /\ \E s \in Told :
          said' = [h \in Handoffs |->
              IF ~Exists(h) /\ place'[h] # "none"
              THEN [status |-> s, card |-> source.card] ELSE said[h]]
    /\ mark' = [h \in Handoffs |->
          IF ~Exists(h) /\ place'[h] # "none" THEN "pending" ELSE mark[h]]
    /\ owed' = owed \union {h \in Handoffs : ack[h] = None /\ ack'[h] # None}
    /\ paper' = [t \in Drafts |->
          IF draft[t].decision = None /\ draft'[t].decision # None
          THEN [status |-> "draft", rev |-> 1, approved |-> 0] ELSE paper[t]]
    /\ UNCHANGED source

(* The lock is released before the state field is rewritten.               *)
MarkAcked(h) ==
    /\ h \in owed
    /\ mark' = [mark EXCEPT ![h] = "acknowledged"]
    /\ owed' = owed \ {h}
    /\ UNCHANGED <<vars, source, said, paper>>

(* The call dies in between, or the rewrite fails.                         *)
MarkLost(h) ==
    /\ "crash" \in Faults
    /\ h \in owed
    /\ owed' = owed \ {h}
    /\ UNCHANGED <<vars, source, said, mark, paper>>

ApproveDraft(t) ==
    /\ paper[t].status = "draft" /\ draft[t].kind = "implementation"
    /\ paper' = [paper EXCEPT ![t].approved = paper[t].rev]
    /\ UNCHANGED <<vars, source, said, mark, owed>>

ReviseDraft(t) ==
    /\ paper[t].status = "draft" /\ paper[t].rev < MaxRev
    /\ paper' = [paper EXCEPT ![t].rev = @ + 1]
    /\ UNCHANGED <<vars, source, said, mark, owed>>

StartDraft(t) ==
    /\ paper[t].status = "draft"
    /\ draft[t].kind = "implementation" => paper[t].approved = paper[t].rev
    /\ paper' = [paper EXCEPT ![t].status = "running"]
    /\ UNCHANGED <<vars, source, said, mark, owed>>

(* cleanup-controlled-run.py deletes the exact paths of a manifest.  The   *)
(* last component of a task directory, a handoff, a receipt or a decision  *)
(* carries a timestamp and is refused as the prefix of a group; files with *)
(* fixed names inside a task directory are not.                            *)
Dated == {"task_dir", "handoff", "decision", "receipt"}
Deletable == {"task_dir", "handoff", "decision", "receipt", "meta", "card"} \ Dated

Cleanup ==
    /\ source.status \in Terminal
    /\ \E p \in Deletable :
          /\ source[p]
          /\ source' = [source EXCEPT ![p] = FALSE]
    /\ UNCHANGED <<vars, said, mark, owed, paper>>

DeskNext ==
    \/ Conclude
    \/ RailStep
    \/ \E h \in Handoffs : MarkAcked(h) \/ MarkLost(h)
    \/ \E t \in Drafts : ApproveDraft(t) \/ ReviseDraft(t) \/ StartDraft(t)
    \/ Cleanup

DeskSpec == DeskInit /\ [][DeskNext]_<<vars, desk>>

-----------------------------------------------------------------------------
(* Properties *)

Quiescent == owed = {} /\ \A a \in Actors : pc[a] = "idle"

(* When the inbox is empty and no call is under way, the handoff is        *)
(* acknowledged, and every decision about it is closed, or has a follow-up *)
(* that was started, or is one that calls for a follow-up nobody has       *)
(* created: of what waits for somebody, the inbox forgets only the last.   *)
OnlyRecordedForgotten(inbox) ==
    Quiescent /\ inbox = {} =>
        /\ \A h \in Handoffs : place[h] # "pending"
        /\ \A d \in DecisionIds :
              Written(d) =>
                 \/ decision[d].state = "closed"
                 \/ decision[d].state = "recorded" /\ decision[d].task = None
                 \/ decision[d].task # None /\ paper[decision[d].task].status = "running"

(* An item opens as what it was listed as, whatever happened to the files; *)
(* the opener does not know timeouts, and shows a broken decision as one.  *)
ListedOpens(inbox) ==
    \A i \in inbox \union RunningItems :
        i.type \in {"timeout_task_unconsumed", "broken_lineage"} \/ Opened(i.id) = i.type

(* Where two tools disagree the audit of the handoff says why: a listing   *)
(* that takes value and state from two decisions, a state field that is    *)
(* behind the directory.  An approval opens as what its draft is listed    *)
(* as, an ended task that is listed as unconsumed opens with the evidence  *)
(* for it, and what the inbox forgets the decision list shows.             *)
ToolsAgree(inbox) ==
    /\ \A e \in HandoffList :
          e.first # e.last => <<"SINGLE_ACTIVE_DECISION", "warning">> \in AuditHandoff(e.handoff)
    /\ \A d \in DecisionIds : Written(d) =>
          LET h == decision[d].handoff
          IN \A o \in OpenedHandoff(h) :
                o.state # DecisionOpen(d).handoff.state =>
                    h \in owed \/ <<"DECISION_ACK_PENDING", "warning">> \in AuditHandoff(h)
    /\ \A t \in Tasks \ {Source} :
          OpenedApproval(t) # "error" /\ Meta(t).status = "draft" =>
              DraftItem(t).type = OpenedApproval(t)
    /\ \A i \in inbox :
          i.type \in {Unconsumed[s] : s \in DOMAIN Unconsumed} =>
              \E o \in OpenedTaskEvidence(i.id[2]) :
                  o.decision = None \/ o.handoff.state = "pending"
    /\ \A d \in {d \in DecisionIds : Written(d)} :
          OpenedEvidence(d).state = "recorded" /\ OpenedEvidence(d).followup = None =>
              d \in DecisionList(ActiveStates)

(* What the desk says: the inbox forgets nothing but what it is known to,  *)
(* each of its items opens, and the other tools bear it out.               *)
InboxFaithful ==
    LET inbox == Inbox
    IN OnlyRecordedForgotten(inbox) /\ ListedOpens(inbox) /\ ToolsAgree(inbox)

(* The audit accuses nobody: as long as nothing was cleaned up and one     *)
(* decision was taken, crashes and overlapping calls leave nothing that it *)
(* calls broken, save a draft that a call which died left beside a draft   *)
(* of another kind, both for the one decision, and the handoff of a        *)
(* failure path, which says "failed" of a task that ended otherwise.       *)
LeftBeside ==
    \E t, u \in Drafts :
        /\ draft[t].decision # None /\ draft[t].decision = draft[u].decision
        /\ draft[t].kind # draft[u].kind
SaidFailed == \E h \in Handoffs : said[h].status = "failed" /\ source.status # "failed"
AuditQuiet ==
    source.meta /\ (\A h \in Handoffs : Cardinality(About(h)) <= 1 /\ ~CardGone(h))
        => \A f \in Findings :
              f[2] = "broken" =>
                 \/ f[1] = "TASK_KIND_CONSTRAINT" /\ LeftBeside
                 \/ f[1] = "HANDOFF_TERMINAL_MISMATCH" /\ SaidFailed

(* An acknowledgement that contradicts a decision on file, as two sessions *)
(* that decide at the same time bring about, is reported by the audit of   *)
(* the handoff.                                                            *)
ContradictionSeen ==
    \A h \in Handoffs :
        (\E d \in About(h) : ack[h] \notin {None, decision[d].value})
            => \E f \in AuditHandoff(h) : f[1] # "DECISION_ACK_PENDING"

(* The audit reports a contradiction and accuses nobody without one.       *)
AuditExact == AuditQuiet /\ ContradictionSeen

-----------------------------------------------------------------------------
(* The inductive invariant: that of the rail, and what the further files   *)
(* say of it.                                                              *)

(* A follow-up that a decision names, or that a call is about to name, is  *)
(* a draft for that decision.                                              *)
LinkInv ==
    /\ \A d \in DecisionIds :
          /\ Written(d) => decision[d].state \in States
          /\ Written(d) /\ decision[d].state = "followup_created" => decision[d].task # None
          /\ decision[d].task # None => draft[decision[d].task].decision = d
    /\ \A a \in Callers : pc[a] = "claim" => draft[job[a].task].decision = job[a].decision

(* A task that has ended has its receipt, a handoff says how it ended or   *)
(* that it failed, and its own state field may be behind its directory but *)
(* never ahead.                                                            *)
FileInv ==
    /\ source.status # "running" => source.receipt
    /\ \A h \in Handoffs :
          /\ Exists(h) =>
                /\ source.status # "running"
                /\ said[h].status \in {source.status, "failed"}
                /\ mark[h] # "none"
          /\ mark[h] = "acknowledged" => place[h] = "acknowledged"
          /\ h \in owed => ack[h] # None

(* A draft is a task, and only an implementation is approved.              *)
PaperInv ==
    \A t \in Drafts :
        /\ (paper[t].status = "none") = (draft[t].decision = None)
        /\ paper[t].approved # 0 => draft[t].decision # None /\ draft[t].kind = "implementation"

DeskInv == RailInv /\ DeskTypeOK /\ LinkInv /\ FileInv /\ PaperInv
=============================================================================
