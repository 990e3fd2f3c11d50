---------------------------- MODULE HandoffRail ----------------------------
(***************************************************************************)
(* What happens after a task has become terminal.  Its finalizer, or a     *)
(* status call that misses the handoff, writes one into pending/.  The     *)
(* orchestrator records a decision about it, acknowledges it (which moves  *)
(* it to acknowledged/ and files an ack artifact), resumes a decision that *)
(* waited for the user, and creates the follow-up draft a decision calls   *)
(* for.  Every call is its own process step sequence on shared files; a    *)
(* handoff and a decision have a lock each, which only some calls take.    *)
(***************************************************************************)
EXTENDS Naturals, FiniteSets

CONSTANTS
    Creators,     \* finalizer and status calls, which create the handoff
    Callers,      \* orchestrator sessions; each makes one tool call at a time
    Handoffs,     \* handoff ids
    DecisionIds,  \* decision ids
    Drafts,       \* ids of follow-up tasks
    Values,       \* the decisions the orchestrator takes
    Kinds,        \* the task kinds it asks for
    None,
    Faults        \* which of FaultKinds may happen

FaultKinds == {"write", "crash"}

(* accepted and no_action close the matter; needs_user_input waits; the    *)
(* other three call for a follow-up.                                       *)
Closing   == {"accepted", "no_action"}
AllValues == Closing \union
    {"needs_user_input", "needs_followup", "review_required", "reopen_required"}

Actors == Creators \union Callers

ASSUME RailAssumption ==
    /\ Values \subseteq AllValues
    /\ None \notin Handoffs \union DecisionIds \union Drafts \union Actors
                   \union Kinds \union Values
    /\ Creators \intersect Callers = {}
    /\ Faults \subseteq FaultKinds

VARIABLES
    place,     \* where the handoff file is
    ack,       \* the decision in the ack artifact of a handoff
    decision,  \* the decision artifacts
    draft,     \* the follow-up drafts: their decision and task kind
    hlock,     \* who holds the lock of a handoff
    dlock,     \* who holds the lock of a decision
    pc,        \* where each caller is
    job,       \* what its call is about
    late       \* history: creators whose call began after a handoff existed

vars == <<place, ack, decision, draft, hlock, dlock, pc, job, late>>
files  == <<place, ack, decision, draft>>
locks  == <<hlock, dlock>>

States == {"recorded", "closed", "awaiting_user", "ready_for_followup",
           "followup_created"}
Decisions == [handoff : Handoffs \union {None}, value : Values \union {None},
              state : States \union {None}, resume : Kinds \union {None},
              task : Drafts \union {None}]
Jobs == [handoff : Handoffs \union {None}, value : Values \union {None},
         decision : DecisionIds \union {None}, kind : Kinds \union {None},
         task : Drafts \union {None}]
NoJob == [handoff |-> None, value |-> None, decision |-> None, kind |-> None,
          task |-> None]
Unwritten ==
    [handoff |-> None, value |-> None, state |-> None, resume |-> None, task |-> None]

TypeOK ==
    /\ place \in [Handoffs -> {"none", "pending", "acknowledged"}]
    /\ ack \in [Handoffs -> Values \union {None}]
    /\ decision \in [DecisionIds -> Decisions]
    /\ draft \in [Drafts -> [decision : DecisionIds \union {None},
                             kind : Kinds \union {None}]]
    /\ hlock \in [Handoffs -> Callers \union {None}]
    /\ dlock \in [DecisionIds -> Callers \union {None}]
    /\ pc \in [Actors -> {"idle", "scan", "create", "record", "lock", "move",
                          "file", "check", "draft", "claim"}]
    /\ job \in [Actors -> Jobs]
    /\ late \subseteq Creators

-----------------------------------------------------------------------------
(* Helpers *)

Exists(h) == place[h] # "none"
Written(d) == decision[d].handoff # None
About(h) == {d \in DecisionIds : decision[d].handoff = h}

Goto(a, label) == pc' = [pc EXCEPT ![a] = label]
(* A call that ends drops what it carried and the locks it held.           *)
Return(a) ==
    /\ Goto(a, "idle")
    /\ job' = [job EXCEPT ![a] = NoJob]
    /\ hlock' = [h \in Handoffs |-> IF hlock[h] = a THEN None ELSE hlock[h]]
    /\ dlock' = [d \in DecisionIds |-> IF dlock[d] = a THEN None ELSE dlock[d]]

(* The state a decision starts in.                                         *)
InitialState(v) ==
    CASE v \in Closing -> "closed"
      [] v = "needs_user_input" -> "awaiting_user"
      [] OTHER -> "recorded"

(* Mutation: a decision that waits for the user admits a follow-up.        *)
MayFollowUnresumed(d, k) ==
    LET it == decision[d]
    IN /\ it.state # "closed"
       /\ it.state = "ready_for_followup" => k = it.resume
       /\ it.value = "review_required" => k = "review"
       /\ it.value \notin Closing

(* Does the decision admit a follow-up of kind k?                          *)
MayFollow(d, k) ==
    LET it == decision[d]
    IN /\ it.state \notin {"closed", "awaiting_user"}
       /\ it.state = "ready_for_followup" => k = it.resume
       /\ \/ it.value = "review_required" /\ k = "review"
          \/ it.value \in {"needs_followup", "reopen_required"}
          \/ it.value = "needs_user_input" /\ it.state = "ready_for_followup"

-----------------------------------------------------------------------------
Init ==
    /\ place = [h \in Handoffs |-> "none"]
    /\ ack = [h \in Handoffs |-> None]
    /\ decision = [d \in DecisionIds |-> Unwritten]
    /\ draft = [t \in Drafts |-> [decision |-> None, kind |-> None]]
    /\ hlock = [h \in Handoffs |-> None]
    /\ dlock = [d \in DecisionIds |-> None]
    /\ pc = [a \in Actors |-> "idle"]
    /\ job = [a \in Actors |-> NoJob]
    /\ late = {}

-----------------------------------------------------------------------------
(* Creating the handoff: find_existing_handoff lists pending/ first and    *)
(* acknowledged/ second; an acknowledgement may move the file in between.  *)

(* Mutation: acknowledged/ is listed first.                                *)
ListedAckedFirst(label) == IF label = "idle" THEN "acknowledged" ELSE "pending"

Listed(label) == IF label = "idle" THEN "pending" ELSE "acknowledged"
Found(c) == \E h \in Handoffs : place[h] = Listed(pc[c])

FindPending(c) ==
    /\ pc[c] = "idle"
    /\ late' = IF \E h \in Handoffs : Exists(h) THEN late \union {c} ELSE late \ {c}
    /\ Goto(c, IF Found(c) THEN "idle" ELSE "scan")
    /\ UNCHANGED <<files, locks, job>>

FindAcked(c) ==
    /\ pc[c] = "scan"
    /\ Goto(c, IF Found(c) THEN "idle" ELSE "create")
    /\ UNCHANGED <<files, locks, job, late>>

WriteHandoff(c) ==
    /\ pc[c] = "create"
    /\ \/ \E h \in Handoffs :
             /\ ~Exists(h)
             /\ place' = [place EXCEPT ![h] = "pending"]
       \/ "write" \in Faults /\ UNCHANGED place
    /\ Goto(c, "idle")
    /\ UNCHANGED <<ack, decision, draft, locks, job, late>>

-----------------------------------------------------------------------------
(* aota_orchestration_decision_record takes no lock: it looks for another  *)
(* decision about the handoff, then writes its own under a fresh id.       *)
RecordBegin(r) ==
    /\ pc[r] = "idle"
    /\ \E h \in Handoffs, v \in Values :
          /\ Exists(h)
          /\ About(h) = {}
          /\ job' = [job EXCEPT ![r] = [NoJob EXCEPT !.handoff = h, !.value = v]]
    /\ Goto(r, "record")
    /\ UNCHANGED <<files, locks, late>>

RecordWrite(r) ==
    /\ pc[r] = "record"
    /\ \/ \E d \in DecisionIds :
             /\ ~Written(d)
             /\ decision' = [decision EXCEPT ![d] =
                   [Unwritten EXCEPT !.handoff = job[r].handoff,
                                     !.value = job[r].value,
                                     !.state = InitialState(job[r].value)]]
       \/ "write" \in Faults /\ UNCHANGED decision
    /\ Return(r)
    /\ UNCHANGED <<place, ack, draft, late>>

-----------------------------------------------------------------------------
(* aota_handoff_ack.  A decision of this value must be on file; a handoff  *)
(* that has moved and has its artifact is answered at once.                *)

(* Mutation: a handoff that has moved is answered at once.                 *)
AckBeginMoved(a) ==
    /\ pc[a] = "idle"
    /\ \E h \in Handoffs, v \in Values :
          /\ place[h] = "pending"
          /\ \E d \in About(h) : decision[d].value = v
          /\ job' = [job EXCEPT ![a] = [NoJob EXCEPT !.handoff = h, !.value = v]]
    /\ Goto(a, "lock")
    /\ UNCHANGED <<files, locks, late>>

AckBegin(a) ==
    /\ pc[a] = "idle"
    /\ \E h \in Handoffs, v \in Values :
          /\ Exists(h)
          /\ \E d \in About(h) : decision[d].value = v
          /\ place[h] = "acknowledged" => ack[h] = None
          /\ job' = [job EXCEPT ![a] = [NoJob EXCEPT !.handoff = h, !.value = v]]
    /\ Goto(a, "lock")
    /\ UNCHANGED <<files, locks, late>>

AckLock(a) ==
    /\ pc[a] = "lock"
    /\ hlock[job[a].handoff] = None
    /\ hlock' = [hlock EXCEPT ![job[a].handoff] = a]
    /\ Goto(a, "move")
    /\ UNCHANGED <<files, dlock, job, late>>

AckMove(a) ==
    /\ pc[a] = "move"
    /\ place' = [place EXCEPT ![job[a].handoff] = "acknowledged"]
    /\ Goto(a, "file")
    /\ UNCHANGED <<ack, decision, draft, locks, job, late>>

(* A handoff that was acknowledged meanwhile keeps its artifact.           *)
AckFile(a) ==
    /\ pc[a] = "file"
    /\ IF ack[job[a].handoff] = None
       THEN ack' = [ack EXCEPT ![job[a].handoff] = job[a].value]
       ELSE UNCHANGED ack
    /\ Return(a)
    /\ UNCHANGED <<place, decision, draft, late>>

-----------------------------------------------------------------------------
(* aota_orchestration_decision_resume is one critical section of the       *)
(* decision's lock with one write.                                         *)
Resume(d, k) ==
    /\ dlock[d] = None
    /\ decision[d].value = "needs_user_input"
    /\ decision[d].resume = None
    /\ decision[d].state = "awaiting_user"
    /\ decision[d].task = None
    /\ decision' = [decision EXCEPT ![d].resume = k, ![d].state = "ready_for_followup"]
    /\ UNCHANGED <<place, ack, draft, locks, pc, job, late>>

-----------------------------------------------------------------------------
(* aota_followup_task_create reads and checks the decision without the     *)
(* lock ...                                                                *)
FollowRead(f) ==
    /\ pc[f] = "idle"
    /\ \E d \in DecisionIds, k \in Kinds :
          /\ Written(d)
          /\ Exists(decision[d].handoff)
          /\ decision[d].task = None
          /\ MayFollow(d, k)
          /\ job' = [job EXCEPT ![f] = [NoJob EXCEPT !.decision = d, !.kind = k]]
    /\ Goto(f, "check")
    /\ UNCHANGED <<files, locks, late>>

(* Mutation: the decision is not read again under the lock.                *)
FollowLockUnchecked(f) ==
    LET d == job[f].decision
    IN /\ pc[f] = "check"
       /\ dlock[d] = None
       /\ dlock' = [dlock EXCEPT ![d] = f]
       /\ Goto(f, "draft")
       /\ UNCHANGED <<files, hlock, job, late>>

(* ... takes it and looks whether another call was faster ...              *)
FollowLock(f) ==
    LET d == job[f].decision
    IN /\ pc[f] = "check"
       /\ dlock[d] = None
       /\ IF decision[d].task = None
          THEN /\ dlock' = [dlock EXCEPT ![d] = f]
               /\ Goto(f, "draft")
               /\ UNCHANGED <<hlock, job>>
          ELSE Return(f)
       /\ UNCHANGED <<files, late>>

(* ... writes the draft ...                                                *)
FollowCreate(f) ==
    /\ pc[f] = "draft"
    /\ \E t \in Drafts :
          /\ draft[t].decision = None
          /\ draft' = [draft EXCEPT ![t] = [decision |-> job[f].decision,
                                            kind |-> job[f].kind]]
          /\ job' = [job EXCEPT ![f].task = t]
    /\ Goto(f, "claim")
    /\ UNCHANGED <<place, ack, decision, locks, late>>

(* ... and enters it into the decision, as read again under the lock: no   *)
(* other call writes a decision without it once it is recorded.            *)
FollowClaim(f) ==
    LET d == job[f].decision
    IN /\ pc[f] = "claim"
       /\ \/ decision' = [decision EXCEPT ![d].task = job[f].task,
                                          ![d].state = "followup_created"]
          \/ "write" \in Faults /\ UNCHANGED decision
       /\ Return(f)
       /\ UNCHANGED <<place, ack, draft, late>>

-----------------------------------------------------------------------------
(* Calls that end early *)

(* The lock was not free for five seconds.                                 *)
LockTimesOut(a) ==
    /\ \/ pc[a] = "lock" /\ hlock[job[a].handoff] # None
       \/ pc[a] = "check" /\ dlock[job[a].decision] # None
    /\ Return(a)
    /\ UNCHANGED <<files, late>>

(* The contract of the follow-up is refused, under the lock.               *)
FollowRefused(f) ==
    /\ pc[f] = "draft"
    /\ Return(f)
    /\ UNCHANGED <<files, late>>

(* The move or, after it, the ack artifact fails.                          *)
AckFails(a) ==
    /\ "write" \in Faults
    /\ pc[a] \in {"move", "file"}
    /\ Return(a)
    /\ UNCHANGED <<files, late>>

(* The process of the call dies; the kernel drops its locks.               *)
Crash(a) ==
    /\ "crash" \in Faults
    /\ pc[a] # "idle"
    /\ Return(a)
    /\ UNCHANGED <<files, late>>

CreatorStep(c)  == FindPending(c) \/ FindAcked(c) \/ WriteHandoff(c)
RecordStep(r)   == RecordBegin(r) \/ RecordWrite(r)
AckStep(a)      == AckBegin(a) \/ AckLock(a) \/ AckMove(a) \/ AckFile(a) \/ AckFails(a)
FollowStep(f) ==
    \/ FollowRead(f) \/ FollowLock(f) \/ FollowCreate(f) \/ FollowClaim(f)
    \/ FollowRefused(f)
CallerStep(a) == RecordStep(a) \/ AckStep(a) \/ FollowStep(a) \/ LockTimesOut(a)

Next ==
    \/ \E c \in Creators : CreatorStep(c)
    \/ \E a \in Callers : CallerStep(a)
    \/ \E d \in DecisionIds, k \in Kinds : Resume(d, k)
    \/ \E a \in Actors : Crash(a)

Spec == Init /\ [][Next]_vars

-----------------------------------------------------------------------------
(* Safety *)

(* An ack artifact repeats a decision on file about its handoff, which has *)
(* moved: consuming a handoff never comes before deciding about it.        *)
AckFollowsDecision ==
    \A h \in Handoffs :
        ack[h] # None =>
            /\ place[h] = "acknowledged"
            /\ \E d \in About(h) : decision[d].value = ack[h]

(* The first acknowledgement stands, whichever decisions the calls that    *)
(* race for the lock were made for.                                        *)
AckStands ==
    [][\A h \in Handoffs : ack[h] # None => ack'[h] = ack[h]]_vars

(* A call that begins after the task has a handoff creates no second one,  *)
(* though an acknowledgement may move the first one while the call looks.  *)
NoLateDuplicate == \A c \in late : pc[c] # "create"

(* A draft exists only for a decision that calls for one: never after      *)
(* accepted or no_action, never before the user was asked, and of the kind *)
(* the user or the review asks for.                                        *)
AllowedBy(it, k) ==
    /\ it.value \notin Closing
    /\ it.value = "needs_user_input" => it.resume = k
    /\ it.value = "review_required" => k = "review"
FollowupAllowed ==
    \A t \in Drafts :
        draft[t].decision # None => AllowedBy(decision[draft[t].decision], draft[t].kind)

(* Once a decision names its follow-up, no late call names another one or  *)
(* takes it back, and no late resume changes what the user asked for.      *)
FollowupStands ==
    [][\A d \in DecisionIds :
          decision[d].task # None => decision'[d] = decision[d]]_vars

(* Whatever follows from a handoff has been decided: its acknowledgement   *)
(* and its follow-up drafts are those that decisions on file allow.        *)
OnlyDecided == AckFollowsDecision /\ FollowupAllowed

(* What is settled stays so: the acknowledgement of a handoff and the      *)
(* follow-up of a decision, against every late call.                       *)
SettledStands == AckStands /\ FollowupStands

(* With its files, locks, overlapping calls and crashes the rail does no   *)
(* more than DecidedWork says: it consumes a handoff once and by a         *)
(* decision about it, and has a decision take on one commission at most,   *)
(* which it called for, whatever a call found before it had the lock.      *)
Verdict(d) == [handoff |-> decision[d].handoff, value |-> decision[d].value,
               resume |-> decision[d].resume, task |-> decision[d].task]
Work == INSTANCE DecidedWork WITH
    handed       <- {h \in Handoffs : Exists(h)},
    verdict      <- [d \in DecisionIds |-> Verdict(d)],
    consumed     <- ack,
    commissioned <- draft

ImplementsDecisions == Work!DWSpec

-----------------------------------------------------------------------------
(* The inductive invariant: what the files say of each other, what the     *)
(* locks protect, and what a call in progress may rely on.                 *)

(* A decision is about a handoff that exists, and its state tells whether  *)
(* the user was asked and whether it has its follow-up.                    *)
DecisionOk(it) ==
    IF it.handoff = None
    THEN it = Unwritten
    ELSE /\ Exists(it.handoff) /\ it.value # None
         /\ it.value \in Closing <=> it.state = "closed"
         /\ it.state = "awaiting_user" => it.value = "needs_user_input" /\ it.resume = None
         /\ it.resume # None => it.value = "needs_user_input"
         /\ it.state = "ready_for_followup" => it.resume # None
         /\ it.task # None => it.state = "followup_created"
DecisionInv == \A d \in DecisionIds : DecisionOk(decision[d])

DraftInv ==
    \A t \in Drafts :
        draft[t].decision # None => Written(draft[t].decision) /\ draft[t].kind \in Kinds

LockInv ==
    /\ \A h \in Handoffs, a \in Callers :
          hlock[h] = a <=> pc[a] \in {"move", "file"} /\ job[a].handoff = h
    /\ \A d \in DecisionIds, a \in Callers :
          dlock[d] = a <=> pc[a] \in {"draft", "claim"} /\ job[a].decision = d

(* What the first checks of a call found stays true until it writes.       *)
CallInv(a) ==
    LET it == job[a]
    IN /\ pc[a] = "record" => it.handoff \in Handoffs /\ Exists(it.handoff)
                             /\ it.value \in Values
       /\ pc[a] \in {"lock", "move", "file"} =>
             /\ it.handoff \in Handoffs /\ Exists(it.handoff)
             /\ it.value # None
             /\ \E d \in About(it.handoff) : decision[d].value = it.value
       /\ pc[a] = "file" => place[it.handoff] = "acknowledged"
       /\ pc[a] \in {"check", "draft", "claim"} =>
             /\ it.decision \in DecisionIds /\ Written(it.decision) /\ it.kind \in Kinds
             /\ AllowedBy(decision[it.decision], it.kind)
       /\ pc[a] \in {"draft", "claim"} => decision[it.decision].task = None
       /\ pc[a] = "claim" => it.task \in Drafts

(* A creator that found nothing in pending/ although a handoff existed     *)
(* will find it in acknowledged/.                                          *)
CreatorInv(c) ==
    /\ pc[c] \in {"idle", "scan", "create"}
    /\ c \in late /\ pc[c] = "scan" => \E h \in Handoffs : place[h] = "acknowledged"

RailInv ==
    /\ TypeOK /\ AckFollowsDecision /\ FollowupAllowed /\ NoLateDuplicate
    /\ DecisionInv /\ DraftInv /\ LockInv
    /\ \A a \in Callers : CallInv(a)
    /\ \A c \in Creators : CreatorInv(c)

-----------------------------------------------------------------------------
(* Liveness.  Calls end, and a handoff whose ack call failed or died is    *)
(* acknowledged again; of the ack calls that get to a step, not all fail.  *)
Fairness ==
    /\ \A a \in Callers : WF_vars(CallerStep(a))
    /\ SF_vars(\E a \in Callers : AckBegin(a))
    /\ SF_vars(\E a \in Callers : AckLock(a))
    /\ SF_vars(\E a \in Callers : AckMove(a))
    /\ SF_vars(\E a \in Callers : AckFile(a))

FairSpec == Spec /\ Fairness

(* A handoff never stays moved without its ack artifact.                   *)
AckCompletes ==
    \A h \in Handoffs : place[h] = "acknowledged" ~> ack[h] # None
=============================================================================
