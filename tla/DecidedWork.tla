---------------------------- MODULE DecidedWork ----------------------------
(***************************************************************************)
(* What the handoff rail promises about the work that follows a task, with *)
(* no word about files, locks and calls: a handoff is decided about before *)
(* it is consumed and is consumed once; a decision that calls for more     *)
(* work has it commissioned, of the kind it calls for, and takes on one    *)
(* commission at most, for good.  HandoffRail, the model of the code, is   *)
(* shown to implement it.                                                  *)
(***************************************************************************)

CONSTANTS
    Handoffs,     \* handoff ids
    DecisionIds,  \* decision ids
    Drafts,       \* ids of follow-up tasks
    Values,       \* what may be decided
    Kinds,        \* kinds of work
    None

VARIABLES
    handed,        \* the handoffs there are
    verdict,       \* what was decided about which of them
    consumed,      \* the decision a handoff was consumed with
    commissioned   \* follow-up work: the decision it is for, and its kind

dwVars == <<handed, verdict, consumed, commissioned>>

Undecided == [handoff |-> None, value |-> None, resume |-> None, task |-> None]

(* Does the decision call for work of kind k?  One that waits for the user *)
(* calls for what the user answers.                                        *)
CallsFor(it, k) ==
    /\ it.handoff # None
    /\ \/ it.value \in {"needs_followup", "reopen_required"}
       \/ it.value = "review_required" /\ k = "review"
       \/ it.value = "needs_user_input" /\ it.resume = k

DWInit ==
    /\ handed = {}
    /\ verdict = [d \in DecisionIds |-> Undecided]
    /\ consumed = [h \in Handoffs |-> None]
    /\ commissioned = [t \in Drafts |-> [decision |-> None, kind |-> None]]

HandOn(h) ==
    /\ handed' = handed \union {h}
    /\ UNCHANGED <<verdict, consumed, commissioned>>

(* Calls that overlap may decide more than once about a handoff.           *)
Decide(d, h, v) ==
    /\ h \in handed
    /\ verdict[d] = Undecided
    /\ verdict' = [verdict EXCEPT ![d] =
                     [handoff |-> h, value |-> v, resume |-> None, task |-> None]]
    /\ UNCHANGED <<handed, consumed, commissioned>>

(* The user answers once, and before any work is taken on.                 *)
Answer(d, k) ==
    /\ verdict[d].value = "needs_user_input"
    /\ verdict[d].resume = None
    /\ verdict[d].task = None
    /\ verdict' = [verdict EXCEPT ![d].resume = k]
    /\ UNCHANGED <<handed, consumed, commissioned>>

Consume(h, d) ==
    /\ h \in handed
    /\ verdict[d].handoff = h
    /\ consumed[h] = None
    /\ consumed' = [consumed EXCEPT ![h] = verdict[d].value]
    /\ UNCHANGED <<handed, verdict, commissioned>>

(* A commission that its decision never takes on is one that a call left   *)
(* behind when it died.                                                    *)
Commission(t, d, k) ==
    /\ commissioned[t].decision = None
    /\ verdict[d].task = None
    /\ CallsFor(verdict[d], k)
    /\ commissioned' = [commissioned EXCEPT ![t] = [decision |-> d, kind |-> k]]
    /\ UNCHANGED <<handed, verdict, consumed>>

TakeOn(d, t) ==
    /\ verdict[d].task = None
    /\ commissioned[t].decision = d
    /\ verdict' = [verdict EXCEPT ![d].task = t]
    /\ UNCHANGED <<handed, consumed, commissioned>>

DWNext ==
    \/ \E h \in Handoffs : HandOn(h)
    \/ \E d \in DecisionIds, h \in Handoffs, v \in Values : Decide(d, h, v)
    \/ \E d \in DecisionIds, k \in Kinds : Answer(d, k)
    \/ \E h \in Handoffs, d \in DecisionIds : Consume(h, d)
    \/ \E t \in Drafts, d \in DecisionIds, k \in Kinds : Commission(t, d, k)
    \/ \E d \in DecisionIds, t \in Drafts : TakeOn(d, t)

DWSpec == DWInit /\ [][DWNext]_dwVars
=============================================================================
