----------------------------- MODULE RoleReport -----------------------------
(***************************************************************************)
(* What a worker reports of its task and what is told of it: the five      *)
(* report tools with their card and their full report, the worker outcome, *)
(* the handoff that is made of the card when the task has ended, the event *)
(* that announces it, and aota_handoff_open.  How a run ends is in         *)
(* ProfileTaskRun in full; here each of its ends is a step, and what the   *)
(* one that hands over then does, or fails to do, is two more.  The task   *)
(* is a canonical one, and so it starts once.  What is refused changes     *)
(* nothing.                                                                *)
(***************************************************************************)
EXTENDS Naturals, FiniteSets

CONSTANTS Calls,         \* report calls that may overlap
          NoCard, NoHandoff, NoEvent,
          MaxReports     \* bound: different reports of a task

VARIABLES role,          \* of the worker
          meta,          \* status, failure stage and source in meta.json
          receipt,       \* status and failure stage in completion.<start_id>.json
          call,          \* [Calls -> where it is and the report it makes]
          card, full,    \* the two files of the role
          outcome,       \* worker-outcome.<start_id>.json
          worker,        \* "up" or how it ended
          teller,        \* the one that hands over: where it is, what it tells
          handoff,
          event,         \* of the outbox
          refused,       \* a handoff was asked for and could not be made
          said,          \* the reports that passed the checks
          late           \* the reports under way when the task ended

reportVars == <<role, meta, receipt, call, card, full, outcome, worker, teller,
                handoff, event, refused, said, late>>
workVars == <<role, call, card, full, outcome, worker, said>>
toldVars == <<handoff, event, refused>>

CardVerdicts == {"pass", "needs_fix", "blocked", "not_applicable"}

Outcomes == {"completed", "partial", "needs_input", "failed"}

(***************************************************************************)
(* What the tools accept: "none" is a field the tool does not have.        *)
(***************************************************************************)
Requests ==
  [coder     |-> [verdict: {"none"}, outcome: {"none"}],
   debugger  |-> [verdict: {"none"}, outcome: {"none"}],
   reviewer  |-> [verdict: {"pass", "fail", "inconclusive"},
                  outcome: {"none"}],
   architect |-> [verdict: {"approve", "approve_with_changes", "block",
                            "inconclusive"}, outcome: {"none"}],
   steward   |-> [verdict: CardVerdicts, outcome: Outcomes]]

Roles == DOMAIN Requests

AllRequests == UNION {Requests[r] : r \in Roles}

Cards == [verdict: CardVerdicts, outcome: Outcomes]

Endings == {"done", "failed", "timeout", "needs_input", "cancelled"}

Stages == {"none", "worker_execution", "timeout", "primary_finalizer",
           "status_reconciliation_missing_receipt"}

\* execution.reconciliation_source, "none" if the finalizer wrote the meta.
Sources == {"none", "fallback_finalizer", "completion_receipt", "cancel_phase_c"}

NoReceipt == [status |-> "none", stage |-> "none"]

Handoffs == [from: {"card", "failure"}, terminal: Endings,
             verdict: CardVerdicts, outcome: Outcomes]

(* What is not there looks like nothing that is.                           *)
ASSUME ReportAssumption ==
  /\ NoCard \notin Cards \union AllRequests
  /\ NoHandoff \notin Handoffs
  /\ NoEvent \notin [terminal: Endings \union {"timed_out"}, result: BOOLEAN]

(***************************************************************************)
(* What they write: the card gets the fields all cards have, the full      *)
(* report tells the request as it is.                                      *)
(***************************************************************************)
CommonCard(verdict, outcomeSaid) ==
  [verdict |-> IF verdict \in CardVerdicts THEN verdict ELSE "not_applicable",
   outcome |-> IF outcomeSaid \in Outcomes THEN outcomeSaid ELSE "completed"]

Report(c, request) == [card |-> c, full |-> request]

CoderReport(r) == Report(CommonCard("not_applicable", "none"), r)

DebuggerReport(r) == Report(CommonCard("not_applicable", "none"), r)

\* Mutant: the verdict of the role is put on the card as it is.
ReviewerReportAsIs(r) == Report(CommonCard(r.verdict, "none"), r)

\* Its "fail" is what the common envelope calls "needs_fix".
ReviewerReport(r) ==
  Report(CommonCard(IF r.verdict = "fail" THEN "needs_fix" ELSE r.verdict,
                    "none"), r)

\* The common envelope knows none of its verdicts.  A canonical task has no
\* architecture_mode in its meta, so that nothing is marked as stale.
ArchitectReport(r) == Report(CommonCard(r.verdict, "none"), r)

StewardReport(r) == Report(CommonCard(r.verdict, r.outcome), r)

(***************************************************************************)
(* The worker's calls.  They are checked without a lock, and the card and  *)
(* the full report are two writes.                                         *)
(***************************************************************************)
Idle == [at |-> "idle", report |-> Report(NoCard, NoCard)]

TrustedAnyStatus == TRUE     \* mutant: the status of the task is not looked at

Trusted == meta.status = "running"

\* A call that passes the checks of its tool.
Accept(c, r, report) ==
  /\ worker = "up" /\ call[c].at = "idle"
  /\ Cardinality(said \union {r}) <= MaxReports
  /\ Trusted
  /\ call' = [call EXCEPT ![c] = [at |-> "card", report |-> report]]
  /\ said' = said \union {r}
  /\ UNCHANGED <<role, meta, receipt, card, full, outcome, worker, teller,
                 toldVars, late>>

CoderSubmit(c, r)     == role = "coder" /\ Accept(c, r, CoderReport(r))

DebuggerSubmit(c, r)  == role = "debugger" /\ Accept(c, r, DebuggerReport(r))

ReviewerSubmit(c, r)  == role = "reviewer" /\ Accept(c, r, ReviewerReport(r))

ArchitectSubmit(c, r) == role = "architect" /\ Accept(c, r, ArchitectReport(r))

StewardSubmit(c, r)   == role = "steward" /\ Accept(c, r, StewardReport(r))

WriteCard(c) ==
  /\ call[c].at = "card"
  /\ card' = call[c].report.card
  /\ call' = [call EXCEPT ![c].at = "full"]
  /\ UNCHANGED <<role, meta, receipt, full, outcome, worker, teller, toldVars,
                 said, late>>

WriteFull(c) ==
  /\ call[c].at = "full"
  /\ full' = call[c].report.full
  /\ call' = [call EXCEPT ![c] = Idle]
  /\ UNCHANGED <<role, meta, receipt, card, outcome, worker, teller, toldVars,
                 said, late>>

\* Mutant: a steward need not have reported.
StewardHasReportedOrNot(o) == TRUE

\* A steward that says it is done has written both, and the card says it too.
StewardHasReported(o) ==
  role = "steward" /\ o \in {"completed", "partial"} =>
    card # NoCard /\ full # NoCard /\ card.outcome = o

\* The first outcome stays; its two steps are in ProfileTaskRun.
SubmitOutcome(o) ==
  /\ worker = "up" /\ outcome = "none"
  /\ Trusted /\ StewardHasReported(o)
  /\ outcome' = o
  /\ UNCHANGED <<role, meta, receipt, call, card, full, worker, teller,
                 toldVars, said, late>>

(***************************************************************************)
(* The end.                                                                *)
(***************************************************************************)
\* The calls of a process end with it.
WorkerExits(code) ==
  /\ worker = "up"
  /\ worker' = code
  /\ call' = [c \in Calls |-> Idle]
  /\ UNCHANGED <<role, meta, receipt, card, full, outcome, teller, toldVars,
                 said, late>>

\* It dies, or leaves the end to a cancel call; its worker may live on.
LauncherGoes ==
  /\ teller.at = "none" /\ meta.status = "running"
  /\ teller' = [teller EXCEPT !.at = "gone"]
  /\ UNCHANGED <<workVars, meta, receipt, toldVars, late>>

UnderWay == {call[c].report : c \in {c \in Calls : call[c].at # "idle"}}

EndAs(status, stage, source) ==
  /\ meta.status = "running"
  /\ meta' = [status |-> status, stage |-> stage, source |-> source]
  /\ late' = UnderWay
  /\ UNCHANGED <<workVars, toldVars>>

Tell(status) == teller' = [at |-> "handoff", as |-> status]

NobodyTells == teller' = [teller EXCEPT !.at = "over"]

\* A clean exit without an outcome is a failure and has a stage; one with an
\* outcome has none, whatever the outcome is.
StageOfExit ==
  IF worker = "timeout" THEN "timeout"
  ELSE IF worker = "zero" /\ outcome # "none" THEN "none"
  ELSE "worker_execution"

StatusOfOutcome ==
  IF outcome \in {"needs_input", "partial"} THEN "needs_input"
  ELSE IF worker = "zero" /\ outcome = "completed" THEN "done"
  ELSE "failed"

\* The finalizer files the receipt before it looks at the meta ...
FileReceipt ==
  /\ teller.at = "none" /\ worker # "up" /\ receipt = NoReceipt
  /\ receipt' = [status |-> StatusOfOutcome, stage |-> StageOfExit]
  /\ UNCHANGED <<workVars, meta, teller, toldVars, late>>

\* ... and ends the task, unless somebody else has: as cancelled if a cancel
\* call has sent its signal.
Finalize ==
  /\ teller.at = "none" /\ receipt # NoReceipt
  /\ \E status \in {"cancelled", IF worker = "timeout" THEN "timeout"
                                ELSE StatusOfOutcome} :
       /\ EndAs(status, receipt.stage, "none")
       /\ Tell(status)
  /\ UNCHANGED receipt

\* The finalizer has failed.  Its receipt is replaced, the meta keeps how the
\* task has ended meanwhile, and what is told of it is that it failed.
Fallback ==
  /\ teller.at = "none" /\ worker # "up"
  /\ receipt' = [status |-> "failed", stage |-> "primary_finalizer"]
  /\ \/ EndAs("failed", "primary_finalizer", "fallback_finalizer") /\ Tell("failed")
     \/ /\ meta.status # "running" /\ Tell("failed")
        /\ UNCHANGED <<workVars, meta, toldVars, late>>
     \/ NobodyTells /\ UNCHANGED <<workVars, meta, toldVars, late>>  \* no lock

\* A status call finds that the launcher's session is over and has left no
\* receipt; it does not ask whether the worker is still at work.
StatusFallback ==
  /\ teller.at = "gone" /\ receipt = NoReceipt
  /\ EndAs("failed", "status_reconciliation_missing_receipt", "fallback_finalizer")
  /\ receipt' = [status |-> "failed",
                 stage |-> "status_reconciliation_missing_receipt"]
  /\ Tell("failed")

\* A status call takes over what the receipt says, and tells nobody: the task
\* is cancelled if a cancel call has sent its signal, and a receipt in which
\* the finalizer has noted a timeout counts as failed.
StatusAdopts ==
  /\ receipt # NoReceipt
  /\ \E status \in {"cancelled", receipt.status,
                   IF worker = "timeout" THEN "failed" ELSE receipt.status} :
       EndAs(status, receipt.stage, "completion_receipt")
  /\ UNCHANGED <<receipt, teller>>

\* Phase C of a cancel finds a receipt: the task is cancelled or, if no
\* signal was sent, ends by the exit code.  It tells nobody and sets no stage;
\* there is one if the finalizer left the end to it.
CancelConcludes ==
  /\ receipt # NoReceipt
  /\ \E status \in {"cancelled", IF worker = "zero" THEN "done" ELSE "failed"},
        stage \in {"none", receipt.stage} :
       EndAs(status, stage, "cancel_phase_c")
  /\ UNCHANGED <<receipt, teller>>

(***************************************************************************)
(* The handoff of a canonical task.                                        *)
(***************************************************************************)
FromCard(status) ==
  [from |-> "card", terminal |-> status,
   verdict |-> card.verdict, outcome |-> card.outcome]

\* A failure with a stage, and a receipt, which every task that has ended has
\* (TerminalHasReceipt of ProfileTaskRun).  It says "failed" of any task.
FromFailure ==
  [from |-> "failure", terminal |-> "failed",
   verdict |-> "blocked", outcome |-> "failed"]

\* What the one that asks finds or makes: without a card and without a stage
\* it is refused.
FoundOrMade(status) ==
  IF handoff # NoHandoff THEN handoff
  ELSE IF card # NoCard THEN FromCard(status)
  ELSE IF meta.stage # "none" THEN FromFailure
  ELSE NoHandoff

Ask(status) ==
  /\ handoff' = FoundOrMade(status)
  /\ refused' = (refused \/ handoff' = NoHandoff)

\* By the one that hands over, which then makes the event, or ends without.
Publish ==
  /\ teller.at = "handoff"
  /\ Ask(teller.as)
  /\ teller' = [teller EXCEPT !.at = IF handoff' # NoHandoff THEN "event" ELSE "over"]
  /\ UNCHANGED <<workVars, meta, receipt, event, late>>

\* By any status call later, as long as there is none; it makes no event.
Recover ==
  /\ meta.status # "running" /\ handoff = NoHandoff
  /\ Ask(meta.status)
  /\ UNCHANGED <<workVars, meta, receipt, teller, event, late>>

\* The full report is named if it is there.
ResultNamed == full # NoCard

\* The event of a task that has ended; to whom it goes is in DeliveryOutbox.
TerminalEvent ==
  [terminal |-> IF teller.as = "timeout" THEN "timed_out" ELSE teller.as,
   result   |-> ResultNamed]

Announce ==
  /\ teller.at = "event"
  /\ event' = TerminalEvent
  /\ NobodyTells
  /\ UNCHANGED <<workVars, meta, receipt, handoff, refused, late>>

\* The one that hands over dies, or a write of it fails, which is logged at
\* most.  Nobody writes the event later.
TellerStops ==
  /\ teller.at \in {"handoff", "event"}
  /\ NobodyTells
  /\ UNCHANGED <<workVars, meta, receipt, toldVars, late>>

\* The card a handoff names, as it is now.
CardShown ==
  IF handoff.from = "card" THEN card ELSE NoCard

\* aota_handoff_open: not the verdict of the handoff, but the card.
Opened == [terminal |-> handoff.terminal, card |-> CardShown]

ReportInit ==
  /\ role \in Roles
  /\ meta = [status |-> "running", stage |-> "none", source |-> "none"]
  /\ receipt = NoReceipt
  /\ call = [c \in Calls |-> Idle]
  /\ card = NoCard /\ full = NoCard
  /\ outcome = "none"
  /\ worker = "up" /\ teller = [at |-> "none", as |-> "none"]
  /\ handoff = NoHandoff /\ event = NoEvent /\ refused = FALSE
  /\ said = {} /\ late = {}

ReportNext ==
  \/ \E c \in Calls :
       \/ \E r \in Requests[role] :
            \/ CoderSubmit(c, r) \/ DebuggerSubmit(c, r) \/ ReviewerSubmit(c, r)
            \/ ArchitectSubmit(c, r) \/ StewardSubmit(c, r)
       \/ WriteCard(c) \/ WriteFull(c)
  \/ \E o \in Outcomes : SubmitOutcome(o)
  \/ \E code \in {"zero", "nonzero", "timeout"} : WorkerExits(code)
  \/ LauncherGoes \/ FileReceipt \/ Finalize \/ Fallback
  \/ StatusFallback \/ StatusAdopts \/ CancelConcludes
  \/ Publish \/ Announce \/ TellerStops \/ Recover

ReportSpec == ReportInit /\ [][ReportNext]_reportVars

-----------------------------------------------------------------------------
(* A verdict that is handed on, and the one an operator reads on opening   *)
(* the handoff, is one the worker gave; only what is not a verdict on the  *)
(* work, or an architect's, is told as "not_applicable", and what failed a *)
(* review needs a fix.                                                     *)
VerdictKept ==
  handoff # NoHandoff /\ handoff.from = "card" =>
    \A v \in {handoff.verdict, Opened.card.verdict} : \E r \in said :
      \/ v = r.verdict
      \/ v = "needs_fix" /\ r.verdict = "fail"
      \/ v = "not_applicable" /\ r.verdict \notin CardVerdicts \union {"fail"}

(* A task for which no handoff can be made left nothing to make it of: its *)
(* worker gave an outcome, exited cleanly and did not report in time; a    *)
(* steward of which this is true has not claimed to be done.  Only a task  *)
(* that a cancel call concluded may have failed in silence.                *)
NeverSilent ==
  refused /\ handoff = NoHandoff /\ meta.source # "cancel_phase_c" =>
    /\ worker = "zero" /\ outcome # "none"
    /\ card # NoCard => \E report \in late : card = report.card
    /\ role = "steward" => outcome \in {"needs_input", "failed"}

(* How the task ended is what is told of it, save by the launcher's        *)
(* fallback, which says "failed" also of a task that another one ended.    *)
TellsTheEnd(status) ==
  \/ status = meta.status
  \/ status = "failed" /\ receipt.stage = "primary_finalizer"

(* What an operator opens is what was handed on: the card does not change  *)
(* once the task has ended, also if its worker lives on, unless to one of  *)
(* the reports that were under way at that moment.  The handoff of a card  *)
(* and the event tell how the task ended, an event announces only a        *)
(* handoff that is there, and it names a full report that can be opened;   *)
(* one that it does not name came too late.                                *)
HandedOn ==
  /\ handoff # NoHandoff /\ handoff.from = "card" =>
       /\ TellsTheEnd(handoff.terminal)
       /\ \/ /\ Opened.card.verdict = handoff.verdict
             /\ Opened.card.outcome = handoff.outcome
          \/ \E report \in late : Opened.card = report.card
  /\ event # NoEvent =>
       /\ handoff # NoHandoff
       /\ \E status \in Endings :
            /\ TellsTheEnd(status)
            /\ event.terminal = IF status = "timeout" THEN "timed_out" ELSE status
       /\ event.result => full # NoCard
       /\ full # NoCard /\ ~event.result => \E report \in late : full = report.full
=============================================================================
