---------------------------- MODULE Parts_proofs -----------------------------
(* Proofs about the parts that stand by themselves.  What a worker reports *)
(* and what is told of it: for any number of report calls that overlap,    *)
(* any number of reports, and a launcher that may die anywhere.  What a    *)
(* deployment leaves behind: for any operators, commands and edits by      *)
(* others, and scripts that may be stopped anywhere.  What a piece of work *)
(* is classified as: for all facts in range and every override.  What the  *)
(* form of a task shows of its contract, and where a projection leads: for *)
(* every contract and change, and for every layout.                        *)
EXTENDS RoleReport, PackageDeploy, WorkClassification, SpecForm, SymlinkProjection,
        WellFoundedInduction, TLAPS

-----------------------------------------------------------------------------
(* The role reports.                                                       *)
RepEvents == [terminal: Endings \union {"timed_out"}, result: BOOLEAN]
RepMetas  == [status: Endings \union {"running"}, stage: Stages, source: Sources]
\* The launcher lives and has not begun to conclude; it is gone; somebody is
\* about to write the handoff, the event; nobody is any more.
RepPlaces == {"none", "gone", "handoff", "event", "over"}
RepMade   == [card: Cards, full: AllRequests]
RepCalls  == [at: {"idle", "card", "full"},
              report: [card: Cards \union {NoCard}, full: AllRequests \union {NoCard}]]

RepTypeOK ==
    /\ role \in Roles /\ meta \in RepMetas
    /\ receipt \in [status: Endings \union {"none"}, stage: Stages]
    /\ call \in [Calls -> RepCalls]
    /\ card \in Cards \union {NoCard} /\ full \in AllRequests \union {NoCard}
    /\ outcome \in Outcomes \union {"none"}
    /\ worker \in {"up", "zero", "nonzero", "timeout"}
    /\ teller \in [at: RepPlaces, as: Endings \union {"none"}]
    /\ handoff \in Handoffs \union {NoHandoff}
    /\ event \in RepEvents \union {NoEvent}
    /\ refused \in BOOLEAN /\ said \subseteq AllRequests

(* The verdict v tells what one of the reports in S says.                  *)
Tells(v, S) ==
    \E r \in S :
       \/ v = r.verdict
       \/ v = "needs_fix" /\ r.verdict = "fail"
       \/ v = "not_applicable" /\ r.verdict \notin CardVerdicts \union {"fail"}

(* A call that passed the checks carries a report that was said, and so    *)
(* does the card.                                                          *)
CallFits(k, S) ==
    k.at # "idle" =>
        k.report.card \in Cards /\ k.report.full \in AllRequests
        /\ Tells(k.report.card.verdict, S)

CardOK ==
    /\ \A c \in Calls : CallFits(call[c], said)
    /\ card # NoCard => Tells(card.verdict, said)
    /\ role = "steward" /\ outcome \in {"completed", "partial"} => card # NoCard

(* Before the end nobody hands over; what is under way at the end is late, *)
(* and so is what is under way later.  A receipt that tells of no failure, *)
(* and an end without a failure, is one of a clean exit with an outcome,   *)
(* unless a cancel call concluded the task.                                *)
EndOK ==
    /\ meta.status = "running" =>
          /\ handoff = NoHandoff /\ event = NoEvent /\ ~refused
          /\ teller.at \notin {"handoff", "event"}
    /\ meta.status # "running" => UnderWay \subseteq late
    /\ receipt # NoReceipt => receipt.status \in Endings
    /\ receipt # NoReceipt /\ receipt.stage = "none" => worker = "zero" /\ outcome # "none"
    /\ meta.status # "running" /\ meta.stage = "none" /\ meta.source # "cancel_phase_c" =>
          worker = "zero" /\ outcome # "none"

HandoffOK ==
    /\ refused /\ handoff = NoHandoff =>
          /\ meta.stage = "none"
          /\ card # NoCard => \E report \in late : card = report.card
          /\ role = "steward" => outcome \notin {"completed", "partial"}
    /\ handoff # NoHandoff /\ handoff.from = "card" =>
          /\ card # NoCard
          /\ Tells(handoff.verdict, said)
          /\ TellsTheEnd(handoff.terminal)
          /\ \/ card.verdict = handoff.verdict /\ card.outcome = handoff.outcome
             \/ \E report \in late : card = report.card

(* What is told, and the event that tells it.                              *)
EventOK ==
    /\ teller.at \in {"handoff", "event"} =>
          teller.as \in Endings /\ TellsTheEnd(teller.as)
    /\ teller.at = "event" => handoff # NoHandoff
    /\ event # NoEvent =>
          /\ handoff # NoHandoff
          /\ \E status \in Endings :
               /\ TellsTheEnd(status)
               /\ event.terminal = IF status = "timeout" THEN "timed_out" ELSE status
          /\ event.result => full # NoCard
          /\ full # NoCard /\ ~event.result => \E report \in late : full = report.full

RepInv == RepTypeOK /\ CardOK /\ EndOK /\ HandoffOK /\ EventOK

LEMMA TellsMore ==
    ASSUME NEW v, NEW S, NEW T, S \subseteq T, Tells(v, S)
    PROVE  Tells(v, T)
BY DEF Tells

(* What a tool makes of a request it accepts.                              *)
LEMMA ReportFits ==
    ASSUME NEW c \in Calls, NEW r \in Requests[role], role \in Roles,
           CoderSubmit(c, r) \/ DebuggerSubmit(c, r) \/ ReviewerSubmit(c, r)
             \/ ArchitectSubmit(c, r) \/ StewardSubmit(c, r)
    PROVE  \E report \in RepMade :
               Accept(c, r, report) /\ Tells(report.card.verdict, {r})
<1> USE DEF RepMade
<1>1. r \in AllRequests
    BY DEF AllRequests
<1>2. ASSUME NEW v, NEW o
      PROVE  CommonCard(v, o) \in Cards
    BY DEF CommonCard, Cards, CardVerdicts, Outcomes
<1>3. ASSUME NEW v, NEW o
      PROVE  /\ Report(CommonCard(v, o), r) \in [card: Cards, full: AllRequests]
             /\ Report(CommonCard(v, o), r).card.verdict
                    = IF v \in CardVerdicts THEN v ELSE "not_applicable"
    BY <1>1, <1>2 DEF Report, CommonCard
<1>4. CASE CoderSubmit(c, r) \/ DebuggerSubmit(c, r)
    <2>0. role \in {"coder", "debugger"}
        BY <1>4 DEF CoderSubmit, DebuggerSubmit
    <2>1. r.verdict = "none"
        <3>1. Requests["coder"] = [verdict: {"none"}, outcome: {"none"}]
              /\ Requests["debugger"] = [verdict: {"none"}, outcome: {"none"}]
            BY DEF Requests
        <3>2. r \in [verdict: {"none"}, outcome: {"none"}]
            BY <2>0, <3>1
        <3> QED
            BY <3>2
    <2>2. Accept(c, r, Report(CommonCard("not_applicable", "none"), r))
        BY <1>4 DEF CoderSubmit, DebuggerSubmit, CoderReport, DebuggerReport
    <2>3. Tells("not_applicable", {r})
        BY <2>1 DEF Tells, CardVerdicts
    <2> QED
        BY <1>3, <2>2, <2>3 DEF CardVerdicts
<1>5. CASE ReviewerSubmit(c, r)
    <2> DEFINE v == IF r.verdict = "fail" THEN "needs_fix" ELSE r.verdict
    <2>1. Accept(c, r, Report(CommonCard(v, "none"), r))
        BY <1>5 DEF ReviewerSubmit, ReviewerReport
    <2>2. Tells(IF v \in CardVerdicts THEN v ELSE "not_applicable", {r})
        BY DEF Tells, CardVerdicts
    <2> HIDE DEF v
    <2> QED
        BY <1>3, <2>1, <2>2
<1>6. CASE ArchitectSubmit(c, r)
    <2>1. Accept(c, r, Report(CommonCard(r.verdict, "none"), r))
        BY <1>6 DEF ArchitectSubmit, ArchitectReport
    <2>2. r.verdict # "fail"
        BY <1>6 DEF ArchitectSubmit, Requests
    <2>3. Tells(IF r.verdict \in CardVerdicts THEN r.verdict ELSE "not_applicable", {r})
        BY <2>2 DEF Tells
    <2> QED
        BY <1>3, <2>1, <2>3
<1>7. CASE StewardSubmit(c, r)
    <2>1. Accept(c, r, Report(CommonCard(r.verdict, r.outcome), r))
        BY <1>7 DEF StewardSubmit, StewardReport
    <2>2. r.verdict \in CardVerdicts
        BY <1>7 DEF StewardSubmit, Requests
    <2>3. Tells(IF r.verdict \in CardVerdicts THEN r.verdict ELSE "not_applicable", {r})
        BY <2>2 DEF Tells
    <2> QED
        BY <1>3, <2>1, <2>3
<1> QED
    BY <1>4, <1>5, <1>6, <1>7

(* What one call has under way.                                            *)
LEMMA UnderWayIs ==
    ASSUME NEW c \in Calls, call[c].at # "idle"
    PROVE  call[c].report \in UnderWay
BY DEF UnderWay

LEMMA AcceptKeeps ==
    ASSUME RepInv, NEW c \in Calls, NEW r \in AllRequests, NEW report \in RepMade,
           Accept(c, r, report), Tells(report.card.verdict, {r})
    PROVE  RepInv'
<1>0. /\ meta.status = "running"
      /\ call' = [call EXCEPT ![c] = [at |-> "card", report |-> report]]
      /\ said' = said \union {r}
      /\ UNCHANGED <<role, meta, receipt, card, full, outcome, worker, teller,
                     handoff, event, refused, late>>
      /\ RepTypeOK
    BY DEF Accept, Trusted, RepInv, toldVars
<1>1. [at |-> "card", report |-> report] \in RepCalls
    BY DEF RepCalls, RepMade
<1>2. RepTypeOK'
    BY <1>0, <1>1 DEF RepTypeOK
<1>3. CardOK'
    <2>1. \A k \in Calls : k # c => call'[k] = call[k]
        BY <1>0 DEF RepTypeOK
    <2>2. call'[c] = [at |-> "card", report |-> report]
        BY <1>0 DEF RepTypeOK
    <2>3. CallFits(call'[c], said')
        BY <1>0, <2>2, TellsMore DEF CallFits, RepMade
    <2>4. \A v : Tells(v, said) => Tells(v, said')
        BY <1>0, TellsMore
    <2> QED
        BY <1>0, <2>1, <2>3, <2>4 DEF RepInv, CardOK, CallFits
<1>4. EndOK' /\ HandoffOK' /\ EventOK'
    BY <1>0 DEF RepInv, EndOK, HandoffOK, EventOK
<1> QED
    BY <1>2, <1>3, <1>4 DEF RepInv

LEMMA WriteCardKeeps ==
    ASSUME RepInv, NEW c \in Calls, WriteCard(c)
    PROVE  RepInv'
<1>0. /\ call[c].at = "card" /\ card' = call[c].report.card
      /\ call' = [call EXCEPT ![c].at = "full"]
      /\ UNCHANGED <<role, meta, receipt, full, outcome, worker, teller,
                     handoff, event, refused, said, late>>
      /\ RepTypeOK
    BY DEF WriteCard, RepInv, toldVars
<1>1. CallFits(call[c], said)
    BY DEF RepInv, CardOK
<1>2. card' \in Cards /\ Tells(card'.verdict, said) /\ card' # NoCard
    BY <1>0, <1>1, ReportAssumption DEF CallFits
<1>3. /\ call' \in [Calls -> RepCalls]
      /\ \A k \in Calls : k # c => call'[k] = call[k]
      /\ call'[c].at = "full" /\ call'[c].report = call[c].report
    <2>1. call[c] \in RepCalls
        BY <1>0 DEF RepTypeOK
    <2>2. [call[c] EXCEPT !.at = "full"] \in RepCalls
        BY <2>1 DEF RepCalls
    <2> QED
        BY <1>0, <2>1, <2>2 DEF RepTypeOK, RepCalls
<1>4. RepTypeOK'
    BY <1>0, <1>2, <1>3 DEF RepTypeOK
<1>5. CardOK'
    BY <1>0, <1>1, <1>2, <1>3 DEF RepInv, CardOK, CallFits
<1>6. call[c].report \in UnderWay
    BY <1>0, UnderWayIs
<1>7. EndOK'
    <2>1. UnderWay' \subseteq UnderWay
        BY <1>0, <1>3 DEF UnderWay
    <2> QED
        BY <1>0, <2>1 DEF RepInv, EndOK
<1>8. meta.status = "running" \/ \E report \in late : card' = report.card
    BY <1>0, <1>6 DEF RepInv, EndOK
<1>9. HandoffOK'
    BY <1>0, <1>2, <1>8 DEF RepInv, EndOK, HandoffOK, TellsTheEnd
<1>10. EventOK'
    BY <1>0 DEF RepInv, EventOK, TellsTheEnd
<1> QED
    BY <1>4, <1>5, <1>7, <1>9, <1>10 DEF RepInv

LEMMA WriteFullKeeps ==
    ASSUME RepInv, NEW c \in Calls, WriteFull(c)
    PROVE  RepInv'
<1>0. /\ call[c].at = "full" /\ full' = call[c].report.full
      /\ call' = [call EXCEPT ![c] = Idle]
      /\ UNCHANGED <<role, meta, receipt, card, outcome, worker, teller,
                     handoff, event, refused, said, late>>
      /\ RepTypeOK
    BY DEF WriteFull, RepInv, toldVars
<1>1. full' \in AllRequests /\ full' # NoCard
    BY <1>0, ReportAssumption DEF RepInv, CardOK, CallFits
<1>2. /\ call' \in [Calls -> RepCalls]
      /\ \A k \in Calls : k # c => call'[k] = call[k]
      /\ call'[c].at = "idle"
    <2>1. Idle \in RepCalls /\ Idle.at = "idle"
        BY DEF Idle, RepCalls, Report
    <2> QED
        BY <1>0, <2>1 DEF RepTypeOK
<1>3. RepTypeOK'
    BY <1>0, <1>1, <1>2 DEF RepTypeOK
<1>4. CardOK'
    BY <1>0, <1>2 DEF RepInv, CardOK, CallFits
<1>5. EndOK'
    <2>1. UnderWay' \subseteq UnderWay
        BY <1>0, <1>2 DEF UnderWay
    <2> QED
        BY <1>0, <2>1 DEF RepInv, EndOK
<1>6. HandoffOK'
    BY <1>0 DEF RepInv, HandoffOK, TellsTheEnd
<1>7. meta.status = "running" \/ \E report \in late : full' = report.full
    BY <1>0, UnderWayIs DEF RepInv, EndOK
<1>8. EventOK'
    BY <1>0, <1>1, <1>7 DEF RepInv, EndOK, EventOK, TellsTheEnd
<1> QED
    BY <1>3, <1>4, <1>5, <1>6, <1>8 DEF RepInv

LEMMA SubmitOutcomeKeeps ==
    ASSUME RepInv, NEW o \in Outcomes, SubmitOutcome(o)
    PROVE  RepInv'
<1>0. /\ meta.status = "running" /\ worker = "up" /\ outcome = "none" /\ outcome' = o
      /\ role = "steward" /\ o \in {"completed", "partial"} => card # NoCard
      /\ UNCHANGED <<role, meta, receipt, call, card, full, worker, teller,
                     handoff, event, refused, said, late>>
      /\ RepTypeOK
    BY DEF SubmitOutcome, Trusted, StewardHasReported, RepInv, toldVars
<1>1. RepTypeOK'
    BY <1>0 DEF RepTypeOK
<1>2. CardOK'
    BY <1>0 DEF RepInv, CardOK
<1>3. EndOK' /\ HandoffOK' /\ EventOK'
    BY <1>0 DEF RepInv, EndOK, HandoffOK, EventOK
<1> QED
    BY <1>1, <1>2, <1>3 DEF RepInv

LEMMA WorkerExitsKeeps ==
    ASSUME RepInv, NEW code \in {"zero", "nonzero", "timeout"}, WorkerExits(code)
    PROVE  RepInv'
<1>0. /\ worker = "up" /\ worker' = code /\ call' = [c \in Calls |-> Idle]
      /\ UNCHANGED <<role, meta, receipt, card, full, outcome, teller,
                     handoff, event, refused, said, late>>
      /\ RepTypeOK
    BY DEF WorkerExits, RepInv, toldVars
<1>1. Idle \in RepCalls /\ Idle.at = "idle"
    BY DEF Idle, RepCalls, Report
<1>2. RepTypeOK'
    BY <1>0, <1>1 DEF RepTypeOK
<1>3. CardOK'
    BY <1>0, <1>1 DEF RepInv, CardOK, CallFits
<1>4. EndOK'
    <2>1. UnderWay' = {}
        BY <1>0, <1>1 DEF UnderWay
    <2> QED
        BY <1>0, <2>1 DEF RepInv, EndOK
<1>5. HandoffOK' /\ EventOK'
    BY <1>0 DEF RepInv, HandoffOK, EventOK, TellsTheEnd
<1> QED
    BY <1>2, <1>3, <1>4, <1>5 DEF RepInv

(* What the launcher does before the end, and the one that hands over when *)
(* it stops: nothing of the report changes.                                *)
LEMMA AsideKeeps ==
    ASSUME RepInv, LauncherGoes \/ FileReceipt \/ TellerStops
    PROVE  RepInv'
<1>0. /\ UNCHANGED <<role, call, card, full, outcome, worker, said, meta,
                     handoff, event, refused, late>>
      /\ RepTypeOK
    BY DEF LauncherGoes, FileReceipt, TellerStops, RepInv, workVars, toldVars
<1>1. /\ teller' \in [at: RepPlaces, as: Endings \union {"none"}]
      /\ teller'.at \in {"handoff", "event"} => teller' = teller
    BY <1>0 DEF LauncherGoes, FileReceipt, TellerStops, NobodyTells, RepTypeOK, RepPlaces
<1>2. /\ receipt' \in [status: Endings \union {"none"}, stage: Stages]
      /\ receipt' # receipt => receipt = NoReceipt
      /\ receipt' # NoReceipt => receipt'.status \in Endings
      /\ receipt' # NoReceipt /\ receipt'.stage = "none" => worker = "zero" /\ outcome # "none"
    <2>1. CASE FileReceipt
        <3>1. StatusOfOutcome \in Endings /\ StageOfExit \in Stages
              /\ (StageOfExit = "none" => worker = "zero" /\ outcome # "none")
            BY DEF StatusOfOutcome, Endings, StageOfExit, Stages
        <3> QED
            BY <2>1, <3>1 DEF FileReceipt
    <2>2. CASE UNCHANGED receipt
        BY <1>0, <2>2 DEF RepInv, EndOK, RepTypeOK
    <2> QED
        BY <2>1, <2>2 DEF LauncherGoes, TellerStops
<1>3. RepTypeOK'
    BY <1>0, <1>1, <1>2 DEF RepTypeOK
<1>4. CardOK'
    BY <1>0 DEF RepInv, CardOK
<1>5. EndOK'
    BY <1>0, <1>1, <1>2 DEF RepInv, EndOK, UnderWay
<1>6. \A status : TellsTheEnd(status) => TellsTheEnd(status)'
    BY <1>0, <1>2 DEF TellsTheEnd, NoReceipt
<1>7. HandoffOK' /\ EventOK'
    BY <1>0, <1>1, <1>6 DEF RepInv, HandoffOK, EventOK
<1> QED
    BY <1>3, <1>4, <1>5, <1>7 DEF RepInv

(* A task ends once, and nobody has told anything of it before.            *)
LEMMA EndAsKeeps ==
    ASSUME RepInv, NEW status \in Endings, NEW stage \in Stages, NEW by \in Sources,
           EndAs(status, stage, by),
           stage = "none" /\ by # "cancel_phase_c" =>
               worker = "zero" /\ outcome # "none",
           receipt' \in [status: Endings, stage: Stages],
           receipt'.stage = "none" => worker = "zero" /\ outcome # "none",
           UNCHANGED teller \/ Tell(status)
    PROVE  RepInv'
<1>0. /\ meta.status = "running"
      /\ meta' = [status |-> status, stage |-> stage, source |-> by]
      /\ late' = UnderWay
      /\ UNCHANGED <<role, call, card, full, outcome, worker, said, handoff, event, refused>>
      /\ RepTypeOK
    BY DEF EndAs, RepInv, workVars, toldVars
<1>1. /\ handoff = NoHandoff /\ event = NoEvent /\ ~refused
      /\ teller.at \notin {"handoff", "event"}
    BY <1>0 DEF RepInv, EndOK
<1>2. /\ teller' \in [at: RepPlaces, as: Endings \union {"none"}]
      /\ teller'.at \in {"handoff", "event"} => teller'.at = "handoff" /\ teller'.as = status
    BY <1>0, <1>1 DEF Tell, RepTypeOK, RepPlaces
<1>3. meta' \in RepMetas /\ meta'.status = status /\ status # "running"
    BY <1>0 DEF RepMetas, Endings
<1>4. RepTypeOK'
    BY <1>0, <1>2, <1>3 DEF RepTypeOK
<1>5. CardOK'
    BY <1>0 DEF RepInv, CardOK
<1>6. EndOK'
    BY <1>0, <1>3 DEF EndOK, UnderWay, Endings
<1>7. HandoffOK' /\ EventOK'
    BY <1>0, <1>1, <1>2, <1>3 DEF HandoffOK, EventOK, TellsTheEnd
<1> QED
    BY <1>4, <1>5, <1>6, <1>7 DEF RepInv

LEMMA EndKeeps ==
    ASSUME RepInv, Finalize \/ StatusFallback \/ StatusAdopts \/ CancelConcludes
    PROVE  RepInv'
<1>0. /\ RepTypeOK
      /\ receipt # NoReceipt =>
            /\ receipt \in [status: Endings, stage: Stages]
            /\ receipt.stage = "none" => worker = "zero" /\ outcome # "none"
    BY DEF RepInv, RepTypeOK, EndOK
<1>1. CASE Finalize
    <2>1. PICK status \in {"cancelled", IF worker = "timeout" THEN "timeout"
                                       ELSE StatusOfOutcome} :
              EndAs(status, receipt.stage, "none") /\ Tell(status)
        BY <1>1 DEF Finalize
    <2>2. status \in Endings /\ receipt # NoReceipt /\ UNCHANGED receipt
        BY <1>1 DEF Finalize, StatusOfOutcome, Endings
    <2> QED
        BY <1>0, <2>1, <2>2, EndAsKeeps DEF Sources
<1>2. CASE StatusFallback
    <2> DEFINE stage == "status_reconciliation_missing_receipt"
    <2>1. /\ EndAs("failed", stage, "fallback_finalizer") /\ Tell("failed")
          /\ receipt' = [status |-> "failed", stage |-> stage]
        BY <1>2 DEF StatusFallback
    <2>2. "failed" \in Endings /\ stage \in Stages /\ "fallback_finalizer" \in Sources
        BY DEF Endings, Stages, Sources
    <2> QED
        BY <2>1, <2>2, EndAsKeeps
<1>3. CASE StatusAdopts
    <2>1. PICK status \in {"cancelled", receipt.status,
                          IF worker = "timeout" THEN "failed" ELSE receipt.status} :
              EndAs(status, receipt.stage, "completion_receipt")
        BY <1>3 DEF StatusAdopts
    <2>2. receipt # NoReceipt /\ UNCHANGED <<receipt, teller>>
        BY <1>3 DEF StatusAdopts
    <2>3. status \in Endings
        BY <1>0, <2>2 DEF Endings
    <2> QED
        BY <1>0, <2>1, <2>2, <2>3, EndAsKeeps DEF Sources
<1>4. CASE CancelConcludes
    <2>1. PICK status \in {"cancelled", IF worker = "zero" THEN "done" ELSE "failed"},
               stage \in {"none", receipt.stage} :
              EndAs(status, stage, "cancel_phase_c")
        BY <1>4 DEF CancelConcludes
    <2>2. status \in Endings /\ stage \in Stages /\ "cancel_phase_c" \in Sources
        BY <1>0, <1>4 DEF CancelConcludes, Endings, Stages, Sources
    <2>3. receipt # NoReceipt /\ UNCHANGED <<receipt, teller>>
        BY <1>4 DEF CancelConcludes
    <2> QED
        BY <1>0, <2>1, <2>2, <2>3, EndAsKeeps
<1> QED
    BY <1>1, <1>2, <1>3, <1>4

(* What has ended otherwise stays so, and "failed" is told of it.          *)
LEMMA FallbackKeeps ==
    ASSUME RepInv, Fallback
    PROVE  RepInv'
<1>0. receipt' = [status |-> "failed", stage |-> "primary_finalizer"]
    BY DEF Fallback
<1>1. /\ "failed" \in Endings /\ "primary_finalizer" \in Stages
      /\ "fallback_finalizer" \in Sources
    BY DEF Endings, Stages, Sources
<1>2. CASE EndAs("failed", "primary_finalizer", "fallback_finalizer") /\ Tell("failed")
    BY <1>0, <1>1, <1>2, EndAsKeeps
<1>3. CASE /\ UNCHANGED <<workVars, meta, toldVars, late>>
           /\ NobodyTells \/ (meta.status # "running" /\ Tell("failed"))
    <2>0. /\ UNCHANGED <<role, call, card, full, outcome, worker, said, meta,
                         handoff, event, refused, late>>
          /\ RepTypeOK
        BY <1>3 DEF RepInv, workVars, toldVars
    <2>1. /\ teller' \in [at: RepPlaces, as: Endings \union {"none"}]
          /\ teller'.at \in {"handoff", "event"} =>
                /\ meta.status # "running"
                /\ teller'.at = "handoff" /\ teller'.as = "failed"
        BY <1>1, <1>3, <2>0 DEF NobodyTells, Tell, RepTypeOK, RepPlaces
    <2>2. RepTypeOK'
        BY <1>0, <1>1, <2>0, <2>1 DEF RepTypeOK
    <2>3. CardOK'
        BY <2>0 DEF RepInv, CardOK
    <2>4. EndOK'
        BY <1>0, <1>1, <2>0, <2>1 DEF RepInv, EndOK, UnderWay
    <2>5. \A status : TellsTheEnd(status) => TellsTheEnd(status)'
        BY <1>0, <2>0 DEF TellsTheEnd
    <2>6. TellsTheEnd("failed")'
        BY <1>0 DEF TellsTheEnd
    <2>7. HandoffOK'
        BY <2>0, <2>5 DEF RepInv, HandoffOK
    <2>8. EventOK'
        BY <1>1, <2>0, <2>1, <2>5, <2>6 DEF RepInv, EventOK
    <2> QED
        BY <2>2, <2>3, <2>4, <2>7, <2>8 DEF RepInv
<1> QED
    BY <1>2, <1>3 DEF Fallback

(* What is found or made fits, and where nothing can be made there was     *)
(* nothing to make it of.                                                  *)
LEMMA FoundFits ==
    ASSUME RepInv, meta.status # "running",
           NEW status \in Endings, TellsTheEnd(status), Ask(status),
           UNCHANGED <<role, meta, receipt, card, outcome, said, late>>
    PROVE  /\ handoff' \in Handoffs \union {NoHandoff}
           /\ handoff # NoHandoff => handoff' = handoff
           /\ HandoffOK'
<1>0. RepTypeOK /\ HandoffOK /\ CardOK /\ handoff' = FoundOrMade(status)
    BY DEF RepInv, Ask
<1>1. CASE handoff # NoHandoff
    <2>1. handoff' = handoff
        BY <1>0, <1>1 DEF FoundOrMade
    <2> QED
        BY <1>0, <1>1, <2>1 DEF RepTypeOK, HandoffOK, TellsTheEnd
<1>2. CASE handoff = NoHandoff /\ card # NoCard
    <2>1. handoff' = FromCard(status) /\ card \in Cards
        BY <1>0, <1>2 DEF FoundOrMade, RepTypeOK
    <2>2. FromCard(status) \in Handoffs
        BY <2>1 DEF FromCard, Handoffs, Cards
    <2>3. handoff' # NoHandoff
        BY <2>1, <2>2, ReportAssumption
    <2>4. handoff'.verdict = card.verdict /\ handoff'.outcome = card.outcome
          /\ handoff'.terminal = status
        BY <2>1 DEF FromCard
    <2> QED
        BY <1>0, <1>2, <2>1, <2>2, <2>3, <2>4 DEF HandoffOK, CardOK, TellsTheEnd
<1>3. CASE handoff = NoHandoff /\ card = NoCard /\ meta.stage # "none"
    <2>1. handoff' = FromFailure /\ FromFailure \in Handoffs /\ handoff'.from = "failure"
        BY <1>0, <1>3 DEF FoundOrMade, FromFailure, Handoffs, Endings, CardVerdicts, Outcomes
    <2>2. handoff' # NoHandoff
        BY <2>1, ReportAssumption
    <2> QED
        BY <1>3, <2>1, <2>2 DEF HandoffOK
<1>4. CASE handoff = NoHandoff /\ card = NoCard /\ meta.stage = "none"
    BY <1>0, <1>4 DEF FoundOrMade, HandoffOK, CardOK
<1> QED
    BY <1>1, <1>2, <1>3, <1>4

LEMMA PublishKeeps ==
    ASSUME RepInv, Publish \/ Recover
    PROVE  RepInv'
<1>0. /\ meta.status # "running"
      /\ UNCHANGED <<role, meta, receipt, call, card, full, outcome, worker, event, said, late>>
      /\ RepTypeOK /\ EventOK
    BY DEF Publish, Recover, RepInv, EndOK, workVars
<1>1. \E status \in Endings : TellsTheEnd(status) /\ Ask(status)
    <2>1. CASE Publish
        BY <1>0, <2>1 DEF Publish, EventOK
    <2>2. CASE Recover
        BY <1>0, <2>2 DEF Recover, TellsTheEnd, RepTypeOK, RepMetas
    <2> QED
        BY <2>1, <2>2
<1>2. PICK status \in Endings : TellsTheEnd(status) /\ Ask(status)
    BY <1>1
<1>3. /\ handoff' \in Handoffs \union {NoHandoff}
      /\ handoff # NoHandoff => handoff' = handoff
      /\ HandoffOK'
    BY <1>0, <1>2, FoundFits
<1>4. refused' \in BOOLEAN
    BY <1>0, <1>2 DEF Ask, RepTypeOK
<1>5. /\ teller' \in [at: RepPlaces, as: Endings \union {"none"}]
      /\ teller'.at \in {"handoff", "event"} =>
            teller.at \in {"handoff", "event"} /\ teller'.as = teller.as
      /\ teller'.at = "event" => handoff' # NoHandoff
    <2>1. CASE Publish
        BY <1>0, <2>1 DEF Publish, RepTypeOK, RepPlaces
    <2>2. CASE Recover
        BY <1>0, <1>3, <2>2 DEF Recover, EventOK, RepTypeOK
    <2> QED
        BY <2>1, <2>2
<1>6. RepTypeOK'
    BY <1>0, <1>3, <1>4, <1>5 DEF RepTypeOK
<1>7. CardOK' /\ EndOK'
    BY <1>0 DEF RepInv, CardOK, EndOK, UnderWay
<1>8. EventOK'
    BY <1>0, <1>3, <1>5 DEF EventOK, TellsTheEnd
<1> QED
    BY <1>3, <1>6, <1>7, <1>8 DEF RepInv

LEMMA AnnounceKeeps ==
    ASSUME RepInv, Announce
    PROVE  RepInv'
<1>0. /\ teller.at = "event" /\ event' = TerminalEvent
      /\ teller' = [teller EXCEPT !.at = "over"]
      /\ UNCHANGED <<role, meta, receipt, call, card, full, outcome, worker,
                     handoff, refused, said, late>>
      /\ RepTypeOK /\ EventOK /\ meta.status # "running"
    BY DEF Announce, NobodyTells, RepInv, EndOK, workVars
<1>1. handoff # NoHandoff /\ \E status \in Endings : status = teller.as /\ TellsTheEnd(status)
    BY <1>0 DEF EventOK
<1>2. event' \in RepEvents
    BY <1>0, <1>1 DEF TerminalEvent, ResultNamed, RepEvents
<1>3. RepTypeOK'
    BY <1>0, <1>2 DEF RepTypeOK, RepPlaces
<1>4. CardOK' /\ HandoffOK'
    BY <1>0 DEF RepInv, CardOK, HandoffOK, TellsTheEnd
<1>5. EndOK'
    BY <1>0 DEF RepInv, EndOK, UnderWay
<1>6. EventOK'
    <2>0. PICK status \in Endings : status = teller.as /\ TellsTheEnd(status)
        BY <1>1
    <2>1. teller'.at = "over"
        BY <1>0 DEF RepTypeOK
    <2>2. TellsTheEnd(status)'
        BY <1>0, <2>0 DEF TellsTheEnd
    <2>3. /\ event'.terminal = IF status = "timeout" THEN "timed_out" ELSE status
          /\ event'.result = (full # NoCard)
        BY <1>0, <2>0 DEF TerminalEvent, ResultNamed
    <2> QED
        BY <1>0, <1>1, <2>1, <2>2, <2>3 DEF EventOK
<1> QED
    BY <1>3, <1>4, <1>5, <1>6 DEF RepInv

LEMMA ReportAtFirst ==
    ASSUME ReportInit
    PROVE  RepInv
<1>0. Idle \in RepCalls /\ Idle.at = "idle"
    BY DEF Idle, RepCalls, Report
<1>1. RepTypeOK
    BY <1>0 DEF ReportInit, RepTypeOK, RepMetas, Stages, Sources, RepPlaces, NoReceipt
<1>2. CardOK /\ EndOK
    BY <1>0 DEF ReportInit, CardOK, CallFits, EndOK, UnderWay
<1>3. HandoffOK /\ EventOK
    BY DEF ReportInit, HandoffOK, EventOK
<1> QED
    BY <1>1, <1>2, <1>3 DEF RepInv

(* What a worker reports, the card, the handoff made of it and the event   *)
(* agree, however reports, the ends of the run, what fails and status      *)
(* calls overlap.                                                          *)
THEOREM ReportInductive == ReportSpec => []RepInv
<1>1. RepInv /\ [ReportNext]_reportVars => RepInv'
    <2> SUFFICES ASSUME RepInv, [ReportNext]_reportVars
                 PROVE  RepInv'
        OBVIOUS
    <2>1. CASE UNCHANGED reportVars
        BY <2>1 DEF reportVars, RepInv, RepTypeOK, CardOK, EndOK, UnderWay, HandoffOK,
                    EventOK, TellsTheEnd
    <2>2. ASSUME NEW c \in Calls, NEW r \in Requests[role],
                 CoderSubmit(c, r) \/ DebuggerSubmit(c, r) \/ ReviewerSubmit(c, r)
                   \/ ArchitectSubmit(c, r) \/ StewardSubmit(c, r)
          PROVE  RepInv'
        <3>1. role \in Roles
            BY DEF RepInv, RepTypeOK
        <3>2. r \in AllRequests
            BY <3>1 DEF AllRequests
        <3>3. PICK report \in RepMade : Accept(c, r, report) /\ Tells(report.card.verdict, {r})
            BY <2>2, <3>1, ReportFits
        <3> QED
            BY <3>2, <3>3, AcceptKeeps
    <2>3. ASSUME NEW c \in Calls, WriteCard(c) \/ WriteFull(c)
          PROVE  RepInv'
        BY <2>3, WriteCardKeeps, WriteFullKeeps
    <2>4. ASSUME NEW o \in Outcomes, SubmitOutcome(o)
          PROVE  RepInv'
        BY <2>4, SubmitOutcomeKeeps
    <2>5. ASSUME NEW code \in {"zero", "nonzero", "timeout"}, WorkerExits(code)
          PROVE  RepInv'
        BY <2>5, WorkerExitsKeeps
    <2>6. CASE LauncherGoes \/ FileReceipt \/ TellerStops
        BY <2>6, AsideKeeps
    <2>7. CASE Finalize \/ StatusFallback \/ StatusAdopts \/ CancelConcludes \/ Fallback
        BY <2>7, EndKeeps, FallbackKeeps
    <2>8. CASE Publish \/ Announce \/ Recover
        BY <2>8, PublishKeeps, AnnounceKeeps
    <2> QED
        BY <2>1, <2>2, <2>3, <2>4, <2>5, <2>6, <2>7, <2>8 DEF ReportNext
<1> QED
    BY ReportAtFirst, <1>1, PTL DEF ReportSpec

(* A verdict that is handed on, or read on opening the handoff, is one the *)
(* worker gave.                                                            *)
THEOREM VerdictKeptHolds == ReportSpec => []VerdictKept
<1>1. RepInv => VerdictKept
    <2> SUFFICES ASSUME RepInv, handoff # NoHandoff, handoff.from = "card"
                 PROVE  Tells(handoff.verdict, said) /\ Tells(Opened.card.verdict, said)
        BY DEF VerdictKept, Tells
    <2>1. Opened.card = card
        BY DEF Opened, CardShown
    <2> QED
        BY <2>1 DEF RepInv, HandoffOK, CardOK
<1> QED
    BY ReportInductive, <1>1, PTL

(* Where no handoff could be made, there was nothing to make it of.        *)
THEOREM NeverSilentHolds == ReportSpec => []NeverSilent
<1>1. RepInv => NeverSilent
    <2> SUFFICES ASSUME RepInv, refused, handoff = NoHandoff, meta.source # "cancel_phase_c"
                 PROVE  /\ worker = "zero" /\ outcome # "none"
                        /\ card # NoCard => \E report \in late : card = report.card
                        /\ role = "steward" => outcome \in {"needs_input", "failed"}
        BY DEF NeverSilent
    <2>1. /\ meta.stage = "none" /\ meta.status # "running"
          /\ card # NoCard => \E report \in late : card = report.card
          /\ role = "steward" => outcome \notin {"completed", "partial"}
        BY DEF RepInv, EndOK, HandoffOK
    <2>2. worker = "zero" /\ outcome # "none"
        BY <2>1 DEF RepInv, EndOK
    <2> QED
        BY <2>1, <2>2 DEF RepInv, RepTypeOK, Outcomes
<1> QED
    BY ReportInductive, <1>1, PTL

(* What an operator opens is what was handed on and announced, and tells   *)
(* how the task ended.                                                     *)
THEOREM HandedOnHolds == ReportSpec => []HandedOn
<1>1. RepInv => HandedOn
    <2> SUFFICES ASSUME RepInv
                 PROVE  HandedOn
        OBVIOUS
    <2>1. handoff.from = "card" => Opened.card = card
        BY DEF Opened, CardShown
    <2>2. HandoffOK /\ EventOK
        BY DEF RepInv
    <2> QED
        BY <2>1, <2>2 DEF HandedOn, HandoffOK, EventOK
<1> QED
    BY ReportInductive, <1>1, PTL

-----------------------------------------------------------------------------
(* The deployment of the package, for any operators and any number of      *)
(* command lines, edits and kills.                                         *)
AllFiles   == RuntimeFiles \union {"doc"}
Values     == {"new", "old", "edited", "broken", Missing}
SavedKinds == {"copy", "remove", "source_only"}

PlanOn(places) ==
    [i \in places |-> IF Declared[i].file = "own" THEN Entry("plugin", "projected")
                      ELSE Declared[i]]
PlanOf(src) == PlanOn({i \in DOMAIN Declared : Declared[i].file = "skill" => src["skill"] # Missing})
Plans == {PlanOn(1 .. 6), PlanOn(1 .. 6 \ {5})}

FileSets == UNION {[S -> Values] : S \in SUBSET AllFiles}
Archives == [files : FileSets, done : BOOLEAN]
Commands ==
    [at : {"none", "backup", "copy", "remove", "undo", "restore", "ended", "killed"},
     run : {"none", "deploy", "archive", "rollback"},
     plan : Plans \union {<< >>}, todo : (SUBSET (1 .. 6)) \union (SUBSET AllFiles),
     cut : BOOLEAN, backup : Nat,
     result : {"none", "refused", "saved", "deployed", "undone", "unreadable",
               "bad_link", "mismatch"},
     before : [AllFiles -> Values],
     touched : SUBSET (AllFiles \union {"link"}), late : SUBSET (AllFiles \union {"link"})]

DeployTypeOK ==
    /\ source \in [SourceFiles -> Values]
    /\ runtime \in [RuntimeFiles -> Values]
    /\ link \in {"valid", "invalid"}
    /\ backups \in Seq(Archives)
    /\ command \in [Operators -> Commands]
    /\ calls \in Nat /\ troubles \in Nat

(* What a command c has reached agrees with the trees src and rt, the link *)
(* ln and the backups bk, save for the files others have touched.          *)
ContentIn(f, src, rt) == IF f = "doc" THEN src[f] ELSE rt[f]

Same(c, was, src, rt) == \A f \in DOMAIN was \ c.touched : ContentIn(f, src, rt) = was[f]

BackupFits(c, src, rt, bk) ==
    c.at = "backup" =>
        LET files == bk[c.backup].files
        IN /\ c.run \in {"deploy", "archive"} /\ c.backup \in DOMAIN bk /\ ~bk[c.backup].done
           /\ c.plan \in Plans /\ c.todo \subseteq Of(c.plan, SavedKinds)
           /\ Same(c, c.before, src, rt)
           /\ \A f \in DOMAIN files \ c.touched : files[f] = c.before[f]
           /\ \A i \in Of(c.plan, SavedKinds) \ c.todo : c.plan[i].file \in DOMAIN files

Deploying == {"copy", "remove", "undo", "restore"}

DeployFits(c, src, rt, ln, bk) ==
    c.run = "deploy" =>
        /\ c.at \in Deploying \union {"backup"} =>
              /\ c.plan \in Plans
              /\ c.touched = {} => ln = "valid" /\ c.plan = PlanOf(src)
        /\ c.at \in Deploying =>
              LET files == bk[c.backup].files
              IN /\ c.backup \in DOMAIN bk /\ bk[c.backup].done
                 /\ \A i \in Of(c.plan, SavedKinds) : c.plan[i].file \in DOMAIN files
                 /\ \A f \in DOMAIN files \ c.touched : files[f] = c.before[f]
                 /\ \A f \in (AllFiles \ DOMAIN files) \ c.touched :
                       ContentIn(f, src, rt) = c.before[f]

StageFits(c, src, rt) ==
    /\ c.at = "copy" => c.run = "deploy" /\ c.todo \subseteq Of(c.plan, {"copy"})
    /\ c.at = "remove" =>
          /\ c.run = "deploy" /\ c.todo \subseteq Of(c.plan, {"remove"})
          /\ c.touched = {} =>
                \A i \in Of(c.plan, {"copy"}) : rt[c.plan[i].file] = src[c.plan[i].file]
          /\ c.late \intersect {"orphan", "alias"} = {} /\ rt["alias"] = Missing
             /\ rt["orphan"] # Missing => rt["orphan"] = Approved
    /\ c.at \in {"backup", "copy", "remove", "undo"} => ~c.cut

RestoreFits(c, src, rt, ln, bk) ==
    /\ c.at \in {"undo", "restore"} =>
          c.run \in {"deploy", "rollback"} /\ c.backup \in DOMAIN bk
    /\ c.at = "restore" =>
          LET files == bk[c.backup].files
          IN /\ bk[c.backup].done /\ c.todo \subseteq DOMAIN files
             /\ c.touched = {} =>
                   /\ ln = "valid"
                   /\ \A f \in DOMAIN files \ c.todo : ContentIn(f, src, rt) = files[f]
                   /\ c.cut /\ c.todo # {} => ContentIn(Whichever(c.todo), src, rt) = Missing

EndFits(c, src, rt, ln, bk) ==
    c.at = "ended" =>
        /\ c.result # "none"
        /\ c.result = "deployed" /\ c.touched = {} =>
              /\ ln = "valid"
              /\ \A i \in Of(PlanOf(src), {"copy"}) :
                    rt[PlanOf(src)[i].file] = src[PlanOf(src)[i].file]
              /\ \A i \in Of(PlanOf(src), {"remove"}) : rt[PlanOf(src)[i].file] = Missing
        /\ c.result = "undone" =>
              /\ c.run # "deploy" => c.backup \in DOMAIN bk /\ bk[c.backup].done
              /\ Same(c, IF c.run = "deploy" THEN c.before ELSE bk[c.backup].files, src, rt)
        /\ c.result = "mismatch" => c.touched # {}
        /\ c.result = "unreadable" => c.run = "rollback"
        /\ c.result = "bad_link" /\ c.run = "deploy" => c.touched # {}
        /\ c.result \in {"refused", "saved"} => Same(c, c.before, src, rt)

CommandFits(c, src, rt, ln, bk) ==
    /\ BackupFits(c, src, rt, bk)
    /\ DeployFits(c, src, rt, ln, bk)
    /\ StageFits(c, src, rt)
    /\ RestoreFits(c, src, rt, ln, bk)
    /\ EndFits(c, src, rt, ln, bk)

CommandsFit == \A o \in Operators : CommandFits(command[o], source, runtime, link, backups)

(* No two commands save into one directory.                                *)
OwnBackups ==
    \A o, p \in Operators :
        o # p /\ command[o].at = "backup" /\ command[p].at = "backup" =>
            command[o].backup # command[p].backup

DeployInv == DeployTypeOK /\ CommandsFit /\ OwnBackups

-----------------------------------------------------------------------------
(* What a plan names: the copies and the removals are of different files,  *)
(* and none of the alias.                                                  *)
LEMMA PlanFacts ==
    ASSUME NEW pl \in Plans
    PROVE  /\ DOMAIN pl \subseteq 1 .. 6
           /\ \A i \in Of(pl, SavedKinds) : pl[i].file \in AllFiles
           /\ \A i \in Of(pl, {"copy"}) : pl[i].file \in {"plugin", "skill"}
           /\ \A i \in Of(pl, {"remove"}) : pl[i].file \in {"retired", "orphan"}
           /\ Of(pl, {"copy"}) \subseteq Of(pl, SavedKinds)
           /\ Of(pl, {"remove"}) \subseteq Of(pl, SavedKinds)
<1>1. PICK d \in SUBSET (1 .. 6) : pl = PlanOn(d)
    BY DEF Plans
<1>2. DOMAIN pl = d /\ \A i \in d : pl[i] = IF Declared[i].file = "own"
                                            THEN Entry("plugin", "projected") ELSE Declared[i]
    BY <1>1 DEF PlanOn
<1>3. \A i \in d : pl[i] = CASE i = 1 -> Entry("plugin", "copy")
                             [] i = 2 -> Entry("retired", "remove")
                             [] i = 3 -> Entry("doc", "source_only")
                             [] i = 4 -> Entry("plugin", "projected")
                             [] i = 5 -> Entry("skill", "copy")
                             [] i = 6 -> Entry("orphan", "remove")
    <2>1. /\ Declared[1] = Entry("plugin", "copy") /\ Declared[2] = Entry("retired", "remove")
          /\ Declared[3] = Entry("doc", "source_only") /\ Declared[4] = Entry("own", "copy")
          /\ Declared[5] = Entry("skill", "copy") /\ Declared[6] = Entry("orphan", "remove")
        BY DEF Declared
    <2> QED
        BY <1>2, <2>1 DEF Entry
<1>4. ASSUME NEW i \in d
      PROVE  /\ pl[i].kind \in SavedKinds => pl[i].file \in AllFiles
             /\ pl[i].kind = "copy" => pl[i].file \in {"plugin", "skill"}
             /\ pl[i].kind = "remove" => pl[i].file \in {"retired", "orphan"}
    BY <1>3 DEF Entry, SavedKinds, AllFiles, RuntimeFiles
<1> QED
    BY <1>2, <1>4 DEF Of, SavedKinds

LEMMA PlanIsOne ==
    ASSUME NEW src
    PROVE  PlanOf(src) \in Plans
<1> DEFINE d == {i \in DOMAIN Declared : Declared[i].file = "skill" => src["skill"] # Missing}
<1>1. DOMAIN Declared = 1 .. 6
    BY DEF Declared
<1>2. \A i \in 1 .. 6 : Declared[i].file = "skill" <=> i = 5
    BY DEF Declared, Entry
<1>3. d = 1 .. 6 \/ d = 1 .. 6 \ {5}
    <2>1. CASE src["skill"] # Missing
        BY <1>1, <2>1
    <2>2. CASE src["skill"] = Missing
        <3>1. d = {i \in 1 .. 6 : i # 5}
            BY <1>1, <1>2, <2>2
        <3> QED
            BY <3>1
    <2> QED
        BY <2>1, <2>2
<1>4. PlanOf(src) = PlanOn(d)
    BY DEF PlanOf
<1> HIDE DEF d
<1> QED
    BY <1>3, <1>4 DEF Plans

LEMMA PlanIsOf == Plan = PlanOf(source)
BY DEF Plan, PlanOf, PlanOn, Expanded

LEMMA FirstIsIn ==
    ASSUME NEW todo \in SUBSET (1 .. 6), todo # {}
    PROVE  First(todo) \in todo
<1>1. \E i \in todo : \A j \in todo : i <= j
    <2>1. CASE 1 \in todo
        BY <2>1
    <2>2. CASE 1 \notin todo /\ 2 \in todo
        BY <2>2
    <2>3. CASE 1 \notin todo /\ 2 \notin todo /\ 3 \in todo
        BY <2>3
    <2>4. CASE 1 \notin todo /\ 2 \notin todo /\ 3 \notin todo /\ 4 \in todo
        BY <2>4
    <2>5. CASE 1 \notin todo /\ 2 \notin todo /\ 3 \notin todo /\ 4 \notin todo /\ 5 \in todo
        BY <2>5
    <2>6. CASE 1 \notin todo /\ 2 \notin todo /\ 3 \notin todo /\ 4 \notin todo /\ 5 \notin todo
        <3>1. \A i \in todo : i = 6
            BY <2>6
        <3>2. PICK i \in todo : TRUE
            OBVIOUS
        <3> QED
            BY <3>1, <3>2
    <2> QED
        BY <2>1, <2>2, <2>3, <2>4, <2>5, <2>6
<1> QED
    BY <1>1 DEF First

LEMMA WhicheverIsIn ==
    ASSUME NEW todo, todo # {}
    PROVE  Whichever(todo) \in todo
BY DEF Whichever

(* A file more in a backup.                                                *)
LEMMA OneMore ==
    ASSUME NEW f \in AllFiles, NEW v \in Values, NEW files \in FileSets
    PROVE  /\ With(files, f, v) \in FileSets
           /\ DOMAIN With(files, f, v) = DOMAIN files \union {f}
           /\ With(files, f, v)[f] = v
           /\ \A g \in DOMAIN files \ {f} : With(files, f, v)[g] = files[g]
<1>1. PICK S \in SUBSET AllFiles : files \in [S -> Values]
    BY DEF FileSets
<1> DEFINE more == With(files, f, v)
<1>2. more = [x \in S \union {f} |-> IF x = f THEN v ELSE files[x]]
    BY <1>1 DEF With
<1>3. more \in [S \union {f} -> Values] /\ S \union {f} \in SUBSET AllFiles
    BY <1>1, <1>2
<1> QED
    BY <1>1, <1>2, <1>3 DEF FileSets

-----------------------------------------------------------------------------
(* What others do to the trees src and rt and to the link ln is noted by a *)
(* command c, which becomes d, and leaves the backups it relies on.        *)
Noticed(c, d, src, rt, ln, src2, rt2, ln2) ==
    /\ \E t, l \in SUBSET (AllFiles \union {"link"}) :
          /\ d = [c EXCEPT !.touched = t, !.late = l]
          /\ c.touched \subseteq t /\ c.late \subseteq l
    /\ d.touched = {} => src2 = src /\ rt2 = rt /\ ln2 = ln
    /\ \A f \in AllFiles \ d.touched : ContentIn(f, src2, rt2) = ContentIn(f, src, rt)
    /\ d.late \intersect {"orphan", "alias"} = {} =>
          rt2["orphan"] = rt["orphan"] /\ rt2["alias"] = rt["alias"]

Kept(c, bk, bk2) ==
    /\ DOMAIN bk \subseteq DOMAIN bk2
    /\ \A k \in DOMAIN bk :
          bk[k].done \/ (c.at = "backup" /\ k = c.backup) => bk2[k] = bk[k]

LEMMA NoticedFits ==
    ASSUME NEW c \in Commands, NEW d, NEW src, NEW rt, NEW ln, NEW bk \in Seq(Archives),
           NEW src2, NEW rt2, NEW ln2, NEW bk2,
           Noticed(c, d, src, rt, ln, src2, rt2, ln2), Kept(c, bk, bk2),
           CommandFits(c, src, rt, ln, bk)
    PROVE  d \in Commands /\ CommandFits(d, src2, rt2, ln2, bk2)
<1>1. PICK t, l \in SUBSET (AllFiles \union {"link"}) :
          /\ d = [c EXCEPT !.touched = t, !.late = l]
          /\ c.touched \subseteq t /\ c.late \subseteq l
    BY DEF Noticed
<1>2. /\ d \in Commands
      /\ d.at = c.at /\ d.run = c.run /\ d.plan = c.plan /\ d.todo = c.todo /\ d.cut = c.cut
      /\ d.backup = c.backup /\ d.result = c.result /\ d.before = c.before
      /\ c.touched \subseteq d.touched /\ c.late \subseteq d.late
    BY <1>1 DEF Commands
<1>3. /\ d.touched = {} => src2 = src /\ rt2 = rt /\ ln2 = ln /\ c.touched = {}
      /\ \A f \in AllFiles \ d.touched : ContentIn(f, src2, rt2) = ContentIn(f, src, rt)
      /\ d.late \intersect {"orphan", "alias"} = {} =>
            /\ rt2["orphan"] = rt["orphan"] /\ rt2["alias"] = rt["alias"]
            /\ c.late \intersect {"orphan", "alias"} = {}
    BY <1>2 DEF Noticed
<1>4. DOMAIN c.before = AllFiles
    BY DEF Commands
<1>5. \A was : DOMAIN was \subseteq AllFiles /\ Same(c, was, src, rt) => Same(d, was, src2, rt2)
    BY <1>2, <1>3 DEF Same
<1>6. \A k \in DOMAIN bk : DOMAIN bk[k].files \subseteq AllFiles
    <2> SUFFICES ASSUME NEW k \in DOMAIN bk
                 PROVE  DOMAIN bk[k].files \subseteq AllFiles
        OBVIOUS
    <2>1. bk[k] \in Archives
        OBVIOUS
    <2>2. bk[k].files \in FileSets
        BY <2>1 DEF Archives
    <2> QED
        BY <2>2 DEF FileSets
<1>7. BackupFits(d, src2, rt2, bk2)
    <2>1. BackupFits(c, src, rt, bk)
        BY DEF CommandFits
    <2> SUFFICES ASSUME c.at = "backup"
                 PROVE  BackupFits(d, src2, rt2, bk2)
        BY <1>2 DEF BackupFits
    <2>2. c.backup \in DOMAIN bk /\ c.backup \in DOMAIN bk2 /\ bk2[c.backup] = bk[c.backup]
        BY <2>1 DEF BackupFits, Kept
    <2> QED
        BY <1>2, <1>4, <1>5, <2>1, <2>2 DEF BackupFits
<1>8. DeployFits(d, src2, rt2, ln2, bk2)
    <2>1. DeployFits(c, src, rt, ln, bk)
        BY DEF CommandFits
    <2>2. c.run = "deploy" /\ c.at \in Deploying =>
              c.backup \in DOMAIN bk /\ bk2[c.backup] = bk[c.backup]
              /\ c.backup \in DOMAIN bk2
        BY <2>1 DEF DeployFits, Kept
    <2> QED
        BY <1>2, <1>3, <2>1, <2>2 DEF DeployFits
<1>9. StageFits(d, src2, rt2)
    BY <1>2, <1>3 DEF CommandFits, StageFits
<1>10. RestoreFits(d, src2, rt2, ln2, bk2)
    <2>1. RestoreFits(c, src, rt, ln, bk)
        BY DEF CommandFits
    <2>2. c.at \in {"undo", "restore"} => c.backup \in DOMAIN bk /\ c.backup \in DOMAIN bk2
        BY <2>1 DEF RestoreFits, Kept
    <2>3. c.at = "restore" => bk2[c.backup] = bk[c.backup]
        BY <2>1, <2>2 DEF RestoreFits, Kept
    <2> QED
        BY <1>2, <1>3, <2>1, <2>2, <2>3 DEF RestoreFits
<1>11. EndFits(d, src2, rt2, ln2, bk2)
    <2>1. EndFits(c, src, rt, ln, bk)
        BY DEF CommandFits
    <2> SUFFICES ASSUME c.at = "ended"
                 PROVE  EndFits(d, src2, rt2, ln2, bk2)
        BY <1>2 DEF EndFits
    <2>2. c.result = "undone" =>
              /\ c.run # "deploy" => /\ c.backup \in DOMAIN bk /\ bk[c.backup].done
                                     /\ c.backup \in DOMAIN bk2 /\ bk2[c.backup] = bk[c.backup]
              /\ Same(d, IF c.run = "deploy" THEN c.before ELSE bk2[c.backup].files, src2, rt2)
        BY <1>4, <1>5, <1>6, <2>1 DEF EndFits, Kept
    <2>3. c.result \in {"refused", "saved"} => Same(d, c.before, src2, rt2)
        BY <1>4, <1>5, <2>1 DEF EndFits
    <2>4. d.result = "deployed" /\ d.touched = {} =>
              /\ ln2 = "valid"
              /\ \A i \in Of(PlanOf(src2), {"copy"}) :
                    rt2[PlanOf(src2)[i].file] = src2[PlanOf(src2)[i].file]
              /\ \A i \in Of(PlanOf(src2), {"remove"}) : rt2[PlanOf(src2)[i].file] = Missing
        BY <1>2, <1>3, <2>1 DEF EndFits
    <2> QED
        BY <1>2, <2>1, <2>2, <2>3, <2>4 DEF EndFits
<1> QED
    BY <1>2, <1>7, <1>8, <1>9, <1>10, <1>11 DEF CommandFits

(* A step of the command of o, which becomes c.                            *)
LEMMA StepKeeps ==
    ASSUME DeployInv, NEW o \in Operators, NEW c \in Commands,
           \/ Step(o, c) /\ UNCHANGED <<source, runtime>>
           \/ \E f \in AllFiles :
                 /\ command' = Noted(o, f, c)
                 /\ \A g \in AllFiles \ {f} :
                       ContentIn(g, source', runtime') = ContentIn(g, source, runtime),
           source' \in [SourceFiles -> Values], runtime' \in [RuntimeFiles -> Values],
           UNCHANGED link, calls' \in Nat, troubles' \in Nat,
           backups' \in Seq(Archives),
           \A p \in Operators \ {o} : Kept(command[p], backups, backups'),
           CommandFits(c, source', runtime', link', backups'),
           c.at = "backup" =>
               \A p \in Operators \ {o} : command[p].at = "backup" => command[p].backup # c.backup
    PROVE  DeployInv'
<1>0. DeployTypeOK /\ CommandsFit /\ OwnBackups
    BY DEF DeployInv
<1>1. command \in [Operators -> Commands]
    BY <1>0 DEF DeployTypeOK
<1>2. command'[o] = c /\ DOMAIN command' = Operators
      /\ command' = [p \in Operators |-> command'[p]]
    BY <1>1 DEF Step, Noted
<1>3. ASSUME NEW p \in Operators \ {o}
      PROVE  Noticed(command[p], command'[p], source, runtime, link, source', runtime', link')
    <2>1. command[p] \in Commands
        BY <1>1
    <2>2. CASE Step(o, c) /\ UNCHANGED <<source, runtime>>
        <3>1. command'[p] = command[p]
            BY <1>1, <2>2 DEF Step
        <3>2. command[p] = [command[p] EXCEPT !.touched = command[p].touched,
                                              !.late = command[p].late]
              /\ command[p].touched \in SUBSET (AllFiles \union {"link"})
              /\ command[p].late \in SUBSET (AllFiles \union {"link"})
            BY <2>1 DEF Commands
        <3> QED
            BY <2>2, <3>1, <3>2 DEF Noticed
    <2>3. ASSUME NEW f \in AllFiles, command' = Noted(o, f, c),
                 \A g \in AllFiles \ {f} :
                     ContentIn(g, source', runtime') = ContentIn(g, source, runtime)
          PROVE  Noticed(command[p], command'[p], source, runtime, link, source', runtime', link')
        <3> DEFINE t == command[p].touched \union {f}
                   l == command[p].late \union {f}
        <3>1. command'[p] = [command[p] EXCEPT !.touched = t, !.late = l]
            BY <2>3 DEF Noted
        <3>2. t \in SUBSET (AllFiles \union {"link"}) /\ l \in SUBSET (AllFiles \union {"link"})
              /\ command[p].touched \subseteq t /\ command[p].late \subseteq l
            BY <2>1 DEF Commands
        <3>3. command'[p].touched = t /\ command'[p].late = l
            BY <2>1, <3>1 DEF Commands
        <3>4. "orphan" \in AllFiles /\ "alias" \in AllFiles
              /\ \A g \in {"orphan", "alias"} : /\ ContentIn(g, source, runtime) = runtime[g]
                                                /\ ContentIn(g, source', runtime') = runtime'[g]
            BY DEF AllFiles, RuntimeFiles, ContentIn
        <3>5. f \in t /\ f \in l
            OBVIOUS
        <3> HIDE DEF t, l
        <3>6. command'[p].late \intersect {"orphan", "alias"} = {} =>
                  runtime'["orphan"] = runtime["orphan"] /\ runtime'["alias"] = runtime["alias"]
            BY <2>3, <3>3, <3>4, <3>5
        <3>7. command'[p].touched # {}
              /\ \A g \in AllFiles \ command'[p].touched :
                    ContentIn(g, source', runtime') = ContentIn(g, source, runtime)
            BY <2>3, <3>3, <3>5
        <3> QED
            BY <3>1, <3>2, <3>6, <3>7 DEF Noticed
    <2> QED
        BY <2>2, <2>3
<1>4. \A p \in Operators \ {o} :
          command'[p] \in Commands /\ CommandFits(command'[p], source', runtime', link', backups')
    BY <1>0, <1>1, <1>3, NoticedFits DEF CommandsFit, DeployTypeOK
<1>5. DeployTypeOK'
    BY <1>0, <1>2, <1>4 DEF DeployTypeOK
<1>6. CommandsFit'
    BY <1>2, <1>4 DEF CommandsFit
<1>7. \A p \in Operators \ {o} :
          command'[p].at = command[p].at /\ command'[p].backup = command[p].backup
    <2> SUFFICES ASSUME NEW p \in Operators \ {o}
                 PROVE  command'[p].at = command[p].at /\ command'[p].backup = command[p].backup
        OBVIOUS
    <2>1. command[p] \in Commands
        BY <1>1
    <2>2. \E t, l : command'[p] = [command[p] EXCEPT !.touched = t, !.late = l]
        BY <1>3 DEF Noticed
    <2> QED
        BY <2>1, <2>2 DEF Commands
<1>8. OwnBackups'
    BY <1>0, <1>2, <1>7 DEF OwnBackups
<1> QED
    BY <1>5, <1>6, <1>8 DEF DeployInv

(* The command of o moves on.                                              *)
LEMMA GotoType ==
    ASSUME NEW c \in Commands, NEW at \in {"backup", "copy", "remove", "undo", "restore"},
           NEW todo \in (SUBSET (1 .. 6)) \union (SUBSET AllFiles)
    PROVE  LET d == [c EXCEPT !.at = at, !.todo = todo]
           IN /\ d \in Commands /\ d.at = at /\ d.todo = todo
              /\ d.run = c.run /\ d.plan = c.plan /\ d.cut = c.cut /\ d.backup = c.backup
              /\ d.result = c.result /\ d.before = c.before
              /\ d.touched = c.touched /\ d.late = c.late
BY DEF Commands

LEMMA EndedType ==
    ASSUME NEW c \in Commands,
           NEW result \in {"saved", "deployed", "undone", "unreadable", "bad_link", "mismatch"}
    PROVE  LET d == [c EXCEPT !.at = "ended", !.result = result]
           IN /\ d \in Commands /\ d.at = "ended" /\ d.result = result
              /\ d.run = c.run /\ d.plan = c.plan /\ d.backup = c.backup
              /\ d.before = c.before /\ d.touched = c.touched
BY DEF Commands

(* A command that has ended has only to answer for how.                    *)
LEMMA EndedFits ==
    ASSUME NEW d, NEW src, NEW rt, NEW ln, NEW bk, d.at = "ended", EndFits(d, src, rt, ln, bk)
    PROVE  CommandFits(d, src, rt, ln, bk)
BY DEF CommandFits, BackupFits, DeployFits, Deploying, StageFits, RestoreFits

LEMMA ContentIs == \A f : Content(f) = ContentIn(f, source, runtime)
BY DEF Content, ContentIn

LEMMA NoneKept ==
    ASSUME UNCHANGED backups
    PROVE  \A c : Kept(c, backups, backups')
BY DEF Kept

-----------------------------------------------------------------------------
LEMMA ContentsType ==
    ASSUME DeployTypeOK
    PROVE  Contents \in [AllFiles -> Values]
<1>1. \A f \in AllFiles : Content(f) \in Values
    BY DEF DeployTypeOK, Content, AllFiles, SourceFiles
<1> QED
    BY <1>1 DEF Contents, AllFiles

LEMMA NoFiles == << >> \in FileSets /\ DOMAIN << >> = {}
<1>1. << >> \in [{} -> Values]
    OBVIOUS
<1>2. {} \in SUBSET AllFiles
    OBVIOUS
<1> QED
    BY <1>1, <1>2 DEF FileSets

LEMMA NoneIs ==
    None \in [at : {"none"}, run : {"none"}, plan : {<< >>}, todo : {{}}, cut : {FALSE},
              backup : {0}, result : {"none"}, before : {None.before}, touched : {{}},
              late : {{}}]
<1> DEFINE b == [f \in RuntimeFiles \union {"doc"} |-> Missing]
<1>1. None = [at |-> "none", run |-> "none", plan |-> << >>, todo |-> {}, cut |-> FALSE,
              backup |-> 0, result |-> "none", before |-> b, touched |-> {}, late |-> {}]
    BY DEF None
<1> HIDE DEF b
<1> QED
    BY <1>1

(* A command line begins, and leaves everything as it is.                  *)
LEMMA BeginKeeps ==
    ASSUME DeployInv, NEW o \in Operators, NEW c0, Begin(o, c0),
           [c0 EXCEPT !.before = Contents] \in Commands,
           backups' \in Seq(Archives),
           \A p \in Operators \ {o} : Kept(command[p], backups, backups'),
           CommandFits([c0 EXCEPT !.before = Contents], source, runtime, link, backups'),
           [c0 EXCEPT !.before = Contents].at = "backup" =>
               \A p \in Operators \ {o} : command[p].at = "backup" =>
                   command[p].backup # [c0 EXCEPT !.before = Contents].backup
    PROVE  DeployInv'
<1> DEFINE c == [c0 EXCEPT !.before = Contents]
<1>1. Step(o, c) /\ UNCHANGED <<source, runtime, link, troubles>> /\ calls' = calls + 1
    BY DEF Begin
<1>2. DeployTypeOK
    BY DEF DeployInv
<1> HIDE DEF c
<1>3. /\ source' \in [SourceFiles -> Values] /\ runtime' \in [RuntimeFiles -> Values]
      /\ calls' \in Nat /\ troubles' \in Nat
    BY <1>1, <1>2 DEF DeployTypeOK
<1>4. CommandFits(c, source', runtime', link', backups')
    BY <1>1 DEF c
<1> QED
    BY <1>1, <1>3, <1>4, StepKeeps DEF c

(* What is saved goes to a new directory.                                  *)
LEMMA SavingKeeps ==
    ASSUME DeployInv, NEW o \in Operators, NEW run \in {"deploy", "archive"},
           run = "deploy" => link = "valid",
           Begin(o, Saving(run)), NewDirectory
    PROVE  DeployInv'
<1> DEFINE n == Len(backups) + 1
           c == [Saving(run) EXCEPT !.before = Contents]
<1>0. DeployTypeOK /\ CommandsFit /\ OwnBackups
    BY DEF DeployInv
<1>1. PlanOf(source) \in Plans /\ Plan = PlanOf(source)
    BY PlanIsOne, PlanIsOf
<1>2. n \in Nat /\ backups \in Seq(Archives)
    BY <1>0 DEF DeployTypeOK
<1>3. [files |-> << >>, done |-> FALSE] \in Archives
    BY NoFiles DEF Archives
<1>4. /\ backups' \in Seq(Archives) /\ DOMAIN backups' = DOMAIN backups \union {n}
      /\ backups'[n] = [files |-> << >>, done |-> FALSE] /\ n \notin DOMAIN backups
      /\ \A k \in DOMAIN backups : backups'[k] = backups[k]
    BY <1>2, <1>3 DEF NewDirectory
<1>5. Of(Plan, SavedKinds) \in SUBSET (1 .. 6)
    BY <1>1, PlanFacts DEF Of
<1>6. c = [at |-> "backup", run |-> run, plan |-> Plan, todo |-> Of(Plan, SavedKinds),
           cut |-> FALSE, backup |-> n, result |-> "none", before |-> Contents,
           touched |-> {}, late |-> {}]
    <2> DEFINE was == Contents
    <2> HIDE DEF was
    <2>1. c = [[None EXCEPT !.run = run, !.at = "backup", !.plan = Plan,
                            !.todo = Of(Plan, SavedKinds), !.backup = n]
                 EXCEPT !.before = was]
        BY DEF Saving, SavedKinds, was
    <2> HIDE DEF n, c
    <2>2. c = [at |-> "backup", run |-> run, plan |-> Plan, todo |-> Of(Plan, SavedKinds),
               cut |-> FALSE, backup |-> n, result |-> "none", before |-> was,
               touched |-> {}, late |-> {}]
        BY <2>1, NoneIs
    <2> QED
        BY <2>2 DEF was
<1>7. c \in Commands
    <2>1. Contents \in [AllFiles -> Values]
        BY <1>0, ContentsType
    <2> HIDE DEF c, n
    <2> QED
        BY <1>1, <1>2, <1>5, <1>6, <2>1 DEF Commands
<1>8. \A p \in Operators \ {o} : Kept(command[p], backups, backups')
    BY <1>4 DEF Kept
<1>9. CommandFits(c, source, runtime, link, backups')
    <2> HIDE DEF c, n
    <2>1. /\ c.at = "backup" /\ c.run = run /\ c.plan = Plan /\ c.todo = Of(Plan, SavedKinds)
          /\ c.cut = FALSE /\ c.backup = n /\ c.before = Contents /\ c.touched = {}
        BY <1>6
    <2>2. \A f \in DOMAIN Contents : Contents[f] = ContentIn(f, source, runtime)
        BY ContentIs DEF Contents
    <2>3. BackupFits(c, source, runtime, backups')
        <3>1. n \in DOMAIN backups' /\ ~backups'[n].done /\ backups'[n].files = << >>
            BY <1>4
        <3>2. DOMAIN backups'[n].files = {}
            BY <3>1, NoFiles
        <3>3. Same(c, c.before, source, runtime)
            BY <2>1, <2>2 DEF Same
        <3> QED
            BY <1>1, <2>1, <3>1, <3>2, <3>3 DEF BackupFits
    <2>4. DeployFits(c, source, runtime, link, backups')
        BY <1>1, <2>1 DEF DeployFits, Deploying
    <2>5. StageFits(c, source, runtime) /\ RestoreFits(c, source, runtime, link, backups')
          /\ EndFits(c, source, runtime, link, backups')
        BY <2>1 DEF StageFits, RestoreFits, EndFits
    <2> QED
        BY <2>3, <2>4, <2>5 DEF CommandFits
<1>10. c.backup = n /\ \A p \in Operators : command[p].at = "backup" => command[p].backup # n
    <2>1. c.backup = n
        BY <1>6
    <2>2. \A p \in Operators : command[p].at = "backup" => command[p].backup \in DOMAIN backups
        BY <1>0 DEF CommandsFit, CommandFits, BackupFits
    <2> QED
        BY <1>4, <2>1, <2>2
<1> HIDE DEF n
<1>11. /\ [Saving(run) EXCEPT !.before = Contents] \in Commands
       /\ CommandFits([Saving(run) EXCEPT !.before = Contents], source, runtime, link, backups')
       /\ [Saving(run) EXCEPT !.before = Contents].backup = n
    BY <1>7, <1>9, <1>10
<1> HIDE DEF c
<1> QED
    BY <1>4, <1>8, <1>10, <1>11, BeginKeeps

LEMMA BeginsKeep ==
    ASSUME DeployInv, NEW o \in Operators,
           Deploy(o) \/ Archive(o) \/ \E k \in 1 .. MaxCalls : Rollback(o, k)
    PROVE  DeployInv'
<1>0. DeployTypeOK
    BY DEF DeployInv
<1>c. Contents \in [AllFiles -> Values]
    BY <1>0, ContentsType
<1>1. CASE Archive(o)
    BY <1>1, SavingKeeps DEF Archive
<1>2. CASE Deploy(o) /\ Ready /\ link = "valid" /\ EvidenceHolds
    BY <1>2, SavingKeeps DEF Deploy
<1>3. CASE Deploy(o) /\ ~(Ready /\ link = "valid" /\ EvidenceHolds)
    <2> DEFINE c0 == [None EXCEPT !.run = "deploy", !.at = "ended", !.result = "refused"]
               c  == [c0 EXCEPT !.before = Contents]
    <2>1. Begin(o, c0) /\ UNCHANGED backups
        BY <1>3 DEF Deploy
    <2>2. c = [at |-> "ended", run |-> "deploy", plan |-> << >>, todo |-> {}, cut |-> FALSE,
               backup |-> 0, result |-> "refused", before |-> Contents,
               touched |-> {}, late |-> {}]
        <3> DEFINE was == Contents
        <3> HIDE DEF was
        <3>1. c = [[None EXCEPT !.run = "deploy", !.at = "ended", !.result = "refused"]
                     EXCEPT !.before = was]
            BY DEF was
        <3> HIDE DEF c
        <3>2. c = [at |-> "ended", run |-> "deploy", plan |-> << >>, todo |-> {}, cut |-> FALSE,
                   backup |-> 0, result |-> "refused", before |-> was,
                   touched |-> {}, late |-> {}]
            BY <3>1, NoneIs
        <3> QED
            BY <3>2 DEF was
    <2> HIDE DEF c
    <2>3. c \in Commands
        BY <1>c, <2>2 DEF Commands
    <2>4. \A f \in DOMAIN Contents : Contents[f] = ContentIn(f, source, runtime)
        BY ContentIs DEF Contents
    <2>5. EndFits(c, source, runtime, link, backups')
        BY <2>2, <2>4 DEF EndFits, Same
    <2>6. CommandFits(c, source, runtime, link, backups') /\ c.at = "ended"
        BY <2>2, <2>5, EndedFits
    <2>7. backups' \in Seq(Archives)
        BY <1>0, <2>1 DEF DeployTypeOK
    <2>8. \A p \in Operators \ {o} : Kept(command[p], backups, backups')
        BY <2>1, NoneKept
    <2>9. c = [c0 EXCEPT !.before = Contents]
        BY DEF c
    <2> HIDE DEF c0
    <2> QED
        BY <2>1, <2>3, <2>6, <2>7, <2>8, <2>9, BeginKeeps
<1>4. ASSUME NEW k \in 1 .. MaxCalls, Rollback(o, k)
      PROVE  DeployInv'
    <2> DEFINE c0 == [None EXCEPT !.run = "rollback", !.at = "undo", !.backup = k]
               c  == [c0 EXCEPT !.before = Contents]
    <2>1. Begin(o, c0) /\ UNCHANGED backups /\ k \in DOMAIN backups
        BY <1>4 DEF Rollback
    <2>2. c = [at |-> "undo", run |-> "rollback", plan |-> << >>, todo |-> {}, cut |-> FALSE,
               backup |-> k, result |-> "none", before |-> Contents,
               touched |-> {}, late |-> {}]
        <3> DEFINE was == Contents
        <3> HIDE DEF was
        <3>1. c = [[None EXCEPT !.run = "rollback", !.at = "undo", !.backup = k]
                     EXCEPT !.before = was]
            BY DEF was
        <3> HIDE DEF c
        <3>2. c = [at |-> "undo", run |-> "rollback", plan |-> << >>, todo |-> {}, cut |-> FALSE,
                   backup |-> k, result |-> "none", before |-> was,
                   touched |-> {}, late |-> {}]
            BY <3>1, NoneIs
        <3> QED
            BY <3>2 DEF was
    <2> HIDE DEF c
    <2>3. c \in Commands
        <3>1. k \in Nat
            BY <1>0, <2>1 DEF DeployTypeOK
        <3> QED
            BY <1>c, <2>2, <3>1 DEF Commands
    <2>4. CommandFits(c, source, runtime, link, backups') /\ c.at = "undo"
        BY <2>1, <2>2 DEF CommandFits, BackupFits, DeployFits, StageFits, RestoreFits, EndFits
    <2>5. backups' \in Seq(Archives)
        BY <1>0, <2>1 DEF DeployTypeOK
    <2>6. \A p \in Operators \ {o} : Kept(command[p], backups, backups')
        BY <2>1, NoneKept
    <2>7. c = [c0 EXCEPT !.before = Contents]
        BY DEF c
    <2> HIDE DEF c0
    <2> QED
        BY <2>1, <2>3, <2>4, <2>5, <2>6, <2>7, BeginKeeps
<1> QED
    BY <1>1, <1>2, <1>3, <1>4

-----------------------------------------------------------------------------
(* What the invariant says of one command.                                 *)
LEMMA OfCommand ==
    ASSUME DeployInv, NEW o \in Operators
    PROVE  /\ command[o] \in Commands
           /\ CommandFits(command[o], source, runtime, link, backups)
           /\ source \in [SourceFiles -> Values] /\ runtime \in [RuntimeFiles -> Values]
           /\ backups \in Seq(Archives) /\ calls \in Nat /\ troubles \in Nat
BY DEF DeployInv, DeployTypeOK, CommandsFit

LEMMA OfBackup ==
    ASSUME DeployInv, NEW k \in DOMAIN backups
    PROVE  /\ backups[k] \in Archives
           /\ backups[k].files \in FileSets /\ backups[k].done \in BOOLEAN
           /\ DOMAIN backups[k].files \subseteq AllFiles
           /\ \A f \in DOMAIN backups[k].files : backups[k].files[f] \in Values
<1>1. backups \in Seq(Archives)
    BY DEF DeployInv, DeployTypeOK
<1>2. backups[k] \in Archives
    BY <1>1
<1>3. backups[k].files \in FileSets /\ backups[k].done \in BOOLEAN
    BY <1>2 DEF Archives
<1>4. PICK S \in SUBSET AllFiles : backups[k].files \in [S -> Values]
    BY <1>3 DEF FileSets
<1> QED
    BY <1>2, <1>3, <1>4

(* The command of o decides, and no file changes.                          *)
LEMMA DecisionKeeps ==
    ASSUME DeployInv, NEW o \in Operators, NEW c \in Commands, Step(o, c),
           UNCHANGED <<source, runtime, link, backups, calls>>, troubles' \in Nat,
           c.at # "backup", CommandFits(c, source, runtime, link, backups)
    PROVE  DeployInv'
<1>1. /\ source' \in [SourceFiles -> Values] /\ runtime' \in [RuntimeFiles -> Values]
      /\ backups' \in Seq(Archives) /\ calls' \in Nat
    BY OfCommand
<1>2. \A p \in Operators \ {o} : Kept(command[p], backups, backups')
    BY NoneKept
<1> QED
    BY <1>1, <1>2, StepKeeps

(* The command of o writes a file.                                         *)
LEMMA WriteKeeps ==
    ASSUME DeployInv, NEW o \in Operators, NEW c \in Commands, NEW f \in AllFiles,
           command' = Noted(o, f, c),
           \A g \in AllFiles \ {f} :
               ContentIn(g, source', runtime') = ContentIn(g, source, runtime),
           source' \in [SourceFiles -> Values], runtime' \in [RuntimeFiles -> Values],
           UNCHANGED <<link, backups, calls, troubles>>,
           c.at # "backup", CommandFits(c, source', runtime', link, backups)
    PROVE  DeployInv'
<1>1. backups' \in Seq(Archives) /\ calls' \in Nat /\ troubles' \in Nat
    BY OfCommand
<1>2. \A p \in Operators \ {o} : Kept(command[p], backups, backups')
    BY NoneKept
<1>3. \E g \in AllFiles :
         /\ command' = Noted(o, g, c)
         /\ \A h \in AllFiles \ {g} :
               ContentIn(h, source', runtime') = ContentIn(h, source, runtime)
    OBVIOUS
<1> QED
    BY <1>1, <1>2, <1>3, StepKeeps

(* Others act, and every command takes note of it.                         *)
LEMMA OthersKeep ==
    ASSUME DeployInv, DOMAIN command' = Operators,
           command' = [p \in Operators |-> command'[p]],
           \A p \in Operators :
               Noticed(command[p], command'[p], source, runtime, link, source', runtime', link'),
           source' \in [SourceFiles -> Values], runtime' \in [RuntimeFiles -> Values],
           link' \in {"valid", "invalid"}, UNCHANGED <<backups, calls>>, troubles' \in Nat
    PROVE  DeployInv'
<1>1. ASSUME NEW p \in Operators
      PROVE  /\ command'[p] \in Commands
             /\ CommandFits(command'[p], source', runtime', link', backups')
             /\ command'[p].at = command[p].at /\ command'[p].backup = command[p].backup
    <2>1. command[p] \in Commands /\ CommandFits(command[p], source, runtime, link, backups)
          /\ backups \in Seq(Archives)
        BY OfCommand
    <2>2. Kept(command[p], backups, backups')
        BY NoneKept
    <2>3. Noticed(command[p], command'[p], source, runtime, link, source', runtime', link')
        OBVIOUS
    <2>4. command'[p].at = command[p].at /\ command'[p].backup = command[p].backup
        <3>1. PICK t, l \in SUBSET (AllFiles \union {"link"}) :
                 command'[p] = [command[p] EXCEPT !.touched = t, !.late = l]
            BY <2>3 DEF Noticed
        <3> QED
            BY <2>1, <3>1 DEF Commands
    <2> QED
        BY <2>1, <2>2, <2>3, <2>4, NoticedFits
<1>2. DeployTypeOK /\ OwnBackups
    BY DEF DeployInv
<1>3. DeployTypeOK'
    BY <1>1, <1>2 DEF DeployTypeOK
<1>4. CommandsFit'
    BY <1>1 DEF CommandsFit
<1>5. OwnBackups'
    BY <1>1, <1>2 DEF OwnBackups
<1> QED
    BY <1>3, <1>4, <1>5 DEF DeployInv

-----------------------------------------------------------------------------
(* The directory that o is saving into is nobody else's, and not done.     *)
LEMMA OwnDirectory ==
    ASSUME DeployInv, NEW o \in Operators, command[o].at = "backup", NEW a \in Archives,
           backups' = [backups EXCEPT ![command[o].backup] = a]
    PROVE  /\ backups' \in Seq(Archives)
           /\ command[o].backup \in DOMAIN backups /\ ~backups[command[o].backup].done
           /\ DOMAIN backups' = DOMAIN backups /\ backups'[command[o].backup] = a
           /\ \A p \in Operators \ {o} : Kept(command[p], backups, backups')
<1>1. /\ command[o].backup \in DOMAIN backups /\ ~backups[command[o].backup].done
      /\ backups \in Seq(Archives)
    BY OfCommand DEF CommandFits, BackupFits
<1>2. /\ backups' \in Seq(Archives) /\ DOMAIN backups' = DOMAIN backups
      /\ backups'[command[o].backup] = a
      /\ \A k \in DOMAIN backups \ {command[o].backup} : backups'[k] = backups[k]
    BY <1>1
<1>3. \A p \in Operators \ {o} : Kept(command[p], backups, backups')
    BY <1>1, <1>2 DEF DeployInv, OwnBackups, Kept
<1> QED
    BY <1>1, <1>2, <1>3

LEMMA BackupKeeps ==
    ASSUME DeployInv, NEW o \in Operators, Backup(o)
    PROVE  DeployInv'
<1> DEFINE c == command[o]
           i == First(c.todo)
           e == c.plan[i]
           k == c.backup
           a == [backups[k] EXCEPT !.files = With(@, e.file, Content(e.file))]
           d == Goto(o, "backup", Rest(c.todo))
<1>1. /\ c \in Commands /\ CommandFits(c, source, runtime, link, backups)
      /\ source \in [SourceFiles -> Values] /\ runtime \in [RuntimeFiles -> Values]
      /\ backups \in Seq(Archives) /\ calls \in Nat /\ troubles \in Nat
    BY OfCommand
<1>2. /\ c.at = "backup" /\ c.todo # {} /\ Step(o, d)
      /\ UNCHANGED <<source, runtime, link, calls, troubles>>
    BY DEF Backup
<1>3. /\ c.run \in {"deploy", "archive"} /\ k \in DOMAIN backups /\ ~backups[k].done
      /\ c.plan \in Plans /\ c.todo \subseteq Of(c.plan, SavedKinds)
      /\ Same(c, c.before, source, runtime)
      /\ \A f \in DOMAIN backups[k].files \ c.touched : backups[k].files[f] = c.before[f]
      /\ \A j \in Of(c.plan, SavedKinds) \ c.todo : c.plan[j].file \in DOMAIN backups[k].files
    BY <1>1, <1>2 DEF CommandFits, BackupFits
<1>4. c.todo \in SUBSET (1 .. 6) /\ e.file \in AllFiles /\ i \in c.todo
    <2>1. Of(c.plan, SavedKinds) \subseteq 1 .. 6
          /\ \A j \in Of(c.plan, SavedKinds) : c.plan[j].file \in AllFiles
        BY <1>3, PlanFacts DEF Of
    <2>2. i \in c.todo
        BY <1>2, <1>3, <2>1, FirstIsIn
    <2> QED
        BY <1>3, <2>1, <2>2
<1>5. Content(e.file) \in Values
    BY <1>1, <1>4 DEF Content, AllFiles, SourceFiles
<1>6. backups[k] \in Archives /\ backups[k].files \in FileSets
    BY <1>3, OfBackup
<1> DEFINE more == With(backups[k].files, e.file, Content(e.file))
<1>7. /\ more \in FileSets /\ DOMAIN more = DOMAIN backups[k].files \union {e.file}
      /\ more[e.file] = Content(e.file)
      /\ \A g \in DOMAIN backups[k].files \ {e.file} : more[g] = backups[k].files[g]
    <2> DEFINE f == e.file
               v == Content(f)
               files == backups[k].files
    <2>1. f \in AllFiles /\ v \in Values /\ files \in FileSets /\ more = With(files, f, v)
        BY <1>4, <1>5, <1>6
    <2> HIDE DEF f, v, files, more
    <2>2. /\ With(files, f, v) \in FileSets
          /\ DOMAIN With(files, f, v) = DOMAIN files \union {f}
          /\ With(files, f, v)[f] = v
          /\ \A g \in DOMAIN files \ {f} : With(files, f, v)[g] = files[g]
        BY <2>1, OneMore
    <2>3. /\ more \in FileSets /\ DOMAIN more = DOMAIN files \union {f} /\ more[f] = v
          /\ \A g \in DOMAIN files \ {f} : more[g] = files[g]
        BY <2>1, <2>2
    <2> QED
        BY <2>3 DEF f, v, files
<1> HIDE DEF more
<1>8. a = [files |-> more, done |-> backups[k].done] /\ a \in Archives
    <2>1. a = [backups[k] EXCEPT !.files = more]
        BY DEF more
    <2> HIDE DEF a, k
    <2> QED
        BY <1>6, <1>7, <2>1 DEF Archives
<1>9. backups' = [backups EXCEPT ![k] = a]
    <2>1. backups' = [backups EXCEPT ![k].files = With(@, e.file, Content(e.file))]
        BY DEF Backup, Saved
    <2> QED
        BY <2>1
<1> HIDE DEF a
<1>10. /\ backups' \in Seq(Archives) /\ DOMAIN backups' = DOMAIN backups
       /\ backups'[k] = a /\ \A p \in Operators \ {o} : Kept(command[p], backups, backups')
    BY <1>2, <1>8, <1>9, OwnDirectory
<1>11. /\ d \in Commands /\ d.at = "backup" /\ d.todo = Rest(c.todo) /\ d.run = c.run
       /\ d.plan = c.plan /\ d.cut = c.cut /\ d.backup = k /\ d.before = c.before
       /\ d.touched = c.touched
    <2>1. Rest(c.todo) \in SUBSET (1 .. 6)
        BY <1>4 DEF Rest
    <2>2. d = [c EXCEPT !.at = "backup", !.todo = Rest(c.todo)]
        BY DEF Goto
    <2> HIDE DEF c, d, k
    <2>3. Rest(c.todo) \in (SUBSET (1 .. 6)) \union (SUBSET AllFiles)
        BY <2>1
    <2> QED
        BY <1>1, <2>2, <2>3 DEF Commands, k
<1> HIDE DEF d
<1>12. CommandFits(d, source', runtime', link', backups')
    <2>1. BackupFits(d, source', runtime', backups')
        <3>1. backups'[k].files = more /\ ~backups'[k].done
            BY <1>3, <1>8, <1>10
        <3>2. e.file \notin c.touched => Content(e.file) = c.before[e.file]
            <4>1. DOMAIN c.before = AllFiles
                BY <1>1 DEF Commands
            <4> QED
                BY <1>3, <1>4, <4>1, ContentIs DEF Same
        <3>3. \A f \in DOMAIN more \ d.touched : more[f] = d.before[f]
            BY <1>3, <1>7, <1>11, <3>2
        <3>4. \A j \in Of(d.plan, SavedKinds) \ d.todo : d.plan[j].file \in DOMAIN more
            BY <1>3, <1>7, <1>11 DEF Rest
        <3>5. Same(d, d.before, source', runtime')
            BY <1>2, <1>3, <1>11 DEF Same
        <3>6. d.todo \subseteq Of(d.plan, SavedKinds)
            BY <1>3, <1>11 DEF Rest
        <3> QED
            BY <1>3, <1>10, <1>11, <3>1, <3>3, <3>4, <3>5, <3>6 DEF BackupFits
    <2>2. DeployFits(d, source', runtime', link', backups')
        BY <1>1, <1>2, <1>11 DEF CommandFits, DeployFits, Deploying
    <2>3. StageFits(d, source', runtime') /\ RestoreFits(d, source', runtime', link', backups')
          /\ EndFits(d, source', runtime', link', backups')
        BY <1>1, <1>2, <1>11 DEF CommandFits, StageFits, RestoreFits, EndFits
    <2> QED
        BY <2>1, <2>2, <2>3 DEF CommandFits
<1>13. \A p \in Operators \ {o} : command[p].at = "backup" => command[p].backup # d.backup
    BY <1>2, <1>11 DEF DeployInv, OwnBackups
<1>14. source' \in [SourceFiles -> Values] /\ runtime' \in [RuntimeFiles -> Values]
       /\ calls' \in Nat /\ troubles' \in Nat /\ UNCHANGED <<source, runtime>> /\ UNCHANGED link
    BY <1>1, <1>2
<1> HIDE DEF c, k
<1> QED
    BY <1>2, <1>10, <1>11, <1>12, <1>13, <1>14, StepKeeps

LEMMA BackupWrittenKeeps ==
    ASSUME DeployInv, NEW o \in Operators, BackupWritten(o)
    PROVE  DeployInv'
<1> DEFINE c == command[o]
           k == c.backup
           a == [backups[k] EXCEPT !.done = TRUE]
           d == IF c.run = "archive" THEN Ended(o, "saved")
                ELSE Goto(o, "copy", Of(c.plan, {"copy"}))
<1>1. /\ c \in Commands /\ CommandFits(c, source, runtime, link, backups)
      /\ source \in [SourceFiles -> Values] /\ runtime \in [RuntimeFiles -> Values]
      /\ backups \in Seq(Archives) /\ calls \in Nat /\ troubles \in Nat
    BY OfCommand
<1>2. /\ c.at = "backup" /\ c.todo = {} /\ Step(o, d)
      /\ UNCHANGED <<source, runtime, link, calls, troubles>>
      /\ backups' = [backups EXCEPT ![k].done = TRUE]
    BY DEF BackupWritten
<1>3. /\ c.run \in {"deploy", "archive"} /\ k \in DOMAIN backups
      /\ c.plan \in Plans
      /\ Same(c, c.before, source, runtime)
      /\ \A f \in DOMAIN backups[k].files \ c.touched : backups[k].files[f] = c.before[f]
      /\ \A j \in Of(c.plan, SavedKinds) : c.plan[j].file \in DOMAIN backups[k].files
    BY <1>1, <1>2 DEF CommandFits, BackupFits
<1>4. a \in Archives /\ a.done /\ a.files = backups[k].files
    BY <1>3, OfBackup DEF Archives
<1>5. backups' = [backups EXCEPT ![k] = a]
    BY <1>2
<1> HIDE DEF a
<1>6. /\ backups' \in Seq(Archives) /\ DOMAIN backups' = DOMAIN backups
      /\ backups'[k] = a /\ \A p \in Operators \ {o} : Kept(command[p], backups, backups')
    BY <1>2, <1>4, <1>5, OwnDirectory
<1>7. DOMAIN c.before = AllFiles
    BY <1>1 DEF Commands
<1> HIDE DEF k
<1>8. d \in Commands /\ d.at # "backup" /\ CommandFits(d, source', runtime', link', backups')
    <2>1. CASE c.run = "archive"
        <3>1. d = [c EXCEPT !.at = "ended", !.result = "saved"]
            BY <2>1 DEF Ended
        <3> HIDE DEF c, d
        <3>2. /\ d \in Commands /\ d.at = "ended" /\ d.result = "saved"
              /\ d.before = c.before /\ d.touched = c.touched
            BY <1>1, <3>1 DEF Commands
        <3>3. EndFits(d, source', runtime', link', backups')
            BY <1>2, <1>3, <3>2 DEF EndFits, Same
        <3> QED
            BY <3>2, <3>3, EndedFits
    <2>2. CASE c.run = "deploy"
        <3>1. d = [c EXCEPT !.at = "copy", !.todo = Of(c.plan, {"copy"})]
            BY <2>2 DEF Goto
        <3>2. Of(c.plan, {"copy"}) \in (SUBSET (1 .. 6)) \union (SUBSET AllFiles)
            BY <1>3, PlanFacts DEF Of
        <3> HIDE DEF c, d
        <3>3. /\ d \in Commands /\ d.at = "copy" /\ d.todo = Of(c.plan, {"copy"})
              /\ d.run = c.run /\ d.plan = c.plan /\ d.cut = c.cut /\ d.backup = c.backup
              /\ d.before = c.before /\ d.touched = c.touched
            BY <1>1, <3>1, <3>2 DEF Commands
        <3>4. DeployFits(d, source', runtime', link', backups')
            <4>1. c.touched = {} => link = "valid" /\ c.plan = PlanOf(source)
                BY <1>1, <1>2, <2>2 DEF CommandFits, DeployFits
            <4>2. d.backup = k
                BY <3>3 DEF k, c
            <4>3. \A f \in (AllFiles \ DOMAIN a.files) \ c.touched :
                      ContentIn(f, source, runtime) = c.before[f]
                BY <1>3, <1>7 DEF Same
            <4>4. /\ d.backup \in DOMAIN backups' /\ backups'[d.backup].done
                  /\ backups'[d.backup].files = a.files
                BY <1>3, <1>4, <1>6, <4>2
            <4>5. /\ \A i \in Of(d.plan, SavedKinds) : d.plan[i].file \in DOMAIN a.files
                  /\ \A f \in DOMAIN a.files \ d.touched : a.files[f] = d.before[f]
                  /\ \A f \in (AllFiles \ DOMAIN a.files) \ d.touched :
                        ContentIn(f, source', runtime') = d.before[f]
                BY <1>2, <1>3, <1>4, <3>3, <4>3
            <4>6. d.plan \in Plans /\ (d.touched = {} => link' = "valid" /\ d.plan = PlanOf(source'))
                BY <1>2, <1>3, <3>3, <4>1
            <4> HIDE DEF d, a
            <4> QED
                BY <4>4, <4>5, <4>6 DEF DeployFits
        <3>5. StageFits(d, source', runtime')
            BY <1>1, <1>2, <2>2, <3>3 DEF CommandFits, StageFits
        <3>6. BackupFits(d, source', runtime', backups')
              /\ RestoreFits(d, source', runtime', link', backups')
              /\ EndFits(d, source', runtime', link', backups')
            BY <3>3 DEF BackupFits, RestoreFits, EndFits
        <3> QED
            BY <3>3, <3>4, <3>5, <3>6 DEF CommandFits
    <2> QED
        BY <1>3, <2>1, <2>2
<1>9. source' \in [SourceFiles -> Values] /\ runtime' \in [RuntimeFiles -> Values]
      /\ calls' \in Nat /\ troubles' \in Nat /\ UNCHANGED <<source, runtime>> /\ UNCHANGED link
    BY <1>1, <1>2
<1> HIDE DEF c, d
<1> QED
    BY <1>2, <1>6, <1>8, <1>9, StepKeeps

-----------------------------------------------------------------------------
(* A deployment that fails turns to what it saved.                         *)
LEMMA TurnsBack ==
    ASSUME NEW c \in Commands, c.at \in {"copy", "remove"}, NEW src, NEW rt, NEW ln, NEW bk,
           CommandFits(c, src, rt, ln, bk),
           NEW d, d = [c EXCEPT !.at = "undo", !.todo = {}]
    PROVE  d \in Commands /\ d.at = "undo" /\ CommandFits(d, src, rt, ln, bk)
<1>1. /\ d \in Commands /\ d.at = "undo" /\ d.todo = {} /\ d.run = c.run /\ d.plan = c.plan
      /\ d.cut = c.cut /\ d.backup = c.backup /\ d.before = c.before /\ d.touched = c.touched
    BY DEF Commands
<1>2. c.run = "deploy"
    BY DEF CommandFits, StageFits
<1>3. DeployFits(d, src, rt, ln, bk) /\ d.backup \in DOMAIN bk
    BY <1>1, <1>2 DEF CommandFits, DeployFits, Deploying
<1>4. BackupFits(d, src, rt, bk) /\ EndFits(d, src, rt, ln, bk)
    BY <1>1 DEF BackupFits, EndFits
<1>5. StageFits(d, src, rt)
    BY <1>1 DEF CommandFits, StageFits
<1>6. RestoreFits(d, src, rt, ln, bk)
    BY <1>1, <1>2, <1>3 DEF RestoreFits
<1> QED
    BY <1>1, <1>3, <1>4, <1>5, <1>6 DEF CommandFits

LEMMA ParityKeeps ==
    ASSUME DeployInv, NEW o \in Operators, Parity(o)
    PROVE  DeployInv'
<1> DEFINE c == command[o]
           fine == /\ \A i \in Of(c.plan, {"copy"}) :
                         ~(source[c.plan[i].file] = Missing
                           \/ runtime[c.plan[i].file] # source[c.plan[i].file])
                   /\ \A i \in Of(c.plan, {"projected"}) :
                         ~(Missing \in {source[c.plan[i].file], runtime[c.plan[i].file]})
                   /\ link = "valid" /\ EvidenceHolds
           d == IF fine
                THEN [Goto(o, "remove", Of(c.plan, {"remove"})) EXCEPT !.late = {}]
                ELSE Goto(o, "undo", {})
<1>1. /\ c \in Commands /\ CommandFits(c, source, runtime, link, backups)
      /\ runtime \in [RuntimeFiles -> Values] /\ troubles \in Nat
    BY OfCommand
<1>2. /\ c.at = "copy" /\ c.todo = {} /\ Step(o, d)
      /\ UNCHANGED <<source, runtime, link, backups, calls, troubles>>
    BY DEF Parity
<1>3. c.run = "deploy" /\ ~c.cut
    BY <1>1, <1>2 DEF CommandFits, StageFits
<1>4. c.plan \in Plans
    BY <1>1, <1>2, <1>3 DEF CommandFits, DeployFits, Deploying
<1>5. CASE ~fine
    <2>1. d = [c EXCEPT !.at = "undo", !.todo = {}]
        BY <1>5 DEF Goto
    <2> HIDE DEF c, d, fine
    <2>2. d \in Commands /\ d.at = "undo" /\ CommandFits(d, source, runtime, link, backups)
        BY <1>1, <1>2, <2>1, TurnsBack
    <2> QED
        BY <1>1, <1>2, <2>2, DecisionKeeps
<1>6. CASE fine
    <2>1. d = [[c EXCEPT !.at = "remove", !.todo = Of(c.plan, {"remove"})] EXCEPT !.late = {}]
        BY <1>6 DEF Goto
    <2>2. Of(c.plan, {"remove"}) \in (SUBSET (1 .. 6)) \union (SUBSET AllFiles)
        BY <1>4, PlanFacts DEF Of
    <2>3. \A i \in Of(c.plan, {"copy"}) : runtime[c.plan[i].file] = source[c.plan[i].file]
        BY <1>6
    <2>4. /\ runtime["alias"] = Missing /\ runtime["orphan"] # Missing
          => runtime["orphan"] = Approved
        BY <1>6 DEF EvidenceHolds, Examined
    <2> HIDE DEF c, d, fine
    <2>5. /\ d \in Commands /\ d.at = "remove" /\ d.todo = Of(c.plan, {"remove"})
          /\ d.run = c.run /\ d.plan = c.plan /\ d.cut = c.cut /\ d.backup = c.backup
          /\ d.before = c.before /\ d.touched = c.touched
        BY <1>1, <2>1, <2>2 DEF Commands
    <2>6. DeployFits(d, source, runtime, link, backups)
        BY <1>1, <1>2, <1>3, <2>5 DEF CommandFits, DeployFits, Deploying
    <2>7. StageFits(d, source, runtime)
        BY <1>3, <2>3, <2>4, <2>5 DEF StageFits
    <2>8. BackupFits(d, source, runtime, backups)
          /\ RestoreFits(d, source, runtime, link, backups)
          /\ EndFits(d, source, runtime, link, backups)
        BY <2>5 DEF BackupFits, RestoreFits, EndFits
    <2>9. CommandFits(d, source, runtime, link, backups) /\ d.at # "backup"
        BY <2>5, <2>6, <2>7, <2>8 DEF CommandFits
    <2> QED
        BY <1>1, <1>2, <2>5, <2>9, DecisionKeeps
<1> QED
    BY <1>5, <1>6

LEMMA ReceiptKeeps ==
    ASSUME DeployInv, NEW o \in Operators, Receipt(o)
    PROVE  DeployInv'
<1> DEFINE c == command[o]
           fine == /\ \A i \in Of(c.plan, {"remove"}) : runtime[c.plan[i].file] = Missing
                   /\ PreActivation
           d == IF fine THEN Ended(o, "deployed") ELSE Goto(o, "undo", {})
<1>1. /\ c \in Commands /\ CommandFits(c, source, runtime, link, backups) /\ troubles \in Nat
    BY OfCommand
<1>2. /\ c.at = "remove" /\ c.todo = {} /\ Step(o, d)
      /\ UNCHANGED <<source, runtime, link, backups, calls, troubles>>
    BY DEF Receipt
<1>3. CASE ~fine
    <2>1. d = [c EXCEPT !.at = "undo", !.todo = {}]
        BY <1>3 DEF Goto
    <2> HIDE DEF c, d, fine
    <2>2. d \in Commands /\ d.at = "undo" /\ CommandFits(d, source, runtime, link, backups)
        BY <1>1, <1>2, <2>1, TurnsBack
    <2> QED
        BY <1>1, <1>2, <2>2, DecisionKeeps
<1>4. CASE fine
    <2>1. d = [c EXCEPT !.at = "ended", !.result = "deployed"]
        BY <1>4 DEF Ended
    <2>2. c.touched = {} =>
              /\ link = "valid" /\ c.plan = PlanOf(source)
              /\ \A i \in Of(c.plan, {"copy"}) : runtime[c.plan[i].file] = source[c.plan[i].file]
        BY <1>1, <1>2 DEF CommandFits, DeployFits, StageFits, Deploying
    <2>3. \A i \in Of(c.plan, {"remove"}) : runtime[c.plan[i].file] = Missing
        BY <1>4
    <2> HIDE DEF c, d, fine
    <2>4. d \in Commands /\ d.at = "ended" /\ d.result = "deployed" /\ d.touched = c.touched
        BY <1>1, <2>1 DEF Commands
    <2>5. EndFits(d, source, runtime, link, backups)
        BY <2>2, <2>3, <2>4 DEF EndFits
    <2>6. CommandFits(d, source, runtime, link, backups) /\ d.at # "backup"
        BY <2>4, <2>5, EndedFits
    <2> QED
        BY <1>1, <1>2, <2>4, <2>6, DecisionKeeps
<1> QED
    BY <1>3, <1>4

LEMMA UndoKeeps ==
    ASSUME DeployInv, NEW o \in Operators, Undo(o)
    PROVE  DeployInv'
<1> DEFINE c == command[o]
           d == IF ~backups[c.backup].done THEN Ended(o, "unreadable")
                ELSE IF link # "valid" THEN Ended(o, "bad_link")
                ELSE Goto(o, "restore", Records(c.backup))
<1>1. /\ c \in Commands /\ CommandFits(c, source, runtime, link, backups) /\ troubles \in Nat
    BY OfCommand
<1>2. /\ c.at = "undo" /\ Step(o, d)
      /\ UNCHANGED <<source, runtime, link, backups, calls, troubles>>
    BY DEF Undo
<1>3. c.run \in {"deploy", "rollback"} /\ c.backup \in DOMAIN backups /\ ~c.cut
    BY <1>1, <1>2 DEF CommandFits, RestoreFits, StageFits
<1>4. c.run = "deploy" =>
          backups[c.backup].done /\ (c.touched = {} => link = "valid")
    BY <1>1, <1>2 DEF CommandFits, DeployFits, Deploying
<1>5. CASE ~backups[c.backup].done
    <2>1. d = [c EXCEPT !.at = "ended", !.result = "unreadable"]
        BY <1>5 DEF Ended
    <2> HIDE DEF c, d
    <2>2. d \in Commands /\ d.at = "ended" /\ d.result = "unreadable" /\ d.run = c.run
        BY <1>1, <2>1 DEF Commands
    <2>3. EndFits(d, source, runtime, link, backups)
        BY <1>3, <1>4, <1>5, <2>2 DEF EndFits
    <2>4. CommandFits(d, source, runtime, link, backups) /\ d.at # "backup"
        BY <2>2, <2>3, EndedFits
    <2> QED
        BY <1>1, <1>2, <2>2, <2>4, DecisionKeeps
<1>6. CASE backups[c.backup].done /\ link # "valid"
    <2>1. d = [c EXCEPT !.at = "ended", !.result = "bad_link"]
        BY <1>6 DEF Ended
    <2> HIDE DEF c, d
    <2>2. d \in Commands /\ d.at = "ended" /\ d.result = "bad_link" /\ d.run = c.run
          /\ d.touched = c.touched
        BY <1>1, <2>1 DEF Commands
    <2>3. EndFits(d, source, runtime, link, backups)
        BY <1>4, <1>6, <2>2 DEF EndFits
    <2>4. CommandFits(d, source, runtime, link, backups) /\ d.at # "backup"
        BY <2>2, <2>3, EndedFits
    <2> QED
        BY <1>1, <1>2, <2>2, <2>4, DecisionKeeps
<1>7. CASE backups[c.backup].done /\ link = "valid"
    <2>1. d = [c EXCEPT !.at = "restore", !.todo = Records(c.backup)]
        BY <1>7 DEF Goto
    <2>2. Records(c.backup) \in (SUBSET (1 .. 6)) \union (SUBSET AllFiles)
        <3>1. DOMAIN backups[c.backup].files \subseteq AllFiles
            BY <1>3, OfBackup
        <3>2. Records(c.backup) \in SUBSET AllFiles
            BY <3>1 DEF Records
        <3> QED
            BY <3>2
    <2> HIDE DEF c, d
    <2>3. /\ d \in Commands /\ d.at = "restore" /\ d.todo = Records(c.backup)
          /\ d.run = c.run /\ d.plan = c.plan /\ d.cut = c.cut /\ d.backup = c.backup
          /\ d.before = c.before /\ d.touched = c.touched
        BY <1>1, <2>1, <2>2 DEF Commands
    <2>4. DeployFits(d, source, runtime, link, backups)
        BY <1>1, <1>2, <2>3 DEF CommandFits, DeployFits, Deploying
    <2>5. RestoreFits(d, source, runtime, link, backups)
        BY <1>3, <1>7, <2>3 DEF RestoreFits, Records
    <2>6. BackupFits(d, source, runtime, backups) /\ StageFits(d, source, runtime)
          /\ EndFits(d, source, runtime, link, backups)
        BY <2>3 DEF BackupFits, StageFits, EndFits
    <2>7. CommandFits(d, source, runtime, link, backups) /\ d.at # "backup"
        BY <2>3, <2>4, <2>5, <2>6 DEF CommandFits
    <2> QED
        BY <1>1, <1>2, <2>3, <2>7, DecisionKeeps
<1> QED
    BY <1>5, <1>6, <1>7

LEMMA RestoredKeeps ==
    ASSUME DeployInv, NEW o \in Operators, Restored(o)
    PROVE  DeployInv'
<1> DEFINE c == command[o]
           files == backups[c.backup].files
           fine == (\A f \in DOMAIN files : Content(f) = files[f]) /\ link = "valid"
           d == IF fine THEN Ended(o, "undone") ELSE Ended(o, "mismatch")
<1>1. /\ c \in Commands /\ CommandFits(c, source, runtime, link, backups) /\ troubles \in Nat
    BY OfCommand
<1>2. /\ c.at = "restore" /\ c.todo = {} /\ Step(o, d)
      /\ UNCHANGED <<source, runtime, link, backups, calls, troubles>>
    BY DEF Restored
<1>3. /\ c.run \in {"deploy", "rollback"} /\ c.backup \in DOMAIN backups
      /\ backups[c.backup].done
      /\ c.touched = {} => link = "valid" /\ \A f \in DOMAIN files : Content(f) = files[f]
    BY <1>1, <1>2, ContentIs DEF CommandFits, RestoreFits
<1>4. c.run = "deploy" =>
          /\ \A f \in DOMAIN files \ c.touched : files[f] = c.before[f]
          /\ \A f \in (AllFiles \ DOMAIN files) \ c.touched :
                ContentIn(f, source, runtime) = c.before[f]
    BY <1>1, <1>2 DEF CommandFits, DeployFits, Deploying
<1>5. CASE fine
    <2>1. d = [c EXCEPT !.at = "ended", !.result = "undone"]
        BY <1>5 DEF Ended
    <2>2. \A f \in DOMAIN files : ContentIn(f, source, runtime) = files[f]
        BY <1>5, ContentIs
    <2>3. DOMAIN c.before = AllFiles
        BY <1>1 DEF Commands
    <2>4. c.run = "deploy" => Same(c, c.before, source, runtime)
        BY <1>4, <2>2, <2>3 DEF Same
    <2>5. Same(c, backups[c.backup].files, source, runtime)
        BY <2>2 DEF Same
    <2> HIDE DEF c, d, fine, files
    <2>6. /\ d \in Commands /\ d.at = "ended" /\ d.result = "undone" /\ d.run = c.run
          /\ d.touched = c.touched /\ d.before = c.before /\ d.backup = c.backup
        BY <1>1, <2>1 DEF Commands
    <2>7. EndFits(d, source, runtime, link, backups)
        BY <1>3, <2>4, <2>5, <2>6 DEF EndFits, Same
    <2>8. CommandFits(d, source, runtime, link, backups) /\ d.at # "backup"
        BY <2>6, <2>7, EndedFits
    <2> QED
        BY <1>1, <1>2, <2>6, <2>8, DecisionKeeps
<1>6. CASE ~fine
    <2>1. d = [c EXCEPT !.at = "ended", !.result = "mismatch"]
        BY <1>6 DEF Ended
    <2>2. c.touched # {}
        BY <1>3, <1>6
    <2> HIDE DEF c, d, fine, files
    <2>3. d \in Commands /\ d.at = "ended" /\ d.result = "mismatch" /\ d.touched = c.touched
        BY <1>1, <2>1 DEF Commands
    <2>4. EndFits(d, source, runtime, link, backups)
        BY <2>2, <2>3 DEF EndFits
    <2>5. CommandFits(d, source, runtime, link, backups) /\ d.at # "backup"
        BY <2>3, <2>4, EndedFits
    <2> QED
        BY <1>1, <1>2, <2>3, <2>5, DecisionKeeps
<1> QED
    BY <1>5, <1>6

LEMMA KillKeeps ==
    ASSUME DeployInv, NEW o \in Operators, Kill(o)
    PROVE  DeployInv'
<1> DEFINE c == command[o]
           d == [c EXCEPT !.at = "killed"]
<1>1. c \in Commands /\ troubles \in Nat
    BY OfCommand
<1>2. Step(o, d) /\ UNCHANGED <<source, runtime, link, backups, calls>> /\ troubles' = troubles + 1
    BY DEF Kill
<1>3. d \in Commands /\ d.at = "killed"
    BY <1>1 DEF Commands
<1> HIDE DEF c, d
<1>4. CommandFits(d, source, runtime, link, backups)
    BY <1>3 DEF CommandFits, BackupFits, DeployFits, Deploying, StageFits, RestoreFits, EndFits
<1>5. troubles' \in Nat
    BY <1>1, <1>2
<1> QED
    BY <1>2, <1>3, <1>4, <1>5, DecisionKeeps

-----------------------------------------------------------------------------
LEMMA CopyKeeps ==
    ASSUME DeployInv, NEW o \in Operators, Copy(o)
    PROVE  DeployInv'
<1> DEFINE c == command[o]
           i == First(c.todo)
           f == c.plan[i].file
           d == Goto(o, "copy", Rest(c.todo))
           u == Goto(o, "undo", {})
<1>1. /\ c \in Commands /\ CommandFits(c, source, runtime, link, backups)
      /\ source \in [SourceFiles -> Values] /\ runtime \in [RuntimeFiles -> Values]
      /\ troubles \in Nat
    BY OfCommand
<1>2. /\ c.at = "copy" /\ c.todo # {}
      /\ UNCHANGED <<source, link, backups, calls, troubles>>
      /\ \/ runtime' = [runtime EXCEPT ![f] = source[f]] /\ command' = Noted(o, f, d)
         \/ Step(o, u) /\ UNCHANGED runtime
    BY DEF Copy
<1>3. c.run = "deploy" /\ ~c.cut /\ c.todo \subseteq Of(c.plan, {"copy"})
    BY <1>1, <1>2 DEF CommandFits, StageFits
<1>4. c.plan \in Plans
    BY <1>1, <1>2, <1>3 DEF CommandFits, DeployFits, Deploying
<1>5. CASE Step(o, u) /\ UNCHANGED runtime
    <2>1. u = [c EXCEPT !.at = "undo", !.todo = {}]
        BY DEF Goto
    <2> HIDE DEF c, u, f, i, d
    <2>2. u \in Commands /\ u.at = "undo" /\ CommandFits(u, source, runtime, link, backups)
        BY <1>1, <1>2, <2>1, TurnsBack
    <2>3. UNCHANGED <<source, runtime, link, backups, calls>> /\ troubles' \in Nat
        BY <1>1, <1>2, <1>5
    <2> QED
        BY <1>5, <2>2, <2>3, DecisionKeeps
<1>6. CASE runtime' = [runtime EXCEPT ![f] = source[f]] /\ command' = Noted(o, f, d)
    <2>1. /\ c.todo \in SUBSET (1 .. 6) /\ Of(c.plan, {"copy"}) \subseteq Of(c.plan, SavedKinds)
          /\ \A j \in Of(c.plan, {"copy"}) : c.plan[j].file \in {"plugin", "skill"}
        BY <1>3, <1>4, PlanFacts DEF Of
    <2>2. i \in c.todo
        BY <1>2, <2>1, FirstIsIn
    <2>3. f \in {"plugin", "skill"} /\ i \in Of(c.plan, SavedKinds)
        BY <1>3, <2>1, <2>2
    <2>4. f \in AllFiles /\ f \in RuntimeFiles /\ f \in SourceFiles
        BY <2>3 DEF AllFiles, RuntimeFiles, SourceFiles
    <2>5. runtime' \in [RuntimeFiles -> Values]
        BY <1>1, <1>6, <2>4
    <2>6. \A g \in AllFiles \ {f} :
              ContentIn(g, source', runtime') = ContentIn(g, source, runtime)
        BY <1>1, <1>2, <1>6, <2>4 DEF ContentIn, AllFiles
    <2>7. d = [c EXCEPT !.at = "copy", !.todo = Rest(c.todo)]
        BY DEF Goto
    <2>8. Rest(c.todo) \in (SUBSET (1 .. 6)) \union (SUBSET AllFiles)
          /\ Rest(c.todo) \subseteq c.todo
        BY <2>1 DEF Rest
    <2>9. f = c.plan[i].file
        OBVIOUS
    <2> HIDE DEF c, d, i, f
    <2>10. /\ d \in Commands /\ d.at = "copy" /\ d.todo = Rest(c.todo)
           /\ d.run = c.run /\ d.plan = c.plan /\ d.cut = c.cut /\ d.backup = c.backup
           /\ d.before = c.before /\ d.touched = c.touched
        BY <1>1, <2>7, <2>8 DEF Commands
    <2>11. DeployFits(d, source', runtime', link, backups)
        <3> DEFINE files == backups[c.backup].files
        <3>1. /\ c.touched = {} => link = "valid" /\ c.plan = PlanOf(source)
              /\ c.backup \in DOMAIN backups /\ backups[c.backup].done
              /\ \A j \in Of(c.plan, SavedKinds) : c.plan[j].file \in DOMAIN files
              /\ \A g \in DOMAIN files \ c.touched : files[g] = c.before[g]
              /\ \A g \in (AllFiles \ DOMAIN files) \ c.touched :
                    ContentIn(g, source, runtime) = c.before[g]
            BY <1>1, <1>2, <1>3 DEF CommandFits, DeployFits, Deploying
        <3>2. f \in DOMAIN files
            BY <2>3, <2>9, <3>1
        <3>3. \A g \in (AllFiles \ DOMAIN files) \ c.touched :
                  ContentIn(g, source', runtime') = c.before[g]
            BY <2>6, <3>1, <3>2
        <3>4. source' = source
            BY <1>2
        <3> QED
            BY <1>4, <2>10, <3>1, <3>3, <3>4 DEF DeployFits
    <2>12. StageFits(d, source', runtime')
        BY <1>3, <2>8, <2>10 DEF StageFits
    <2>13. /\ BackupFits(d, source', runtime', backups)
           /\ RestoreFits(d, source', runtime', link, backups)
           /\ EndFits(d, source', runtime', link, backups)
        BY <2>10 DEF BackupFits, RestoreFits, EndFits
    <2>14. CommandFits(d, source', runtime', link, backups) /\ d.at # "backup"
        BY <2>10, <2>11, <2>12, <2>13 DEF CommandFits
    <2>15. source' \in [SourceFiles -> Values] /\ command' = Noted(o, f, d)
           /\ UNCHANGED <<link, backups, calls, troubles>>
        BY <1>1, <1>2, <1>6
    <2> QED
        BY <2>4, <2>5, <2>6, <2>10, <2>14, <2>15, WriteKeeps
<1> QED
    BY <1>2, <1>5, <1>6

LEMMA RemoveFileKeeps ==
    ASSUME DeployInv, NEW o \in Operators, RemoveFile(o)
    PROVE  DeployInv'
<1> DEFINE c == command[o]
           i == First(c.todo)
           f == c.plan[i].file
           d == Goto(o, "remove", Rest(c.todo))
<1>1. /\ c \in Commands /\ CommandFits(c, source, runtime, link, backups)
      /\ source \in [SourceFiles -> Values] /\ runtime \in [RuntimeFiles -> Values]
      /\ troubles \in Nat
    BY OfCommand
<1>2. /\ c.at = "remove" /\ c.todo # {}
      /\ UNCHANGED <<source, link, backups, calls, troubles>>
      /\ runtime' = [runtime EXCEPT ![f] = Missing]
      /\ \/ runtime[f] = Missing /\ Step(o, d)
         \/ command' = Noted(o, f, d)
    BY DEF RemoveFile, Step
<1>3. c.run = "deploy" /\ ~c.cut /\ c.todo \subseteq Of(c.plan, {"remove"})
    BY <1>1, <1>2 DEF CommandFits, StageFits
<1>4. c.plan \in Plans
    BY <1>1, <1>2, <1>3 DEF CommandFits, DeployFits, Deploying
<1>5. /\ c.todo \in SUBSET (1 .. 6) /\ Of(c.plan, {"remove"}) \subseteq Of(c.plan, SavedKinds)
      /\ \A j \in Of(c.plan, {"remove"}) : c.plan[j].file \in {"retired", "orphan"}
      /\ \A j \in Of(c.plan, {"copy"}) : c.plan[j].file \in {"plugin", "skill"}
    BY <1>3, <1>4, PlanFacts DEF Of
<1>6. i \in c.todo
    BY <1>2, <1>5, FirstIsIn
<1>7. f \in {"retired", "orphan"} /\ i \in Of(c.plan, SavedKinds)
    BY <1>3, <1>5, <1>6
<1>8. f \in AllFiles /\ f \in RuntimeFiles
    BY <1>7 DEF AllFiles, RuntimeFiles
<1>9. runtime' \in [RuntimeFiles -> Values]
    BY <1>1, <1>2, <1>8 DEF Values
<1>10. /\ \A g \in AllFiles \ {f} :
              ContentIn(g, source', runtime') = ContentIn(g, source, runtime)
       /\ \A g \in RuntimeFiles : runtime'[g] = IF g = f THEN Missing ELSE runtime[g]
    BY <1>1, <1>2, <1>8 DEF ContentIn, AllFiles
<1>11. d = [c EXCEPT !.at = "remove", !.todo = Rest(c.todo)]
    BY DEF Goto
<1>12. Rest(c.todo) \in (SUBSET (1 .. 6)) \union (SUBSET AllFiles)
       /\ Rest(c.todo) \subseteq c.todo
    BY <1>5 DEF Rest
<1>13. f = c.plan[i].file
    OBVIOUS
<1> HIDE DEF c, d, i, f
<1>14. /\ d \in Commands /\ d.at = "remove" /\ d.todo = Rest(c.todo)
       /\ d.run = c.run /\ d.plan = c.plan /\ d.cut = c.cut /\ d.backup = c.backup
       /\ d.before = c.before /\ d.touched = c.touched /\ d.late = c.late
    BY <1>1, <1>11, <1>12 DEF Commands
<1>15. DeployFits(d, source', runtime', link, backups)
    <2> DEFINE files == backups[c.backup].files
    <2>1. /\ c.touched = {} => link = "valid" /\ c.plan = PlanOf(source)
          /\ c.backup \in DOMAIN backups /\ backups[c.backup].done
          /\ \A j \in Of(c.plan, SavedKinds) : c.plan[j].file \in DOMAIN files
          /\ \A g \in DOMAIN files \ c.touched : files[g] = c.before[g]
          /\ \A g \in (AllFiles \ DOMAIN files) \ c.touched :
                ContentIn(g, source, runtime) = c.before[g]
        BY <1>1, <1>2, <1>3 DEF CommandFits, DeployFits, Deploying
    <2>2. f \in DOMAIN files
        BY <1>7, <1>13, <2>1
    <2>3. \A g \in (AllFiles \ DOMAIN files) \ c.touched :
              ContentIn(g, source', runtime') = c.before[g]
        BY <1>10, <2>1, <2>2
    <2>4. source' = source
        BY <1>2
    <2> QED
        BY <1>4, <1>14, <2>1, <2>3, <2>4 DEF DeployFits
<1>16. StageFits(d, source', runtime')
    <2>1. /\ "orphan" \in RuntimeFiles /\ "alias" \in RuntimeFiles
          /\ "plugin" \in RuntimeFiles /\ "skill" \in RuntimeFiles
        BY DEF RuntimeFiles
    <2>2. runtime'["alias"] = runtime["alias"] /\ runtime'["plugin"] = runtime["plugin"]
          /\ runtime'["skill"] = runtime["skill"]
        BY <1>7, <1>10, <2>1
    <2>3. runtime'["orphan"] # Missing => runtime'["orphan"] = runtime["orphan"]
        BY <1>10, <2>1
    <2>4. c.late \intersect {"orphan", "alias"} = {} /\ runtime["alias"] = Missing
             /\ runtime["orphan"] # Missing => runtime["orphan"] = Approved
        BY <1>1, <1>2 DEF CommandFits, StageFits
    <2>5. c.touched = {} =>
              \A j \in Of(c.plan, {"copy"}) : runtime[c.plan[j].file] = source[c.plan[j].file]
        BY <1>1, <1>2 DEF CommandFits, StageFits
    <2>6. c.touched = {} =>
              \A j \in Of(c.plan, {"copy"}) : runtime'[c.plan[j].file] = source'[c.plan[j].file]
        BY <1>2, <1>5, <2>2, <2>5
    <2> QED
        BY <1>3, <1>12, <1>14, <2>2, <2>3, <2>4, <2>6 DEF StageFits
<1>17. /\ BackupFits(d, source', runtime', backups)
       /\ RestoreFits(d, source', runtime', link, backups)
       /\ EndFits(d, source', runtime', link, backups)
    BY <1>14 DEF BackupFits, RestoreFits, EndFits
<1>18. CommandFits(d, source', runtime', link, backups) /\ d.at # "backup"
    BY <1>14, <1>15, <1>16, <1>17 DEF CommandFits
<1>19. CASE command' = Noted(o, f, d)
    <2>1. source' \in [SourceFiles -> Values]
        BY <1>1, <1>2
    <2> QED
        BY <1>2, <1>8, <1>9, <1>10, <1>14, <1>18, <1>19, <2>1, WriteKeeps
<1>20. CASE runtime[f] = Missing /\ Step(o, d)
    <2>1. runtime' = runtime
        BY <1>1, <1>2, <1>20
    <2>2. source' = source
        BY <1>2
    <2>3. CommandFits(d, source, runtime, link, backups)
        BY <1>18, <2>1, <2>2
    <2> QED
        BY <1>1, <1>2, <1>14, <1>18, <1>20, <2>1, <2>3, DecisionKeeps
<1> QED
    BY <1>2, <1>19, <1>20

(* A file of the backup that is being restored.                            *)
LEMMA Restoring ==
    ASSUME DeployInv, NEW o \in Operators,
           command[o].at = "restore", command[o].todo # {}
    PROVE  LET c == command[o]
               f == Whichever(c.todo)
               files == backups[c.backup].files
           IN /\ c.backup \in DOMAIN backups /\ backups[c.backup].done
              /\ c.run \in {"deploy", "rollback"}
              /\ c.todo \subseteq DOMAIN files /\ f \in c.todo /\ f \in AllFiles
              /\ files[f] \in Values /\ DOMAIN files \subseteq AllFiles
<1> DEFINE c == command[o]
<1>1. CommandFits(c, source, runtime, link, backups)
    BY OfCommand
<1>2. /\ c.backup \in DOMAIN backups /\ backups[c.backup].done
      /\ c.run \in {"deploy", "rollback"}
      /\ c.todo \subseteq DOMAIN backups[c.backup].files
    BY <1>1 DEF CommandFits, RestoreFits
<1>3. Whichever(c.todo) \in c.todo
    BY WhicheverIsIn
<1>4. /\ DOMAIN backups[c.backup].files \subseteq AllFiles
      /\ \A f \in DOMAIN backups[c.backup].files : backups[c.backup].files[f] \in Values
    BY <1>2, OfBackup
<1> QED
    BY <1>2, <1>3, <1>4

LEMMA PutIs ==
    ASSUME DeployInv, NEW f \in AllFiles, NEW v \in Values, Put(f, v)
    PROVE  /\ source' \in [SourceFiles -> Values] /\ runtime' \in [RuntimeFiles -> Values]
           /\ ContentIn(f, source', runtime') = v
           /\ \A g \in AllFiles \ {f} :
                 ContentIn(g, source', runtime') = ContentIn(g, source, runtime)
<1>1. source \in [SourceFiles -> Values] /\ runtime \in [RuntimeFiles -> Values]
    BY DEF DeployInv, DeployTypeOK
<1>2. CASE f = "doc"
    BY <1>1, <1>2 DEF Put, ContentIn, SourceFiles
<1>3. CASE f # "doc"
    <2>1. f \in RuntimeFiles /\ runtime' = [runtime EXCEPT ![f] = v] /\ source' = source
        BY <1>3 DEF Put, AllFiles
    <2> QED
        BY <1>1, <1>3, <2>1 DEF ContentIn, AllFiles
<1> QED
    BY <1>2, <1>3

(* A restoration that writes f goes on as d.                               *)
LEMMA RestoreKeeps ==
    ASSUME DeployInv, NEW o \in Operators,
           command[o].at = "restore", command[o].todo # {},
           NEW v \in Values, Put(Whichever(command[o].todo), v),
           NEW cut \in BOOLEAN, NEW todo \in SUBSET command[o].todo, NEW d,
           d = [command[o] EXCEPT !.cut = cut, !.todo = todo],
           command' = Noted(o, Whichever(command[o].todo), d),
           UNCHANGED <<link, backups, calls, troubles>>,
           \/ cut = TRUE /\ todo = command[o].todo /\ v = Missing
           \/ /\ cut = FALSE /\ todo = command[o].todo \ {Whichever(command[o].todo)}
              /\ command[o].touched = {} =>
                    v = backups[command[o].backup].files[Whichever(command[o].todo)]
    PROVE  DeployInv'
<1> DEFINE c == command[o]
           f == Whichever(c.todo)
           files == backups[c.backup].files
<1>1. c \in Commands /\ CommandFits(c, source, runtime, link, backups)
    BY OfCommand
<1>2. /\ c.backup \in DOMAIN backups /\ backups[c.backup].done
      /\ c.run \in {"deploy", "rollback"}
      /\ c.todo \subseteq DOMAIN files /\ f \in c.todo /\ f \in AllFiles
      /\ DOMAIN files \subseteq AllFiles
    BY Restoring
<1>3. /\ source' \in [SourceFiles -> Values] /\ runtime' \in [RuntimeFiles -> Values]
      /\ ContentIn(f, source', runtime') = v
      /\ \A g \in AllFiles \ {f} :
            ContentIn(g, source', runtime') = ContentIn(g, source, runtime)
    BY <1>2, PutIs
<1>4. todo \in (SUBSET (1 .. 6)) \union (SUBSET AllFiles)
    BY <1>2
<1>5. c.at = "restore" /\ d = [c EXCEPT !.cut = cut, !.todo = todo]
      /\ command' = Noted(o, f, d)
      /\ \/ cut = TRUE /\ todo = c.todo /\ v = Missing
         \/ /\ cut = FALSE /\ todo = c.todo \ {f}
            /\ c.touched = {} => v = files[f]
    OBVIOUS
<1>6. c.touched = {} => link = "valid" /\ \A g \in DOMAIN files \ c.todo :
                                              ContentIn(g, source, runtime) = files[g]
    BY <1>1, <1>5 DEF CommandFits, RestoreFits
<1>7. c.run = "deploy" =>
          /\ c.plan \in Plans
          /\ \A j \in Of(c.plan, SavedKinds) : c.plan[j].file \in DOMAIN files
          /\ \A g \in DOMAIN files \ c.touched : files[g] = c.before[g]
          /\ \A g \in (AllFiles \ DOMAIN files) \ c.touched :
                ContentIn(g, source, runtime) = c.before[g]
    BY <1>1, <1>5 DEF CommandFits, DeployFits, Deploying
<1>8. f = Whichever(c.todo) /\ files = backups[c.backup].files
    OBVIOUS
<1>9. c.run = "deploy" /\ c.touched = {} =>  c.plan = PlanOf(source')
    <2>1. c.run = "deploy" /\ c.touched = {} => c.plan = PlanOf(source)
        BY <1>1, <1>5 DEF CommandFits, DeployFits, Deploying
    <2>2. source'["skill"] = source["skill"]
        <3>1. source \in [SourceFiles -> Values]
            BY OfCommand
        <3> QED
            BY <3>1 DEF Put, SourceFiles
    <2> QED
        BY <2>1, <2>2 DEF PlanOf
<1> HIDE DEF c, f, files
<1>10. /\ d \in Commands /\ d.at = "restore" /\ d.todo = todo /\ d.cut = cut
       /\ d.run = c.run /\ d.plan = c.plan /\ d.backup = c.backup
       /\ d.before = c.before /\ d.touched = c.touched
    BY <1>1, <1>4, <1>5 DEF Commands
<1>11. DeployFits(d, source', runtime', link, backups)
    <2>1. \A g \in (AllFiles \ DOMAIN files) \ c.touched :
              ContentIn(g, source', runtime') = ContentIn(g, source, runtime)
        BY <1>2, <1>3
    <2> QED
        BY <1>2, <1>6, <1>7, <1>8, <1>9, <1>10, <2>1 DEF DeployFits
<1>12. RestoreFits(d, source', runtime', link, backups)
    <2>1. todo \subseteq DOMAIN files
        BY <1>2, <1>5
    <2>2. c.touched = {} => \A g \in DOMAIN files \ todo :
                                ContentIn(g, source', runtime') = files[g]
        <3> SUFFICES ASSUME c.touched = {}, NEW g \in DOMAIN files \ todo
                     PROVE  ContentIn(g, source', runtime') = files[g]
            OBVIOUS
        <3>1. CASE g = f
            BY <1>2, <1>3, <1>5, <3>1
        <3>2. CASE g # f
            BY <1>2, <1>3, <1>5, <1>6, <3>2
        <3> QED
            BY <3>1, <3>2
    <2>3. cut /\ todo # {} => ContentIn(Whichever(todo), source', runtime') = Missing
        BY <1>3, <1>5, <1>8
    <2> QED
        BY <1>2, <1>6, <1>8, <1>10, <2>1, <2>2, <2>3 DEF RestoreFits
<1>13. BackupFits(d, source', runtime', backups) /\ StageFits(d, source', runtime')
       /\ EndFits(d, source', runtime', link, backups)
    BY <1>10 DEF BackupFits, StageFits, EndFits
<1>14. CommandFits(d, source', runtime', link, backups) /\ d.at # "backup"
    BY <1>10, <1>11, <1>12, <1>13 DEF CommandFits
<1>15. /\ d \in Commands /\ f \in AllFiles /\ command' = Noted(o, f, d)
       /\ UNCHANGED <<link, backups, calls, troubles>>
       /\ CommandFits(d, source', runtime', link, backups) /\ d.at # "backup"
       /\ source' \in [SourceFiles -> Values] /\ runtime' \in [RuntimeFiles -> Values]
    BY <1>2, <1>3, <1>5, <1>10, <1>14
<1>16. \A g \in AllFiles \ {f} :
           ContentIn(g, source', runtime') = ContentIn(g, source, runtime)
    BY <1>3
<1> QED
    BY <1>15, <1>16, WriteKeeps

LEMMA RestoreUnlinkKeeps ==
    ASSUME DeployInv, NEW o \in Operators, RestoreUnlink(o)
    PROVE  DeployInv'
<1> DEFINE c == command[o]
           d == [c EXCEPT !.cut = TRUE]
<1>1. /\ c.at = "restore" /\ c.todo # {} /\ Put(Whichever(c.todo), Missing)
      /\ command' = Noted(o, Whichever(c.todo), d)
      /\ UNCHANGED <<link, backups, calls, troubles>>
    BY DEF RestoreUnlink
<1>2. c \in Commands
    BY OfCommand
<1>3. d = [c EXCEPT !.cut = TRUE, !.todo = c.todo]
    BY <1>2 DEF Commands
<1>4. Missing \in Values /\ TRUE \in BOOLEAN /\ c.todo \in SUBSET c.todo
    BY DEF Values
<1> HIDE DEF d
<1> QED
    BY <1>1, <1>3, <1>4, RestoreKeeps

LEMMA RestoreCopyKeeps ==
    ASSUME DeployInv, NEW o \in Operators, RestoreCopy(o)
    PROVE  DeployInv'
<1> DEFINE c == command[o]
           f == Whichever(c.todo)
           saved == backups[c.backup].files[f]
           v == IF saved = Missing THEN Content(f) ELSE saved
           d == [c EXCEPT !.cut = FALSE, !.todo = @ \ {f}]
<1>1. /\ c.at = "restore" /\ c.todo # {} /\ (c.cut \/ Content(f) = Missing)
      /\ Put(f, v) /\ command' = Noted(o, f, d)
      /\ UNCHANGED <<link, backups, calls, troubles>>
    BY DEF RestoreCopy
<1>2. c \in Commands /\ CommandFits(c, source, runtime, link, backups)
      /\ source \in [SourceFiles -> Values] /\ runtime \in [RuntimeFiles -> Values]
    BY OfCommand
<1>3. f \in AllFiles /\ saved \in Values
    BY <1>1, Restoring
<1>4. Content(f) \in Values
    BY <1>2, <1>3 DEF Content, AllFiles, SourceFiles
<1>5. c.touched = {} => v = saved
    <2>1. c.touched = {} /\ c.cut => Content(f) = Missing
        BY <1>1, <1>2, ContentIs DEF CommandFits, RestoreFits
    <2> QED
        BY <1>1, <2>1
<1>6. v \in Values /\ FALSE \in BOOLEAN /\ c.todo \ {f} \in SUBSET c.todo
    BY <1>3, <1>4
<1>7. d = [c EXCEPT !.cut = FALSE, !.todo = c.todo \ {f}]
    OBVIOUS
<1> HIDE DEF d, v
<1> QED
    BY <1>1, <1>5, <1>6, <1>7, RestoreKeeps

-----------------------------------------------------------------------------
(* People edit files and change the link.                                  *)
LEMMA EditKeeps ==
    ASSUME DeployInv, NEW f \in AllFiles, NEW v, Edit(f, v),
           source' \in [SourceFiles -> Values], runtime' \in [RuntimeFiles -> Values],
           \A g \in AllFiles \ {f} :
               ContentIn(g, source', runtime') = ContentIn(g, source, runtime)
    PROVE  DeployInv'
<1>1. /\ command' = [p \in Operators |-> [command[p] EXCEPT !.touched = @ \union {f},
                                                            !.late = @ \union {f}]]
    BY DEF Edit
<1>2. ASSUME NEW p \in Operators
      PROVE  Noticed(command[p], command'[p], source, runtime, link, source', runtime', link')
    <2> DEFINE t == command[p].touched \union {f}
               l == command[p].late \union {f}
    <2>1. command[p] \in Commands
        BY OfCommand
    <2>2. command'[p] = [command[p] EXCEPT !.touched = t, !.late = l]
        BY <1>1
    <2>3. t \in SUBSET (AllFiles \union {"link"}) /\ l \in SUBSET (AllFiles \union {"link"})
          /\ command[p].touched \subseteq t /\ command[p].late \subseteq l
        BY <2>1 DEF Commands
    <2>4. command'[p].touched = t /\ command'[p].late = l
        BY <2>1, <2>2 DEF Commands
    <2>5. f \in t /\ f \in l
        OBVIOUS
    <2>6. "orphan" \in AllFiles /\ "alias" \in AllFiles
          /\ \A g \in {"orphan", "alias"} : /\ ContentIn(g, source, runtime) = runtime[g]
                                            /\ ContentIn(g, source', runtime') = runtime'[g]
        BY DEF AllFiles, RuntimeFiles, ContentIn
    <2> HIDE DEF t, l
    <2>7. command'[p].late \intersect {"orphan", "alias"} = {} =>
              runtime'["orphan"] = runtime["orphan"] /\ runtime'["alias"] = runtime["alias"]
        BY <2>4, <2>5, <2>6
    <2>8. command'[p].touched # {}
          /\ \A g \in AllFiles \ command'[p].touched :
                ContentIn(g, source', runtime') = ContentIn(g, source, runtime)
        BY <2>4, <2>5
    <2> QED
        BY <2>2, <2>3, <2>7, <2>8 DEF Noticed
<1>3. DOMAIN command' = Operators /\ command' = [p \in Operators |-> command'[p]]
    BY <1>1
<1>4. link' \in {"valid", "invalid"} /\ UNCHANGED <<backups, calls>> /\ troubles' \in Nat
    <2>1. link \in {"valid", "invalid"} /\ troubles \in Nat
        BY DEF DeployInv, DeployTypeOK
    <2>2. troubles' = troubles + 1 /\ UNCHANGED <<link, backups, calls>>
        BY DEF Edit
    <2> QED
        BY <2>1, <2>2
<1> QED
    BY <1>2, <1>3, <1>4, OthersKeep

LEMMA EditRuntimeKeeps ==
    ASSUME DeployInv, NEW f \in {"plugin", "skill", "orphan", "alias"},
           EditRuntime(f, "edited")
    PROVE  DeployInv'
<1>1. source \in [SourceFiles -> Values] /\ runtime \in [RuntimeFiles -> Values]
    BY DEF DeployInv, DeployTypeOK
<1>2. /\ runtime' = [runtime EXCEPT ![f] = "edited"] /\ source' = source
      /\ Edit(f, "edited")
    BY DEF EditRuntime
<1>3. f \in AllFiles /\ f \in RuntimeFiles /\ "edited" \in Values
    BY DEF AllFiles, RuntimeFiles, Values
<1>4. runtime' \in [RuntimeFiles -> Values] /\ source' \in [SourceFiles -> Values]
    BY <1>1, <1>2, <1>3
<1>5. \A g \in AllFiles \ {f} :
          ContentIn(g, source', runtime') = ContentIn(g, source, runtime)
    BY <1>1, <1>2, <1>3 DEF ContentIn, AllFiles
<1> QED
    BY <1>2, <1>3, <1>4, <1>5, EditKeeps

LEMMA EditSourceKeeps ==
    ASSUME DeployInv, NEW f \in SourceFiles, NEW v \in Values, EditSource(f, v)
    PROVE  DeployInv'
<1>1. source \in [SourceFiles -> Values] /\ runtime \in [RuntimeFiles -> Values]
    BY DEF DeployInv, DeployTypeOK
<1>2. source' = [source EXCEPT ![f] = v] /\ runtime' = runtime /\ Edit(f, v)
    BY DEF EditSource
<1>3. f \in AllFiles
    BY DEF AllFiles, RuntimeFiles, SourceFiles
<1>4. runtime' \in [RuntimeFiles -> Values] /\ source' \in [SourceFiles -> Values]
    BY <1>1, <1>2
<1>5. \A g \in AllFiles \ {f} :
          ContentIn(g, source', runtime') = ContentIn(g, source, runtime)
    BY <1>1, <1>2 DEF ContentIn, AllFiles, SourceFiles
<1> QED
    BY <1>2, <1>3, <1>4, <1>5, EditKeeps

LEMMA RelinkKeeps ==
    ASSUME DeployInv, Relink
    PROVE  DeployInv'
<1>1. /\ command' = [p \in Operators |->
                        [command[p] EXCEPT !.touched = @ \union {"link"}]]
      /\ troubles' = troubles + 1 /\ UNCHANGED <<source, runtime, backups, calls>>
      /\ link' \in {"valid", "invalid"}
    BY DEF Relink
<1>2. ASSUME NEW p \in Operators
      PROVE  Noticed(command[p], command'[p], source, runtime, link, source', runtime', link')
    <2> DEFINE t == command[p].touched \union {"link"}
               l == command[p].late
    <2>1. command[p] \in Commands
        BY OfCommand
    <2>2. command'[p] = [command[p] EXCEPT !.touched = t, !.late = l]
        BY <1>1, <2>1 DEF Commands
    <2>3. t \in SUBSET (AllFiles \union {"link"}) /\ l \in SUBSET (AllFiles \union {"link"})
          /\ command[p].touched \subseteq t /\ command[p].late \subseteq l
        BY <2>1 DEF Commands
    <2>4. command'[p].touched # {}
        BY <2>1, <2>2 DEF Commands
    <2> HIDE DEF t, l
    <2> QED
        BY <1>1, <2>2, <2>3, <2>4 DEF Noticed
<1>3. DOMAIN command' = Operators /\ command' = [p \in Operators |-> command'[p]]
    BY <1>1
<1>4. /\ source' \in [SourceFiles -> Values] /\ runtime' \in [RuntimeFiles -> Values]
      /\ UNCHANGED <<backups, calls>> /\ troubles' \in Nat
    BY <1>1 DEF DeployInv, DeployTypeOK
<1> QED
    BY <1>1, <1>2, <1>3, <1>4, OthersKeep

-----------------------------------------------------------------------------
LEMMA DeployInvInit == DeployInit => DeployInv
<1> SUFFICES ASSUME DeployInit
             PROVE  DeployInv
    OBVIOUS
<1>1. source \in [SourceFiles -> Values] /\ runtime \in [RuntimeFiles -> Values]
    BY DEF DeployInit, SourceFiles, RuntimeFiles, Values
<1>2. link \in {"valid", "invalid"} /\ backups \in Seq(Archives)
      /\ calls \in Nat /\ troubles \in Nat
    BY DEF DeployInit
<1>4. None \in Commands /\ None.at = "none" /\ None.run = "none"
    <2> DEFINE b == [f \in RuntimeFiles \union {"doc"} |-> Missing]
    <2>1. b \in [AllFiles -> Values]
        BY DEF AllFiles, Values
    <2>2. None = [at |-> "none", run |-> "none", plan |-> << >>, todo |-> {}, cut |-> FALSE,
                  backup |-> 0, result |-> "none", before |-> b, touched |-> {}, late |-> {}]
        BY DEF None
    <2> HIDE DEF b
    <2> QED
        BY <2>1, <2>2 DEF Commands
<1>5. CommandFits(None, source, runtime, link, backups)
    BY <1>4 DEF CommandFits, BackupFits, DeployFits, StageFits, RestoreFits, EndFits
<1>6. command = [o \in Operators |-> None]
    BY DEF DeployInit
<1>7. DeployTypeOK
    BY <1>1, <1>2, <1>4, <1>6 DEF DeployTypeOK
<1>8. CommandsFit
    BY <1>5, <1>6 DEF CommandsFit
<1>9. OwnBackups
    BY <1>4, <1>6 DEF OwnBackups
<1> QED
    BY <1>7, <1>8, <1>9 DEF DeployInv

LEMMA DeployInvStep == DeployInv /\ [DeployNext]_deployVars => DeployInv'
<1> SUFFICES ASSUME DeployInv, [DeployNext]_deployVars
             PROVE  DeployInv'
    OBVIOUS
<1>1. CASE UNCHANGED deployVars
    BY <1>1 DEF deployVars, DeployInv, DeployTypeOK, CommandsFit, OwnBackups
<1>2. ASSUME NEW o \in Operators,
             \/ Deploy(o) \/ Archive(o) \/ (\E k \in 1 .. MaxCalls : Rollback(o, k))
             \/ Backup(o) \/ BackupWritten(o) \/ Copy(o) \/ Parity(o)
             \/ RemoveFile(o) \/ Receipt(o)
             \/ Undo(o) \/ RestoreUnlink(o) \/ RestoreCopy(o) \/ Restored(o)
             \/ Kill(o)
      PROVE  DeployInv'
    BY <1>2, BeginsKeep, BackupKeeps, BackupWrittenKeeps, CopyKeeps, ParityKeeps,
       RemoveFileKeeps, ReceiptKeeps, UndoKeeps, RestoreUnlinkKeeps, RestoreCopyKeeps,
       RestoredKeeps, KillKeeps
<1>3. ASSUME NEW f \in {"plugin", "skill", "orphan", "alias"}, EditRuntime(f, "edited")
      PROVE  DeployInv'
    BY <1>3, EditRuntimeKeeps
<1>4. CASE EditSource("plugin", "broken") \/ EditSource("skill", Missing)
           \/ EditSource("doc", "edited")
    BY <1>4, EditSourceKeeps DEF SourceFiles, Values
<1>5. CASE Relink
    BY <1>5, RelinkKeeps
<1> QED
    BY <1>1, <1>2, <1>3, <1>4, <1>5 DEF DeployNext

(* The invariant of the deployment: every command agrees with the trees,   *)
(* the link and its own backup, as far as others have not touched them.    *)
THEOREM DeployInductive == DeploySpec => []DeployInv
<1> QED
    BY DeployInvInit, DeployInvStep, PTL DEF DeploySpec

(* A command that has ended left the trees deployed, as they were before   *)
(* it, or as they were saved, save for the files that others have written. *)
THEOREM AllOrNothingHolds == DeploySpec => []AllOrNothing
<1>1. DeployInv => AllOrNothing
    <2> SUFFICES ASSUME DeployInv, NEW o \in Operators, command[o].at = "ended"
                 PROVE  LET c == command[o]
                            as(was) == \A f \in DOMAIN was \ c.touched : Content(f) = was[f]
                        IN CASE c.result = "deployed"   -> c.touched = {} => VerifyPasses
                             [] c.result = "undone"     ->
                                  as(IF c.run = "deploy" THEN c.before
                                     ELSE backups[c.backup].files)
                             [] c.result = "mismatch"   -> c.touched # {}
                             [] c.result = "unreadable" -> c.run = "rollback"
                             [] c.result = "bad_link"   -> c.run = "deploy" => c.touched # {}
                             [] OTHER                   -> as(c.before)
        BY DEF AllOrNothing
    <2> DEFINE c == command[o]
               as(was) == \A f \in DOMAIN was \ c.touched : Content(f) = was[f]
    <2>1. c \in Commands /\ EndFits(c, source, runtime, link, backups)
        BY OfCommand DEF CommandFits
    <2>2. \A was : Same(c, was, source, runtime) <=> as(was)
        BY ContentIs DEF Same
    <2>3. c.at = "ended"
        OBVIOUS
    <2>4. /\ c.result # "none"
          /\ c.result = "deployed" /\ c.touched = {} => VerifyPasses
          /\ c.result = "undone" =>
                as(IF c.run = "deploy" THEN c.before ELSE backups[c.backup].files)
          /\ c.result = "mismatch" => c.touched # {}
          /\ c.result = "unreadable" => c.run = "rollback"
          /\ c.result = "bad_link" => (c.run = "deploy" => c.touched # {})
          /\ c.result \in {"refused", "saved"} => as(c.before)
        <3> HIDE DEF c, as
        <3> QED
            BY <2>1, <2>2, <2>3, PlanIsOf DEF EndFits, VerifyPasses
    <2>5. c.result \in {"none", "refused", "saved", "deployed", "undone", "unreadable",
                        "bad_link", "mismatch"}
        BY <2>1 DEF Commands
    <2> QED
        BY <2>4, <2>5
<1> QED
    BY DeployInductive, <1>1, PTL

(* An orphan is removed only with the content whose hash is on record,     *)
(* unless it or its alias is written after the last look, or the alias is  *)
(* there.                                                                  *)
THEOREM RemovalApprovedHolds == DeploySpec => RemovalApproved
<1>1. DeployInv =>
        [\A o \in Operators :
           /\ command[o].at = "remove" /\ command'[o].todo # command[o].todo
           /\ runtime["orphan"] # Missing /\ runtime'["orphan"] = Missing
           /\ runtime["alias"] = Missing
           /\ command[o].late \intersect {"orphan", "alias"} = {}
           => runtime["orphan"] = Approved]_deployVars
    <2> SUFFICES ASSUME DeployInv, NEW o \in Operators, command[o].at = "remove",
                        runtime["orphan"] # Missing, runtime["alias"] = Missing,
                        command[o].late \intersect {"orphan", "alias"} = {}
                 PROVE  runtime["orphan"] = Approved
        OBVIOUS
    <2>1. StageFits(command[o], source, runtime)
        BY OfCommand DEF CommandFits
    <2> QED
        BY <2>1 DEF StageFits
<1> QED
    BY DeployInductive, <1>1, PTL DEF RemovalApproved

-----------------------------------------------------------------------------
(* The work classification.                                                *)
(* Of two records of facts, the second is of work at least as large and    *)
(* as risky.                                                               *)
GrowsOrStays(f, g) ==
  /\ \A m \in Flags : f[m] => g[m]
  /\ \A m \in DOMAIN Bounds : f[m] \in Int /\ g[m] \in Int /\ f[m] <= g[m]
  /\ f.write_scope \in Wide => g.write_scope \in Wide
  /\ g.write_scope \in {"none", "local"} => f.write_scope \in {"none", "local"}
  /\ f.validation_scope = "end_to_end" => g.validation_scope = "end_to_end"
  /\ f.validation_scope \in {"integration", "live", "end_to_end"} =>
        g.validation_scope \in {"integration", "live", "end_to_end"}
  /\ g.validation_scope \in {"none", "syntax", "isolated"} =>
        f.validation_scope \in {"none", "syntax", "isolated"}
  /\ f.requirements_ambiguity = "high" => g.requirements_ambiguity = "high"
  /\ f.requirements_ambiguity = "medium" => g.requirements_ambiguity \in {"medium", "high"}
  /\ f.technical_uncertainty = "high" => g.technical_uncertainty = "high"
  /\ f.technical_uncertainty = "medium" =>
        \/ g.technical_uncertainty = "medium"
        \/ g.technical_uncertainty = "high" /\ g.write_scope \in Wide

(* Each condition that asks for more is kept, each that asks for less is   *)
(* lost, as the facts grow.                                                *)
LEMMA ConditionsGrow ==
  ASSUME NEW f, NEW g, GrowsOrStays(f, g)
  PROVE  /\ FullPlan(f) => FullPlan(g)
         /\ ReviewRequired(f) => ReviewRequired(g)
         /\ ReviewAdvised(f) => ReviewAdvised(g) \/ ReviewRequired(g)
         /\ HighRisk(f) => HighRisk(g)
<1>1. \A m \in Flags : f[m] => g[m]
  BY DEF GrowsOrStays
<1>2. /\ f.estimated_work_items \in Int /\ g.estimated_work_items \in Int
      /\ f.estimated_work_items <= g.estimated_work_items
      /\ f.estimated_sessions \in Int /\ g.estimated_sessions \in Int
      /\ f.estimated_sessions <= g.estimated_sessions
      /\ f.repositories_touched \in Int /\ g.repositories_touched \in Int
      /\ f.repositories_touched <= g.repositories_touched
      /\ f.services_touched \in Int /\ g.services_touched \in Int
      /\ f.services_touched <= g.services_touched
      /\ f.human_checkpoints_expected \in Int /\ g.human_checkpoints_expected \in Int
      /\ f.human_checkpoints_expected <= g.human_checkpoints_expected
  BY DEF GrowsOrStays, Bounds
<1>3. FullPlan(f) => FullPlan(g)
  BY <1>1, <1>2 DEF FullPlan, AnyOf, Flags
<1>4. ReviewRequired(f) => ReviewRequired(g)
  BY <1>1 DEF GrowsOrStays, ReviewRequired, AnyOf, Flags
<1>5. ReviewAdvised(f) => ReviewAdvised(g) \/ ReviewRequired(g)
  BY <1>1, <1>2 DEF GrowsOrStays, ReviewAdvised, ReviewRequired, AnyOf, Flags, Unsure
<1>6. HighRisk(f) => HighRisk(g)
  BY <1>1 DEF GrowsOrStays, HighRisk, AnyOf, Flags
<1> QED
  BY <1>3, <1>4, <1>5, <1>6

LEMMA ConditionsShrink ==
  ASSUME NEW f, NEW g, GrowsOrStays(f, g),
         f.estimated_work_items >= 1, f.estimated_sessions >= 1,
         f.repositories_touched >= 1, f.human_checkpoints_expected >= 0
  PROVE  /\ SingleBoundedTask(g) => SingleBoundedTask(f)
         /\ SmallAndLocal(g) => SmallAndLocal(f)
<1>1. \A m \in Flags : f[m] => g[m]
  BY DEF GrowsOrStays
<1>2. /\ f.estimated_work_items \in Int /\ g.estimated_work_items \in Int
      /\ f.estimated_work_items <= g.estimated_work_items
      /\ f.estimated_sessions \in Int /\ g.estimated_sessions \in Int
      /\ f.estimated_sessions <= g.estimated_sessions
      /\ f.repositories_touched \in Int /\ g.repositories_touched \in Int
      /\ f.repositories_touched <= g.repositories_touched
      /\ f.services_touched \in Int /\ g.services_touched \in Int
      /\ f.services_touched <= g.services_touched
      /\ f.human_checkpoints_expected \in Int /\ g.human_checkpoints_expected \in Int
      /\ f.human_checkpoints_expected <= g.human_checkpoints_expected
  BY DEF GrowsOrStays, Bounds
<1>3. SingleBoundedTask(g) => SingleBoundedTask(f)
  BY <1>1, <1>2 DEF SingleBoundedTask, AnyOf, Flags
<1>4. SmallAndLocal(g) => SmallAndLocal(f)
  BY <1>1, <1>2 DEF GrowsOrStays, SmallAndLocal, Flags
<1> QED
  BY <1>3, <1>4

(* So none of the axes falls.                                              *)
LEMMA AxesGrow ==
  ASSUME NEW f, NEW g, GrowsOrStays(f, g),
         f.estimated_work_items >= 1, f.estimated_sessions >= 1,
         f.repositories_touched >= 1, f.human_checkpoints_expected >= 0
  PROVE  \A a \in Axes : Derived(f)[a] <= Derived(g)[a]
<1>1. Planning(f) <= Planning(g) /\ (Planning(g) = P0 => Planning(f) = P0)
  BY ConditionsGrow, ConditionsShrink DEF Planning, P0, P1, P2
<1>2. /\ Architect(f) <= Architect(g)
      /\ Architect(g) = A0 => Architect(f) = A0
      /\ Architect(f) = A2 => Architect(g) = A2
  BY ConditionsGrow DEF Architect, A0, A1, A2
<1>3. Delivery(Planning(f), Architect(f), f) <= Delivery(Planning(g), Architect(g), g)
  BY <1>1, <1>2, ConditionsGrow, ConditionsShrink DEF Delivery, Fast, Standard, Deep
<1> QED
  BY <1>1, <1>2, <1>3 DEF Derived, Axes

(* What validated facts are.                                               *)
LEMMA ValidatedFacts ==
  ASSUME NEW f, Validated(f) = "classified"
  PROVE  /\ DOMAIN f = FactFields
         /\ \A n \in Flags : f[n] \in BOOLEAN
         /\ \A n \in DOMAIN Bounds : f[n] \in Bounds[n]
         /\ \A n \in DOMAIN Scales : \E i \in DOMAIN Scales[n] : f[n] = Scales[n][i]
<1>1. /\ DOMAIN f = FactFields
      /\ \A n \in FactFields : WellGiven(f, n)
      /\ Unanswered(f) = {}
  BY DEF Validated
<1>2. \A n \in Flags : f[n] \in BOOLEAN
  BY <1>1 DEF WellGiven, FactFields
<1>3. \A n \in DOMAIN Bounds : f[n] \in Bounds[n]
  <2>1. \A n \in DOMAIN Bounds : n \notin Flags
    BY DEF Bounds, Flags
  <2> QED
    BY <1>1, <2>1 DEF WellGiven, FactFields
<1>4. \A n \in Unsure : f[n] # "unknown"
  BY <1>1 DEF Unanswered
<1>5. ASSUME NEW n \in DOMAIN Scales PROVE \E i \in DOMAIN Scales[n] : f[n] = Scales[n][i]
  <2>1. n \notin Flags /\ n \notin DOMAIN Bounds
    BY DEF Scales, Flags, Bounds
  <2> QED
    BY <1>1, <1>4, <2>1 DEF WellGiven, FactFields
<1> QED
  BY <1>1, <1>2, <1>3, <1>5

(* A raised fact makes facts that have grown, the exception aside.         *)
LEMMA RaisedGrows ==
  ASSUME NEW f, Validated(f) = "classified", NEW n \in FactFields, NEW v \in Higher(n, f[n]),
         ~(n = "technical_uncertainty" /\ v = "high" /\ f.write_scope \notin Wide)
  PROVE  GrowsOrStays(f, [f EXCEPT ![n] = v])
<1> DEFINE g == [f EXCEPT ![n] = v]
<1>1. /\ g[n] = v
      /\ \A m \in FactFields \ {n} : g[m] = f[m]
  BY ValidatedFacts
<1> HIDE DEF g
<1>2. \A m \in DOMAIN Bounds : m \in FactFields /\ m \notin Flags /\ Bounds[m] \subseteq Int
  <2>1. \A m \in DOMAIN Bounds : m \in FactFields
    BY DEF FactFields
  <2>2. \A m \in DOMAIN Bounds : m \notin Flags
    BY DEF Bounds, Flags
  <2>3. ASSUME NEW m \in DOMAIN Bounds PROVE Bounds[m] \subseteq Int
    <3>1. \/ Bounds[m] = 1 .. 100 \/ Bounds[m] = 0 .. 100
          \/ Bounds[m] = 0 .. 3650 \/ Bounds[m] = 1 .. 1000
      BY DEF Bounds
    <3>2. CASE Bounds[m] = 1 .. 100
      BY <3>2
    <3>3. CASE Bounds[m] = 0 .. 100
      BY <3>3
    <3>4. CASE Bounds[m] = 0 .. 3650
      BY <3>4
    <3>5. CASE Bounds[m] = 1 .. 1000
      BY <3>5
    <3> QED
      BY <3>1, <3>2, <3>3, <3>4, <3>5
  <2> QED
    BY <2>1, <2>2, <2>3
<1>3. ASSUME n \in Flags PROVE GrowsOrStays(f, g)
  <2>1. v = TRUE /\ n \notin DOMAIN Bounds /\ n \notin DOMAIN Scales
    BY <1>3 DEF Higher, Flags, Bounds, Scales
  <2>2. \A m \in Flags : f[m] => g[m]
    BY <1>1, <2>1 DEF FactFields
  <2>3. \A m \in DOMAIN Bounds : f[m] \in Int /\ g[m] \in Int /\ f[m] <= g[m]
    BY <1>1, <1>2, <2>1, ValidatedFacts
  <2>4. \A m \in DOMAIN Scales : g[m] = f[m]
    BY <1>1, <2>1 DEF FactFields
  <2> QED
    BY <2>2, <2>3, <2>4 DEF GrowsOrStays, Scales
<1>4. ASSUME n \in DOMAIN Bounds PROVE GrowsOrStays(f, g)
  <2>1. n \notin Flags /\ n \notin DOMAIN Scales
    BY <1>4 DEF Flags, Bounds, Scales
  <2>2. v \in Bounds[n] /\ f[n] < v
    BY <1>4, <2>1 DEF Higher
  <2>3. \A m \in Flags : f[m] => g[m]
    BY <1>1, <2>1 DEF FactFields
  <2>4. \A m \in DOMAIN Bounds : f[m] \in Int /\ g[m] \in Int /\ f[m] <= g[m]
    BY <1>1, <1>2, <2>1, <2>2, ValidatedFacts
  <2>5. \A m \in DOMAIN Scales : g[m] = f[m]
    BY <1>1, <2>1 DEF FactFields
  <2> QED
    BY <2>3, <2>4, <2>5 DEF GrowsOrStays, Scales
<1>5. ASSUME n \in DOMAIN Scales PROVE GrowsOrStays(f, g)
  <2>1. n \notin Flags /\ n \notin DOMAIN Bounds
    BY <1>5 DEF Flags, Bounds, Scales
  <2>2. \A m \in Flags : f[m] => g[m]
    BY <1>1, <2>1 DEF FactFields
  <2>3. \A m \in DOMAIN Bounds : f[m] \in Int /\ g[m] \in Int /\ f[m] <= g[m]
    BY <1>1, <1>2, <2>1, ValidatedFacts
  <2>4. \A m \in DOMAIN Scales \ {n} : g[m] = f[m]
    BY <1>1 DEF FactFields
  <2>5. PICK i \in DOMAIN Scales[n], j \in DOMAIN Scales[n] :
           i < j /\ Scales[n][i] = f[n] /\ Scales[n][j] = v
    BY <2>1 DEF Higher
  <2>6. CASE n = "requirements_ambiguity"
    <3>1. \/ f[n] = "low" /\ v \in {"medium", "high"}
          \/ f[n] = "medium" /\ v = "high"
      BY <2>5, <2>6 DEF Scales
    <3>2. /\ g.write_scope = f.write_scope /\ g.validation_scope = f.validation_scope
          /\ g.technical_uncertainty = f.technical_uncertainty
      BY <2>4, <2>6 DEF Scales
    <3> QED
      BY <1>1, <2>2, <2>3, <2>6, <3>1, <3>2 DEF GrowsOrStays
  <2>7. CASE n = "technical_uncertainty"
    <3>1. \/ f[n] = "low" /\ v \in {"medium", "high"}
          \/ f[n] = "medium" /\ v = "high"
      BY <2>5, <2>7 DEF Scales
    <3>2. /\ g.write_scope = f.write_scope /\ g.validation_scope = f.validation_scope
          /\ g.requirements_ambiguity = f.requirements_ambiguity
      BY <2>4, <2>7 DEF Scales
    <3> QED
      BY <1>1, <2>2, <2>3, <2>7, <3>1, <3>2 DEF GrowsOrStays
  <2>8. CASE n = "write_scope"
    <3>1. /\ v \in {"local", "multi_module", "cross_repository", "runtime", "infrastructure"}
          /\ f[n] \in Wide => v \in Wide
          /\ v \in {"none", "local"} => f[n] \in {"none", "local"}
      BY <2>5, <2>8 DEF Scales, Wide
    <3>2. /\ g.validation_scope = f.validation_scope
          /\ g.technical_uncertainty = f.technical_uncertainty
          /\ g.requirements_ambiguity = f.requirements_ambiguity
      BY <2>4, <2>8 DEF Scales
    <3> QED
      BY <1>1, <2>2, <2>3, <2>8, <3>1, <3>2 DEF GrowsOrStays
  <2>9. CASE n = "validation_scope"
    <3>1. /\ f[n] # "end_to_end"
          /\ f[n] \in {"integration", "live"} => v \in {"live", "end_to_end"}
          /\ v \in {"none", "syntax", "isolated"} => f[n] \in {"none", "syntax", "isolated"}
      BY <2>5, <2>9 DEF Scales
    <3>2. /\ g.write_scope = f.write_scope
          /\ g.technical_uncertainty = f.technical_uncertainty
          /\ g.requirements_ambiguity = f.requirements_ambiguity
      BY <2>4, <2>9 DEF Scales
    <3> QED
      BY <1>1, <2>2, <2>3, <2>9, <3>1, <3>2 DEF GrowsOrStays
  <2> QED
    BY <1>5, <2>6, <2>7, <2>8, <2>9 DEF Scales
<1>6. GrowsOrStays(f, g)
  BY <1>3, <1>4, <1>5 DEF FactFields
<1> QED
  BY <1>6 DEF g

(* Each axis of a classification is one of its three values, and the three *)
(* go together.                                                            *)
LEMMA DerivedFits ==
  ASSUME NEW f
  PROVE  LET c == Derived(f)
         IN /\ \A a \in Axes : c[a] \in 0 .. 2
            /\ c.architect = A2 => c.delivery = Deep
            /\ c.delivery = Fast => c.planning = P0
<1>1. Planning(f) \in 0 .. 2 /\ Architect(f) \in 0 .. 2
  BY DEF Planning, Architect, P0, P1, P2, A0, A1, A2
<1>2. /\ Delivery(Planning(f), Architect(f), f) \in 0 .. 2
      /\ Architect(f) = A2 => Delivery(Planning(f), Architect(f), f) = Deep
      /\ Delivery(Planning(f), Architect(f), f) = Fast => Planning(f) = P0
  BY DEF Delivery, Fast, Standard, Deep
<1> QED
  BY <1>1, <1>2 DEF Derived, Axes

(* An override that is accepted only ever asks for more.                   *)
LEMMA OverrideGrows ==
  ASSUME NEW f, NEW o \in AllOverrides \union {NoOverride}, Status(f, o) = "classified"
  PROVE  LET base == Derived(f)
             c == Classified(f, o)
         IN /\ \A a \in Axes : c[a] >= base[a]
            /\ c.architect = A2 => c.delivery = Deep
            /\ c.delivery = Fast => c.planning = P0
<1> DEFINE base == Derived(f)
           c == Classified(f, o)
<1>1. /\ \A a \in Axes : base[a] \in 0 .. 2
      /\ base.architect = A2 => base.delivery = Deep
      /\ base.delivery = Fast => base.planning = P0
  BY DerivedFits
<1>2. CASE o = NoOverride
  <2>1. c = base
    BY <1>2 DEF Classified
  <2> QED
    BY <1>1, <2>1
<1>3. CASE o # NoOverride
  <2>1. c = Asked(base, o) /\ OverrideFits(base, o)
    BY <1>3 DEF Status, Classified
  <2>2. /\ \A a \in Axes : c[a] >= base[a]
        /\ c.architect = A2 => c.delivery = Deep
        /\ c.planning # P0 => c.delivery # Fast
    BY <2>1 DEF OverrideFits
  <2> QED
    BY <2>2
<1> QED
  BY <1>2, <1>3

(* Whatever is known of a piece of work, it is never planned, reviewed or  *)
(* delivered more lightly because a fact turned out larger or riskier, nor *)
(* because of an override, for every number in range and every override.   *)
THEOREM WorkNeverDowngraded == NeverDowngraded
<1> SUFFICES ASSUME Validated(facts) = "classified"
             PROVE  NeverDowngraded
  BY DEF NeverDowngraded
<1>1. ASSUME NEW n \in FactFields, NEW v \in Higher(n, facts[n]),
             ~(n = "technical_uncertainty" /\ v = "high" /\ facts.write_scope \notin Wide)
      PROVE  \A a \in Axes : Derived(facts)[a] <= Derived([facts EXCEPT ![n] = v])[a]
  <2>1. GrowsOrStays(facts, [facts EXCEPT ![n] = v])
    BY <1>1, RaisedGrows
  <2>2. \A m \in DOMAIN Bounds : facts[m] \in Bounds[m]
    BY ValidatedFacts
  <2>3. /\ facts.estimated_work_items >= 1 /\ facts.estimated_sessions >= 1
        /\ facts.repositories_touched >= 1 /\ facts.human_checkpoints_expected >= 0
    BY <2>2 DEF Bounds
  <2> QED
    BY <2>1, <2>3, AxesGrow
<1>2. ASSUME NEW o \in AllOverrides \union {NoOverride}, Status(facts, o) = "classified"
      PROVE  LET c == Classified(facts, o)
             IN /\ \A a \in Axes : c[a] >= Derived(facts)[a]
                /\ c.architect = A2 => c.delivery = Deep
                /\ c.delivery = Fast => c.planning = P0
  BY <1>2, OverrideGrows
<1> QED
  BY <1>1, <1>2 DEF NeverDowngraded


-----------------------------------------------------------------------------
(* The form of a task.                                                     *)
(* A field whose default, where it is not required, says nothing wrong.    *)
Shaped(n, f) ==
    /\ f.type \in {"list", "str", "bool", "dict"} /\ f.enum \in BOOLEAN /\ f.required \in BOOLEAN
    /\ n \notin DOMAIN BudgetFields
    /\ f.type = "dict" <=> n = "change_budget"
    /\ f.type = "dict" => f.required /\ ~f.enum
    /\ \/ f.required
       \/ f.type \in {"list", "str"} /\ f.default = "fit"
       \/ f.type = "list" /\ f.default = "empty"
       \/ f.type = "str" /\ ~f.enum /\ f.default = "empty"
       \/ f.type = "bool" /\ f.default = "other"

(* The fields the tables are made of.                                      *)
PlainFields ==
    {Listed, Must(Listed), Chosen, Must(Chosen), FieldOf("list", FALSE, "fit"),
     FieldOf("str", TRUE, "fit"), FieldOf("str", FALSE, "empty"),
     Must(FieldOf("str", FALSE, "empty")), Must(FieldOf("str", TRUE, "empty")),
     FieldOf("bool", FALSE, "other")}

LEMMA PlainShaped ==
    /\ DOMAIN BudgetFields = {"max_changed_files", "allow_delete"}
    /\ \A n, f : n \notin {"change_budget", "max_changed_files", "allow_delete"} /\ f \in PlainFields
           => Shaped(n, f)
    /\ Shaped("change_budget", Must(FieldOf("dict", FALSE, "empty")))
<1>1. DOMAIN BudgetFields = {"max_changed_files", "allow_delete"}
  BY DEF BudgetFields
<1>2. ASSUME NEW n, NEW f \in PlainFields,
             n \notin {"change_budget", "max_changed_files", "allow_delete"}
      PROVE  Shaped(n, f)
  <2>1. CASE f = Listed BY <1>1, <1>2, <2>1 DEF Shaped, Listed, FieldOf
  <2>2. CASE f = Must(Listed) BY <1>1, <1>2, <2>2 DEF Shaped, Listed, Must, FieldOf
  <2>3. CASE f = Chosen BY <1>1, <1>2, <2>3 DEF Shaped, Chosen, FieldOf
  <2>4. CASE f = Must(Chosen) BY <1>1, <1>2, <2>4 DEF Shaped, Chosen, Must, FieldOf
  <2>5. CASE f = FieldOf("list", FALSE, "fit") BY <1>1, <1>2, <2>5 DEF Shaped, FieldOf
  <2>6. CASE f = FieldOf("str", TRUE, "fit") BY <1>1, <1>2, <2>6 DEF Shaped, FieldOf
  <2>7. CASE f = FieldOf("str", FALSE, "empty") BY <1>1, <1>2, <2>7 DEF Shaped, FieldOf
  <2>8. CASE f = Must(FieldOf("str", FALSE, "empty")) BY <1>1, <1>2, <2>8 DEF Shaped, Must, FieldOf
  <2>9. CASE f = Must(FieldOf("str", TRUE, "empty")) BY <1>1, <1>2, <2>9 DEF Shaped, Must, FieldOf
  <2>10. CASE f = FieldOf("bool", FALSE, "other") BY <1>1, <1>2, <2>10 DEF Shaped, FieldOf
  <2> QED
    BY <1>2, <2>1, <2>2, <2>3, <2>4, <2>5, <2>6, <2>7, <2>8, <2>9, <2>10 DEF PlainFields
<1>3. Shaped("change_budget", Must(FieldOf("dict", FALSE, "empty")))
  BY <1>1 DEF Shaped, Must, FieldOf
<1> QED
  BY <1>1, <1>2, <1>3

LEMMA TablesShaped ==
    /\ \A n \in DOMAIN ImplementationFields : Shaped(n, ImplementationFields[n])
    /\ \A n \in DOMAIN DiagnosisFields : Shaped(n, DiagnosisFields[n])
    /\ \A n \in DOMAIN ReviewFields : Shaped(n, ReviewFields[n])
    /\ \A n \in DOMAIN StewardshipFields : Shaped(n, StewardshipFields[n])
    /\ \A n \in DOMAIN ArchitectureCommonFields : Shaped(n, ArchitectureCommonFields[n])
    /\ \A n \in DOMAIN ArchitectureDesignReviewFields : Shaped(n, ArchitectureDesignReviewFields[n])
    /\ \A n \in DOMAIN ArchitectureSpecPreflightFields : Shaped(n, ArchitectureSpecPreflightFields[n])
<1>1. \A n \in DOMAIN ImplementationFields : Shaped(n, ImplementationFields[n])
  <2>1. DOMAIN ImplementationFields =
          {"required_changes"}
          \union {"behavioral_invariants", "allowed_validation_targets",
             "checkpoint_conditions", "compatibility_requirements"}
          \union {"forbidden_operations"}
          \union {"change_budget"}
    BY DEF ImplementationFields
  <2>2. \A n \in {"required_changes"} :
          ImplementationFields[n] = Must(Listed)
    BY DEF ImplementationFields
  <2>3. \A n \in {"behavioral_invariants", "allowed_validation_targets",
                "checkpoint_conditions", "compatibility_requirements"} :
          ImplementationFields[n] = Listed
    BY DEF ImplementationFields
  <2>4. \A n \in {"forbidden_operations"} :
          ImplementationFields[n] = Chosen
    BY DEF ImplementationFields
  <2>5. ImplementationFields["change_budget"] = Must(FieldOf("dict", FALSE, "empty"))
    BY DEF ImplementationFields
  <2> QED
    BY <2>1, <2>2, <2>3, <2>4, <2>5, PlainShaped DEF PlainFields
<1>2. \A n \in DOMAIN DiagnosisFields : Shaped(n, DiagnosisFields[n])
  <2>1. DOMAIN DiagnosisFields =
          {"observed_symptoms", "diagnostic_questions"}
          \union {"reproduction_context", "suspected_components",
             "initial_hypotheses", "evidence_plan"}
          \union {"mutation_policy", "confidence_expectation"}
    BY DEF DiagnosisFields
  <2>2. \A n \in {"observed_symptoms", "diagnostic_questions"} :
          DiagnosisFields[n] = Must(Listed)
    BY DEF DiagnosisFields
  <2>3. \A n \in {"reproduction_context", "suspected_components",
                "initial_hypotheses", "evidence_plan"} :
          DiagnosisFields[n] = Listed
    BY DEF DiagnosisFields
  <2>4. /\ DiagnosisFields["mutation_policy"] = FieldOf("str", TRUE, "fit")
        /\ DiagnosisFields["confidence_expectation"] = FieldOf("str", TRUE, "fit")
    BY DEF DiagnosisFields
  <2> QED
    BY <2>1, <2>2, <2>3, <2>4, PlainShaped DEF PlainFields
<1>3. \A n \in DOMAIN ReviewFields : Shaped(n, ReviewFields[n])
  <2>1. DOMAIN ReviewFields =
          {"artifacts_under_review", "review_dimensions"}
          \union {"verdict_rules", "inconclusive_conditions"}
          \union {"acceptance_mapping_required"}
          \union {"independence_requirements"}
    BY DEF ReviewFields
  <2>2. \A n \in {"artifacts_under_review", "review_dimensions"} :
          ReviewFields[n] = Must(Chosen)
    BY DEF ReviewFields
  <2>3. \A n \in {"verdict_rules", "inconclusive_conditions"} :
          ReviewFields[n] = Listed
    BY DEF ReviewFields
  <2>4. ReviewFields["acceptance_mapping_required"] = FieldOf("bool", FALSE, "other")
    BY DEF ReviewFields
  <2>5. ReviewFields["independence_requirements"] = FieldOf("list", FALSE, "fit")
    BY DEF ReviewFields
  <2> QED
    BY <2>1, <2>2, <2>3, <2>4, <2>5, PlainShaped DEF PlainFields
<1>4. \A n \in DOMAIN StewardshipFields : Shaped(n, StewardshipFields[n])
  <2>1. DOMAIN StewardshipFields =
          {"project_id"}
          \union {"allowed_project_artifacts"}
          \union {"operation"}
          \union {"forbidden_actions"}
          \union {"work_item_id"}
    BY DEF StewardshipFields
  <2>2. StewardshipFields["project_id"] = Must(FieldOf("str", FALSE, "empty"))
    BY DEF StewardshipFields
  <2>3. \A n \in {"allowed_project_artifacts"} :
          StewardshipFields[n] = Must(Chosen)
    BY DEF StewardshipFields
  <2>4. StewardshipFields["operation"] = Must(FieldOf("str", TRUE, "empty"))
    BY DEF StewardshipFields
  <2>5. \A n \in {"forbidden_actions"} :
          StewardshipFields[n] = Must(Listed)
    BY DEF StewardshipFields
  <2>6. StewardshipFields["work_item_id"] = FieldOf("str", FALSE, "empty")
    BY DEF StewardshipFields
  <2> QED
    BY <2>1, <2>2, <2>3, <2>4, <2>5, <2>6, PlainShaped DEF PlainFields
<1>5. \A n \in DOMAIN ArchitectureCommonFields : Shaped(n, ArchitectureCommonFields[n])
  <2>1. DOMAIN ArchitectureCommonFields =
          {"review_questions", "gate_criteria"}
          \union {"constraints", "risk_focus"}
    BY DEF ArchitectureCommonFields
  <2>2. \A n \in {"review_questions", "gate_criteria"} :
          ArchitectureCommonFields[n] = Must(Listed)
    BY DEF ArchitectureCommonFields
  <2>3. \A n \in {"constraints", "risk_focus"} :
          ArchitectureCommonFields[n] = Listed
    BY DEF ArchitectureCommonFields
  <2> QED
    BY <2>1, <2>2, <2>3, PlainShaped DEF PlainFields
<1>6. \A n \in DOMAIN ArchitectureDesignReviewFields : Shaped(n, ArchitectureDesignReviewFields[n])
  <2>1. DOMAIN ArchitectureDesignReviewFields =
          {"problem_statement", "proposed_design"}
          \union {"alternatives_considered", "blast_radius",
             "rollback_strategy", "compatibility_strategy",
             "unresolved_decisions", "validation_strategy"}
    BY DEF ArchitectureDesignReviewFields
  <2>2. \A n \in {"problem_statement", "proposed_design"} :
          ArchitectureDesignReviewFields[n] = Must(Listed)
    BY DEF ArchitectureDesignReviewFields
  <2>3. \A n \in {"alternatives_considered", "blast_radius",
                "rollback_strategy", "compatibility_strategy",
                "unresolved_decisions", "validation_strategy"} :
          ArchitectureDesignReviewFields[n] = Listed
    BY DEF ArchitectureDesignReviewFields
  <2> QED
    BY <2>1, <2>2, <2>3, PlainShaped DEF PlainFields
<1>7. \A n \in DOMAIN ArchitectureSpecPreflightFields : Shaped(n, ArchitectureSpecPreflightFields[n])
  <2>1. DOMAIN ArchitectureSpecPreflightFields =
          {"preflight_dimensions"}
    BY DEF ArchitectureSpecPreflightFields
  <2>2. \A n \in {"preflight_dimensions"} :
          ArchitectureSpecPreflightFields[n] = Must(Chosen)
    BY DEF ArchitectureSpecPreflightFields
  <2> QED
    BY <2>1, <2>2, PlainShaped DEF PlainFields
<1> QED
  BY <1>1, <1>2, <1>3, <1>4, <1>5, <1>6, <1>7

(* The kinds of work a task can be made for.                               *)
FitPair(kind, mode) == kind \in Kinds /\ (kind = "architecture" => mode \in Modes)

LEMMA FieldsShaped ==
    ASSUME NEW kind, NEW mode, FitPair(kind, mode),
           NEW n \in DOMAIN FieldsFor(kind, mode)
    PROVE  Shaped(n, FieldsFor(kind, mode)[n])
<1>1. CASE kind = "implementation"
  BY <1>1, TablesShaped DEF FieldsFor
<1>2. CASE kind = "diagnosis"
  BY <1>2, TablesShaped DEF FieldsFor
<1>3. CASE kind = "review"
  BY <1>3, TablesShaped DEF FieldsFor
<1>4. CASE kind = "stewardship"
  BY <1>4, TablesShaped DEF FieldsFor
<1>5. CASE kind = "architecture" /\ mode = "design_review"
  <2>1. FieldsFor(kind, mode) = Filled(ArchitectureDesignReviewFields, ArchitectureCommonFields)
    BY <1>5 DEF FieldsFor, ModeFields
  <2> QED
    BY <2>1, TablesShaped DEF Filled
<1>6. CASE kind = "architecture" /\ mode = "spec_preflight"
  <2>1. FieldsFor(kind, mode) = Filled(ArchitectureSpecPreflightFields, ArchitectureCommonFields)
    BY <1>6 DEF FieldsFor, ModeFields
  <2> QED
    BY <2>1, TablesShaped DEF Filled
<1> QED
  BY <1>1, <1>2, <1>3, <1>4, <1>5, <1>6 DEF FitPair, Kinds, Modes

(* SPEC.md has a section for each field, and the prompt tells all but one. *)
LEMMA AllShown ==
    ASSUME NEW kind, NEW mode, FitPair(kind, mode)
    PROVE  /\ Rendered(kind, mode) = DOMAIN FieldsFor(kind, mode)
           /\ Prompted(kind, mode) = DOMAIN FieldsFor(kind, mode) \ {"verdict_rules"}
<1>1. CASE kind = "implementation"
  BY <1>1 DEF FieldsFor, ImplementationFields, Rendered, RenderedAlways, Prompted, PromptProjection
<1>2. CASE kind = "diagnosis"
  BY <1>2 DEF FieldsFor, DiagnosisFields, Rendered, RenderedAlways, Prompted, PromptProjection
<1>3. CASE kind = "review"
  BY <1>3 DEF FieldsFor, ReviewFields, Rendered, RenderedAlways, Prompted, PromptProjection
<1>4. CASE kind = "stewardship"
  BY <1>4 DEF FieldsFor, StewardshipFields, Rendered, RenderedAlways, Prompted, PromptProjection
<1>5. CASE kind = "architecture" /\ mode = "design_review"
  <2>1. DOMAIN FieldsFor(kind, mode) =
          DOMAIN ArchitectureDesignReviewFields \union DOMAIN ArchitectureCommonFields
    BY <1>5 DEF FieldsFor, ModeFields, Filled
  <2>2. Rendered(kind, mode) = RenderedInMode["design_review"]
    BY <1>5 DEF Rendered, Modes
  <2>3. Prompted(kind, mode) =
          PromptProjection["architecture"] \union PromptProjectionInMode["design_review"]
    BY <1>5 DEF Prompted, Modes
  <2> QED
    BY <2>1, <2>2, <2>3 DEF RenderedInMode, PromptProjection, PromptProjectionInMode,
       ArchitectureDesignReviewFields, ArchitectureCommonFields
<1>6. CASE kind = "architecture" /\ mode = "spec_preflight"
  <2>1. DOMAIN FieldsFor(kind, mode) =
          DOMAIN ArchitectureSpecPreflightFields \union DOMAIN ArchitectureCommonFields
    BY <1>6 DEF FieldsFor, ModeFields, Filled
  <2>2. Rendered(kind, mode) = RenderedInMode["spec_preflight"]
    BY <1>6 DEF Rendered, Modes
  <2>3. Prompted(kind, mode) =
          PromptProjection["architecture"] \union PromptProjectionInMode["spec_preflight"]
    BY <1>6 DEF Prompted, Modes
  <2> QED
    BY <2>1, <2>2, <2>3 DEF RenderedInMode, PromptProjection, PromptProjectionInMode,
       ArchitectureSpecPreflightFields, ArchitectureCommonFields
<1> QED
  BY <1>1, <1>2, <1>3, <1>4, <1>5, <1>6 DEF FitPair, Kinds, Modes

(* What a valid contract says is in order, field by field.                 *)
LEMMA ValidContract ==
    ASSUME NEW kind, NEW mode, NEW c, Verdict(kind, mode, c) = "valid"
    PROVE  /\ DOMAIN c \ DOMAIN BudgetFields \subseteq DOMAIN FieldsFor(kind, mode)
           /\ \A n \in DOMAIN FieldsFor(kind, mode) :
                 ~Unmet(c, n, FieldsFor(kind, mode)[n])
           /\ \A n \in (DOMAIN c \ DOMAIN BudgetFields) \intersect DOMAIN FieldsFor(kind, mode) :
                 ~BadValue(c, n, FieldsFor(kind, mode)[n])
           /\ SemanticErrors(kind, mode, c) = {}
           /\ ~Raises(kind, mode, c)
<1>1. /\ ~Raises(kind, mode, c)
      /\ ContractErrors(kind, mode, c) \union SemanticErrors(kind, mode, c) = {}
  BY DEF Verdict
<1>2. ContractErrors(kind, mode, c) = {} /\ SemanticErrors(kind, mode, c) = {}
  BY <1>1
<1> QED
  BY <1>1, <1>2 DEF ContractErrors

LEMMA ContractOfClasses ==
    ASSUME NEW kind, NEW mode, NEW c \in Contracts(kind, mode)
    PROVE  /\ \A n \in DOMAIN c : c[n] \in Classes
           /\ \A n \in DOMAIN c \intersect DOMAIN FieldsFor(kind, mode) :
                 c[n] \in ClassesOf(FieldsFor(kind, mode)[n])
           /\ \A n \in DOMAIN c \intersect DOMAIN BudgetFields :
                 c[n] \in ClassesOf(BudgetFields[n])
  BY DEF Contracts

(* A value that is not bad says something or has no content.               *)
LEMMA GoodValue ==
    ASSUME NEW c, NEW n, NEW f, Shaped(n, f), c[n] \in ClassesOf(f), ~BadValue(c, n, f)
    PROVE  Answered(c[n]) \/ c[n] \in {"null", "empty"}
<1>1. f.type \in {"list", "str", "bool", "dict"} /\ f.enum \in BOOLEAN
  BY DEF Shaped
<1>2. CASE f.type = "list"
  BY <1>2, <1>1 DEF ClassesOf, BadValue, BadList, Answered
<1>3. CASE f.type = "str"
  BY <1>3, <1>1 DEF ClassesOf, BadValue, BadStr, Answered
<1>4. CASE f.type = "bool"
  BY <1>4, <1>1 DEF ClassesOf, BadValue, BadBool, Answered
<1>5. CASE f.type = "dict"
  BY <1>5, <1>1 DEF Shaped, ClassesOf, BadValue, BadDict, Answered
<1> QED
  BY <1>1, <1>2, <1>3, <1>4, <1>5

(* No default is bad.                                                      *)
LEMMA GoodDefault ==
    ASSUME NEW d, NEW n, NEW f, Shaped(n, f), ~f.required, d[n] = f.default
    PROVE  ~BadValue(d, n, f) /\ (Answered(d[n]) \/ d[n] = "empty")
<1>1. CASE f.type = "list"
  BY <1>1 DEF Shaped, BadValue, BadList, Answered
<1>2. CASE f.type = "str"
  BY <1>2 DEF Shaped, BadValue, BadStr, Answered
<1>3. CASE f.type = "bool"
  BY <1>3 DEF Shaped, BadValue, BadBool, Answered
<1> QED
  BY <1>1, <1>2, <1>3 DEF Shaped

(* What the tools store of a valid contract is one a worker can be held    *)
(* to, and is valid again.                                                 *)
ContractSound(kind, mode, c) ==
    /\ DOMAIN c \subseteq DOMAIN FieldsFor(kind, mode) \union DOMAIN BudgetFields
    /\ \A n \in DOMAIN FieldsFor(kind, mode) :
         IF FieldsFor(kind, mode)[n].required THEN Answered(c[n])
         ELSE Answered(c[n]) \/ c[n] \in {"null", "empty"}
    /\ kind = "implementation" =>
         /\ c["max_changed_files"] = "fit"
         /\ \/ Given(c, "allow_delete") = "fit"
            \/ c["forbidden_operations"] \in {"fit", "null"}
    /\ kind = "diagnosis" => c["mutation_policy"] = "fit"
    /\ Verdict(kind, mode, c) = "valid"

LEMMA StoredSound ==
    ASSUME NEW kind, NEW mode, FitPair(kind, mode), NEW c \in Contracts(kind, mode),
           Verdict(kind, mode, c) = "valid"
    PROVE  ContractSound(kind, mode, WithDefaults(kind, mode, c))
<1> DEFINE F == FieldsFor(kind, mode)
           d == WithDefaults(kind, mode, c)
<1>1. \A n \in DOMAIN F : Shaped(n, F[n])
  BY FieldsShaped
<1>2. /\ \A n \in DOMAIN c \intersect DOMAIN F : c[n] \in ClassesOf(F[n])
      /\ \A n \in DOMAIN c \intersect DOMAIN BudgetFields : c[n] \in ClassesOf(BudgetFields[n])
  BY ContractOfClasses
<1>3. /\ DOMAIN c \ DOMAIN BudgetFields \subseteq DOMAIN F
      /\ \A n \in DOMAIN F : ~Unmet(c, n, F[n])
      /\ \A n \in DOMAIN c \intersect DOMAIN F : ~BadValue(c, n, F[n])
      /\ SemanticErrors(kind, mode, c) = {} /\ ~Raises(kind, mode, c)
  BY <1>1, ValidContract DEF Shaped
<1>4. /\ DOMAIN d = DOMAIN c \union DOMAIN F
      /\ \A n \in DOMAIN c : d[n] = c[n]
      /\ \A n \in DOMAIN F \ DOMAIN c : d[n] = F[n].default
  BY DEF WithDefaults, Filled
<1>5. \A n : n \in DOMAIN c \/ n \notin DOMAIN F => Given(d, n) = Given(c, n)
  BY <1>4 DEF Given
<1>6. \A n \in DOMAIN F : F[n].required => n \in DOMAIN c /\ c[n] \notin {"null", "empty"}
  BY <1>3 DEF Unmet, Given
<1> HIDE DEF F, d
<1>7. ASSUME NEW n \in DOMAIN F
      PROVE  /\ IF F[n].required THEN Answered(d[n])
                ELSE Answered(d[n]) \/ d[n] \in {"null", "empty"}
             /\ ~BadValue(d, n, F[n])
  <2>1. CASE n \in DOMAIN c
    <3>1. Answered(c[n]) \/ c[n] \in {"null", "empty"}
      BY <1>1, <1>2, <1>3, <2>1, GoodValue
    <3>2. BadDict(d, d[n]) = BadDict(c, c[n])
      <4>1. \A m \in DOMAIN BudgetFields : Given(d, m) = Given(c, m)
        BY <1>1, <1>5 DEF Shaped
      <4> QED
        BY <1>4, <2>1, <4>1 DEF BadDict
    <3>3. d[n] = c[n] /\ ~BadValue(c, n, F[n])
      BY <1>3, <1>4, <2>1
    <3>4. ~BadValue(d, n, F[n])
      BY <3>2, <3>3, <1>1 DEF BadValue, Shaped
    <3> QED
      BY <1>6, <3>1, <3>3, <3>4
  <2>2. CASE n \notin DOMAIN c
    BY <1>1, <1>4, <1>6, <2>2, GoodDefault
  <2> QED
    BY <2>1, <2>2
<1>8. ContractErrors(kind, mode, d) = {}
  <2>1. DOMAIN d \ DOMAIN BudgetFields \subseteq DOMAIN F
    BY <1>3, <1>4
  <2>2. \A n \in DOMAIN F : ~Unmet(d, n, F[n])
    BY <1>5, <1>6, <1>3 DEF Unmet
  <2> QED
    BY <2>1, <2>2, <1>7 DEF ContractErrors, F
<1>9. ~Raises(kind, mode, d)
  BY <1>3, <1>5, <1>6 DEF Raises, F
<1>10. ASSUME kind = "implementation"
       PROVE  /\ c["max_changed_files"] = "fit" /\ "max_changed_files" \in DOMAIN c
              /\ "change_budget" \in DOMAIN c /\ c["change_budget"] = "fit"
              /\ \/ Given(c, "allow_delete") = "fit"
                 \/ /\ "forbidden_operations" \in DOMAIN c
                    /\ c["forbidden_operations"] \in {"fit", "null"}
  <2>1. "change_budget" \in DOMAIN F /\ F["change_budget"].type = "dict"
        /\ F["change_budget"].required
    <3>1. F = ImplementationFields
      BY <1>10 DEF F, FieldsFor
    <3>2. "change_budget" \in DOMAIN ImplementationFields
      BY DEF ImplementationFields
    <3> QED
      BY <1>1, <3>1, <3>2 DEF Shaped
  <2>2. "change_budget" \in DOMAIN c /\ c["change_budget"] \notin {"null", "empty"}
    BY <1>6, <2>1
  <2>3. c["change_budget"] \in {"null", "fit", "sized", "unsized", "empty"}
    <3>1. F["change_budget"].enum = FALSE
      BY <1>1, <2>1 DEF Shaped
    <3>2. c["change_budget"] \in ClassesOf(F["change_budget"])
      BY <1>2, <2>1, <2>2
    <3> QED
      BY <2>1, <3>1, <3>2 DEF ClassesOf
  <2>4. ~BadDict(c, c["change_budget"])
    BY <1>3, <2>1, <2>2 DEF BadValue
  <2>5. c["change_budget"] = "fit"
    BY <2>2, <2>3, <2>4 DEF BadDict
  <2>6. /\ DOMAIN BudgetFields = {"max_changed_files", "allow_delete"}
        /\ BudgetFields["max_changed_files"].type = "int"
        /\ BudgetFields["max_changed_files"].required = TRUE
        /\ BudgetFields["allow_delete"].type = "bool"
    BY DEF BudgetFields, FieldOf, Must
  <2>7. Given(c, "max_changed_files") # "null" /\ ~BadInt(Given(c, "max_changed_files"))
    BY <2>4, <2>6 DEF BadDict
  <2>8. Given(c, "allow_delete") = "null" \/ ~BadBool(Given(c, "allow_delete"))
    BY <2>4, <2>6 DEF BadDict
  <2>9. c["max_changed_files"] = "fit" /\ "max_changed_files" \in DOMAIN c
    BY <2>7 DEF BadInt, Given
  <2>10. ASSUME Given(c, "allow_delete") # "fit"
         PROVE  /\ "forbidden_operations" \in DOMAIN c
                /\ c["forbidden_operations"] \in {"fit", "null"}
    <3>1. Given(c, "allow_delete") \notin {"fit", "sized"}
      BY <2>8, <2>10 DEF BadBool
    <3>2. ImplementationErrors(c) = {}
      BY <1>3, <1>10 DEF SemanticErrors
    <3>3. /\ "forbidden_operations" \in DOMAIN c
          /\ c["forbidden_operations"] \notin {"empty", "other", "mixed", "foreign"}
      BY <2>2, <2>5, <3>1, <3>2 DEF ImplementationErrors
    <3>4. "forbidden_operations" \in DOMAIN F
      BY <1>10 DEF F, FieldsFor, ImplementationFields
    <3>5. Answered(c["forbidden_operations"]) \/ c["forbidden_operations"] \in {"null", "empty"}
      BY <1>1, <1>2, <1>3, <3>3, <3>4, GoodValue
    <3> QED
      BY <3>3, <3>5 DEF Answered
  <2> QED
    BY <2>2, <2>5, <2>9, <2>10
<1>11. ASSUME kind = "diagnosis" PROVE d["mutation_policy"] = "fit"
  <2>1. "mutation_policy" \in DOMAIN F /\ F["mutation_policy"].default = "fit"
    <3>1. F = DiagnosisFields
      BY <1>11 DEF F, FieldsFor
    <3>2. "mutation_policy" \in DOMAIN DiagnosisFields
      BY DEF DiagnosisFields
    <3>3. DiagnosisFields["mutation_policy"] = FieldOf("str", TRUE, "fit")
      BY DEF DiagnosisFields
    <3> QED
      BY <3>1, <3>2, <3>3 DEF FieldOf
  <2>2. CASE "mutation_policy" \in DOMAIN c
    <3>1. DiagnosisErrors(c) = {}
      BY <1>3, <1>11 DEF SemanticErrors
    <3> QED
      BY <1>4, <2>2, <3>1 DEF DiagnosisErrors
  <2>3. CASE "mutation_policy" \notin DOMAIN c
    BY <1>4, <2>1, <2>3
  <2> QED
    BY <2>2, <2>3
<1>12. SemanticErrors(kind, mode, d) = {}
  <2>1. CASE kind = "implementation"
    <3>1. ImplementationErrors(c) = {}
      BY <1>3, <2>1 DEF SemanticErrors
    <3>2. /\ d["change_budget"] = "fit" /\ "change_budget" \in DOMAIN d
          /\ d["max_changed_files"] = "fit"
          /\ Given(d, "allow_delete") = Given(c, "allow_delete")
      <4>1. "allow_delete" \notin DOMAIN F
        BY <1>1 DEF Shaped, BudgetFields
      <4> QED
        BY <1>4, <1>5, <1>10, <2>1, <4>1
    <3>3. \/ Given(d, "allow_delete") = "fit"
          \/ /\ "forbidden_operations" \in DOMAIN d
             /\ d["forbidden_operations"] \in {"fit", "null"}
      BY <1>4, <1>10, <2>1, <3>2
    <3>4. ImplementationErrors(d) = {}
      BY <3>2, <3>3 DEF ImplementationErrors
    <3> QED
      BY <2>1, <3>4 DEF SemanticErrors
  <2>2. CASE kind = "diagnosis"
    <3>1. DiagnosisErrors(d) = {}
      BY <1>11, <2>2 DEF DiagnosisErrors
    <3> QED
      BY <2>2, <3>1 DEF SemanticErrors
  <2>3. CASE kind = "architecture"
    <3>1. ArchitectureErrors(mode, c) = {}
      BY <1>3, <2>3 DEF SemanticErrors
    <3>2. \A n : Given(c, n) \notin {"null", "empty", "sized", "unsized"} => Given(d, n) = Given(c, n)
      BY <1>4 DEF Given
    <3>3. ArchitectureErrors(mode, d) = {}
      BY <3>1, <3>2 DEF ArchitectureErrors
    <3> QED
      BY <2>3, <3>3 DEF SemanticErrors
  <2>4. CASE kind \in {"review", "stewardship"}
    BY <2>4 DEF SemanticErrors
  <2> QED
    BY <2>1, <2>2, <2>3, <2>4 DEF FitPair, Kinds
<1>13. Verdict(kind, mode, d) = "valid"
  BY <1>8, <1>9, <1>12 DEF Verdict
<1>14. kind = "implementation" =>
          /\ d["max_changed_files"] = "fit"
          /\ \/ Given(d, "allow_delete") = "fit"
             \/ d["forbidden_operations"] \in {"fit", "null"}
  <2>1. "allow_delete" \notin DOMAIN F
    BY <1>1 DEF Shaped, BudgetFields
  <2> QED
    BY <1>4, <1>5, <1>10, <2>1
<1>15. DOMAIN d \subseteq DOMAIN F \union DOMAIN BudgetFields
  BY <1>3, <1>4
<1>16. ContractSound(kind, mode, d)
  BY <1>7, <1>11, <1>13, <1>14, <1>15 DEF ContractSound, F
<1> QED
  BY <1>16 DEF d

(* The form of a draft.                                                    *)
SpecNames ==
    {"read_scope", "write_scope", "forbidden_scope", "texts", "process_path",
     "validation_tier", "human_checkpoints", "role_contract"}

SpecFit(kind, spec) ==
    /\ DOMAIN spec = SpecNames
    /\ (spec.write_scope # {}) = (kind = "implementation")
    /\ spec.write_scope \intersect (spec.forbidden_scope \union BadExprs) = {}
    /\ PathFits(spec) /\ TierFits(spec) /\ CheckpointsFit(spec)

FormInv ==
    task # NoTask =>
      /\ DOMAIN task = {"kind", "mode", "subject", "revision", "spec"}
      /\ FitPair(task.kind, task.mode)
      /\ task.subject = (task.kind \in {"review", "architecture"})
      /\ SpecFit(task.kind, task.spec)
      /\ ContractSound(task.kind, task.mode, task.spec.role_contract)

LEMMA CreateSound ==
    ASSUME NEW km \in KindsAndModes, NEW spec \in Specs(km[1], km[2]),
           Create(km[1], km[2], spec)
    PROVE  FormInv'
<1> DEFINE kind == km[1]
           mode == km[2]
           subject == kind \in {"review", "architecture"}
<1>1. CASE CreateRefusal(kind, mode, subject, spec) # "none"
  BY <1>1 DEF Create, FormInv
<1>2. CASE CreateRefusal(kind, mode, subject, spec) = "none"
  <2>1. /\ ScopesFit(spec) /\ SemanticRules(kind, mode, subject, spec) /\ NoOverlap(spec)
        /\ PathFits(spec) /\ TierFits(spec) /\ CheckpointsFit(spec)
        /\ Valid(kind, mode, spec)
    BY <1>2 DEF CreateRefusal
  <2>2. FitPair(kind, mode)
    <3>1. kind \in Kinds
      BY DEF KindsAndModes, Kinds
    <3> QED
      BY <2>1, <3>1 DEF FitPair, SemanticRules
  <2>3. /\ DOMAIN spec = SpecNames
        /\ spec.role_contract \in Contracts(kind, mode)
    BY DEF Specs, SpecNames
  <2> DEFINE stored == [spec EXCEPT !.role_contract = WithDefaults(kind, mode, @)]
  <2>4. task' = [kind |-> kind, mode |-> mode, subject |-> subject,
                 revision |-> 1, spec |-> stored]
    BY <1>2 DEF Create
  <2>5. /\ DOMAIN stored = SpecNames
        /\ stored.role_contract = WithDefaults(kind, mode, spec.role_contract)
        /\ \A n \in SpecNames \ {"role_contract"} : stored[n] = spec[n]
    BY <2>3 DEF SpecNames
  <2> HIDE DEF stored
  <2>6. ContractSound(kind, mode, stored.role_contract)
    BY <2>1, <2>2, <2>3, <2>5, StoredSound DEF Valid
  <2>7. SpecFit(kind, stored)
    <3>1. SpecFit(kind, spec)
      BY <2>1, <2>3 DEF SpecFit, ScopesFit, SemanticRules, NoOverlap
    <3> QED
      BY <2>5, <3>1 DEF SpecFit, SpecNames, PathFits, TierFits, CheckpointsFit
  <2> QED
    BY <2>2, <2>4, <2>6, <2>7 DEF FormInv
<1> QED
  BY <1>1, <1>2

LEMMA UpdateSound ==
    ASSUME FormInv, task # NoTask, NEW given \in Specs(task.kind, task.mode),
           NEW names \in SUBSET DOMAIN given, Update([n \in names |-> given[n]])
    PROVE  FormInv'
<1> DEFINE patch == [n \in names |-> given[n]]
           spec == Patched(patch)
<1>1. CASE UpdateRefusal(patch) # "none"
  BY <1>1 DEF Update, FormInv
<1>2. CASE UpdateRefusal(patch) = "none"
  <2>1. DOMAIN given = SpecNames /\ given.role_contract \in Contracts(task.kind, task.mode)
    BY DEF Specs, SpecNames
  <2>2. /\ DOMAIN spec = SpecNames
        /\ \A n \in SpecNames : spec[n] = IF n \in names THEN given[n] ELSE task.spec[n]
    BY <2>1 DEF Patched, Filled, FormInv, SpecFit
  <2>3. /\ ScopesFit(spec)
        /\ SemanticRules(task.kind, task.mode, task.subject, spec)
        /\ NoOverlap(spec)
        /\ "process_path" \in names => PathFits(spec)
        /\ "validation_tier" \in names => TierFits(spec)
        /\ "human_checkpoints" \in names => CheckpointsFit(spec)
        /\ "role_contract" \in names => Valid(task.kind, task.mode, spec)
    BY <1>2 DEF UpdateRefusal
  <2> DEFINE stored == IF "role_contract" \in names
                       THEN [spec EXCEPT !.role_contract =
                               WithDefaults(task.kind, task.mode, @)]
                       ELSE spec
  <2>4. task' = [task EXCEPT !.revision = @ + 1, !.spec = stored]
    BY <1>2 DEF Update
  <2> HIDE DEF spec
  <2>5. /\ DOMAIN stored = SpecNames
        /\ stored.role_contract = IF "role_contract" \in names
                                  THEN WithDefaults(task.kind, task.mode, spec.role_contract)
                                  ELSE spec.role_contract
        /\ \A n \in SpecNames \ {"role_contract"} : stored[n] = spec[n]
    BY <2>2 DEF SpecNames
  <2> HIDE DEF stored
  <2>6. ContractSound(task.kind, task.mode, stored.role_contract)
    <3>1. CASE "role_contract" \in names
      BY <2>1, <2>2, <2>3, <2>5, <3>1, StoredSound DEF Valid, FormInv, SpecNames
    <3>2. CASE "role_contract" \notin names
      BY <2>2, <2>5, <3>2 DEF FormInv, SpecNames
    <3> QED
      BY <3>1, <3>2
  <2>7. SpecFit(task.kind, stored)
    <3>1. PathFits(spec) /\ TierFits(spec) /\ CheckpointsFit(spec)
      BY <2>2, <2>3 DEF FormInv, SpecFit, PathFits, TierFits, CheckpointsFit, SpecNames
    <3>2. SpecFit(task.kind, spec)
      BY <2>2, <2>3, <3>1 DEF SpecFit, ScopesFit, SemanticRules, NoOverlap
    <3> QED
      BY <2>5, <3>2 DEF SpecFit, SpecNames, PathFits, TierFits, CheckpointsFit
  <2>8. /\ task'.kind = task.kind /\ task'.mode = task.mode
        /\ task'.subject = task.subject /\ task'.spec = stored
        /\ DOMAIN task' = {"kind", "mode", "subject", "revision", "spec"}
    BY <2>4 DEF FormInv
  <2> QED
    BY <2>6, <2>7, <2>8 DEF FormInv
<1> QED
  BY <1>1, <1>2

LEMMA SoundAndShown == FormInv => SpecKept
<1> SUFFICES ASSUME FormInv, task # NoTask PROVE SpecKept
  BY DEF SpecKept, RecordSound, NothingHidden
<1> DEFINE c == task.spec.role_contract
           F == FieldsFor(task.kind, task.mode)
<1>1. /\ FitPair(task.kind, task.mode) /\ ContractSound(task.kind, task.mode, c)
      /\ SpecFit(task.kind, task.spec)
      /\ task.subject = (task.kind \in {"review", "architecture"})
  BY DEF FormInv
<1>2. AuditedFields = {}
  BY <1>1 DEF AuditedFields, SpecFit, PathFits, TierFits, CheckpointsFit
<1>3. RecordSound
  BY <1>1, <1>2 DEF RecordSound, ContractSound, SpecFit
<1>4. /\ Rendered(task.kind, task.mode) = DOMAIN F
      /\ Prompted(task.kind, task.mode) = DOMAIN F \ {"verdict_rules"}
  BY <1>1, AllShown
<1>5. \A n \in DOMAIN F : n \notin DOMAIN BudgetFields
  BY <1>1, FieldsShaped DEF Shaped
<1>6. DOMAIN c \subseteq DOMAIN F \union DOMAIN BudgetFields
  BY <1>1 DEF ContractSound
<1>7. \A n : HasContent(c, n) => n \in DOMAIN c
  BY DEF HasContent, Given
<1> DEFINE content == {n \in DOMAIN c \ DOMAIN BudgetFields : HasContent(c, n)}
<1>8. content = ShownInSpec /\ content \ {"verdict_rules"} = ToldToWorker
  BY <1>4, <1>5, <1>6, <1>7 DEF ShownInSpec, ToldToWorker
<1>9. CommonTold = CommonShown
  <2>1. (task.subject /\ task.kind \in {"review", "architecture"}) = task.subject
    <3>1. CASE task.kind \in {"review", "architecture"}
      <4>1. task.subject = TRUE
        BY <1>1, <3>1
      <4> QED
        BY <3>1, <4>1
    <3>2. CASE task.kind \notin {"review", "architecture"}
      <4>1. (task.kind \in {"review", "architecture"}) = FALSE
        BY <3>2
      <4>2. task.subject = (task.kind \in {"review", "architecture"})
        BY <1>1
      <4> QED
        BY <4>1, <4>2
    <3> QED
      BY <3>1, <3>2
  <2>2. CommonTold = [CommonShown EXCEPT !.subject = task.subject]
    <3>1. CommonShown.subject = task.subject
      BY DEF CommonShown
    <3> QED
      BY <2>1, <3>1 DEF CommonTold
  <2> QED
    BY <2>2 DEF CommonShown
<1>10. NothingHidden
  BY <1>8, <1>9 DEF NothingHidden
<1> QED
  BY <1>3, <1>10 DEF SpecKept

(* Whatever contracts, scopes and texts the two tools are given, a draft is *)
(* a contract a worker can be held to, and shows all of it.                *)
THEOREM SpecKeptHolds == FormSpec => []SpecKept
<1>1. SpecInit => FormInv
  BY DEF SpecInit, FormInv
<1>2. FormInv /\ [SpecNext]_specVars => FormInv'
  <2> SUFFICES ASSUME FormInv, [SpecNext]_specVars PROVE FormInv'
    OBVIOUS
  <2>1. ASSUME NEW km \in KindsAndModes, NEW spec \in Specs(km[1], km[2]),
               Create(km[1], km[2], spec)
        PROVE  FormInv'
    BY <2>1, CreateSound
  <2>2. ASSUME task # NoTask, NEW spec \in Specs(task.kind, task.mode),
               NEW names \in SUBSET DOMAIN spec, Update([n \in names |-> spec[n]])
        PROVE  FormInv'
    BY <2>2, UpdateSound
  <2>3. CASE UNCHANGED specVars
    BY <2>3 DEF FormInv, specVars
  <2> QED
    BY <2>1, <2>2, <2>3 DEF SpecNext
<1> QED
  BY <1>1, <1>2, SoundAndShown, PTL DEF FormSpec

-----------------------------------------------------------------------------
(* The projection of the plugin.                                           *)
(* What a chain of n hops is: r[m] is where every path leads within m.     *)
Hops(tree, r, n) ==
    r = [m \in 0 .. n |-> IF m = 0 THEN [p \in Paths |-> Nowhere] ELSE Follow(tree, r[m-1])]

LEMMA HopsExist ==
    ASSUME NEW tree, NEW n \in Nat
    PROVE  \E r : Hops(tree, r, n)
<1> DEFINE Bad == {m \in Nat : ~\E r : Hops(tree, r, m)}
           Start == [p \in Paths |-> Nowhere]
<1> SUFFICES ASSUME Bad # {} PROVE FALSE
  OBVIOUS
<1>1. Bad \subseteq Nat
  OBVIOUS
<1>2. PICK m \in Bad : \A k \in Bad : ~(<<k, m>> \in OpToRel(<, Nat))
  <2> HIDE DEF Bad
  <2> QED
    BY <1>1, NatLessThanWellFounded, WFMin
<1>3. m \in Nat /\ ~\E r : Hops(tree, r, m)
  OBVIOUS
<1>4. CASE m = 0
  <2> DEFINE s == [k \in 0 .. 0 |-> Start]
  <2>1. Hops(tree, s, 0)
    BY DEF Hops
  <2> QED
    BY <1>3, <1>4, <2>1
<1>5. CASE m # 0
  <2>1. m-1 \in Nat /\ m-1 < m
    BY <1>3, <1>5
  <2>2. m-1 \notin Bad
    <3> HIDE DEF Bad
    <3> QED
      BY <1>1, <1>2, <2>1 DEF OpToRel
  <2>3. PICK r : Hops(tree, r, m-1)
    BY <2>1, <2>2
  <2>4. \A k \in 0 .. m-1 : r[k] = IF k = 0 THEN Start ELSE Follow(tree, r[k-1])
    BY <2>3 DEF Hops
  <2> DEFINE s == [k \in 0 .. m |-> IF k = 0 THEN Start ELSE Follow(tree, r[k-1])]
  <2>5. \A k \in 0 .. m-1 : s[k] = r[k]
    BY <2>1, <2>4
  <2>6. \A k \in 0 .. m : k # 0 => k-1 \in 0 .. m-1
    BY <2>1
  <2>7. Hops(tree, s, m)
    BY <2>5, <2>6 DEF Hops
  <2> QED
    BY <1>3, <2>7
<1> QED
  BY <1>4, <1>5

LEMMA Unfolded ==
    ASSUME NEW tree
    PROVE  \E r : /\ RealPaths(tree) = r[MaxHops]
                  /\ \A n \in 1 .. MaxHops : r[n] = Follow(tree, r[n-1])
<1>1. PICK r : Hops(tree, r, MaxHops)
  BY HopsExist DEF MaxHops
<1> DEFINE real == CHOOSE s : Hops(tree, s, MaxHops)
<1>2. Hops(tree, real, MaxHops)
  BY <1>1
<1>3. RealPaths(tree) = real[MaxHops]
  BY DEF RealPaths, Hops
<1> HIDE DEF real
<1>4. \A n \in 1 .. MaxHops : real[n] = Follow(tree, real[n-1])
  BY <1>2 DEF Hops, MaxHops
<1> QED
  BY <1>3, <1>4

LEMMA Places ==
    /\ DOMAIN Parent = {"plugins", "global", "profiles", "own", "local", "logical",
                        "spare", "side", "other", "stray"}
    /\ Nowhere \notin Paths
    /\ Child("root", "plugins") = "plugins" /\ Child("plugins", "aota-tools") = "global"
    /\ Child("root", "profiles") = "profiles" /\ Child("profiles", "p") = "own"
    /\ Child("own", "plugins") = "local" /\ Child("local", "aota-tools") = "logical"
<1>1. DOMAIN Parent = {"plugins", "global", "profiles", "own", "local", "logical",
                       "spare", "side", "other", "stray"}
  BY DEF Parent
<1>2. /\ Parent["plugins"] = "root" /\ Parent["global"] = "plugins"
      /\ Parent["profiles"] = "root" /\ Parent["own"] = "profiles"
      /\ Parent["local"] = "own" /\ Parent["logical"] = "local"
      /\ Parent["spare"] = "root" /\ Parent["side"] = "spare"
      /\ Parent["other"] = "profiles" /\ Parent["stray"] = "other"
  BY DEF Parent, Root
<1>3. /\ Name["plugins"] = "plugins" /\ Name["global"] = "aota-tools"
      /\ Name["profiles"] = "profiles" /\ Name["own"] = "p"
      /\ Name["local"] = "plugins" /\ Name["logical"] = "aota-tools"
      /\ Name["spare"] = "spare" /\ Name["side"] = "aota-tools"
      /\ Name["other"] = "q" /\ Name["stray"] = "aota-tools"
  BY DEF Name
<1>4. ASSUME NEW d, NEW n, NEW p \in DOMAIN Parent,
             \A q \in DOMAIN Parent : (Parent[q] = d /\ Name[q] = n) <=> q = p
      PROVE  Child(d, n) = p
  <2>1. {q \in DOMAIN Parent : Parent[q] = d /\ Name[q] = n} = {p}
    BY <1>4
  <2> QED
    BY <2>1 DEF Child
<1>5. Child("root", "plugins") = "plugins"
  BY <1>1, <1>2, <1>3, <1>4
<1>6. Child("plugins", "aota-tools") = "global"
  BY <1>1, <1>2, <1>3, <1>4
<1>7. Child("root", "profiles") = "profiles"
  BY <1>1, <1>2, <1>3, <1>4
<1>8. Child("profiles", "p") = "own"
  BY <1>1, <1>2, <1>3, <1>4
<1>9. Child("own", "plugins") = "local"
  BY <1>1, <1>2, <1>3, <1>4
<1>10. Child("local", "aota-tools") = "logical"
  BY <1>1, <1>2, <1>3, <1>4
<1>11. Nowhere \notin Paths
  BY <1>1 DEF Nowhere, Paths, Root
<1> QED
  BY <1>1, <1>5, <1>6, <1>7, <1>8, <1>9, <1>10, <1>11

(* The places the check asks about, each with the directory it is in.      *)
Known == {"plugins", "global", "profiles", "own", "local", "logical"}

LEMMA KnownPlaces ==
    /\ Known \subseteq DOMAIN Parent /\ Known \subseteq Paths /\ Nowhere \notin Known
    /\ \A p \in Known : Child(Parent[p], Name[p]) = p /\ Parent[p] # Nowhere
    /\ Parent["plugins"] = "root" /\ Parent["profiles"] = "root"
    /\ Parent["global"] = "plugins" /\ Parent["own"] = "profiles"
    /\ Parent["local"] = "own" /\ Parent["logical"] = "local"
    /\ "root" \in Paths /\ "root" \notin DOMAIN Parent /\ "root" # Nowhere
<1>1. /\ Parent["plugins"] = "root" /\ Parent["profiles"] = "root"
      /\ Parent["global"] = "plugins" /\ Parent["own"] = "profiles"
      /\ Parent["local"] = "own" /\ Parent["logical"] = "local"
  BY DEF Parent, Root
<1>2. /\ Name["plugins"] = "plugins" /\ Name["global"] = "aota-tools"
      /\ Name["profiles"] = "profiles" /\ Name["own"] = "p"
      /\ Name["local"] = "plugins" /\ Name["logical"] = "aota-tools"
  BY DEF Name
<1>3. "root" \in Paths /\ "root" \notin DOMAIN Parent
  BY Places DEF Paths, Root
<1>4. Known \subseteq DOMAIN Parent /\ Known \subseteq Paths
  BY Places DEF Known, Paths
<1>5. \A p \in Known : Child(Parent[p], Name[p]) = p /\ Parent[p] # Nowhere
  BY <1>1, <1>2, Places DEF Known, Nowhere
<1> QED
  BY <1>1, <1>3, <1>4, <1>5 DEF Known, Nowhere

(* A place is reached where its directory is one that is reached.          *)
LEMMA StepDown ==
    ASSUME NEW tree, NEW r, NEW p \in Known,
           r[Parent[p]] = Parent[p], tree[Parent[p]] = "dir"
    PROVE  Reach(tree, r, p) = p
  BY KnownPlaces DEF Reach

LEMMA StepUp ==
    ASSUME NEW tree, NEW r, NEW p \in Known, Reach(tree, r, p) # Nowhere
    PROVE  r[Parent[p]] # Nowhere /\ tree[r[Parent[p]]] = "dir"
  BY KnownPlaces DEF Reach

LEMMA Led ==
    ASSUME NEW tree, NEW r, NEW p \in Paths, Follow(tree, r)[p] # Nowhere
    PROVE  /\ Reach(tree, r, p) # Nowhere
           /\ Reach(tree, r, p) = p /\ ~IsLink(tree[p]) =>
                 tree[p] # "missing" /\ Follow(tree, r)[p] = p
  BY DEF Follow

LEMMA Stays ==
    ASSUME NEW tree, NEW r, NEW p \in Paths, p # Nowhere, Reach(tree, r, p) = p,
           ~IsLink(tree[p]), tree[p] # "missing"
    PROVE  Follow(tree, r)[p] = p
  BY DEF Follow

LEMMA AboveThem ==
    /\ Ancestors(Logical) = {"local", "own", "profiles"}
    /\ Ancestors(Global) = {"plugins"}
  BY DEF Ancestors, Logical, Global

(* The way down to the place of the link: where it can be looked up and no *)
(* directory on it is a link, each of them is where it seems to be.        *)
LEMMA WayToLink ==
    ASSUME NEW tree \in Trees, Validate(tree) = "valid"
    PROVE  /\ \A p \in {"root", "profiles", "own", "local"} :
                 Lstat(tree, p) = "dir" /\ tree[p] = "dir"
           /\ Lstat(tree, "logical") = tree["logical"] /\ IsLink(tree["logical"])
<1>1. PICK r : /\ RealPaths(tree) = r[24]
               /\ \A n \in 1 .. 24 : r[n] = Follow(tree, r[n-1])
  BY Unfolded DEF MaxHops
<1>2. /\ r[24] = Follow(tree, r[23]) /\ r[23] = Follow(tree, r[22])
      /\ r[22] = Follow(tree, r[21]) /\ r[21] = Follow(tree, r[20])
  <2>1. \A n \in {24, 23, 22, 21} : n \in 1 .. 24
    OBVIOUS
  <2> QED
    BY <1>1, <2>1
<1>3. /\ ~IsLink(tree["root"]) /\ IsLink(Lstat(tree, "logical"))
      /\ \A a \in {"local", "own", "profiles"} : ~IsLink(Lstat(tree, a))
  <2>1. /\ ~IsLink(tree[Root]) /\ IsLink(Lstat(tree, Logical))
        /\ ~ParentChainHasSymlink(tree, Logical)
    BY DEF Validate
  <2>2. Ancestors(Logical) = {"local", "own", "profiles"}
    BY AboveThem
  <2> QED
    BY <2>1, <2>2 DEF ParentChainHasSymlink, Root, Logical
<1>4. ~IsLink("missing")
  BY Places DEF IsLink, Paths, Root
<1>5. Reach(tree, r[24], "logical") # Nowhere
  BY <1>1, <1>3, <1>4 DEF Lstat
<1>6. r[24]["local"] # Nowhere /\ tree[r[24]["local"]] = "dir"
  BY <1>5, StepUp, KnownPlaces DEF Known
<1>7. Reach(tree, r[23], "local") # Nowhere /\ r[23]["own"] # Nowhere
  BY <1>2, <1>6, Led, StepUp, KnownPlaces DEF Known
<1>8. Reach(tree, r[22], "own") # Nowhere /\ r[22]["profiles"] # Nowhere
  BY <1>2, <1>7, Led, StepUp, KnownPlaces DEF Known
<1>9. Reach(tree, r[21], "profiles") # Nowhere /\ r[21]["root"] # Nowhere
      /\ tree[r[21]["root"]] = "dir"
  BY <1>2, <1>8, Led, StepUp, KnownPlaces DEF Known
<1>10. \A s : Reach(tree, s, "root") = "root"
  BY KnownPlaces DEF Reach
<1>11. tree["root"] = "dir" /\ r[21]["root"] = "root"
  BY <1>2, <1>3, <1>9, <1>10, Led, KnownPlaces
<1>12. r[22]["root"] = "root" /\ r[23]["root"] = "root" /\ r[24]["root"] = "root"
  BY <1>2, <1>3, <1>10, <1>11, Stays, KnownPlaces
<1>13. /\ Reach(tree, r[21], "profiles") = "profiles" /\ Reach(tree, r[22], "profiles") = "profiles"
       /\ Reach(tree, r[23], "profiles") = "profiles" /\ Reach(tree, r[24], "profiles") = "profiles"
  BY <1>11, <1>12, StepDown, KnownPlaces DEF Known
<1>14. Lstat(tree, "profiles") = tree["profiles"] /\ ~IsLink(tree["profiles"])
  BY <1>1, <1>3, <1>13, KnownPlaces DEF Lstat, Known
<1>15. tree["profiles"] # "missing" /\ r[22]["profiles"] = "profiles"
  BY <1>2, <1>8, <1>13, <1>14, Led, KnownPlaces DEF Known
<1>16. r[23]["profiles"] = "profiles" /\ r[24]["profiles"] = "profiles"
  BY <1>2, <1>13, <1>14, <1>15, Stays, KnownPlaces DEF Known
<1>17. tree["profiles"] = "dir"
  BY <1>8, <1>15, StepUp, KnownPlaces DEF Known
<1>18. /\ Reach(tree, r[22], "own") = "own" /\ Reach(tree, r[23], "own") = "own"
       /\ Reach(tree, r[24], "own") = "own"
  BY <1>15, <1>16, <1>17, StepDown, KnownPlaces DEF Known
<1>19. Lstat(tree, "own") = tree["own"] /\ ~IsLink(tree["own"])
  BY <1>1, <1>3, <1>18, KnownPlaces DEF Lstat, Known
<1>20. tree["own"] # "missing" /\ r[23]["own"] = "own"
  BY <1>2, <1>7, <1>18, <1>19, Led, KnownPlaces DEF Known
<1>21. r[24]["own"] = "own"
  BY <1>2, <1>18, <1>19, <1>20, Stays, KnownPlaces DEF Known
<1>22. tree["own"] = "dir"
  BY <1>7, <1>20, StepUp, KnownPlaces DEF Known
<1>23. Reach(tree, r[23], "local") = "local" /\ Reach(tree, r[24], "local") = "local"
  BY <1>20, <1>21, <1>22, StepDown, KnownPlaces DEF Known
<1>24. Lstat(tree, "local") = tree["local"] /\ ~IsLink(tree["local"])
  BY <1>1, <1>3, <1>23, KnownPlaces DEF Lstat, Known
<1>25. r[24]["local"] = "local" /\ tree["local"] = "dir"
  BY <1>2, <1>6, <1>23, <1>24, Led, KnownPlaces DEF Known
<1>26. Reach(tree, r[24], "logical") = "logical"
  BY <1>25, StepDown, KnownPlaces DEF Known
<1>27. Lstat(tree, "logical") = tree["logical"]
  BY <1>1, <1>26, KnownPlaces DEF Lstat, Known
<1>28. Lstat(tree, "root") = "dir"
  BY <1>1, <1>10, <1>11, KnownPlaces DEF Lstat
<1> QED
  BY <1>3, <1>11, <1>14, <1>17, <1>19, <1>22, <1>24, <1>25, <1>27, <1>28

(* The way to the one plugin directory: no link is on it either, and what  *)
(* the projection leads to is found there.                                 *)
LEMMA WayHome ==
    ASSUME NEW tree \in Trees, Validate(tree) = "valid"
    PROVE  /\ Lstat(tree, "plugins") = "dir" /\ Lstat(tree, "global") = "dir"
           /\ RealPaths(tree)["logical"] = "global"
<1>1. PICK r : /\ RealPaths(tree) = r[24]
               /\ \A n \in 1 .. 24 : r[n] = Follow(tree, r[n-1])
  BY Unfolded DEF MaxHops
<1>2. /\ r[24] = Follow(tree, r[23]) /\ r[23] = Follow(tree, r[22])
      /\ r[22] = Follow(tree, r[21])
  <2>1. \A n \in {24, 23, 22} : n \in 1 .. 24
    OBVIOUS
  <2> QED
    BY <1>1, <2>1
<1>3. tree["root"] = "dir" /\ ~IsLink("dir") /\ ~IsLink("missing")
  BY WayToLink, Places DEF IsLink, Paths, Root
<1>4. /\ r[24]["logical"] # Nowhere /\ tree[r[24]["logical"]] = "dir"
      /\ r[24]["logical"] = r[24]["global"]
      /\ ~IsLink(Lstat(tree, "global")) /\ ~IsLink(Lstat(tree, "plugins"))
  <2>1. LET resolved == RealPaths(tree)[Logical]
        IN /\ resolved # Nowhere /\ tree[resolved] = "dir"
           /\ resolved = RealPaths(tree)[Global] /\ GlobalIsPlain(tree)
    BY DEF Validate
  <2>2. ~IsLink(Lstat(tree, Global)) /\ \A a \in {"plugins"} : ~IsLink(Lstat(tree, a))
    BY <2>1, AboveThem DEF GlobalIsPlain, ParentChainHasSymlink
  <2> QED
    BY <1>1, <2>1, <2>2 DEF Logical, Global
<1>5. \A s : Reach(tree, s, "root") = "root"
  BY KnownPlaces DEF Reach
<1>6. r[22]["root"] = "root" /\ r[23]["root"] = "root" /\ r[24]["root"] = "root"
  BY <1>2, <1>3, <1>5, Stays, KnownPlaces
<1>7. /\ Reach(tree, r[22], "plugins") = "plugins" /\ Reach(tree, r[23], "plugins") = "plugins"
      /\ Reach(tree, r[24], "plugins") = "plugins"
  BY <1>3, <1>6, StepDown, KnownPlaces DEF Known
<1>8. Lstat(tree, "plugins") = tree["plugins"] /\ ~IsLink(tree["plugins"])
  BY <1>1, <1>4, <1>7, KnownPlaces DEF Lstat, Known
<1>9. Reach(tree, r[23], "global") # Nowhere /\ r[23]["plugins"] # Nowhere
      /\ tree[r[23]["plugins"]] = "dir"
  BY <1>2, <1>4, Led, StepUp, KnownPlaces DEF Known
<1>10. r[23]["plugins"] = "plugins" /\ tree["plugins"] = "dir"
  BY <1>2, <1>7, <1>8, <1>9, Led, KnownPlaces DEF Known
<1>11. r[24]["plugins"] = "plugins"
  BY <1>2, <1>3, <1>7, <1>8, <1>10, Stays, KnownPlaces DEF Known
<1>12. Reach(tree, r[23], "global") = "global" /\ Reach(tree, r[24], "global") = "global"
  BY <1>10, <1>11, StepDown, KnownPlaces DEF Known
<1>13. Lstat(tree, "global") = tree["global"] /\ ~IsLink(tree["global"])
  BY <1>1, <1>4, <1>12, KnownPlaces DEF Lstat, Known
<1>14. r[24]["global"] = "global"
  BY <1>2, <1>4, <1>12, <1>13, Led, KnownPlaces DEF Known
<1> QED
  BY <1>1, <1>4, <1>8, <1>10, <1>13, <1>14

(* A layout that passes leads home, whatever the layout.                   *)
LEMMA PassesHome ==
    ASSUME NEW tree \in Trees, ContractHolds(tree)
    PROVE  /\ RealPaths(tree)[Logical] = Global
           /\ \A p \in Ancestors(Logical) \union Ancestors(Global) \union {Root, Global} :
                Lstat(tree, p) = "dir"
           /\ IsLink(tree[Logical])
  BY WayToLink, WayHome, AboveThem DEF ContractHolds, Root, Logical, Global

(* A projection that passes the check leads by one link into the one       *)
(* plugin directory and over no other link.                                *)
THEOREM LandsHomeHolds == ProjectionSpec => []LandsHome
<1>1. layout \in Trees => LandsHome
  BY PassesHome DEF LandsHome
<1>2. layout \in Trees /\ [layout' \in Trees]_layout => (layout \in Trees)'
  OBVIOUS
<1> QED
  BY <1>1, <1>2, PTL DEF ProjectionSpec
=============================================================================
