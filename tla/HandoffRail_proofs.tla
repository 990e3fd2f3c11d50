------------------------- MODULE HandoffRail_proofs -------------------------
(***************************************************************************)
(* Proofs about HandoffRail, for any number of creators, sessions,         *)
(* handoffs, decisions and drafts, and any faults, and about OperatorView  *)
(* and OperatorLineage, what an operator is shown of it.                   *)
(***************************************************************************)
EXTENDS OperatorLineage, FiniteSetTheorems, WellFoundedInduction, TLAPS

(* The initial state: no file, no lock, no call.                           *)
LEMMA InitInv == Init => RailInv
<1> SUFFICES ASSUME Init PROVE RailInv
  OBVIOUS
<1>1. TypeOK
  BY RailAssumption
     DEF Init, TypeOK, Decisions, Jobs, NoJob, Unwritten, States, Actors
<1>2. AckFollowsDecision /\ FollowupAllowed /\ NoLateDuplicate /\ DecisionInv /\ DraftInv
  BY DEF Init, AckFollowsDecision, FollowupAllowed, NoLateDuplicate, DecisionInv, DecisionOk,
         DraftInv, Unwritten
<1>3. LockInv
  BY RailAssumption DEF Init, LockInv, Actors
<1>4. (\A a \in Callers : CallInv(a)) /\ (\A c \in Creators : CreatorInv(c))
  BY DEF Init, CallInv, CreatorInv, Actors
<1> QED
  BY <1>1, <1>2, <1>3, <1>4 DEF RailInv

-----------------------------------------------------------------------------
(* Ends of calls *)

(* A call that ends gives back its locks and keeps no other's.             *)
LEMMA ReturnLocks ==
    ASSUME RailInv, NEW a \in Actors, Return(a)
    PROVE  LockInv'
BY RailAssumption DEF RailInv, TypeOK, LockInv, Return, Goto, Actors

(* It changes no other call and carries nothing on.                        *)
LEMMA ReturnTypes ==
    ASSUME RailInv, NEW a \in Actors, Return(a)
    PROVE  /\ pc' = [pc EXCEPT ![a] = "idle"]
           /\ job' = [job EXCEPT ![a] = NoJob]
           /\ hlock' \in [Handoffs -> Callers \union {None}]
           /\ dlock' \in [DecisionIds -> Callers \union {None}]
           /\ pc' \in [Actors -> {"idle", "scan", "create", "record", "lock", "move",
                                  "file", "check", "draft", "claim"}]
           /\ job' \in [Actors -> Jobs]
BY DEF RailInv, TypeOK, Return, Goto, Jobs, NoJob

(* A call that ends without a write leaves the invariant alone.            *)
LEMMA GiveUpInv ==
    ASSUME RailInv, NEW a \in Actors, Return(a), UNCHANGED <<files, late>>
    PROVE  RailInv'
<1>1. TypeOK'
  BY ReturnTypes DEF RailInv, TypeOK, files
<1>2. AckFollowsDecision' /\ FollowupAllowed' /\ DecisionInv' /\ DraftInv'
  BY DEF RailInv, files, AckFollowsDecision, FollowupAllowed, DecisionInv, DecisionOk, DraftInv, About,
         AllowedBy, Exists, Written
<1>3. LockInv'
  BY ReturnLocks
<1>4. ASSUME NEW b \in Callers PROVE CallInv(b)'
  BY ReturnTypes DEF RailInv, TypeOK, files, CallInv, About, AllowedBy, Exists, Written, Actors
<1>5. ASSUME NEW c \in Creators PROVE CreatorInv(c)'
  BY ReturnTypes DEF RailInv, TypeOK, files, CreatorInv, Actors
<1>6. NoLateDuplicate'
  BY ReturnTypes DEF RailInv, TypeOK, NoLateDuplicate, Actors
<1> QED
  BY <1>1, <1>2, <1>3, <1>4, <1>5, <1>6 DEF RailInv

-----------------------------------------------------------------------------
(* Creating the handoff *)

(* If a handoff existed and none was pending, one was acknowledged.        *)
LEMMA FindPendingInv ==
    ASSUME RailInv, NEW c \in Creators, FindPending(c)
    PROVE  RailInv'
<1>1. /\ pc' = [pc EXCEPT ![c] = IF Found(c) THEN "idle" ELSE "scan"]
      /\ UNCHANGED <<place, ack, decision, draft, hlock, dlock, job>>
  BY DEF FindPending, Goto, files, locks
<1>2. pc[c] = "idle" /\ c \notin Callers /\ c \in Actors
  BY RailAssumption DEF FindPending, Actors
<1>3. TypeOK'
  BY <1>1, <1>2 DEF RailInv, TypeOK, FindPending
<1>4. AckFollowsDecision' /\ FollowupAllowed' /\ DecisionInv' /\ DraftInv'
  BY <1>1 DEF RailInv, AckFollowsDecision, FollowupAllowed, DecisionInv, DecisionOk, DraftInv, About,
         AllowedBy, Exists, Written
<1>5. LockInv'
  BY <1>1, <1>2 DEF RailInv, TypeOK, LockInv
<1>6. ASSUME NEW b \in Callers PROVE CallInv(b)'
  BY <1>1, <1>2 DEF RailInv, TypeOK, CallInv, About, AllowedBy, Exists, Written
<1>7. ~Found(c) => \A h \in Handoffs : place[h] # "pending"
  BY <1>2 DEF Found, Listed
<1>8. ASSUME NEW b \in Creators PROVE CreatorInv(b)'
  BY <1>1, <1>2, <1>7 DEF RailInv, TypeOK, CreatorInv, FindPending, Exists, Actors
<1>9. NoLateDuplicate'
  BY <1>1, <1>2 DEF RailInv, TypeOK, NoLateDuplicate, FindPending, Actors
<1> QED
  BY <1>3, <1>4, <1>5, <1>6, <1>8, <1>9 DEF RailInv

(* A late creator finds the acknowledged handoff.                          *)
LEMMA FindAckedInv ==
    ASSUME RailInv, NEW c \in Creators, FindAcked(c)
    PROVE  RailInv'
<1>1. /\ pc' = [pc EXCEPT ![c] = IF Found(c) THEN "idle" ELSE "create"]
      /\ UNCHANGED <<place, ack, decision, draft, hlock, dlock, job, late>>
  BY DEF FindAcked, Goto, files, locks
<1>2. pc[c] = "scan" /\ c \notin Callers /\ c \in Actors
  BY RailAssumption DEF FindAcked, Actors
<1>3. TypeOK'
  BY <1>1, <1>2 DEF RailInv, TypeOK
<1>4. AckFollowsDecision' /\ FollowupAllowed' /\ DecisionInv' /\ DraftInv'
  BY <1>1 DEF RailInv, AckFollowsDecision, FollowupAllowed, DecisionInv, DecisionOk, DraftInv, About,
         AllowedBy, Exists, Written
<1>5. LockInv'
  BY <1>1, <1>2 DEF RailInv, TypeOK, LockInv
<1>6. ASSUME NEW b \in Callers PROVE CallInv(b)'
  BY <1>1, <1>2 DEF RailInv, TypeOK, CallInv, About, AllowedBy, Exists, Written
<1>7. ASSUME NEW b \in Creators PROVE CreatorInv(b)'
  BY <1>1, <1>2 DEF RailInv, TypeOK, CreatorInv, Actors
<1>8. c \in late => Found(c)
  BY <1>2 DEF RailInv, CreatorInv, Found, Listed
<1>9. NoLateDuplicate'
  BY <1>1, <1>2, <1>8 DEF RailInv, TypeOK, NoLateDuplicate, Actors
<1> QED
  BY <1>3, <1>4, <1>5, <1>6, <1>7, <1>9 DEF RailInv

(* A new handoff touches none that exists.                                 *)
LEMMA WriteHandoffInv ==
    ASSUME RailInv, NEW c \in Creators, WriteHandoff(c)
    PROVE  RailInv'
<1>1. /\ pc' = [pc EXCEPT ![c] = "idle"]
      /\ UNCHANGED <<ack, decision, draft, hlock, dlock, job, late>>
  BY DEF WriteHandoff, Goto, locks
<1>2. c \notin Callers /\ c \in Actors
  BY RailAssumption DEF Actors
<1>3. /\ place' \in [Handoffs -> {"none", "pending", "acknowledged"}]
      /\ \A h \in Handoffs : Exists(h) => place'[h] = place[h]
  BY DEF RailInv, TypeOK, WriteHandoff, Exists
<1>4. TypeOK'
  BY <1>1, <1>3 DEF RailInv, TypeOK
<1>5. AckFollowsDecision' /\ FollowupAllowed' /\ DecisionInv' /\ DraftInv'
  BY <1>1, <1>3 DEF RailInv, TypeOK, Decisions, AckFollowsDecision, FollowupAllowed,
         DecisionInv, DecisionOk, DraftInv, About, AllowedBy, Exists, Written
<1>6. LockInv'
  BY <1>1, <1>2 DEF RailInv, TypeOK, LockInv
<1>7. ASSUME NEW b \in Callers PROVE CallInv(b)'
  BY <1>1, <1>2, <1>3 DEF RailInv, TypeOK, CallInv, About, AllowedBy, Exists, Written
<1>8. ASSUME NEW b \in Creators PROVE CreatorInv(b)'
  BY <1>1, <1>2, <1>3 DEF RailInv, TypeOK, CreatorInv, Exists, Actors
<1>9. NoLateDuplicate'
  BY <1>1, <1>2 DEF RailInv, TypeOK, NoLateDuplicate, Actors
<1> QED
  BY <1>4, <1>5, <1>6, <1>7, <1>8, <1>9 DEF RailInv

-----------------------------------------------------------------------------
(* A step that changes only what one call carries and where it is keeps    *)
(* what the files say, and what creators rely on.                          *)
LEMMA CallOnly ==
    ASSUME RailInv, NEW a \in Callers, UNCHANGED <<files, late>>,
           NEW l \in {"record", "lock", "move", "file", "check", "draft", "claim"},
           pc' = [pc EXCEPT ![a] = l]
    PROVE  /\ AckFollowsDecision' /\ FollowupAllowed' /\ DecisionInv' /\ DraftInv'
           /\ NoLateDuplicate'
           /\ \A c \in Creators : CreatorInv(c)'
           /\ \A b \in Callers \ {a} : job'[b] = job[b] => CallInv(b)'
<1>1. AckFollowsDecision' /\ FollowupAllowed' /\ DecisionInv' /\ DraftInv'
  BY DEF RailInv, files, AckFollowsDecision, FollowupAllowed, DecisionInv, DecisionOk, DraftInv, About,
         AllowedBy, Exists, Written
<1>2. NoLateDuplicate'
  BY RailAssumption DEF RailInv, TypeOK, NoLateDuplicate, Actors
<1>3. ASSUME NEW c \in Creators PROVE CreatorInv(c)'
  BY RailAssumption DEF RailInv, TypeOK, files, CreatorInv, Actors
<1>4. ASSUME NEW b \in Callers \ {a}, job'[b] = job[b] PROVE CallInv(b)'
  BY <1>4 DEF RailInv, TypeOK, files, CallInv, About, AllowedBy, Exists, Written, Actors
<1> QED
  BY <1>1, <1>2, <1>3, <1>4

-----------------------------------------------------------------------------
(* Recording a decision *)

(* The unlocked look only notes what the call is about.                    *)
LEMMA RecordBeginInv ==
    ASSUME RailInv, NEW r \in Callers, RecordBegin(r)
    PROVE  RailInv'
<1>1. PICK h \in Handoffs, v \in Values :
          /\ Exists(h)
          /\ job' = [job EXCEPT ![r] = [NoJob EXCEPT !.handoff = h, !.value = v]]
  BY DEF RecordBegin
<1>2. /\ pc[r] = "idle" /\ pc' = [pc EXCEPT ![r] = "record"]
      /\ UNCHANGED <<files, locks, late>> /\ r \in Actors
  BY DEF RecordBegin, Goto, Actors
<1>3. TypeOK'
  BY <1>1, <1>2 DEF RailInv, TypeOK, files, locks, Jobs, NoJob
<1>4. LockInv'
  BY <1>1, <1>2 DEF RailInv, TypeOK, LockInv, locks, Actors
<1>5. CallInv(r)'
  BY <1>1, <1>2 DEF RailInv, TypeOK, CallInv, files, Exists, NoJob
<1>6. \A b \in Callers \ {r} : job'[b] = job[b]
  BY <1>1 DEF RailInv, TypeOK, Actors
<1> QED
  BY <1>2, <1>3, <1>4, <1>5, <1>6, CallOnly DEF RailInv

(* The new decision takes a fresh id, so nothing that is on file changes.  *)
LEMMA RecordWriteInv ==
    ASSUME RailInv, NEW r \in Callers, RecordWrite(r)
    PROVE  RailInv'
<1>1. CASE UNCHANGED decision
  BY <1>1, GiveUpInv DEF RecordWrite, files, Actors
<1>2. ASSUME NEW d \in DecisionIds, ~Written(d),
             decision' = [decision EXCEPT ![d] =
                 [Unwritten EXCEPT !.handoff = job[r].handoff,
                                   !.value = job[r].value,
                                   !.state = InitialState(job[r].value)]]
      PROVE  RailInv'
  <2> DEFINE new == [Unwritten EXCEPT !.handoff = job[r].handoff, !.value = job[r].value,
                                      !.state = InitialState(job[r].value)]
  <2>1. /\ Return(r) /\ pc[r] = "record" /\ r \in Actors
        /\ UNCHANGED <<place, ack, draft, late>>
    BY DEF RecordWrite, Actors
  <2>2. /\ job[r].handoff \in Handoffs /\ Exists(job[r].handoff)
        /\ job[r].value \in Values
    BY <2>1 DEF RailInv, CallInv
  <2>3. InitialState(job[r].value) \in {"closed", "awaiting_user", "recorded"}
    BY DEF InitialState
  <2>4. /\ new \in Decisions
        /\ new.handoff = job[r].handoff /\ new.value = job[r].value
        /\ new.state = InitialState(job[r].value) /\ new.resume = None /\ new.task = None
    BY <2>2, <2>3 DEF Decisions, Unwritten, States
  <2>5. /\ decision' \in [DecisionIds -> Decisions]
        /\ decision'[d] = new
        /\ \A e \in DecisionIds : Written(e) => e # d /\ decision'[e] = decision[e]
        /\ \A e \in DecisionIds \ {d} : decision'[e] = decision[e]
    BY <1>2, <2>4 DEF RailInv, TypeOK
  <2>6. TypeOK'
    BY <2>1, <2>5, ReturnTypes DEF RailInv, TypeOK
  <2>7. AckFollowsDecision'
    BY <2>1, <2>5, RailAssumption
       DEF RailInv, AckFollowsDecision, About, Written
  <2>8. DraftInv'
    BY <2>1, <2>2, <2>5 DEF RailInv, TypeOK, DraftInv, Written
  <2>9. FollowupAllowed'
    BY <2>1, <2>5 DEF RailInv, TypeOK, DraftInv, FollowupAllowed, AllowedBy
  <2>10. DecisionInv'
    <3>1. new.handoff # None /\ new.value # None
      BY <2>2, <2>4, RailAssumption
    <3>2. /\ new.value \in Closing <=> new.state = "closed"
          /\ new.state = "awaiting_user" => new.value = "needs_user_input"
          /\ new.state # "ready_for_followup"
      BY <2>4 DEF InitialState, Closing
    <3>3. new.resume = None /\ new.task = None /\ place' = place
      BY <2>1, <2>4
    <3>4. place[new.handoff] # "none"
      BY <2>2, <2>4 DEF Exists
    <3>5. \A e \in DecisionIds \ {d} : DecisionOk(decision[e])'
      BY <2>5, <3>3 DEF RailInv, DecisionInv, DecisionOk, Exists
    <3>6. DecisionOk(decision[d])'
      <4> HIDE DEF new
      <4> QED
        BY <2>5, <3>1, <3>2, <3>3, <3>4 DEF DecisionOk, Exists
    <3> QED
      BY <3>5, <3>6 DEF DecisionInv
  <2>11. LockInv'
    BY <2>1, ReturnLocks
  <2>12. ASSUME NEW b \in Callers PROVE CallInv(b)'
    <3>1. CASE b = r
      BY <3>1, <2>1, ReturnTypes DEF RailInv, TypeOK, CallInv
    <3>2. CASE b # r
      <4>1. pc'[b] = pc[b] /\ job'[b] = job[b]
        BY <3>2, <2>1, ReturnTypes DEF RailInv, TypeOK, Actors
      <4> QED
        BY <4>1, <2>1, <2>5, RailAssumption
           DEF RailInv, CallInv, Exists, About, Written, AllowedBy
    <3> QED
      BY <3>1, <3>2
  <2>13. (\A c \in Creators : CreatorInv(c)') /\ NoLateDuplicate'
    BY <2>1, ReturnTypes, RailAssumption
       DEF RailInv, TypeOK, CreatorInv, NoLateDuplicate, Actors
  <2> QED
    BY <2>6, <2>7, <2>8, <2>9, <2>10, <2>11, <2>12, <2>13 DEF RailInv
<1> QED
  BY <1>1, <1>2 DEF RecordWrite

-----------------------------------------------------------------------------
(* Acknowledging *)

(* The decision the ack call found is on file for good.                    *)
LEMMA AckBeginInv ==
    ASSUME RailInv, NEW a \in Callers, AckBegin(a)
    PROVE  RailInv'
<1>1. PICK h \in Handoffs, v \in Values :
          /\ Exists(h)
          /\ \E d \in About(h) : decision[d].value = v
          /\ job' = [job EXCEPT ![a] = [NoJob EXCEPT !.handoff = h, !.value = v]]
  BY DEF AckBegin
<1>2. /\ pc[a] = "idle" /\ pc' = [pc EXCEPT ![a] = "lock"]
      /\ UNCHANGED <<files, locks, late>> /\ a \in Actors
  BY DEF AckBegin, Goto, Actors
<1>3. TypeOK'
  BY <1>1, <1>2 DEF RailInv, TypeOK, files, locks, Jobs, NoJob
<1>4. LockInv'
  BY <1>1, <1>2 DEF RailInv, TypeOK, LockInv, locks, Actors
<1>5. CallInv(a)'
  BY <1>1, <1>2, RailAssumption
     DEF RailInv, TypeOK, CallInv, files, Exists, NoJob, About
<1>6. \A b \in Callers \ {a} : job'[b] = job[b]
  BY <1>1 DEF RailInv, TypeOK, Actors
<1> QED
  BY <1>2, <1>3, <1>4, <1>5, <1>6, CallOnly DEF RailInv

(* The lock was free, so no other ack call is moving or filing.            *)
LEMMA AckLockInv ==
    ASSUME RailInv, NEW a \in Callers, AckLock(a)
    PROVE  RailInv'
<1>1. /\ pc[a] = "lock" /\ pc' = [pc EXCEPT ![a] = "move"]
      /\ hlock[job[a].handoff] = None
      /\ hlock' = [hlock EXCEPT ![job[a].handoff] = a]
      /\ UNCHANGED <<files, dlock, job, late>> /\ a \in Actors
  BY DEF AckLock, Goto, Actors
<1>2. job[a].handoff \in Handoffs
  BY <1>1 DEF RailInv, CallInv
<1>3. TypeOK'
  BY <1>1, <1>2 DEF RailInv, TypeOK, files
<1>4. LockInv'
  BY <1>1, <1>2, RailAssumption DEF RailInv, TypeOK, LockInv, Actors
<1>5. CallInv(a)'
  BY <1>1 DEF RailInv, TypeOK, CallInv, files, Exists, About
<1> QED
  BY <1>1, <1>3, <1>4, <1>5, CallOnly DEF RailInv

(* The moved file stays a handoff that exists.                             *)
LEMMA AckMoveInv ==
    ASSUME RailInv, NEW a \in Callers, AckMove(a)
    PROVE  RailInv'
<1> DEFINE h == job[a].handoff
<1>1. /\ pc[a] = "move" /\ pc' = [pc EXCEPT ![a] = "file"]
      /\ place' = [place EXCEPT ![h] = "acknowledged"]
      /\ UNCHANGED <<ack, decision, draft, hlock, dlock, job, late>> /\ a \in Actors
  BY DEF AckMove, Goto, Actors, locks
<1>2. h \in Handoffs /\ Exists(h)
  BY <1>1 DEF RailInv, CallInv
<1>3. /\ place' \in [Handoffs -> {"none", "pending", "acknowledged"}]
      /\ place'[h] = "acknowledged"
      /\ \A g \in Handoffs : place[g] = "acknowledged" => place'[g] = "acknowledged"
      /\ \A g \in Handoffs : Exists(g) => place'[g] # "none"
  BY <1>1, <1>2 DEF RailInv, TypeOK, Exists
<1> HIDE DEF h
<1>4. TypeOK'
  BY <1>1, <1>3 DEF RailInv, TypeOK
<1>5. AckFollowsDecision'
  BY <1>1, <1>3 DEF RailInv, AckFollowsDecision, About
<1>6. FollowupAllowed' /\ DraftInv'
  BY <1>1 DEF RailInv, FollowupAllowed, AllowedBy, DraftInv, Written
<1>7. DecisionInv'
  <2>1. \A d \in DecisionIds :
            decision[d].handoff # None => decision[d].handoff \in Handoffs
    BY DEF RailInv, TypeOK, Decisions
  <2> QED
    BY <1>1, <1>3, <2>1 DEF RailInv, DecisionInv, DecisionOk, Exists
<1>8. LockInv'
  BY <1>1 DEF RailInv, TypeOK, LockInv
<1>9. ASSUME NEW b \in Callers PROVE CallInv(b)'
  BY <1>1, <1>3
     DEF RailInv, TypeOK, CallInv, Exists, About, Written, AllowedBy, Actors, h
<1>10. (\A c \in Creators : CreatorInv(c)') /\ NoLateDuplicate'
  BY <1>1, <1>3, RailAssumption DEF RailInv, TypeOK, CreatorInv, NoLateDuplicate, Actors
<1> QED
  BY <1>4, <1>5, <1>6, <1>7, <1>8, <1>9, <1>10 DEF RailInv

(* The artifact repeats the decision the call found.                       *)
LEMMA AckFileInv ==
    ASSUME RailInv, NEW a \in Callers, AckFile(a)
    PROVE  RailInv'
<1>1. CASE UNCHANGED ack
  BY <1>1, GiveUpInv DEF AckFile, files, Actors
<1>2. CASE ack' = [ack EXCEPT ![job[a].handoff] = job[a].value]
  <2>1. /\ pc[a] = "file" /\ Return(a) /\ a \in Actors
        /\ UNCHANGED <<place, decision, draft, late>>
    BY DEF AckFile, Actors
  <2>2. /\ job[a].handoff \in Handoffs /\ place[job[a].handoff] = "acknowledged"
        /\ job[a].value \in Values
        /\ \E d \in About(job[a].handoff) : decision[d].value = job[a].value
    BY <2>1 DEF RailInv, CallInv, TypeOK, Jobs
  <2>3. TypeOK'
    BY <1>2, <2>1, <2>2, ReturnTypes DEF RailInv, TypeOK
  <2>4. AckFollowsDecision'
    BY <1>2, <2>1, <2>2 DEF RailInv, TypeOK, AckFollowsDecision, About
  <2>5. FollowupAllowed' /\ DecisionInv' /\ DraftInv'
    BY <2>1 DEF RailInv, FollowupAllowed, DecisionInv, DecisionOk, DraftInv, AllowedBy, Exists, Written
  <2>6. LockInv'
    BY <2>1, ReturnLocks
  <2>7. ASSUME NEW b \in Callers PROVE CallInv(b)'
    BY <2>1, ReturnTypes
       DEF RailInv, TypeOK, CallInv, About, AllowedBy, Exists, Written, Actors
  <2>8. (\A c \in Creators : CreatorInv(c)') /\ NoLateDuplicate'
    BY <2>1, ReturnTypes, RailAssumption
       DEF RailInv, TypeOK, CreatorInv, NoLateDuplicate, Actors
  <2> QED
    BY <2>3, <2>4, <2>5, <2>6, <2>7, <2>8 DEF RailInv
<1> QED
  BY <1>1, <1>2 DEF AckFile

-----------------------------------------------------------------------------
(* Resuming *)

(* Nobody relies on a decision that still waits for the user.              *)
LEMMA ResumeInv ==
    ASSUME RailInv, NEW d \in DecisionIds, NEW k \in Kinds, Resume(d, k)
    PROVE  RailInv'
<1>1. /\ decision[d].value = "needs_user_input" /\ decision[d].resume = None
      /\ decision[d].state = "awaiting_user" /\ decision[d].task = None
      /\ UNCHANGED <<place, ack, draft, hlock, dlock, pc, job, late>>
  BY DEF Resume, locks
<1>2. /\ decision' \in [DecisionIds -> Decisions]
      /\ decision'[d] = [decision[d] EXCEPT !.resume = k, !.state = "ready_for_followup"]
      /\ \A e \in DecisionIds \ {d} : decision'[e] = decision[e]
  <2>1. decision[d] \in Decisions
    BY DEF RailInv, TypeOK
  <2>2. [decision[d] EXCEPT !.resume = k, !.state = "ready_for_followup"] \in Decisions
    BY <2>1 DEF Decisions, States
  <2> QED
    BY <2>2 DEF Resume, RailInv, TypeOK
<1>3. /\ decision'[d].handoff = decision[d].handoff /\ decision'[d].value = decision[d].value
      /\ decision'[d].task = decision[d].task /\ decision'[d].resume = k
      /\ decision'[d].state = "ready_for_followup"
  BY <1>2 DEF RailInv, TypeOK, Decisions
<1>4. \A e \in DecisionIds : /\ decision'[e].handoff = decision[e].handoff
                            /\ decision'[e].value = decision[e].value
                            /\ decision'[e].task = decision[e].task
  BY <1>2, <1>3
<1>5. \A j \in Kinds : ~AllowedBy(decision[d], j)
  BY <1>1, RailAssumption DEF AllowedBy
<1>6. TypeOK'
  BY <1>1, <1>2 DEF RailInv, TypeOK
<1>7. AckFollowsDecision'
  BY <1>1, <1>4 DEF RailInv, AckFollowsDecision, About
<1>8. FollowupAllowed' /\ DraftInv'
  BY <1>1, <1>2, <1>4, <1>5 DEF RailInv, TypeOK, FollowupAllowed, DraftInv, AllowedBy, Written
<1>9. DecisionInv'
  <2>1. decision[d].handoff # None
    BY <1>1, RailAssumption DEF RailInv, DecisionInv, DecisionOk, Unwritten
  <2>2. Exists(decision[d].handoff) /\ place' = place
    BY <1>1, <2>1 DEF RailInv, DecisionInv, DecisionOk
  <2>3. k # None /\ "needs_user_input" \notin Closing /\ "needs_user_input" # None
    BY <1>1, RailAssumption, <2>1 DEF Closing, RailInv, DecisionInv, DecisionOk
  <2>4. DecisionOk(decision[d])'
    BY <1>1, <1>3, <2>1, <2>2, <2>3 DEF DecisionOk, Exists
  <2>5. \A e \in DecisionIds \ {d} : DecisionOk(decision[e])'
    BY <1>2, <2>2 DEF RailInv, DecisionInv, DecisionOk, Exists
  <2> QED
    BY <2>4, <2>5 DEF DecisionInv
<1>10. LockInv'
  BY <1>1 DEF RailInv, LockInv
<1>11. ASSUME NEW b \in Callers PROVE CallInv(b)'
  BY <1>1, <1>2, <1>4, <1>5 DEF RailInv, CallInv, Exists, About, Written
<1>12. (\A c \in Creators : CreatorInv(c)') /\ NoLateDuplicate'
  BY <1>1 DEF RailInv, CreatorInv, NoLateDuplicate
<1> QED
  BY <1>6, <1>7, <1>8, <1>9, <1>10, <1>11, <1>12 DEF RailInv

-----------------------------------------------------------------------------
(* Creating the follow-up *)

(* A decision that admits a follow-up goes on to allow it.                 *)
LEMMA MayFollowAllows ==
    ASSUME RailInv, NEW d \in DecisionIds, NEW k \in Kinds, Written(d), MayFollow(d, k)
    PROVE  AllowedBy(decision[d], k)
<1>1. DecisionOk(decision[d]) /\ decision[d].handoff # None
  BY DEF RailInv, DecisionInv, Written
<1>2. \/ decision[d].value = "review_required" /\ k = "review"
      \/ decision[d].value \in {"needs_followup", "reopen_required"}
      \/ /\ decision[d].value = "needs_user_input"
         /\ decision[d].resume = k
  BY DEF MayFollow
<1> QED
  BY <1>2 DEF AllowedBy, Closing

(* The unlocked check notes a decision that allows the follow-up.          *)
LEMMA FollowReadInv ==
    ASSUME RailInv, NEW f \in Callers, FollowRead(f)
    PROVE  RailInv'
<1>1. PICK d \in DecisionIds, k \in Kinds :
          /\ Written(d) /\ MayFollow(d, k)
          /\ job' = [job EXCEPT ![f] = [NoJob EXCEPT !.decision = d, !.kind = k]]
  BY DEF FollowRead
<1>2. /\ pc[f] = "idle" /\ pc' = [pc EXCEPT ![f] = "check"]
      /\ UNCHANGED <<files, locks, late>> /\ f \in Actors
  BY DEF FollowRead, Goto, Actors
<1>3. TypeOK'
  BY <1>1, <1>2 DEF RailInv, TypeOK, files, locks, Jobs, NoJob
<1>4. LockInv'
  BY <1>1, <1>2 DEF RailInv, TypeOK, LockInv, locks, Actors
<1>5. AllowedBy(decision[d], k)
  BY <1>1, MayFollowAllows
<1>6. CallInv(f)'
  BY <1>1, <1>2, <1>5 DEF RailInv, TypeOK, CallInv, files, NoJob, AllowedBy, Written
<1>7. \A b \in Callers \ {f} : job'[b] = job[b]
  BY <1>1 DEF RailInv, TypeOK, Actors
<1> QED
  BY <1>2, <1>3, <1>4, <1>6, <1>7, CallOnly DEF RailInv

(* The second look: under the lock the decision still has no follow-up.    *)
LEMMA FollowLockInv ==
    ASSUME RailInv, NEW f \in Callers, FollowLock(f)
    PROVE  RailInv'
<1>1. CASE decision[job[f].decision].task # None
  BY <1>1, GiveUpInv DEF FollowLock, Actors
<1>2. CASE decision[job[f].decision].task = None
  <2>1. /\ pc[f] = "check" /\ pc' = [pc EXCEPT ![f] = "draft"]
        /\ dlock[job[f].decision] = None
        /\ dlock' = [dlock EXCEPT ![job[f].decision] = f]
        /\ UNCHANGED <<files, hlock, job, late>> /\ f \in Actors
    BY <1>2 DEF FollowLock, Goto, Actors
  <2>2. job[f].decision \in DecisionIds
    BY <2>1 DEF RailInv, CallInv
  <2>3. TypeOK'
    BY <2>1, <2>2 DEF RailInv, TypeOK, files
  <2>4. LockInv'
    BY <2>1, <2>2, RailAssumption DEF RailInv, TypeOK, LockInv, Actors
  <2>5. CallInv(f)'
    BY <1>2, <2>1 DEF RailInv, TypeOK, CallInv, files, AllowedBy, Written
  <2> QED
    BY <2>1, <2>3, <2>4, <2>5, CallOnly DEF RailInv
<1> QED
  BY <1>1, <1>2

(* The draft takes a fresh id and is allowed by the decision.              *)
LEMMA FollowCreateInv ==
    ASSUME RailInv, NEW f \in Callers, FollowCreate(f)
    PROVE  RailInv'
<1>1. PICK t \in Drafts :
          /\ draft[t].decision = None
          /\ draft' = [draft EXCEPT ![t] = [decision |-> job[f].decision,
                                            kind |-> job[f].kind]]
          /\ job' = [job EXCEPT ![f].task = t]
  BY DEF FollowCreate
<1>2. /\ pc[f] = "draft" /\ pc' = [pc EXCEPT ![f] = "claim"]
      /\ UNCHANGED <<place, ack, decision, hlock, dlock, late>> /\ f \in Actors
  BY DEF FollowCreate, Goto, locks, Actors
<1>3. /\ job[f].decision \in DecisionIds /\ Written(job[f].decision)
      /\ job[f].kind \in Kinds /\ AllowedBy(decision[job[f].decision], job[f].kind)
      /\ decision[job[f].decision].task = None
  BY <1>2 DEF RailInv, CallInv
<1>4. /\ job' \in [Actors -> Jobs]
      /\ job'[f].decision = job[f].decision /\ job'[f].handoff = job[f].handoff
      /\ job'[f].kind = job[f].kind /\ job'[f].task = t
      /\ \A b \in Actors \ {f} : job'[b] = job[b]
  <2>1. job[f] \in Jobs /\ [job[f] EXCEPT !.task = t] \in Jobs
    BY <1>2 DEF RailInv, TypeOK, Jobs
  <2> QED
    BY <1>1, <1>2, <2>1 DEF RailInv, TypeOK, Jobs
<1>5. TypeOK'
  BY <1>1, <1>2, <1>3, <1>4 DEF RailInv, TypeOK
<1>6. AckFollowsDecision' /\ DecisionInv'
  BY <1>2 DEF RailInv, AckFollowsDecision, DecisionInv, DecisionOk, About, Exists
<1>7. FollowupAllowed' /\ DraftInv'
  BY <1>1, <1>2, <1>3 DEF RailInv, TypeOK, FollowupAllowed, DraftInv, AllowedBy, Written
<1>8. LockInv'
  BY <1>2, <1>4 DEF RailInv, TypeOK, LockInv, Actors
<1>9. ASSUME NEW b \in Callers PROVE CallInv(b)'
  <2>1. CASE b = f
    BY <1>2, <1>3, <1>4, <2>1 DEF RailInv, TypeOK, CallInv, AllowedBy, Written
  <2>2. CASE b # f
    BY <1>2, <1>4, <2>2
       DEF RailInv, TypeOK, CallInv, About, AllowedBy, Exists, Written, Actors
  <2> QED
    BY <2>1, <2>2
<1>10. (\A c \in Creators : CreatorInv(c)') /\ NoLateDuplicate'
  BY <1>2, RailAssumption DEF RailInv, TypeOK, CreatorInv, NoLateDuplicate, Actors
<1> QED
  BY <1>5, <1>6, <1>7, <1>8, <1>9, <1>10 DEF RailInv

(* The claim is made under the decision's lock, so no other call that      *)
(* relies on the decision having no follow-up is in progress.              *)
LEMMA FollowClaimInv ==
    ASSUME RailInv, NEW f \in Callers, FollowClaim(f)
    PROVE  RailInv'
<1>1. CASE UNCHANGED decision
  BY <1>1, GiveUpInv DEF FollowClaim, files, Actors
<1>2. ASSUME NEW d \in DecisionIds, d = job[f].decision,
             decision' = [decision EXCEPT ![d].task = job[f].task,
                                          ![d].state = "followup_created"]
      PROVE  RailInv'
  <2>1. /\ pc[f] = "claim" /\ Return(f) /\ f \in Actors
        /\ UNCHANGED <<place, ack, draft, late>>
    BY DEF FollowClaim, Actors
  <2>2. /\ Written(d) /\ job[f].task \in Drafts
        /\ AllowedBy(decision[d], job[f].kind)
    BY <1>2, <2>1 DEF RailInv, CallInv
  <2>3. /\ decision' \in [DecisionIds -> Decisions]
        /\ decision'[d].handoff = decision[d].handoff
        /\ decision'[d].value = decision[d].value
        /\ decision'[d].resume = decision[d].resume
        /\ decision'[d].task = job[f].task
        /\ decision'[d].state = "followup_created"
        /\ \A e \in DecisionIds \ {d} : decision'[e] = decision[e]
    <3>1. decision[d] \in Decisions
      BY <2>2 DEF RailInv, TypeOK
    <3>2. [decision[d] EXCEPT !.task = job[f].task, !.state = "followup_created"] \in Decisions
      BY <2>2, <3>1 DEF Decisions, States
    <3>3. decision' = [decision EXCEPT ![d] =
                          [decision[d] EXCEPT !.task = job[f].task,
                                              !.state = "followup_created"]]
      BY <1>2, <2>2, <3>1 DEF RailInv, TypeOK, Decisions
    <3> QED
      BY <2>2, <3>1, <3>2, <3>3 DEF RailInv, TypeOK, Decisions
  <2>4. \A e \in DecisionIds : /\ decision'[e].handoff = decision[e].handoff
                              /\ decision'[e].value = decision[e].value
                              /\ decision'[e].resume = decision[e].resume
    BY <2>3
  <2>5. TypeOK'
    BY <2>1, <2>3, ReturnTypes DEF RailInv, TypeOK
  <2>6. AckFollowsDecision'
    BY <2>1, <2>4 DEF RailInv, AckFollowsDecision, About
  <2>7. FollowupAllowed' /\ DraftInv'
    BY <2>1, <2>4 DEF RailInv, TypeOK, FollowupAllowed, DraftInv, AllowedBy, Written
  <2>8. DecisionInv'
    <3>1. DecisionOk(decision[d]) /\ decision[d].handoff # None
      BY <2>2 DEF RailInv, DecisionInv, Written
    <3>2. DecisionOk(decision[d])'
      BY <2>1, <2>2, <2>3, <3>1 DEF DecisionOk, Exists, AllowedBy
    <3>3. \A e \in DecisionIds \ {d} : DecisionOk(decision[e])'
      BY <2>1, <2>3 DEF RailInv, DecisionInv, DecisionOk, Exists
    <3> QED
      BY <3>2, <3>3 DEF DecisionInv
  <2>9. LockInv'
    BY <2>1, ReturnLocks
  <2>10. \A b \in Callers \ {f} :
             pc[b] \in {"draft", "claim"} => job[b].decision # d
    <3>1. dlock[d] = f
      BY <1>2, <2>1 DEF RailInv, LockInv
    <3> QED
      BY <1>2, <3>1, RailAssumption DEF RailInv, LockInv
  <2>11. ASSUME NEW b \in Callers PROVE CallInv(b)'
    <3>1. CASE b = f
      BY <3>1, <2>1, ReturnTypes DEF RailInv, TypeOK, CallInv
    <3>2. CASE b # f
      <4>1. pc'[b] = pc[b] /\ job'[b] = job[b]
        BY <3>2, <2>1, ReturnTypes DEF RailInv, TypeOK, Actors
      <4> QED
        BY <3>2, <4>1, <2>1, <2>3, <2>4, <2>10
           DEF RailInv, CallInv, Exists, About, Written, AllowedBy
    <3> QED
      BY <3>1, <3>2
  <2>12. (\A c \in Creators : CreatorInv(c)') /\ NoLateDuplicate'
    BY <2>1, ReturnTypes, RailAssumption
       DEF RailInv, TypeOK, CreatorInv, NoLateDuplicate, Actors
  <2> QED
    BY <2>5, <2>6, <2>7, <2>8, <2>9, <2>11, <2>12 DEF RailInv
<1>3. job[f].decision \in DecisionIds
  BY DEF FollowClaim, RailInv, CallInv
<1> QED
  BY <1>1, <1>2, <1>3 DEF FollowClaim

-----------------------------------------------------------------------------
(* The theorems *)

(* A stuttering step changes nothing the invariant speaks of.              *)
LEMMA StutterInv == RailInv /\ UNCHANGED vars => RailInv'
BY DEF vars, RailInv, TypeOK, AckFollowsDecision, FollowupAllowed, NoLateDuplicate, DecisionInv,
       DecisionOk, DraftInv, LockInv, CallInv, CreatorInv, About, AllowedBy, Exists, Written

(* The invariant is inductive: one step per action of the rail.            *)
LEMMA NextInv == RailInv /\ [Next]_vars => RailInv'
<1> SUFFICES ASSUME RailInv, [Next]_vars PROVE RailInv'
  OBVIOUS
<1>1. ASSUME NEW c \in Creators, CreatorStep(c) PROVE RailInv'
  BY <1>1, FindPendingInv, FindAckedInv, WriteHandoffInv DEF CreatorStep
<1>2. ASSUME NEW r \in Callers, RecordStep(r) PROVE RailInv'
  BY <1>2, RecordBeginInv, RecordWriteInv DEF RecordStep
<1>3. ASSUME NEW a \in Callers, AckStep(a) PROVE RailInv'
  <2>1. AckFails(a) => RailInv'
    BY GiveUpInv DEF AckFails, Actors
  <2> QED
    BY <1>3, <2>1, AckBeginInv, AckLockInv, AckMoveInv, AckFileInv DEF AckStep
<1>4. ASSUME NEW f \in Callers, FollowStep(f) PROVE RailInv'
  <2>1. FollowRefused(f) => RailInv'
    BY GiveUpInv DEF FollowRefused, Actors
  <2> QED
    BY <1>4, <2>1, FollowReadInv, FollowLockInv, FollowCreateInv, FollowClaimInv DEF FollowStep
<1>5. ASSUME NEW a \in Callers, LockTimesOut(a) PROVE RailInv'
  BY <1>5, GiveUpInv DEF LockTimesOut, Actors
<1>6. ASSUME NEW a \in Actors, Crash(a) PROVE RailInv'
  BY <1>6, GiveUpInv DEF Crash
<1>7. CASE UNCHANGED vars
  BY <1>7, StutterInv
<1> QED
  BY <1>1, <1>2, <1>3, <1>4, <1>5, <1>6, <1>7, ResumeInv DEF Next, CallerStep

(* RailInv is an invariant of the rail: files, locks and calls in progress *)
(* agree with each other in every reachable state.                         *)
THEOREM RailInvariance == Spec => []RailInv
<1>1. Init => RailInv
  BY InitInv
<1>2. RailInv /\ [Next]_vars => RailInv'
  BY NextInv
<1> QED
  BY <1>1, <1>2, PTL DEF Spec

(* An ack artifact always repeats a decision on file about a handoff that  *)
(* has moved, whatever fails between the move and the artifact.            *)
THEOREM AckAfterDecision == Spec => []AckFollowsDecision
<1>1. RailInv => AckFollowsDecision
  BY DEF RailInv
<1> QED
  BY <1>1, RailInvariance, PTL

(* A creator that starts after the handoff exists never gets to write one: *)
(* pending/ is listed before acknowledged/, the way the file moves.        *)
THEOREM NoSecondHandoff == Spec => []NoLateDuplicate
<1>1. RailInv => NoLateDuplicate
  BY DEF RailInv
<1> QED
  BY <1>1, RailInvariance, PTL

(* A draft exists only where the decision calls for it, though the call    *)
(* checks that before it takes the lock and never again.                   *)
THEOREM OnlyAllowedFollowups == Spec => []FollowupAllowed
<1>1. RailInv => FollowupAllowed
  BY DEF RailInv
<1> QED
  BY <1>1, RailInvariance, PTL

(* The first ack artifact is never replaced.                               *)
THEOREM FirstAckStands == Spec => AckStands
<1> DEFINE Kept == \A h \in Handoffs : ack[h] # None => ack'[h] = ack[h]
<1>1. RailInv /\ [Next]_vars => Kept
  <2> SUFFICES ASSUME RailInv, [Next]_vars PROVE Kept
    OBVIOUS
  <2>1. ASSUME NEW a \in Callers, AckFile(a) PROVE Kept
    BY <2>1 DEF AckFile, RailInv, TypeOK
  <2>2. ASSUME NEW a \in Callers, AckStep(a), ~AckFile(a) PROVE UNCHANGED ack
    BY <2>2 DEF AckStep, AckBegin, AckLock, AckMove, AckFails, files
  <2>3. ASSUME NEW a \in Callers, RecordStep(a) \/ FollowStep(a) \/ LockTimesOut(a)
        PROVE  UNCHANGED ack
    BY <2>3 DEF RecordStep, RecordBegin, RecordWrite, FollowStep, FollowRead, FollowLock,
           FollowCreate, FollowClaim, FollowRefused, LockTimesOut, files
  <2>4. ASSUME NEW c \in Creators, CreatorStep(c) PROVE UNCHANGED ack
    BY <2>4 DEF CreatorStep, FindPending, FindAcked, WriteHandoff, files
  <2>5. ASSUME NEW d \in DecisionIds, NEW k \in Kinds, Resume(d, k) PROVE UNCHANGED ack
    BY <2>5 DEF Resume
  <2>6. ASSUME NEW a \in Actors, Crash(a) PROVE UNCHANGED ack
    BY <2>6 DEF Crash, files
  <2>7. UNCHANGED vars => UNCHANGED ack
    BY DEF vars
  <2> QED
    BY <2>1, <2>2, <2>3, <2>4, <2>5, <2>6, <2>7 DEF Next, CallerStep
<1>2. RailInv /\ [Next]_vars => [Kept]_vars
  BY <1>1
<1> QED
  BY <1>2, RailInvariance, PTL DEF Spec, AckStands

(* A decision that names its follow-up never changes again: a later call   *)
(* stops at the second look, a later resume at its first one.              *)
THEOREM FollowupFinal == Spec => FollowupStands
<1> DEFINE Kept == \A d \in DecisionIds :
                      decision[d].task # None => decision'[d] = decision[d]
<1>1. RailInv /\ [Next]_vars => Kept
  <2> SUFFICES ASSUME RailInv, [Next]_vars PROVE Kept
    OBVIOUS
  <2>1. ASSUME NEW r \in Callers, RecordWrite(r) PROVE Kept
    <3>1. \A d \in DecisionIds : ~Written(d) => decision[d].task = None
      BY DEF RailInv, DecisionInv, DecisionOk, Unwritten, Written
    <3> QED
      BY <2>1, <3>1 DEF RecordWrite, RailInv, TypeOK
  <2>2. ASSUME NEW f \in Callers, FollowClaim(f) PROVE Kept
    BY <2>2 DEF FollowClaim, RailInv, TypeOK, CallInv
  <2>3. ASSUME NEW d \in DecisionIds, NEW k \in Kinds, Resume(d, k) PROVE Kept
    BY <2>3 DEF Resume, RailInv, TypeOK
  <2>4. ASSUME NEW a \in Callers, AckStep(a) PROVE UNCHANGED decision
    BY <2>4 DEF AckStep, AckBegin, AckLock, AckMove, AckFile, AckFails, files
  <2>5. ASSUME NEW a \in Callers,
               RecordBegin(a) \/ LockTimesOut(a) \/ (FollowStep(a) /\ ~FollowClaim(a))
        PROVE  UNCHANGED decision
    BY <2>5 DEF RecordBegin, FollowStep, FollowRead, FollowLock, FollowCreate, FollowRefused,
           LockTimesOut, files
  <2>6. ASSUME NEW c \in Creators, CreatorStep(c) PROVE UNCHANGED decision
    BY <2>6 DEF CreatorStep, FindPending, FindAcked, WriteHandoff, files
  <2>7. ASSUME NEW a \in Actors, Crash(a) PROVE UNCHANGED decision
    BY <2>7 DEF Crash, files
  <2>8. UNCHANGED vars => UNCHANGED decision
    BY DEF vars
  <2> QED
    BY <2>1, <2>2, <2>3, <2>4, <2>5, <2>6, <2>7, <2>8 DEF Next, CallerStep, RecordStep
<1>2. RailInv /\ [Next]_vars => [Kept]_vars
  BY <1>1
<1> QED
  BY <1>2, RailInvariance, PTL DEF Spec, FollowupStands

(* What the runs check of decisions, their acknowledgements and their      *)
(* follow-ups holds for every instance.                                    *)
THEOREM DecidedFirst == Spec => []OnlyDecided
BY AckAfterDecision, OnlyAllowedFollowups, PTL DEF OnlyDecided

THEOREM SettledForGood == Spec => SettledStands
BY FirstAckStands, FollowupFinal DEF SettledStands

-----------------------------------------------------------------------------
(* What the desk relies on of the rail *)

(* A step that writes neither decisions nor drafts, and lets no call come  *)
(* to name a draft, keeps the links.                                       *)
LEMMA LinksKept ==
    ASSUME LinkInv, UNCHANGED <<decision, draft>>,
           \A a \in Callers : pc'[a] = "claim" => pc[a] = "claim" /\ job'[a] = job[a]
    PROVE  LinkInv'
BY DEF LinkInv, Written

(* So does a call that ends without a write.                               *)
LEMMA ReturnLinks ==
    ASSUME RailInv, LinkInv, NEW a \in Actors, Return(a), UNCHANGED <<decision, draft>>
    PROVE  LinkInv'
<1>1. /\ pc' = [pc EXCEPT ![a] = "idle"] /\ job' = [job EXCEPT ![a] = NoJob]
      /\ pc \in [Actors -> {"idle", "scan", "create", "record", "lock", "move",
                            "file", "check", "draft", "claim"}]
      /\ job \in [Actors -> Jobs]
  BY DEF Return, Goto, RailInv, TypeOK
<1>2. \A b \in Callers : pc'[b] = "claim" => pc[b] = "claim" /\ job'[b] = job[b]
  BY <1>1 DEF Actors
<1> QED
  BY <1>2, LinksKept

(* So does one that moves to a step before the claim.                      *)
LEMMA GotoLinks ==
    ASSUME RailInv, LinkInv, NEW a \in Actors, UNCHANGED <<decision, draft>>,
           NEW l \in {"idle", "scan", "create", "record", "lock", "move", "file", "check",
                      "draft"},
           pc' = [pc EXCEPT ![a] = l],
           \A b \in Callers \ {a} : job'[b] = job[b]
    PROVE  LinkInv'
<1>1. \A b \in Callers : pc'[b] = "claim" => pc[b] = "claim" /\ job'[b] = job[b]
  BY DEF RailInv, TypeOK, Actors
<1> QED
  BY <1>1, LinksKept

(* A new decision has no follow-up yet.                                    *)
LEMMA RecordLinks ==
    ASSUME RailInv, LinkInv, NEW r \in Callers, RecordWrite(r)
    PROVE  LinkInv'
<1>1. Return(r) /\ UNCHANGED draft /\ r \in Actors
  BY DEF RecordWrite, Actors
<1>2. CASE UNCHANGED decision
  BY <1>1, <1>2, ReturnLinks
<1>3. ASSUME NEW d \in DecisionIds,
             decision' = [decision EXCEPT ![d] =
                 [Unwritten EXCEPT !.handoff = job[r].handoff,
                                   !.value = job[r].value,
                                   !.state = InitialState(job[r].value)]]
      PROVE  LinkInv'
  <2>1. InitialState(job[r].value) \in States \ {"followup_created"}
    BY DEF InitialState, States
  <2>2. /\ decision'[d].task = None /\ decision'[d].state \in States \ {"followup_created"}
        /\ \A e \in DecisionIds \ {d} : decision'[e] = decision[e]
    BY <1>3, <2>1 DEF RailInv, TypeOK, Unwritten
  <2>3. /\ pc' = [pc EXCEPT ![r] = "idle"] /\ job' = [job EXCEPT ![r] = NoJob]
    BY <1>1 DEF Return, Goto
  <2>4. \A b \in Callers : pc'[b] = "claim" => pc[b] = "claim" /\ job'[b] = job[b]
    BY <1>1, <2>3 DEF RailInv, TypeOK, Actors
  <2> QED
    BY <1>1, <2>2, <2>4 DEF LinkInv, Written
<1> QED
  BY <1>2, <1>3 DEF RecordWrite

(* Asking the user for a kind touches no follow-up.                        *)
LEMMA ResumeLinks ==
    ASSUME RailInv, LinkInv, NEW d \in DecisionIds, NEW k \in Kinds, Resume(d, k)
    PROVE  LinkInv'
<1>1. /\ decision' = [decision EXCEPT ![d].resume = k, ![d].state = "ready_for_followup"]
      /\ UNCHANGED <<draft, pc, job>>
  BY DEF Resume
<1>2. decision[d] \in Decisions
  BY DEF RailInv, TypeOK
<1>3. decision' = [decision EXCEPT ![d] =
                     [decision[d] EXCEPT !.resume = k, !.state = "ready_for_followup"]]
  BY <1>1, <1>2 DEF RailInv, TypeOK, Decisions
<1>4. /\ decision'[d].task = decision[d].task /\ decision'[d].state = "ready_for_followup"
      /\ \A e \in DecisionIds \ {d} : decision'[e] = decision[e]
  BY <1>2, <1>3 DEF RailInv, TypeOK, Decisions
<1>5. decision[d].task = None /\ "ready_for_followup" \in States
  BY DEF Resume, States
<1>6. ASSUME NEW e \in DecisionIds
      PROVE  /\ Written(e)' => decision'[e].state \in States
             /\ Written(e)' /\ decision'[e].state = "followup_created"
                    => decision'[e].task # None
             /\ decision'[e].task # None => draft'[decision'[e].task].decision = e
  <2>1. CASE e = d
    BY <1>4, <1>5, <2>1
  <2>2. CASE e # d
    <3>1. decision'[e] = decision[e] /\ draft' = draft
      BY <1>1, <1>4, <2>2
    <3> QED
      BY <3>1 DEF LinkInv, Written
  <2> QED
    BY <2>1, <2>2
<1> QED
  BY <1>1, <1>6 DEF LinkInv

(* A draft is created under a fresh id, for the decision of the call.      *)
LEMMA CreateLinks ==
    ASSUME RailInv, LinkInv, NEW f \in Callers, FollowCreate(f)
    PROVE  LinkInv'
<1>1. PICK t \in Drafts :
          /\ draft[t].decision = None
          /\ draft' = [draft EXCEPT ![t] = [decision |-> job[f].decision,
                                            kind |-> job[f].kind]]
          /\ job' = [job EXCEPT ![f].task = t]
  BY DEF FollowCreate
<1>2. /\ pc[f] = "draft" /\ pc' = [pc EXCEPT ![f] = "claim"] /\ UNCHANGED decision
      /\ f \in Actors
  BY DEF FollowCreate, Goto, Actors
<1>3. job[f] \in Jobs
  BY <1>2 DEF RailInv, TypeOK
<1>4. /\ job'[f].task = t /\ job'[f].decision = job[f].decision
      /\ \A b \in Callers \ {f} : job'[b] = job[b] /\ pc'[b] = pc[b]
  BY <1>1, <1>2, <1>3 DEF RailInv, TypeOK, Jobs, Actors
<1>5. /\ draft'[t].decision = job[f].decision
      /\ \A u \in Drafts \ {t} : draft'[u] = draft[u]
  BY <1>1 DEF RailInv, TypeOK
<1>6. ASSUME NEW d \in DecisionIds, decision[d].task # None
      PROVE  draft'[decision[d].task].decision = d
  <2>1. decision[d].task \in Drafts /\ draft[decision[d].task].decision = d
    BY <1>6 DEF LinkInv, RailInv, TypeOK, Decisions
  <2> QED
    BY <1>1, <1>5, <2>1, RailAssumption
<1>7. ASSUME NEW b \in Callers, pc'[b] = "claim"
      PROVE  draft'[job'[b].task].decision = job'[b].decision
  <2>1. CASE b = f
    BY <1>4, <1>5, <2>1
  <2>2. CASE b # f
    <3>1. /\ pc[b] = "claim" /\ job[b].task \in Drafts /\ job[b].decision \in DecisionIds
          /\ draft[job[b].task].decision = job[b].decision
      BY <1>4, <1>7, <2>2 DEF LinkInv, RailInv, CallInv
    <3> QED
      BY <1>1, <1>4, <1>5, <2>2, <3>1, RailAssumption
  <2> QED
    BY <2>1, <2>2
<1> QED
  BY <1>2, <1>6, <1>7 DEF LinkInv, Written

(* The claim names the draft the call has created.                         *)
LEMMA ClaimLinks ==
    ASSUME RailInv, LinkInv, NEW f \in Callers, FollowClaim(f)
    PROVE  LinkInv'
<1> DEFINE d == job[f].decision
<1>1. Return(f) /\ UNCHANGED draft /\ f \in Actors /\ pc[f] = "claim"
  BY DEF FollowClaim, Actors
<1>2. CASE UNCHANGED decision
  BY <1>1, <1>2, ReturnLinks
<1>3. CASE decision' = [decision EXCEPT ![d].task = job[f].task,
                                        ![d].state = "followup_created"]
  <2>1. d \in DecisionIds /\ job[f].task \in Drafts /\ draft[job[f].task].decision = d
    BY <1>1 DEF RailInv, CallInv, LinkInv
  <2>2. decision[d] \in Decisions
    BY <2>1 DEF RailInv, TypeOK
  <2>3. /\ decision'[d].task = job[f].task /\ decision'[d].state = "followup_created"
        /\ \A e \in DecisionIds \ {d} : decision'[e] = decision[e]
    BY <1>3, <2>1, <2>2 DEF RailInv, TypeOK, Decisions
  <2>4. /\ pc' = [pc EXCEPT ![f] = "idle"] /\ job' = [job EXCEPT ![f] = NoJob]
    BY <1>1 DEF Return, Goto
  <2>5. \A b \in Callers : pc'[b] = "claim" => pc[b] = "claim" /\ job'[b] = job[b]
    BY <1>1, <2>4 DEF RailInv, TypeOK, Actors
  <2>6. job[f].task # None
    BY <2>1, RailAssumption
  <2> QED
    BY <1>1, <2>1, <2>3, <2>5, <2>6 DEF LinkInv, Written, States
<1> QED
  BY <1>2, <1>3 DEF FollowClaim

(* The links are inductive along with the invariant of the rail.           *)
LEMMA RailLinks ==
    ASSUME RailInv, LinkInv, [Next]_vars
    PROVE  LinkInv'
<1>1. ASSUME NEW c \in Creators, CreatorStep(c) PROVE LinkInv'
  <2>1. c \in Actors /\ UNCHANGED <<decision, draft, job>>
    BY <1>1 DEF CreatorStep, FindPending, FindAcked, WriteHandoff, files, Actors
  <2>2. PICK l \in {"idle", "scan", "create"} : pc' = [pc EXCEPT ![c] = l]
    BY <1>1 DEF CreatorStep, FindPending, FindAcked, WriteHandoff, Goto
  <2> QED
    BY <2>1, <2>2, GotoLinks
<1>2. ASSUME NEW a \in Callers, RecordBegin(a) \/ AckBegin(a) \/ FollowRead(a)
      PROVE  LinkInv'
  <2>1. a \in Actors /\ UNCHANGED <<decision, draft>>
    BY <1>2 DEF RecordBegin, AckBegin, FollowRead, files, Actors
  <2>2. PICK l \in {"record", "lock", "check"} : pc' = [pc EXCEPT ![a] = l]
    BY <1>2 DEF RecordBegin, AckBegin, FollowRead, Goto
  <2>3. \E j : job' = [job EXCEPT ![a] = j]
    BY <1>2 DEF RecordBegin, AckBegin, FollowRead
  <2>4. \A b \in Callers \ {a} : job'[b] = job[b]
    BY <2>3 DEF RailInv, TypeOK, Actors
  <2> QED
    BY <2>1, <2>2, <2>4, GotoLinks
<1>3. ASSUME NEW a \in Callers, AckLock(a) \/ AckMove(a) PROVE LinkInv'
  <2>1. a \in Actors /\ UNCHANGED <<decision, draft, job>>
    BY <1>3 DEF AckLock, AckMove, files, Actors
  <2>2. PICK l \in {"move", "file"} : pc' = [pc EXCEPT ![a] = l]
    BY <1>3 DEF AckLock, AckMove, Goto
  <2> QED
    BY <2>1, <2>2, GotoLinks
<1>4. ASSUME NEW a \in Callers, FollowLock(a) PROVE LinkInv'
  <2>1. a \in Actors /\ UNCHANGED <<decision, draft>>
    BY <1>4 DEF FollowLock, files, Actors
  <2>2. CASE Return(a)
    BY <2>1, <2>2, ReturnLinks
  <2>3. CASE ~Return(a)
    <3>1. UNCHANGED job /\ pc' = [pc EXCEPT ![a] = "draft"]
      BY <1>4, <2>3 DEF FollowLock, Goto
    <3> QED
      BY <2>1, <3>1, GotoLinks
  <2> QED
    BY <2>2, <2>3
<1>5. ASSUME NEW a \in Actors,
             \/ AckFile(a) \/ AckFails(a) \/ FollowRefused(a) \/ LockTimesOut(a) \/ Crash(a)
      PROVE  LinkInv'
  <2>1. Return(a) /\ UNCHANGED <<decision, draft>>
    BY <1>5 DEF AckFile, AckFails, FollowRefused, LockTimesOut, Crash, files
  <2> QED
    BY <2>1, ReturnLinks
<1>6. CASE UNCHANGED vars
  BY <1>6 DEF vars, LinkInv, Written
<1>7. ASSUME NEW a \in Callers, CallerStep(a) PROVE LinkInv'
  <2>1. a \in Actors
    BY DEF Actors
  <2> QED
    BY <1>2, <1>3, <1>4, <1>5, <1>7, <2>1, RecordLinks, CreateLinks, ClaimLinks
       DEF CallerStep, RecordStep, AckStep, FollowStep
<1> QED
  BY <1>1, <1>5, <1>6, <1>7, ResumeLinks DEF Next

(* A handoff never goes back, its ack artifact and a draft never change.   *)
Onward ==
    /\ \A h \in Handoffs :
          /\ Exists(h) => place'[h] # "none"
          /\ place[h] = "acknowledged" => place'[h] = "acknowledged"
          /\ ack[h] # None => ack'[h] = ack[h]
    /\ \A t \in Drafts : draft[t].decision # None => draft'[t] = draft[t]

LEMMA RailMoves ==
    ASSUME RailInv, [Next]_vars
    PROVE  Onward
<1>1. UNCHANGED <<place, ack, draft>> => Onward
  BY DEF Onward, Exists
<1>2. ASSUME NEW c \in Creators, CreatorStep(c) PROVE Onward
  <2>1. CASE WriteHandoff(c)
    BY <2>1 DEF WriteHandoff, Onward, Exists, RailInv, TypeOK
  <2> QED
    BY <1>1, <1>2, <2>1 DEF CreatorStep, FindPending, FindAcked, files
<1>3. ASSUME NEW a \in Callers, CallerStep(a) PROVE Onward
  <2>1. CASE AckMove(a)
    BY <2>1 DEF AckMove, Onward, Exists, RailInv, TypeOK
  <2>2. CASE AckFile(a)
    BY <2>2 DEF AckFile, Onward, Exists, RailInv, TypeOK
  <2>3. CASE FollowCreate(a)
    BY <2>3 DEF FollowCreate, Onward, Exists, RailInv, TypeOK
  <2>4. CASE RecordStep(a) \/ LockTimesOut(a)
    BY <1>1, <2>4 DEF RecordStep, RecordBegin, RecordWrite, LockTimesOut, files
  <2>5. CASE AckBegin(a) \/ AckLock(a) \/ AckFails(a)
    BY <1>1, <2>5 DEF AckBegin, AckLock, AckFails, files
  <2>6. CASE FollowRead(a) \/ FollowLock(a) \/ FollowClaim(a) \/ FollowRefused(a)
    BY <1>1, <2>6 DEF FollowRead, FollowLock, FollowClaim, FollowRefused, files
  <2> QED
    BY <1>3, <2>1, <2>2, <2>3, <2>4, <2>5, <2>6 DEF CallerStep, AckStep, FollowStep
<1>4. ASSUME NEW d \in DecisionIds, NEW k \in Kinds, Resume(d, k) PROVE Onward
  BY <1>1, <1>4 DEF Resume
<1>5. ASSUME NEW a \in Actors, Crash(a) PROVE Onward
  BY <1>1, <1>5 DEF Crash, files
<1>6. CASE UNCHANGED vars
  BY <1>1, <1>6 DEF vars
<1> QED
  BY <1>2, <1>3, <1>4, <1>5, <1>6 DEF Next

-----------------------------------------------------------------------------
(* The invariant of the desk *)

LEMMA DeskInitInv == DeskInit => DeskInv
<1> SUFFICES ASSUME DeskInit PROVE DeskInv
  OBVIOUS
<1>1. RailInv
  BY InitInv DEF DeskInit
<1>2. DeskTypeOK
  <2>1. TypeOK
    BY <1>1 DEF RailInv
  <2>2. paper \in [Drafts -> Papers]
    BY DeskAssumption DEF DeskInit, Papers
  <2>3. source \in [is : Sources, status : {"running"} \union Endings,
                    meta : BOOLEAN, receipt : BOOLEAN, card : BOOLEAN]
    BY DEF DeskInit
  <2>4. /\ said \in [Handoffs -> [status : Endings \union {"none", "failed"}, card : BOOLEAN]]
        /\ mark \in [Handoffs -> {"none", "pending", "acknowledged"}]
        /\ owed \subseteq Handoffs
    BY DEF DeskInit
  <2> QED
    BY <2>1, <2>2, <2>3, <2>4 DEF DeskTypeOK
<1>3. LinkInv
  BY DEF DeskInit, Init, LinkInv, Unwritten, Written, Actors
<1>4. FileInv
  BY DEF DeskInit, Init, FileInv, Exists
<1>5. PaperInv
  BY DEF DeskInit, Init, PaperInv
<1> QED
  BY <1>1, <1>2, <1>3, <1>4, <1>5 DEF DeskInv

(* What a step of an operator or of a task leaves of the rail.             *)
LEMMA RailAside ==
    ASSUME RailInv, LinkInv, UNCHANGED vars
    PROVE  RailInv' /\ TypeOK' /\ LinkInv'
<1>1. RailInv' /\ TypeOK'
  BY StutterInv DEF RailInv
<1> QED
  BY <1>1, RailLinks

(* A task ends once, before it has a handoff.                              *)
LEMMA ConcludeInv ==
    ASSUME DeskInv, Conclude
    PROVE  DeskInv'
<1>1. PICK s \in Endings, c \in BOOLEAN :
          source' = [source EXCEPT !.status = s, !.receipt = TRUE, !.card = c]
  BY DEF Conclude
<1>2. source.status = "running" /\ UNCHANGED <<vars, said, mark, owed, paper>>
  BY DEF Conclude
<1>3. source \in [is : Sources, status : {"running"} \union Endings,
                  meta : BOOLEAN, receipt : BOOLEAN, card : BOOLEAN]
  BY DEF DeskInv, DeskTypeOK
<1>4. /\ source' \in [is : Sources, status : {"running"} \union Endings,
                      meta : BOOLEAN, receipt : BOOLEAN, card : BOOLEAN]
      /\ source'.receipt = TRUE
  BY <1>1, <1>3
<1>5. \A h \in Handoffs : ~Exists(h)
  BY <1>2 DEF DeskInv, FileInv
<1>6. RailInv' /\ TypeOK' /\ LinkInv'
  BY <1>2, RailAside DEF DeskInv
<1>7. UNCHANGED <<place, ack, draft>>
  BY <1>2 DEF vars
<1>8. DeskTypeOK'
  BY <1>2, <1>4, <1>6 DEF DeskInv, DeskTypeOK
<1>9. FileInv'
  BY <1>2, <1>4, <1>5, <1>7 DEF DeskInv, FileInv, Exists
<1>10. PaperInv'
  BY <1>2, <1>7 DEF DeskInv, PaperInv
<1> QED
  BY <1>6, <1>8, <1>9, <1>10 DEF DeskInv

(* A new handoff says how the task ended or that it failed, a new draft is *)
(* a task.                                                                 *)
LEMMA RailStepInv ==
    ASSUME DeskInv, RailStep
    PROVE  DeskInv'
<1> DEFINE New(h) == ~Exists(h) /\ place'[h] # "none"
<1>0. PICK s \in Told :
         said' = [h \in Handoffs |->
            IF New(h) THEN [status |-> s, card |-> source.card] ELSE said[h]]
  BY DEF RailStep
<1>1. /\ source.status \in Terminal /\ UNCHANGED source /\ [Next]_vars
      /\ said' = [h \in Handoffs |->
            IF New(h) THEN [status |-> s, card |-> source.card] ELSE said[h]]
      /\ s \in {source.status, "failed"}
      /\ mark' = [h \in Handoffs |-> IF New(h) THEN "pending" ELSE mark[h]]
      /\ owed' = owed \union {h \in Handoffs : ack[h] = None /\ ack'[h] # None}
      /\ paper' = [t \in Drafts |->
            IF draft[t].decision = None /\ draft'[t].decision # None
            THEN [status |-> "draft", rev |-> 1, approved |-> 0] ELSE paper[t]]
  BY <1>0 DEF RailStep, Told
<1>2. RailInv /\ DeskTypeOK /\ LinkInv /\ FileInv /\ PaperInv
  BY DEF DeskInv
<1>3. RailInv' /\ LinkInv' /\ Onward
  BY <1>1, <1>2, NextInv, RailLinks, RailMoves
<1>4. source.status \in Endings /\ source.status # "running" /\ source.card \in BOOLEAN
  BY <1>1, <1>2 DEF DeskTypeOK, Terminal
<1>5. DeskTypeOK'
  <2>1. TypeOK'
    BY <1>3 DEF RailInv
  <2>2. said' \in [Handoffs -> [status : Endings \union {"none", "failed"}, card : BOOLEAN]]
    BY <1>1, <1>2, <1>4 DEF DeskTypeOK
  <2>3. mark' \in [Handoffs -> {"none", "pending", "acknowledged"}] /\ owed' \subseteq Handoffs
    BY <1>1, <1>2 DEF DeskTypeOK
  <2>4. [status |-> "draft", rev |-> 1, approved |-> 0] \in Papers
    BY DeskAssumption DEF Papers
  <2>5. paper' \in [Drafts -> Papers]
    BY <1>1, <1>2, <2>4 DEF DeskTypeOK
  <2>6. source' = source
    BY <1>1
  <2> QED
    BY <1>2, <2>1, <2>2, <2>3, <2>5, <2>6 DEF DeskTypeOK
<1>6. ASSUME NEW h \in Handoffs
      PROVE  /\ Exists(h)' => said'[h].status \in {source.status, "failed"} /\ mark'[h] # "none"
             /\ mark'[h] = "acknowledged" => place'[h] = "acknowledged"
             /\ h \in owed' => ack'[h] # None
  <2>1. CASE New(h)
    <3>1. said'[h].status \in {source.status, "failed"} /\ mark'[h] = "pending"
      BY <1>1, <2>1
    <3>2. h \in owed' => ack'[h] # None
      BY <1>1, <1>2, <1>3 DEF FileInv, Onward
    <3> QED
      BY <3>1, <3>2
  <2>2. CASE ~New(h)
    <3>1. said'[h] = said[h] /\ mark'[h] = mark[h]
      BY <1>1, <2>2
    <3>2. Exists(h)' => Exists(h)
      BY <2>2 DEF Exists
    <3>3. h \in owed' => ack'[h] # None
      BY <1>1, <1>2, <1>3 DEF FileInv, Onward
    <3> QED
      BY <1>2, <1>3, <3>1, <3>2, <3>3 DEF FileInv, Onward
  <2> QED
    BY <2>1, <2>2
<1>7. FileInv'
  BY <1>1, <1>2, <1>4, <1>6 DEF FileInv
<1>8. ASSUME NEW t \in Drafts
      PROVE  /\ (paper'[t].status = "none") = (draft'[t].decision = None)
             /\ paper'[t].approved # 0 =>
                    draft'[t].decision # None /\ draft'[t].kind = "implementation"
  <2>1. CASE draft[t].decision = None /\ draft'[t].decision # None
    <3>1. paper'[t] = [status |-> "draft", rev |-> 1, approved |-> 0]
      BY <1>1, <2>1
    <3> QED
      BY <2>1, <3>1
  <2>2. CASE draft[t].decision = None /\ draft'[t].decision = None
    <3>1. paper'[t] = paper[t]
      BY <1>1, <2>2
    <3> QED
      BY <1>2, <2>2, <3>1 DEF PaperInv
  <2>3. CASE draft[t].decision # None
    <3>1. paper'[t] = paper[t] /\ draft'[t] = draft[t]
      BY <1>1, <1>3, <2>3 DEF Onward
    <3> QED
      BY <1>2, <2>3, <3>1 DEF PaperInv
  <2> QED
    BY <2>1, <2>2, <2>3
<1>9. PaperInv'
  BY <1>8 DEF PaperInv
<1> QED
  BY <1>3, <1>5, <1>7, <1>9 DEF DeskInv

(* The state field follows the directory, or stays behind for good.        *)
LEMMA MarkInv ==
    ASSUME DeskInv, NEW h \in Handoffs, MarkAcked(h) \/ MarkLost(h)
    PROVE  DeskInv'
<1>1. /\ h \in owed /\ owed' = owed \ {h} /\ UNCHANGED <<vars, source, said, paper>>
      /\ mark' = [mark EXCEPT ![h] = "acknowledged"] \/ UNCHANGED mark
  BY DEF MarkAcked, MarkLost
<1>2. RailInv /\ DeskTypeOK /\ LinkInv /\ FileInv /\ PaperInv
  BY DEF DeskInv
<1>3. RailInv' /\ TypeOK' /\ LinkInv' /\ UNCHANGED <<place, ack, draft>>
  BY <1>1, <1>2, RailAside DEF vars
<1>4. ack[h] # None /\ place[h] = "acknowledged"
  BY <1>1, <1>2 DEF FileInv, RailInv, AckFollowsDecision
<1>5. DeskTypeOK'
  BY <1>1, <1>2, <1>3 DEF DeskTypeOK
<1>6. FileInv'
  BY <1>1, <1>2, <1>3, <1>4 DEF FileInv, DeskTypeOK, Exists
<1>7. PaperInv'
  BY <1>1, <1>2, <1>3 DEF PaperInv
<1> QED
  BY <1>3, <1>5, <1>6, <1>7 DEF DeskInv

(* Approving, revising and starting change the draft alone.                *)
LEMMA DraftStepInv ==
    ASSUME DeskInv, NEW t \in Drafts, ApproveDraft(t) \/ ReviseDraft(t) \/ StartDraft(t)
    PROVE  DeskInv'
<1>1. /\ paper[t].status = "draft" /\ UNCHANGED <<vars, source, said, mark, owed>>
      /\ \/ /\ draft[t].kind = "implementation"
            /\ paper' = [paper EXCEPT ![t].approved = paper[t].rev]
         \/ /\ paper[t].rev < MaxRev
            /\ paper' = [paper EXCEPT ![t].rev = @ + 1]
         \/ paper' = [paper EXCEPT ![t].status = "running"]
  BY DEF ApproveDraft, ReviseDraft, StartDraft
<1>2. RailInv /\ DeskTypeOK /\ LinkInv /\ FileInv /\ PaperInv
  BY DEF DeskInv
<1>3. RailInv' /\ TypeOK' /\ LinkInv' /\ UNCHANGED <<place, ack, draft>>
  BY <1>1, <1>2, RailAside DEF vars
<1>4. paper \in [Drafts -> Papers] /\ paper[t] \in Papers
  BY <1>2 DEF DeskTypeOK
<1>5. /\ paper'[t] \in Papers /\ paper'[t].status # "none"
      /\ paper'[t].approved = paper[t].approved \/ draft[t].kind = "implementation"
      /\ paper' = [paper EXCEPT ![t] = paper'[t]]
  <2>1. CASE /\ draft[t].kind = "implementation"
             /\ paper' = [paper EXCEPT ![t].approved = paper[t].rev]
    BY <1>1, <1>4, <2>1 DEF Papers
  <2>2. CASE paper[t].rev < MaxRev /\ paper' = [paper EXCEPT ![t].rev = @ + 1]
    BY <1>1, <1>4, <2>2, DeskAssumption DEF Papers
  <2>3. CASE paper' = [paper EXCEPT ![t].status = "running"]
    BY <1>1, <1>4, <2>3 DEF Papers
  <2> QED
    BY <1>1, <2>1, <2>2, <2>3
<1>6. DeskTypeOK'
  <2>1. paper' \in [Drafts -> Papers]
    BY <1>4, <1>5
  <2> QED
    BY <1>1, <1>2, <1>3, <2>1 DEF DeskTypeOK
<1>7. FileInv'
  BY <1>1, <1>2, <1>3 DEF FileInv, Exists
<1>8. draft[t].decision # None
  BY <1>1, <1>2 DEF PaperInv
<1>9. PaperInv'
  BY <1>2, <1>3, <1>4, <1>5, <1>8 DEF PaperInv
<1> QED
  BY <1>3, <1>6, <1>7, <1>9 DEF DeskInv

(* No receipt can be cleaned up.                                           *)
LEMMA CleanupInv ==
    ASSUME DeskInv, Cleanup
    PROVE  DeskInv'
<1>1. /\ UNCHANGED <<vars, said, mark, owed, paper>>
      /\ \E p \in {"meta", "card"} : source' = [source EXCEPT ![p] = FALSE]
  BY DEF Cleanup, Deletable, Dated
<1>2. RailInv /\ DeskTypeOK /\ LinkInv /\ FileInv /\ PaperInv
  BY DEF DeskInv
<1>3. RailInv' /\ TypeOK' /\ LinkInv' /\ UNCHANGED <<place, ack, draft>>
  BY <1>1, <1>2, RailAside DEF vars
<1>4. source \in [is : Sources, status : {"running"} \union Endings,
                  meta : BOOLEAN, receipt : BOOLEAN, card : BOOLEAN]
  BY <1>2 DEF DeskTypeOK
<1>5. /\ source' \in [is : Sources, status : {"running"} \union Endings,
                      meta : BOOLEAN, receipt : BOOLEAN, card : BOOLEAN]
      /\ source'.status = source.status /\ source'.receipt = source.receipt
  <2>1. CASE source' = [source EXCEPT !["meta"] = FALSE]
    BY <1>4, <2>1
  <2>2. CASE source' = [source EXCEPT !["card"] = FALSE]
    BY <1>4, <2>2
  <2> QED
    BY <1>1, <2>1, <2>2
<1>6. DeskTypeOK'
  BY <1>1, <1>2, <1>3, <1>5 DEF DeskTypeOK
<1>7. FileInv'
  BY <1>1, <1>2, <1>3, <1>5 DEF FileInv, Exists
<1>8. PaperInv'
  BY <1>1, <1>2, <1>3 DEF PaperInv
<1> QED
  BY <1>3, <1>6, <1>7, <1>8 DEF DeskInv

LEMMA DeskStutterInv == DeskInv /\ UNCHANGED <<vars, desk>> => DeskInv'
<1> SUFFICES ASSUME DeskInv, UNCHANGED <<vars, desk>> PROVE DeskInv'
  OBVIOUS
<1>1. /\ UNCHANGED <<vars, source, said, mark, owed, paper>>
      /\ UNCHANGED <<place, ack, draft>>
  BY DEF desk, vars
<1>2. RailInv' /\ TypeOK' /\ LinkInv'
  BY RailAside DEF DeskInv
<1> QED
  BY <1>1, <1>2 DEF DeskInv, DeskTypeOK, FileInv, PaperInv, Exists

(* The files an operator looks at agree with each other: those of the      *)
(* rail, of the task that ended, of the handoffs and of the drafts.        *)
THEOREM DeskInvariance == DeskSpec => []DeskInv
<1>1. DeskInv /\ [DeskNext]_<<vars, desk>> => DeskInv'
  BY ConcludeInv, RailStepInv, MarkInv, DraftStepInv, CleanupInv, DeskStutterInv DEF DeskNext
<1> QED
  BY <1>1, DeskInitInv, PTL DEF DeskSpec

(* The desk is the rail with an audience: whatever is proved of the rail   *)
(* holds while operators look on, approve and clean up.                    *)
THEOREM DeskIsRail == DeskSpec => Spec
<1>1. DeskInit => Init
  BY DEF DeskInit
<1>2. [DeskNext]_<<vars, desk>> => [Next]_vars
  BY DEF DeskNext, Conclude, RailStep, MarkAcked, MarkLost, ApproveDraft, ReviseDraft, StartDraft,
         Cleanup
<1> QED
  BY <1>1, <1>2, PTL DEF DeskSpec, Spec

-----------------------------------------------------------------------------
(* The rail implements DecidedWork. *)

Handed == {h \in Handoffs : Exists(h)}
Verdicts == [d \in DecisionIds |-> Verdict(d)]

(* What DecidedWork sees of a step that writes no file, or only moves a    *)
(* handoff.                                                                *)
LEMMA UnseenStep ==
    ASSUME UNCHANGED <<ack, decision, draft>>, Handed' = Handed
    PROVE  UNCHANGED Work!dwVars
BY DEF Work!dwVars, Handed, Verdict

(* One verdict changes.                                                    *)
LEMMA VerdictStep ==
    ASSUME NEW d \in DecisionIds, NEW it,
           \A e \in DecisionIds \ {d} : decision'[e] = decision[e],
           Verdict(d)' = it
    PROVE  Verdicts' = [Verdicts EXCEPT ![d] = it]
BY DEF Verdicts, Verdict

LEMMA HandOnStep ==
    ASSUME RailInv, NEW c \in Creators, WriteHandoff(c)
    PROVE  [Work!DWNext]_(Work!dwVars)
<1>1. UNCHANGED <<ack, decision, draft>>
  BY DEF WriteHandoff
<1>2. CASE UNCHANGED place
  BY <1>1, <1>2, UnseenStep DEF Handed, Exists
<1>3. ASSUME NEW h \in Handoffs, place' = [place EXCEPT ![h] = "pending"]
      PROVE  Work!DWNext
  <2>1. Handed' = Handed \union {h}
    BY <1>3 DEF Handed, Exists, RailInv, TypeOK
  <2>2. Work!HandOn(h)
    BY <1>1, <2>1 DEF Work!HandOn, Handed, Verdict
  <2> QED
    BY <2>2 DEF Work!DWNext
<1> QED
  BY <1>2, <1>3 DEF WriteHandoff

LEMMA DecideStep ==
    ASSUME RailInv, NEW r \in Callers, RecordWrite(r)
    PROVE  [Work!DWNext]_(Work!dwVars)
<1>1. UNCHANGED <<place, ack, draft>> /\ Handed' = Handed
  BY DEF RecordWrite, Handed, Exists
<1>2. CASE UNCHANGED decision
  BY <1>1, <1>2, UnseenStep
<1> DEFINE h == job[r].handoff
           v == job[r].value
<1>3. h \in Handed /\ h \in Handoffs /\ v \in Values
  BY DEF RecordWrite, RailInv, CallInv, Handed
<1>4. ASSUME NEW d \in DecisionIds, ~Written(d),
             decision' = [decision EXCEPT ![d] =
                   [Unwritten EXCEPT !.handoff = h, !.value = v, !.state = InitialState(v)]]
      PROVE  Work!DWNext
  <2>1. Verdict(d) = Work!Undecided
    BY <1>4 DEF RailInv, DecisionInv, DecisionOk, Written, Unwritten, Verdict, Work!Undecided
  <2> DEFINE new == [handoff |-> h, value |-> v, resume |-> None, task |-> None]
  <2>2. Verdict(d)' = new
    <3>1. decision'[d] = [Unwritten EXCEPT !.handoff = h, !.value = v, !.state = InitialState(v)]
      BY <1>4 DEF RailInv, TypeOK
    <3>2. /\ decision'[d].handoff = h /\ decision'[d].value = v
          /\ decision'[d].resume = None /\ decision'[d].task = None
      BY <3>1 DEF Unwritten
    <3> QED
      BY <3>2 DEF Verdict
  <2>3. Verdicts' = [Verdicts EXCEPT ![d] = new]
    BY <1>4, <2>2, VerdictStep DEF RailInv, TypeOK
  <2>4. Work!Decide(d, h, v)
    BY <1>1, <1>3, <2>1, <2>3 DEF Work!Decide, Handed, Verdicts
  <2> QED
    BY <1>3, <2>4 DEF Work!DWNext
<1> QED
  BY <1>2, <1>4 DEF RecordWrite

LEMMA AnswerStep ==
    ASSUME RailInv, NEW d \in DecisionIds, NEW k \in Kinds, Resume(d, k)
    PROVE  Work!DWNext
<1>1. UNCHANGED <<place, ack, draft>> /\ Handed' = Handed
  BY DEF Resume, Handed, Exists
<1>2. /\ decision'[d].handoff = decision[d].handoff /\ decision'[d].value = decision[d].value
      /\ decision'[d].resume = k /\ decision'[d].task = decision[d].task
      /\ \A e \in DecisionIds \ {d} : decision'[e] = decision[e]
  <2>1. decision[d] \in Decisions
    BY DEF RailInv, TypeOK
  <2>2. decision' = [decision EXCEPT ![d] =
                       [decision[d] EXCEPT !.resume = k, !.state = "ready_for_followup"]]
    BY <2>1 DEF Resume, RailInv, TypeOK, Decisions
  <2> QED
    BY <2>1, <2>2 DEF RailInv, TypeOK, Decisions
<1>3. Verdict(d)' = [Verdict(d) EXCEPT !.resume = k]
  BY <1>2 DEF Verdict
<1>4. Verdicts' = [Verdicts EXCEPT ![d] = [Verdict(d) EXCEPT !.resume = k]]
  BY <1>2, <1>3, VerdictStep
<1>5. Verdicts[d] = Verdict(d)
  BY DEF Verdicts
<1>6. Verdicts' = [Verdicts EXCEPT ![d].resume = k]
  BY <1>4, <1>5
<1>7. Work!Answer(d, k)
  BY <1>1, <1>5, <1>6 DEF Work!Answer, Handed, Verdicts, Verdict, Resume
<1> QED
  BY <1>7 DEF Work!DWNext

LEMMA ConsumeStep ==
    ASSUME RailInv, NEW a \in Callers, AckFile(a)
    PROVE  [Work!DWNext]_(Work!dwVars)
<1> DEFINE h == job[a].handoff
<1>1. UNCHANGED <<place, decision, draft>> /\ Handed' = Handed /\ pc[a] = "file"
  BY DEF AckFile, Handed, Exists
<1>2. CASE ack[h] # None
  BY <1>1, <1>2, UnseenStep DEF AckFile
<1>3. CASE ack[h] = None
  <2>1. ack' = [ack EXCEPT ![h] = job[a].value]
    BY <1>3 DEF AckFile
  <2>2. PICK d \in About(h) : decision[d].value = job[a].value
    BY <1>1 DEF RailInv, CallInv
  <2>3. /\ h \in Handoffs /\ h \in Handed
        /\ d \in DecisionIds /\ decision[d].handoff = h
    BY <1>1, <2>2 DEF RailInv, CallInv, About, Handed
  <2>4. Verdicts[d].handoff = h /\ Verdicts[d].value = job[a].value /\ Verdicts' = Verdicts
    BY <1>1, <2>2, <2>3 DEF Verdicts, Verdict
  <2>5. Work!Consume(h, d)
    BY <1>1, <1>3, <2>1, <2>3, <2>4 DEF Work!Consume, Handed, Verdicts
  <2> QED
    BY <2>3, <2>5 DEF Work!DWNext
<1> QED
  BY <1>2, <1>3

LEMMA CommissionStep ==
    ASSUME RailInv, NEW f \in Callers, FollowCreate(f)
    PROVE  Work!DWNext
<1> DEFINE d == job[f].decision
           k == job[f].kind
<1>1. UNCHANGED <<place, ack, decision>> /\ Handed' = Handed /\ pc[f] = "draft"
  BY DEF FollowCreate, Handed, Exists
<1>2. PICK t \in Drafts : /\ draft[t].decision = None
                          /\ draft' = [draft EXCEPT ![t] = [decision |-> d, kind |-> k]]
  BY DEF FollowCreate
<1>3. /\ d \in DecisionIds /\ Written(d) /\ k \in Kinds
      /\ AllowedBy(decision[d], k) /\ decision[d].task = None
  BY <1>1 DEF RailInv, CallInv
<1>4. decision[d].value \in AllValues
  <2>1. decision[d].value \in Values \union {None} /\ decision[d].value # None
    BY <1>3 DEF RailInv, TypeOK, DecisionInv, DecisionOk, Written, Decisions
  <2> QED
    BY <2>1, RailAssumption
<1>5. Verdicts[d] = Verdict(d) /\ Verdicts' = Verdicts
  BY <1>1, <1>3 DEF Verdicts, Verdict
<1>6. Work!CallsFor(Verdict(d), k)
  BY <1>3, <1>4 DEF Work!CallsFor, Verdict, AllowedBy, AllValues, Closing, Written
<1>7. Work!Commission(t, d, k)
  BY <1>1, <1>2, <1>3, <1>5, <1>6 DEF Work!Commission, Handed, Verdicts, Verdict
<1> QED
  BY <1>3, <1>7 DEF Work!DWNext

LEMMA TakeOnStep ==
    ASSUME RailInv, LinkInv, NEW f \in Callers, FollowClaim(f)
    PROVE  [Work!DWNext]_(Work!dwVars)
<1> DEFINE t == job[f].task
<1>1. UNCHANGED <<place, ack, draft>> /\ Handed' = Handed /\ pc[f] = "claim"
  BY DEF FollowClaim, Handed, Exists
<1>2. CASE UNCHANGED decision
  BY <1>1, <1>2, UnseenStep
<1>3. ASSUME NEW d, d = job[f].decision,
             decision' = [decision EXCEPT ![d].task = t, ![d].state = "followup_created"]
      PROVE  Work!DWNext
  <2>1. /\ d \in DecisionIds /\ t \in Drafts /\ decision[d].task = None
        /\ draft[t].decision = d
    BY <1>1, <1>3 DEF RailInv, CallInv, LinkInv
  <2>2. /\ decision'[d].handoff = decision[d].handoff /\ decision'[d].value = decision[d].value
        /\ decision'[d].resume = decision[d].resume /\ decision'[d].task = t
        /\ \A e \in DecisionIds \ {d} : decision'[e] = decision[e]
    <3>1. decision[d] \in Decisions
      BY <2>1 DEF RailInv, TypeOK
    <3>2. decision' = [decision EXCEPT ![d] =
                         [decision[d] EXCEPT !.task = t, !.state = "followup_created"]]
      BY <1>3, <2>1, <3>1 DEF RailInv, TypeOK, Decisions
    <3> QED
      BY <2>1, <3>1, <3>2 DEF RailInv, TypeOK, Decisions
  <2>3. Verdict(d)' = [Verdict(d) EXCEPT !.task = t]
    BY <2>2 DEF Verdict
  <2>4. Verdicts' = [Verdicts EXCEPT ![d] = [Verdict(d) EXCEPT !.task = t]]
    BY <2>1, <2>2, <2>3, VerdictStep
  <2>5. Verdicts[d] = Verdict(d)
    BY <2>1 DEF Verdicts
  <2>6. Verdicts' = [Verdicts EXCEPT ![d].task = t]
    BY <2>4, <2>5
  <2>7. Work!TakeOn(d, t)
    BY <1>1, <2>1, <2>5, <2>6 DEF Work!TakeOn, Handed, Verdicts, Verdict
  <2> QED
    BY <2>1, <2>7 DEF Work!DWNext
<1> QED
  BY <1>2, <1>3 DEF FollowClaim

(* Each step of the rail is one of DecidedWork or nothing it sees.         *)
LEMMA RailRefines ==
    ASSUME RailInv, LinkInv, [Next]_vars
    PROVE  [Work!DWNext]_(Work!dwVars)
<1>1. UNCHANGED files => UNCHANGED Work!dwVars
  BY UnseenStep DEF files, Handed, Exists
<1>2. ASSUME NEW c \in Creators, CreatorStep(c) PROVE [Work!DWNext]_(Work!dwVars)
  <2>1. FindPending(c) \/ FindAcked(c) => UNCHANGED files
    BY DEF FindPending, FindAcked, files
  <2> QED
    BY <1>1, <1>2, <2>1, HandOnStep DEF CreatorStep
<1>3. ASSUME NEW r \in Callers, RecordStep(r) PROVE [Work!DWNext]_(Work!dwVars)
  <2>1. RecordBegin(r) => UNCHANGED files
    BY DEF RecordBegin
  <2> QED
    BY <1>1, <1>3, <2>1, DecideStep DEF RecordStep
<1>4. ASSUME NEW a \in Callers, AckStep(a) PROVE [Work!DWNext]_(Work!dwVars)
  <2>1. AckBegin(a) \/ AckLock(a) \/ AckFails(a) => UNCHANGED files
    BY DEF AckBegin, AckLock, AckFails
  <2>2. ASSUME AckMove(a) PROVE UNCHANGED Work!dwVars
    <3>1. Handed' = Handed /\ UNCHANGED <<ack, decision, draft>>
      BY <2>2 DEF AckMove, RailInv, CallInv, TypeOK, Handed, Exists
    <3> QED
      BY <3>1, UnseenStep
  <2> QED
    BY <1>1, <1>4, <2>1, <2>2, ConsumeStep DEF AckStep
<1>5. ASSUME NEW f \in Callers, FollowStep(f) PROVE [Work!DWNext]_(Work!dwVars)
  <2>1. FollowRead(f) \/ FollowLock(f) \/ FollowRefused(f) => UNCHANGED files
    BY DEF FollowRead, FollowLock, FollowRefused
  <2> QED
    BY <1>1, <1>5, <2>1, CommissionStep, TakeOnStep DEF FollowStep
<1>6. \A a \in Actors : LockTimesOut(a) \/ Crash(a) => UNCHANGED files
  BY DEF LockTimesOut, Crash
<1>7. UNCHANGED vars => UNCHANGED files
  BY DEF vars, files
<1>8. ASSUME NEW a \in Callers, CallerStep(a) PROVE [Work!DWNext]_(Work!dwVars)
  BY <1>1, <1>3, <1>4, <1>5, <1>6, <1>8 DEF CallerStep, Actors
<1> QED
  BY <1>1, <1>2, <1>6, <1>7, <1>8, AnswerStep DEF Next

(* However its calls overlap, fail or die, the rail does no more than      *)
(* DecidedWork says, for any number of sessions, handoffs, decisions and   *)
(* drafts: a handoff is consumed once, by a decision about it; work is     *)
(* commissioned by a decision that calls for it and taken on once.         *)
THEOREM DecisionsImplemented == Spec => ImplementsDecisions
<1>1. Init => Work!DWInit
  BY DEF Init, Work!DWInit, Work!Undecided, Verdict, Unwritten, Exists
<1>2. Init => LinkInv
  BY DEF Init, LinkInv, Unwritten, Written, Actors
<1>3. RailInv /\ LinkInv /\ [Next]_vars => LinkInv'
  BY RailLinks
<1>4. RailInv /\ LinkInv /\ [Next]_vars => [Work!DWNext]_(Work!dwVars)
  BY RailRefines
<1> QED
  BY <1>1, <1>2, <1>3, <1>4, RailInvariance, PTL DEF Spec, ImplementsDecisions, Work!DWSpec

(* And so does the desk, with all that surrounds the rail.                 *)
THEOREM DeskImplements == DeskSpec => ImplementsDecisions
BY DeskIsRail, DecisionsImplemented

-----------------------------------------------------------------------------
(* The inbox *)

AllItems == HandoffItems \union DecisionItems \union TaskItems
            \union LineageItems \union GapItems

(* Something is most urgent wherever there is something.                   *)
LEMMA SomeMostUrgent ==
    ASSUME NEW S, S # {}, \A i \in S : i.type \in DOMAIN Priority
    PROVE  MostUrgent(S) # {}
<1> DEFINE T == {Priority[i.type] : i \in S}
<1>1. \A k \in DOMAIN Priority : Priority[k] \in Nat
  BY DEF Priority
<1>2. T \subseteq Nat /\ T # {}
  BY <1>1
<1>3. PICK x \in T : \A y \in T : ~(<<y, x>> \in OpToRel(<, Nat))
  <2> HIDE DEF T
  <2> QED
    BY <1>2, NatLessThanWellFounded, WFMin
<1>4. ASSUME NEW y \in T PROVE x <= y
  <2>1. x \in Nat /\ y \in Nat
    BY <1>2
  <2>2. ~(y < x)
    <3> HIDE DEF T
    <3> QED
      BY <1>3, <2>1 DEF OpToRel
  <2> QED
    BY <2>1, <2>2
<1>5. PICK i \in S : Priority[i.type] = x
  OBVIOUS
<1>6. i \in MostUrgent(S)
  BY <1>4, <1>5 DEF MostUrgent
<1> QED
  BY <1>6

(* What each item is.                                                      *)
LEMMA DraftItems ==
    ASSUME NEW t
    PROVE  \/ /\ DraftItem(t).type = "draft_ready_to_start"
              /\ DraftItem(t).id = <<"task", t, "ready_to_start">>
           \/ /\ DraftItem(t).type = "approved_ready_to_start"
              /\ DraftItem(t).id = <<"task", t, "approved_ready">>
           \/ /\ DraftItem(t).type = "draft_requires_approval"
              /\ DraftItem(t).id = <<"task", t, "needs_approval">>
BY DEF DraftItem, Item

LEMMA Ended ==
    ASSUME NEW t, NEW i \in EndedItems(t)
    PROVE  /\ i.id = <<"task", t, Meta(t).status>>
           /\ \/ /\ Meta(t).status = "needs_input"
                 /\ i.type = "needs_input_task_without_decision"
              \/ /\ Meta(t).status \in {"failed", "timeout", "cancelled"}
                 /\ i.type = Unconsumed[Meta(t).status]
                 /\ \E h \in HandoffOf(t) : About(h) = {} \/ mark[h] = "pending"
<1>1. DOMAIN Unconsumed = {"failed", "timeout", "cancelled"}
  BY DEF Unconsumed
<1>2. PICK h \in HandoffOf(t) :
          /\ Meta(t).status \in {"needs_input"} \union DOMAIN Unconsumed
          /\ \/ About(h) = {}
             \/ Meta(t).status # "needs_input" /\ mark[h] = "pending"
          /\ i = Item(IF Meta(t).status = "needs_input"
                      THEN "needs_input_task_without_decision"
                      ELSE Unconsumed[Meta(t).status], <<"task", t, Meta(t).status>>)
  BY DEF EndedItems
<1> QED
  BY <1>1, <1>2 DEF Item

(* Every item has a priority.                                              *)
LEMMA ItemsRanked == \A i \in AllItems : i.type \in DOMAIN Priority
<1>1. DOMAIN Priority = {"pending_handoff", "awaiting_user", "ready_for_followup",
          "draft_requires_approval", "approved_ready_to_start", "draft_ready_to_start",
          "needs_input_task_without_decision", "failed_task_unconsumed",
          "cancelled_task_unconsumed", "timeout_task_unconsumed", "broken_lineage",
          "artifact_gap", "running_task"}
  BY DEF Priority
<1>2. \A i \in HandoffItems \union LineageItems \union GapItems : i.type \in DOMAIN Priority
  BY <1>1 DEF HandoffItems, LineageItems, GapItems, Item
<1>3. \A i \in DecisionItems : i.type \in DOMAIN Priority
  BY <1>1 DEF DecisionItems, Item
<1>4. \A i \in TaskItems : i.type \in DOMAIN Priority
  <2>1. \A t : DraftItem(t).type \in DOMAIN Priority
    BY <1>1, DraftItems
  <2>2. ASSUME NEW t, NEW i \in EndedItems(t) PROVE i.type \in DOMAIN Priority
    BY <1>1, Ended DEF Unconsumed
  <2> QED
    BY <2>1, <2>2 DEF TaskItems
<1> QED
  BY <1>2, <1>3, <1>4 DEF AllItems

(* An empty inbox leaves nothing waiting but a decision nobody has acted   *)
(* on.                                                                     *)
LEMMA ForgottenInv ==
    ASSUME DeskInv
    PROVE  OnlyRecordedForgotten(Inbox)
<1> SUFFICES ASSUME Inbox = {}
             PROVE  /\ \A h \in Handoffs : place[h] # "pending"
                    /\ \A d \in DecisionIds :
                          Written(d) =>
                             \/ decision[d].state = "closed"
                             \/ decision[d].state = "recorded" /\ decision[d].task = None
                             \/ decision[d].task # None
                                /\ paper[decision[d].task].status = "running"
  BY DEF OnlyRecordedForgotten
<1>1. AllItems = {}
  BY ItemsRanked, SomeMostUrgent DEF Inbox, AllItems
<1>2. HandoffItems = {} /\ DecisionItems = {} /\ TaskItems = {}
  BY <1>1 DEF AllItems
<1>3. \A h \in Handoffs : place[h] # "pending"
  BY <1>2 DEF HandoffItems
<1>4. RailInv /\ DeskTypeOK /\ LinkInv /\ PaperInv
  BY DEF DeskInv
<1>5. ASSUME NEW d \in DecisionIds, Written(d)
      PROVE  \/ decision[d].state = "closed"
             \/ decision[d].state = "recorded" /\ decision[d].task = None
             \/ decision[d].task # None /\ paper[decision[d].task].status = "running"
  <2>1. /\ decision[d].state # "awaiting_user"
        /\ ~(decision[d].state = "ready_for_followup" /\ decision[d].task = None)
    BY <1>2 DEF DecisionItems
  <2>2. decision[d].task # None => decision[d].state = "followup_created"
    BY <1>4, <1>5 DEF RailInv, DecisionInv, DecisionOk, Written
  <2>3. decision[d] \in Decisions
    BY <1>4 DEF RailInv, TypeOK
  <2>4. CASE decision[d].task # None
    <3> DEFINE t == decision[d].task
    <3>1. t \in Drafts /\ t # Source /\ draft[t].decision = d
      BY <1>4, <2>3, <2>4, DeskAssumption DEF LinkInv, Decisions
    <3>2. paper[t].status \in {"draft", "running"}
      BY <1>4, <3>1, RailAssumption DEF PaperInv, DeskTypeOK, Papers
    <3>3. t \in Tasks /\ Readable(t) /\ Meta(t).status = paper[t].status
      BY <3>1, <3>2 DEF Tasks, Readable, Meta
    <3>4. paper[t].status = "draft" => t \in Scanned
      BY <3>3 DEF Scanned
    <3>5. paper[t].status # "draft"
      BY <1>2, <3>3, <3>4 DEF TaskItems
    <3> QED
      BY <2>4, <3>2, <3>5
  <2>5. CASE decision[d].task = None
    <3>1. decision[d].state # "followup_created"
      BY <1>4, <1>5, <2>5 DEF LinkInv
    <3>2. decision[d].state \in States
      BY <1>4, <1>5 DEF LinkInv
    <3> QED
      BY <2>1, <2>5, <3>1, <3>2 DEF States
  <2> QED
    BY <2>4, <2>5
<1> QED
  BY <1>3, <1>5

(* Every item opens as what it was listed as, in any state of the files.   *)
LEMMA ListedOpensAlways == ListedOpens(Inbox)
<1> DEFINE Opens(i) == \/ i.type \in {"timeout_task_unconsumed", "broken_lineage"}
                       \/ Opened(i.id) = i.type
<1>1. ASSUME NEW i \in HandoffItems PROVE Opens(i)
  <2>1. PICK h \in Handoffs : place[h] = "pending" /\ i = Item("pending_handoff", <<"handoff", h>>)
    BY DEF HandoffItems
  <2>2. i.type = "pending_handoff" /\ i.id[1] = "handoff" /\ i.id[2] = h
    BY <2>1 DEF Item
  <2> QED
    BY <2>1, <2>2 DEF Opened, Exists
<1>2. ASSUME NEW i \in DecisionItems PROVE Opens(i)
  <2>1. PICK d \in DecisionIds :
           /\ \/ decision[d].state = "awaiting_user"
              \/ decision[d].state = "ready_for_followup" /\ decision[d].task = None
           /\ i = Item(decision[d].state, <<"decision", d>>)
    BY DEF DecisionItems
  <2>2. i.type = decision[d].state /\ i.id[1] = "decision" /\ i.id[2] = d
    BY <2>1 DEF Item
  <2>3. Opened(i.id) = OpenedDecision(d)
    BY <2>2 DEF Opened
  <2> QED
    BY <2>1, <2>2, <2>3 DEF OpenedDecision
<1>3. ASSUME NEW i \in TaskItems \union RunningItems \union GapItems PROVE Opens(i)
  <2>1. \A t : Readable(t) =>
           \A s : Opened(<<"task", t, s>>) = OpenedTask(s)
    BY DEF Opened
  <2>2. \A t \in Scanned : Readable(t)
    BY DEF Scanned
  <2>3. CASE \E t \in Scanned : i = DraftItem(t)
    BY <2>1, <2>2, <2>3, DraftItems DEF OpenedTask
  <2>4. CASE \E t \in Scanned : i \in EndedItems(t)
    <3>1. PICK t \in Scanned : i \in EndedItems(t)
      BY <2>4
    <3>2. Opened(i.id) = OpenedTask(Meta(t).status)
      BY <2>1, <2>2, <3>1, Ended
    <3> QED
      BY <3>1, <3>2, Ended DEF OpenedTask, Unconsumed
  <2>5. CASE i \in RunningItems
    BY <2>1, <2>2, <2>5 DEF RunningItems, Item, OpenedTask
  <2>6. CASE i \in GapItems
    <3>1. PICK t \in Scanned : \/ i = Item("artifact_gap", <<"task", t, "receipt_missing">>)
                               \/ i = Item("artifact_gap", <<"task", t, "card_gap">>)
      BY <2>6 DEF GapItems
    <3> QED
      BY <2>1, <2>2, <3>1 DEF Item, OpenedTask
  <2> QED
    BY <1>3, <2>3, <2>4, <2>5, <2>6 DEF TaskItems
<1>4. ASSUME NEW i \in LineageItems PROVE Opens(i)
  BY DEF LineageItems, Item
<1>5. Inbox \subseteq AllItems
  BY DEF Inbox, MostUrgent, AllItems
<1> HIDE DEF Opens
<1>6. \A i \in Inbox \union RunningItems : Opens(i)
  BY <1>1, <1>2, <1>3, <1>4, <1>5 DEF AllItems
<1> QED
  BY <1>6 DEF ListedOpens, Opens

(* Two decisions about one handoff are reported.                           *)
LEMMA TwoReported ==
    ASSUME NEW h \in Handoffs, NEW d \in About(h), NEW e \in About(h), d # e
    PROVE  <<"SINGLE_ACTIVE_DECISION", "warning">> \in AuditHandoff(h)
<1>1. About(h) \in SUBSET DecisionIds
  BY DEF About
<1>2. IsFiniteSet(About(h)) /\ Cardinality(About(h)) \in Nat
  BY <1>1, DeskAssumption, FS_Subset, FS_CardinalityType
<1>3. Cardinality(About(h)) # 1
  BY <1>2, FS_Singleton
<1>4. Cardinality(About(h)) # 0
  BY <1>2, FS_EmptySet
<1>5. Cardinality(About(h)) > 1
  BY <1>2, <1>3, <1>4
<1>6. Duplicates(h) = {<<"SINGLE_ACTIVE_DECISION", "warning">>}
  BY <1>5, Zenon DEF Duplicates, Finding
<1>7. <<"SINGLE_ACTIVE_DECISION", "warning">> \in Duplicates(h)
  BY <1>6
<1> QED
  BY <1>7 DEF AuditHandoff

(* What the tools say of one thing agrees, or the audit says why not.      *)
LEMMA ToolsAgreeInv ==
    ASSUME DeskInv
    PROVE  ToolsAgree(Inbox)
<1>1. RailInv /\ DeskTypeOK /\ FileInv /\ PaperInv
  BY DEF DeskInv
<1>2. ASSUME NEW e \in HandoffList, e.first # e.last
      PROVE  <<"SINGLE_ACTIVE_DECISION", "warning">> \in AuditHandoff(e.handoff)
  <2>1. PICK g \in PendingEntries :
           \E d \in SomeDecision(g.handoff) : e = [g EXCEPT !.last = d]
    BY DEF HandoffList
  <2>2. PICK h \in Handoffs : \E c \in SomeDecision(h) :
           g = [handoff |-> h, status |-> said[h].status, first |-> c, last |-> None]
    BY DEF PendingEntries
  <2>3. e.handoff = h /\ e.first \in SomeDecision(h) /\ e.last \in SomeDecision(h)
    BY <2>1, <2>2
  <2>4. e.first \in About(h) /\ e.last \in About(h)
    BY <1>2, <2>3 DEF SomeDecision
  <2> QED
    BY <1>2, <2>2, <2>3, <2>4, TwoReported
<1>3. ASSUME NEW d \in DecisionIds, Written(d),
             NEW o \in OpenedHandoff(decision[d].handoff),
             o.state # DecisionOpen(d).handoff.state
      PROVE  <<"DECISION_ACK_PENDING", "warning">> \in AuditHandoff(decision[d].handoff)
  <2> DEFINE h == decision[d].handoff
  <2>1. h \in Handoffs /\ Exists(h) /\ d \in About(h)
    BY <1>1, <1>3 DEF RailInv, TypeOK, Decisions, DecisionInv, DecisionOk, Written, About
  <2>2. o.state = place[h]
    BY <1>3 DEF OpenedHandoff
  <2>3. DecisionOpen(d).handoff = [state |-> mark[h], status |-> said[h].status]
    BY <2>1 DEF DecisionOpen, HandoffFile
  <2>4. mark[h] # place[h]
    BY <1>3, <2>2, <2>3
  <2>5. mark[h] = "pending"
    BY <1>1, <2>1, <2>4 DEF FileInv, DeskTypeOK
  <2>6. <<"DECISION_ACK_PENDING", "warning">> \in AckFindings(h, d)
    BY <2>5 DEF AckFindings, Finding
  <2> QED
    BY <2>1, <2>6 DEF AuditHandoff
<1>4. ASSUME NEW t \in Tasks \ {Source}, OpenedApproval(t) # "error", Meta(t).status = "draft"
      PROVE  DraftItem(t).type = OpenedApproval(t)
  <2>1. t \in Drafts /\ Meta(t).approved = paper[t].approved /\ Meta(t).kind = draft[t].kind
    BY <1>4 DEF Tasks, Meta
  <2>2. Meta(t).approved # 0
    BY <1>4 DEF OpenedApproval
  <2>3. Meta(t).kind = "implementation"
    BY <1>1, <2>1, <2>2 DEF PaperInv
  <2> QED
    BY <1>4, <2>2, <2>3 DEF DraftItem, OpenedApproval, Item
<1>5. ASSUME NEW i \in Inbox, i.type \in {Unconsumed[s] : s \in DOMAIN Unconsumed}
      PROVE  \E o \in OpenedTaskEvidence(i.id[2]) : o.decision = None \/ o.handoff.state = "pending"
  <2>1. i.type \in {"failed_task_unconsumed", "timeout_task_unconsumed",
                    "cancelled_task_unconsumed"}
    BY <1>5 DEF Unconsumed
  <2>2. i \in AllItems
    BY DEF Inbox, MostUrgent, AllItems
  <2>3. i \notin HandoffItems \union LineageItems \union GapItems
    BY <2>1 DEF HandoffItems, LineageItems, GapItems, Item
  <2>4. i \notin DecisionItems
    BY <2>1 DEF DecisionItems, Item
  <2>5. \A t : i # DraftItem(t)
    BY <2>1, DraftItems
  <2>6. PICK t \in Scanned : i \in EndedItems(t)
    BY <2>2, <2>3, <2>4, <2>5 DEF AllItems, TaskItems
  <2>7. i.id[2] = t
    BY <2>6, Ended
  <2>8. PICK h \in HandoffOf(t) : About(h) = {} \/ mark[h] = "pending"
    BY <2>1, <2>6, Ended
  <2>9. h \in Handoffs /\ Exists(h)
    BY DEF HandoffOf
  <2>10. HandoffFile(h).state = mark[h]
    BY <2>9 DEF HandoffFile
  <2>11. \E d \in SomeDecision(h) : d = None \/ mark[h] = "pending"
    BY <2>8 DEF SomeDecision
  <2>12. PICK d \in SomeDecision(h) : d = None \/ mark[h] = "pending"
    BY <2>11
  <2>13. [handoff |-> HandoffFile(h), decision |-> d, receipt |-> ReceiptOf(t),
          card |-> source.card] \in OpenedTaskEvidence(t)
    BY <2>12 DEF OpenedTaskEvidence
  <2> QED
    BY <2>7, <2>10, <2>12, <2>13
<1>6. ASSUME NEW d \in DecisionIds, Written(d), OpenedEvidence(d).state = "recorded"
      PROVE  d \in DecisionList(ActiveStates)
  BY <1>6 DEF OpenedEvidence, DecisionList, ActiveStates
<1> QED
  BY <1>2, <1>3, <1>4, <1>5, <1>6 DEF ToolsAgree

-----------------------------------------------------------------------------
(* The audit *)

(* While nothing was cleaned up and one decision was taken.                *)
Undisturbed == source.meta /\ \A h \in Handoffs : Cardinality(About(h)) <= 1 /\ ~CardGone(h)

(* Then all decisions about a handoff are one.                             *)
LEMMA OneDecision ==
    ASSUME Undisturbed, NEW h \in Handoffs, NEW d \in About(h), NEW e \in About(h)
    PROVE  d = e
<1> SUFFICES ASSUME d # e PROVE FALSE
  OBVIOUS
<1>1. About(h) \in SUBSET DecisionIds
  BY DEF About
<1>2. IsFiniteSet(About(h)) /\ Cardinality(About(h)) \in Nat
  BY <1>1, DeskAssumption, FS_Subset, FS_CardinalityType
<1>3. Cardinality(About(h)) # 1 /\ Cardinality(About(h)) # 0
  BY <1>2, FS_Singleton, FS_EmptySet
<1> QED
  BY <1>2, <1>3 DEF Undisturbed

LEMMA FindingIs == \A code, level, when : \A f \in Finding(code, level, when) :
                       f[1] = code /\ f[2] = level /\ when
BY DEF Finding

(* What the audit may still call broken.                                   *)
Known(f) ==
    \/ f[1] = "TASK_KIND_CONSTRAINT" /\ LeftBeside
    \/ f[1] = "HANDOFF_TERMINAL_MISMATCH" /\ SaidFailed

(* A task is accused of nothing but being left beside another draft and    *)
(* of a handoff that says it failed.                                       *)
LEMMA TaskQuiet ==
    ASSUME DeskInv, Undisturbed, NEW t \in Tasks, NEW f \in AuditTask(t), f[2] = "broken"
    PROVE  Known(f)
<1> DEFINE it == Meta(t)
<1>1. RailInv /\ DeskTypeOK /\ FileInv /\ PaperInv /\ LinkInv
  BY DEF DeskInv
<1>2. Readable(t)
  BY DEF Readable, Undisturbed
<1>3. it.status \in Terminal => t = Source /\ source.receipt
  <2>1. CASE t = Source
    BY <1>1, <2>1 DEF Meta, FileInv, Terminal
  <2>2. CASE t # Source
    <3>1. t \in Drafts /\ it.status = paper[t].status
      BY <2>2 DEF Tasks, Meta
    <3> QED
      BY <1>1, <3>1 DEF DeskTypeOK, Papers, Terminal
  <2> QED
    BY <2>1, <2>2
<1>4. ASSUME f \in TerminalFindings(t, it) PROVE FALSE
  BY <1>3, <1>4, FindingIs DEF TerminalFindings, ReceiptOf
<1>5. ASSUME f \in FoundHandoffFindings(t, it) PROVE Known(f)
  <2>1. HandoffOf(t) # {} => t = Source /\ HandoffOf(t) \subseteq {h \in Handoffs : Exists(h)}
    BY DEF HandoffOf
  <2>2. f \notin Finding("ROLE_CARD_DECLARATION_MISMATCH", "broken",
                        \E h \in HandoffOf(t) : CardGone(h))
    BY <2>1, FindingIs DEF Undisturbed
  <2>3. f \in Finding("HANDOFF_TERMINAL_MISMATCH", "broken",
                     \E h \in HandoffOf(t) : said[h].status # it.status)
    BY <1>5, <2>2 DEF FoundHandoffFindings
  <2>4. f[1] = "HANDOFF_TERMINAL_MISMATCH" /\ \E h \in HandoffOf(t) : said[h].status # it.status
    BY <2>3 DEF Finding
  <2>5. PICK h \in HandoffOf(t) : said[h].status # it.status
    BY <2>4
  <2>6. h \in Handoffs /\ Exists(h) /\ it.status = source.status
    BY <2>1, <2>5 DEF Meta
  <2> QED
    BY <1>1, <2>4, <2>5, <2>6 DEF FileInv, Known, SaidFailed
<1>6. ASSUME f \in ArchitectureFindings(it) PROVE FALSE
  <2>1. it.kind = "architecture"
        /\ (it.mode \notin {"design_review", "spec_preflight"} \/ it.subject = "none")
    BY <1>6, FindingIs DEF ArchitectureFindings
  <2>2. CASE t = Source
    <3>1. source.is \in Sources
      BY <1>1 DEF DeskTypeOK
    <3>2. it.kind = source.is.kind /\ it.mode = source.is.mode
          /\ it.subject = IF source.is.kind = "architecture" THEN "other" ELSE "none"
      BY <2>2 DEF Meta
    <3> QED
      BY <2>1, <3>1, <3>2, DeskAssumption
  <2>3. CASE t # Source
    <3>1. it.kind = draft[t].kind
          /\ it.mode = (IF draft[t].kind = "architecture" THEN "design_review" ELSE "none")
          /\ it.subject = (IF draft[t].kind \in {"review", "architecture"} THEN "source" ELSE "none")
      BY <2>3 DEF Meta
    <3> QED
      BY <2>1, <3>1
  <2> QED
    BY <2>2, <2>3
<1>7. ASSUME f \in DecisionFindings(it) PROVE Known(f)
  <2>1. it.from # None
    BY <1>7, FindingIs DEF DecisionFindings
  <2>2. t # Source /\ t \in Drafts
    BY <2>1 DEF Meta, Tasks
  <2>3. /\ it.from = draft[t].decision /\ it.kind = draft[t].kind
        /\ it.kind = "review" => it.subject = "source"
    BY <2>2 DEF Meta
  <2>4. f[1] = "TASK_KIND_CONSTRAINT" /\ KindOf(it.from) \notin {None, it.kind}
    <3>1. \/ f \in Finding("TASK_KIND_CONSTRAINT", "broken",
                          it.from # None /\ KindOf(it.from) \notin {None, it.kind})
          \/ f \in Finding("REVIEW_SUBJECT", "broken",
                          it.from # None /\ it.kind = "review"
                          /\ decision[it.from].value = "review_required"
                          /\ it.subject # "source")
      BY <1>7 DEF DecisionFindings
    <3>2. \A code, level, when : f \in Finding(code, level, when) => f[1] = code /\ when
      BY FindingIs
    <3>3. f \notin Finding("REVIEW_SUBJECT", "broken",
                          it.from # None /\ it.kind = "review"
                          /\ decision[it.from].value = "review_required"
                          /\ it.subject # "source")
      BY <2>3, <3>2, Zenon
    <3>4. f \in Finding("TASK_KIND_CONSTRAINT", "broken",
                        it.from # None /\ KindOf(it.from) \notin {None, it.kind})
      BY <3>1, <3>3
    <3> QED
      BY <3>2, <3>4, Zenon
  <2> DEFINE d == draft[t].decision
  <2>5. d \in DecisionIds /\ AllowedBy(decision[d], draft[t].kind) /\ decision[d] \in Decisions
    BY <1>1, <2>1, <2>2, <2>3 DEF RailInv, TypeOK, FollowupAllowed
  <2>6. decision[d].task # None
    BY <2>3, <2>4, <2>5 DEF KindOf, AllowedBy
  <2>7. /\ decision[d].task \in Drafts /\ draft[decision[d].task].decision = d
        /\ draft[decision[d].task].kind # draft[t].kind
    BY <1>1, <2>3, <2>4, <2>5, <2>6 DEF LinkInv, Decisions, KindOf
  <2> QED
    BY <2>1, <2>2, <2>3, <2>4, <2>7 DEF LeftBeside, Known
<1>8. /\ f \notin SchemaFindings(it) /\ f \notin MissingHandoffFindings(t, it)
      /\ f \notin BindingFindings(it) /\ f \notin SourceHandoffFindings(it)
      /\ f \notin ApprovalFindings(it)
  BY FindingIs DEF SchemaFindings, MissingHandoffFindings, BindingFindings,
                   SourceHandoffFindings, ApprovalFindings
<1>9. ~Dies(it)
  BY <1>2 DEF AuditTask
<1> QED
  BY <1>2, <1>4, <1>5, <1>6, <1>7, <1>8, <1>9 DEF AuditTask

(* A handoff is accused of saying that its task failed.                    *)
LEMMA HandoffQuiet ==
    ASSUME DeskInv, Undisturbed, NEW h \in Handoffs, Exists(h), NEW f \in AuditHandoff(h),
           f[2] = "broken"
    PROVE  Known(f)
<1>1. RailInv /\ FileInv
  BY DEF DeskInv
<1>2. ASSUME NEW d \in About(h), f \in AckFindings(h, d) PROVE FALSE
  <2>1. ack[h] # None /\ ack[h] # decision[d].value
    BY <1>2 DEF AckFindings, Finding
  <2>2. ack[h] # None => \E e \in About(h) : decision[e].value = ack[h]
    BY <1>1 DEF RailInv, AckFollowsDecision
  <2> QED
    BY <2>1, <2>2, OneDecision
<1>3. f \in Duplicates(h) => f[2] = "warning"
  BY FindingIs DEF Duplicates
<1>4. f \in Finding("HANDOFF_TERMINAL_MISMATCH", "broken",
                    source.meta /\ said[h].status # source.status)
         => f[1] = "HANDOFF_TERMINAL_MISMATCH" /\ SaidFailed
  BY <1>1 DEF FileInv, SaidFailed, Finding
<1>5. f \notin Finding("ROLE_CARD_DECLARATION_MISMATCH", "broken", CardGone(h))
  BY FindingIs DEF Undisturbed
<1> QED
  BY <1>2, <1>3, <1>4, <1>5 DEF AuditHandoff, Known

(* A decision is accused of nothing.                                       *)
LEMMA DecisionQuiet ==
    ASSUME DeskInv, NEW d \in DecisionIds, Written(d), NEW f \in AuditDecision(d)
    PROVE  f[2] # "broken"
<1> DEFINE h == decision[d].handoff
<1>1. RailInv /\ FileInv /\ LinkInv /\ DeskTypeOK
  BY DEF DeskInv
<1>2. h \in Handoffs /\ Exists(h)
  BY <1>1 DEF RailInv, TypeOK, Decisions, DecisionInv, DecisionOk, Written
<1>3. said[h].status # "none"
  BY <1>1, <1>2, DeskAssumption DEF FileInv, DeskTypeOK, Terminal
<1>4. f \notin Finding("SOURCE_HANDOFF_EXISTS", "broken", ~Exists(decision[d].handoff))
  BY <1>2, FindingIs
<1>5. f \notin Finding("SOURCE_BINDING_CONSISTENCY", "broken",
            Exists(decision[d].handoff) /\ said[decision[d].handoff].status = "none")
  BY <1>3, FindingIs
<1>6. f \in Finding("SOURCE_BINDING_CONSISTENCY", "warning",
            source.meta /\ said[decision[d].handoff].status # source.status)
         => f[2] = "warning"
  BY FindingIs
<1>7. f \in Duplicates(decision[d].handoff) => f[2] = "warning"
  BY FindingIs DEF Duplicates
<1>8. f \in FollowupFindings(d) => f[2] = "warning"
  <2>1. ~(decision[d].state = "followup_created" /\ decision[d].task = None)
    BY <1>1 DEF LinkInv
  <2>2. ~(decision[d].task # None /\ draft[decision[d].task].decision # d)
    BY <1>1 DEF LinkInv
  <2> QED
    BY <2>1, <2>2, FindingIs DEF FollowupFindings
<1> QED
  BY <1>4, <1>5, <1>6, <1>7, <1>8 DEF AuditDecision

(* The audit is quiet about what crashes and overlapping calls leave, save *)
(* what is known, and reports what contradicts a decision.                 *)
LEMMA AuditExactInv ==
    ASSUME DeskInv
    PROVE  AuditExact
<1>1. ASSUME Undisturbed, NEW f \in Findings, f[2] = "broken"
      PROVE  Known(f)
  <2>1. CASE \E h \in Handoffs : Exists(h) /\ f \in AuditHandoff(h)
    BY <1>1, <2>1, HandoffQuiet
  <2>2. ~ \E d \in DecisionIds : Written(d) /\ f \in AuditDecision(d)
    BY <1>1, DecisionQuiet
  <2>3. CASE \E t \in Tasks : f \in AuditTask(t)
    BY <1>1, <2>3, TaskQuiet
  <2> QED
    BY <2>1, <2>2, <2>3 DEF Findings
<1>2. AuditQuiet
  BY <1>1 DEF AuditQuiet, Undisturbed, Known
<1>3. ASSUME NEW h \in Handoffs, NEW d \in About(h), ack[h] \notin {None, decision[d].value}
      PROVE  \E f \in AuditHandoff(h) : f[1] # "DECISION_ACK_PENDING"
  <2>1. PICK e \in About(h) : decision[e].value = ack[h]
    BY <1>3 DEF DeskInv, RailInv, AckFollowsDecision
  <2>2. <<"SINGLE_ACTIVE_DECISION", "warning">> \in AuditHandoff(h)
    BY <1>3, <2>1, TwoReported
  <2> QED
    BY <2>2
<1>4. ContradictionSeen
  BY <1>3 DEF ContradictionSeen
<1> QED
  BY <1>2, <1>4 DEF AuditExact

-----------------------------------------------------------------------------
(* Of what waits for somebody the inbox forgets only a decision nobody has *)
(* acted on, each of its items opens as what it was listed as, and the     *)
(* other tools bear it out, for any number of handoffs, decisions, drafts  *)
(* and sessions.                                                           *)
THEOREM InboxFaithfulHolds == DeskSpec => []InboxFaithful
<1>1. DeskInv => InboxFaithful
  BY ForgottenInv, ListedOpensAlways, ToolsAgreeInv DEF InboxFaithful
<1> QED
  BY <1>1, DeskInvariance, PTL

(* The consistency audit accuses nobody of what crashes and races leave    *)
(* behind, a draft beside another one and a handoff of a failure path      *)
(* aside, and never misses an acknowledgement that contradicts a decision. *)
THEOREM AuditExactHolds == DeskSpec => []AuditExact
<1>1. DeskInv => AuditExact
  BY AuditExactInv
<1> QED
  BY <1>1, DeskInvariance, PTL

-----------------------------------------------------------------------------
(* The lineage. *)

(* What r rounds of a walk are.                                            *)
Rounds(r, n, m) ==
    r = [k \in 0 .. m |-> IF k = 0 THEN Begin(n) ELSE Round(r[k-1])]

LEMMA RoundsExist ==
    ASSUME NEW n, NEW m \in Nat
    PROVE  \E r : Rounds(r, n, m)
<1> DEFINE Bad == {k \in Nat : ~\E r : Rounds(r, n, k)}
<1> SUFFICES ASSUME Bad # {} PROVE FALSE
  OBVIOUS
<1>1. PICK k \in Bad : \A j \in Bad : ~(<<j, k>> \in OpToRel(<, Nat))
  <2>1. Bad \subseteq Nat
    OBVIOUS
  <2> HIDE DEF Bad
  <2> QED
    BY <2>1, NatLessThanWellFounded, WFMin
<1>2. k \in Nat /\ ~\E r : Rounds(r, n, k)
  OBVIOUS
<1>3. CASE k = 0
  <2> DEFINE s == [j \in 0 .. 0 |-> Begin(n)]
  <2>1. Rounds(s, n, 0)
    BY DEF Rounds
  <2> QED
    BY <1>2, <1>3, <2>1
<1>4. CASE k # 0
  <2>1. k-1 \in Nat /\ k-1 < k
    BY <1>2, <1>4
  <2>2. k-1 \notin Bad
    <3> HIDE DEF Bad
    <3> QED
      BY <1>1, <1>2, <2>1 DEF OpToRel
  <2>3. PICK r : Rounds(r, n, k-1)
    BY <2>1, <2>2
  <2>4. \A j \in 0 .. k-1 : r[j] = IF j = 0 THEN Begin(n) ELSE Round(r[j-1])
    BY <2>3 DEF Rounds
  <2> DEFINE s == [j \in 0 .. k |-> IF j = 0 THEN Begin(n) ELSE Round(r[j-1])]
  <2>5. \A j \in 0 .. k-1 : s[j] = r[j]
    BY <2>1, <2>4
  <2>6. \A j \in 0 .. k : j # 0 => j-1 \in 0 .. k-1
    BY <2>1
  <2>7. Rounds(s, n, k)
    BY <2>5, <2>6 DEF Rounds
  <2> QED
    BY <1>2, <2>7
<1> QED
  BY <1>3, <1>4

LEMMA WalkUnfolded ==
    ASSUME NEW n
    PROVE  \E r : /\ Walk(n) = r[MaxRounds] /\ r[0] = Begin(n)
                  /\ \A k \in 1 .. MaxRounds : r[k] = Round(r[k-1])
<1>0. MaxRounds \in Nat
  BY LineageAssumption DEF MaxRounds
<1>1. PICK r : Rounds(r, n, MaxRounds)
  BY <1>0, RoundsExist
<1> DEFINE walk == CHOOSE s : Rounds(s, n, MaxRounds)
<1>2. Rounds(walk, n, MaxRounds)
  BY <1>1
<1>3. Walk(n) = walk[MaxRounds]
  BY DEF Walk, Rounds
<1> HIDE DEF walk
<1>4. walk[0] = Begin(n) /\ \A k \in 1 .. MaxRounds : walk[k] = Round(walk[k-1])
  BY <1>0, <1>2 DEF Rounds
<1> QED
  BY <1>3, <1>4

(* What holds at first, is kept by a round and adds a node in each, holds  *)
(* of the walk when it is over, and it gets over.                          *)
LEMMA Walked ==
    ASSUME NEW n, NEW G, Begin(n) \in G,
           \A w \in G : Cardinality(w.seen) \in Nat,
           \A w \in G : ~Over(w) =>
              Round(w) \in G /\ Cardinality(Round(w).seen) = Cardinality(w.seen) + 1
    PROVE  Walk(n) \in G /\ Over(Walk(n))
<1>0. MaxRounds \in Nat /\ MaxNodes \in Nat /\ MaxRounds >= MaxNodes
  BY LineageAssumption DEF MaxRounds
<1>1. PICK r : /\ Walk(n) = r[MaxRounds] /\ r[0] = Begin(n)
               /\ \A k \in 1 .. MaxRounds : r[k] = Round(r[k-1])
  BY WalkUnfolded
<1> DEFINE Ok(k) == r[k] \in G /\ (Over(r[k]) \/ Cardinality(r[k].seen) >= k)
           Bad == {k \in 0 .. MaxRounds : ~Ok(k)}
<1>2. Bad = {}
  <2> SUFFICES ASSUME Bad # {} PROVE FALSE
    OBVIOUS
  <2>1. PICK k \in Bad : \A j \in Bad : ~(<<j, k>> \in OpToRel(<, Nat))
    <3>1. Bad \subseteq Nat
      BY <1>0
    <3> HIDE DEF Bad
    <3> QED
      BY <3>1, NatLessThanWellFounded, WFMin
  <2>2. k \in Nat /\ k <= MaxRounds /\ ~Ok(k)
    BY <1>0
  <2>3. CASE k = 0
    BY <1>1, <2>2, <2>3 DEF Begin
  <2>4. CASE k # 0
    <3>1. k-1 \in Nat /\ k-1 < k /\ k-1 \in 0 .. MaxRounds /\ k \in 1 .. MaxRounds
      BY <1>0, <2>2, <2>4
    <3>2. k-1 \notin Bad
      <4> HIDE DEF Bad
      <4> QED
        BY <2>1, <2>2, <3>1 DEF OpToRel
    <3>3. Ok(k-1) /\ r[k] = Round(r[k-1])
      BY <1>1, <3>1, <3>2
    <3>4. CASE Over(r[k-1])
      BY <2>2, <3>3, <3>4 DEF Round
    <3>5. CASE ~Over(r[k-1])
      BY <2>2, <3>1, <3>3, <3>5
    <3> QED
      BY <3>4, <3>5
  <2> QED
    BY <2>3, <2>4
<1>3. Ok(MaxRounds)
  BY <1>0, <1>2
<1> QED
  BY <1>0, <1>1, <1>3 DEF Over

(* The nodes there are.                                                    *)
Artifacts ==
    ({"task"} \X ({Source} \union Drafts)) \union ({"handoff"} \X Handoffs)
        \union ({"decision"} \X {d \in DecisionIds : Written(d)})
Root == <<"task", Source>>

LEMMA FirstIn ==
    ASSUME NEW S
    PROVE  FirstOf(S) \subseteq S /\ \A x, y \in FirstOf(S) : x = y
  BY DEF FirstOf

(* Where a task, a handoff and a decision lead: to one artifact of the     *)
(* next kind, and back to where they came from.                            *)
LEMMA TaskLinks ==
    ASSUME DeskTypeOK, NEW t \in {Source} \union Drafts
    PROVE  /\ Forward(<<"task", t>>) \subseteq {"handoff"} \X Handoffs
           /\ \A x, y \in Forward(<<"task", t>>) : x = y
           /\ t # Source => Forward(<<"task", t>>) = {} /\ Backward(<<"task", t>>) = {Root}
           /\ Backward(Root) = {}
<1> DEFINE n == <<"task", t>>
<1>1. n[1] = "task" /\ n[2] = t
  OBVIOUS
<1>2. Forward(n) = {<<"handoff", h>> : h \in FirstOf(HandoffOf(t))}
  BY <1>1 DEF Forward
<1>3. FirstOf(HandoffOf(t)) \subseteq Handoffs /\ \A x, y \in FirstOf(HandoffOf(t)) : x = y
  BY FirstIn DEF HandoffOf
<1>4. t # Source => Forward(n) = {} /\ Backward(n) = {Root}
  BY <1>1, <1>2 DEF FirstOf, HandoffOf, Backward, Root
<1>5. Backward(Root) = {}
  BY DEF Backward, Root
<1> QED
  BY <1>2, <1>3, <1>4, <1>5

LEMMA HandoffLinks ==
    ASSUME DeskTypeOK, NEW h \in Handoffs
    PROVE  /\ Forward(<<"handoff", h>>) \subseteq {"decision"} \X About(h)
           /\ \A x, y \in Forward(<<"handoff", h>>) : x = y
           /\ Backward(<<"handoff", h>>) = {Root}
<1> DEFINE n == <<"handoff", h>>
<1>1. n[1] = "handoff" /\ n[2] = h
  OBVIOUS
<1>2. Forward(n) = {<<"decision", d>> : d \in FirstOf(About(h))} /\ Backward(n) = {Root}
  BY <1>1 DEF Forward, Backward, Root
<1>3. FirstOf(About(h)) \subseteq About(h) /\ \A x, y \in FirstOf(About(h)) : x = y
  BY FirstIn
<1> QED
  BY <1>2, <1>3

LEMMA DecisionLinks ==
    ASSUME DeskTypeOK, NEW d \in DecisionIds, Written(d)
    PROVE  /\ Forward(<<"decision", d>>) =
                 {<<"task", t>> : t \in {decision[d].task} \ {None}}
           /\ Forward(<<"decision", d>>) \subseteq {"task"} \X Drafts
           /\ \A x, y \in Forward(<<"decision", d>>) : x = y
           /\ Backward(<<"decision", d>>) = {<<"handoff", decision[d].handoff>>}
           /\ decision[d].handoff \in Handoffs
<1> DEFINE n == <<"decision", d>>
<1>1. n[1] = "decision" /\ n[2] = d
  OBVIOUS
<1>2. /\ Forward(n) = {<<"task", t>> : t \in {decision[d].task} \ {None}}
      /\ Backward(n) = {<<"handoff", decision[d].handoff>>}
  BY <1>1 DEF Forward, Backward
<1>3. decision[d].task \in Drafts \union {None} /\ decision[d].handoff \in Handoffs
  BY DEF DeskTypeOK, TypeOK, Decisions, Written
<1> QED
  BY <1>2, <1>3

LEMMA Neighbourhood ==
    ASSUME DeskTypeOK, NEW n \in Artifacts
    PROVE  /\ Neighbours(n) \subseteq Artifacts
           /\ \A x, y \in Forward(n) : x = y
           /\ \A x, y \in Backward(n) : x = y
<1>1. CASE n \in {"task"} \X ({Source} \union Drafts)
  <2>1. PICK t \in {Source} \union Drafts : n = <<"task", t>>
    BY <1>1
  <2>2. /\ Backward(n) \subseteq {Root}
        /\ Forward(n) \subseteq {"handoff"} \X Handoffs
        /\ \A x, y \in Forward(n) : x = y
    BY <2>1, TaskLinks DEF Root
  <2>3. Root \in Artifacts /\ {"handoff"} \X Handoffs \subseteq Artifacts
    BY DEF Root, Artifacts
  <2> QED
    BY <2>2, <2>3 DEF Neighbours
<1>2. CASE n \in {"handoff"} \X Handoffs
  <2>1. PICK h \in Handoffs : n = <<"handoff", h>>
    BY <1>2
  <2>2. About(h) \subseteq {d \in DecisionIds : Written(d)}
    BY RailAssumption DEF About, Written
  <2> QED
    BY <2>1, <2>2, HandoffLinks DEF Neighbours, Artifacts, Root
<1>3. CASE n \in {"decision"} \X {d \in DecisionIds : Written(d)}
  <2>1. PICK d \in DecisionIds : Written(d) /\ n = <<"decision", d>>
    BY <1>3
  <2> QED
    BY <2>1, DecisionLinks DEF Neighbours, Artifacts
<1> QED
  BY <1>1, <1>2, <1>3 DEF Artifacts

(* A handoff leads to a decision, that to a draft, and all of them back to *)
(* one another and to the source task.                                     *)
Ahead(T) == UNION {Forward(m) : m \in T}
Branch(T) == T \union Ahead(T) \union Ahead(Ahead(T))
Closed(T) == \A m \in T : Neighbours(m) \subseteq T

LEMMA BranchClosed ==
    ASSUME DeskTypeOK, NEW T1, T1 \subseteq {"handoff"} \X Handoffs
    PROVE  Branch(T1) \subseteq Artifacts
           /\ \A m \in Branch(T1) : Neighbours(m) \subseteq Branch(T1) \union {Root}
<1> DEFINE T2 == Ahead(T1)
           T3 == Ahead(T2)
<1>1. Branch(T1) = T1 \union T2 \union T3
  BY DEF Branch
<1>3. ASSUME NEW m \in T1 PROVE Forward(m) \subseteq T2 /\ Backward(m) = {Root} /\ m \in Artifacts
                               /\ \A x \in Forward(m) : x[1] = "decision" /\ x[2] \in DecisionIds
                                     /\ x = <<"decision", x[2]>> /\ <<"handoff", decision[x[2]].handoff>> = m
                                     /\ Written(x[2])
  <2>1. PICK h \in Handoffs : m = <<"handoff", h>>
    BY <1>3
  <2>2. Forward(m) \subseteq {"decision"} \X About(h) /\ Backward(m) = {Root}
    BY <2>1, HandoffLinks
  <2>3. \A d \in About(h) : d \in DecisionIds /\ decision[d].handoff = h /\ Written(d)
    BY RailAssumption DEF About, Written
  <2>4. m \in Artifacts
    BY <2>1 DEF Artifacts
  <2> QED
    BY <1>3, <2>1, <2>2, <2>3, <2>4 DEF Ahead
<1>4. ASSUME NEW m \in T2 PROVE /\ Backward(m) \subseteq T1 /\ m \in Artifacts
                               /\ Forward(m) \subseteq T3 /\ Forward(m) \subseteq {"task"} \X Drafts
  <2>1. PICK p \in T1 : m \in Forward(p)
    BY <1>4 DEF Ahead
  <2>2. PICK d \in DecisionIds : Written(d) /\ m = <<"decision", d>> /\ <<"handoff", decision[d].handoff>> = p
    BY <1>3, <2>1
  <2>3. Backward(m) = {p} /\ Forward(m) \subseteq {"task"} \X Drafts
    BY <2>2, DecisionLinks
  <2>4. Forward(m) \subseteq T3
    BY <1>4 DEF Ahead
  <2> QED
    BY <2>1, <2>2, <2>3, <2>4 DEF Artifacts
<1>5. ASSUME NEW m \in T3 PROVE Neighbours(m) = {Root} /\ m \in Artifacts
  <2>1. PICK t \in Drafts : m = <<"task", t>>
    BY <1>4, <1>5 DEF Ahead
  <2>2. t # Source
    BY DeskAssumption
  <2> QED
    BY <2>1, <2>2, TaskLinks DEF Neighbours, Artifacts
<1> HIDE DEF T2, T3
<1>7. \A m \in T1 \union T2 \union T3 : Neighbours(m) \subseteq (T1 \union T2 \union T3) \union {Root}
  BY <1>3, <1>4, <1>5 DEF Neighbours
<1> QED
  BY <1>1, <1>3, <1>4, <1>5, <1>7

(* Five steps reach all that a walk from n can come to.                    *)
LEMMA FiveSteps ==
    ASSUME DeskTypeOK, NEW n \in Artifacts,
           n[1] = "task" \/ (n[1] = "decision" /\ Forward(n) = {})
    PROVE  LET U == Near(Near(Near(Near(Near({n})))))
           IN n \in U /\ Closed(U) /\ U \subseteq Artifacts
<1> DEFINE N1 == Near({n})
           N2 == Near(N1)
           N3 == Near(N2)
           N4 == Near(N3)
           U  == Near(N4)
           B  == IF n[1] = "task" THEN {} ELSE Backward(n)
           R  == Ahead({Root})
           V  == {n, Root} \union Branch(B) \union Branch(R)
<1>1. \A T : T \subseteq Near(T) /\ \A m \in T : Neighbours(m) \subseteq Near(T)
  BY DEF Near
<1>2. \A T, W : T \subseteq W /\ Closed(W) => Near(T) \subseteq W
  BY DEF Near, Closed
<1>3. \A T, W : T \subseteq W => Ahead(T) \subseteq Near(W)
  BY DEF Near, Ahead, Neighbours
<1>4. /\ Root \in Artifacts /\ Neighbours(Root) = R /\ R \subseteq {"handoff"} \X Handoffs
  BY TaskLinks DEF Ahead, Root, Neighbours, Artifacts
<1>5. /\ B \subseteq {"handoff"} \X Handoffs
      /\ Neighbours(n) \subseteq B \union R \union {Root}
      /\ B \subseteq N1 /\ Root \in N2
  <2>1. CASE n[1] = "task"
    <3>1. PICK t \in {Source} \union Drafts : n = <<"task", t>>
      BY <2>1 DEF Artifacts
    <3>2. CASE t = Source
      BY <1>1, <1>4, <2>1, <3>1, <3>2 DEF Root
    <3>3. CASE t # Source
      <4>1. Neighbours(n) = {Root}
        BY <3>1, <3>3, TaskLinks DEF Neighbours
      <4> QED
        BY <1>1, <2>1, <4>1
    <3> QED
      BY <3>2, <3>3
  <2>2. CASE n[1] = "decision" /\ Forward(n) = {}
    <3>1. PICK d \in DecisionIds : Written(d) /\ n = <<"decision", d>>
      BY <2>2 DEF Artifacts
    <3> DEFINE h == <<"handoff", decision[d].handoff>>
    <3>2. B = {h} /\ Neighbours(n) = B /\ decision[d].handoff \in Handoffs
      BY <2>2, <3>1, DecisionLinks DEF Neighbours
    <3>3. Backward(h) = {Root}
      BY <3>2, HandoffLinks
    <3>4. h \in N1 /\ Root \in Near(N1)
      <4>1. h \in N1
        BY <1>1, <3>2
      <4>2. Root \in Neighbours(h)
        BY <3>3 DEF Neighbours
      <4> QED
        BY <1>1, <4>1, <4>2
    <3> QED
      BY <3>2, <3>4
  <2> QED
    BY <2>1, <2>2
<1>6. V \subseteq U
  <2>1. N1 \subseteq N2 /\ N2 \subseteq N3 /\ N3 \subseteq N4 /\ N4 \subseteq U /\ n \in N1
    BY <1>1
  <2>2. Ahead(B) \subseteq N2 /\ Ahead(Ahead(B)) \subseteq N3
    BY <1>3, <1>5
  <2>3. R \subseteq N3 /\ Ahead(R) \subseteq N4 /\ Ahead(Ahead(R)) \subseteq U
    <3>1. {Root} \subseteq N2
      BY <1>5
    <3> QED
      BY <1>3, <3>1
  <2> QED
    BY <1>5, <2>1, <2>2, <2>3 DEF Branch
<1>7. Closed(V) /\ V \subseteq Artifacts
  <2>1. B \subseteq Branch(B) /\ R \subseteq Branch(R)
    BY DEF Branch
  <2>2. /\ Branch(B) \subseteq Artifacts
        /\ \A m \in Branch(B) : Neighbours(m) \subseteq Branch(B) \union {Root}
    BY <1>5, BranchClosed
  <2>3. /\ Branch(R) \subseteq Artifacts
        /\ \A m \in Branch(R) : Neighbours(m) \subseteq Branch(R) \union {Root}
    BY <1>4, BranchClosed
  <2> HIDE DEF B, R
  <2> QED
    BY <1>4, <1>5, <2>1, <2>2, <2>3 DEF Closed
<1>8. U \subseteq V
  <2>1. {n} \subseteq V
    OBVIOUS
  <2> HIDE DEF V
  <2> QED
    BY <1>2, <1>7, <2>1
<1>9. U = V /\ n \in V
  BY <1>6, <1>8
<1> HIDE DEF V
<1> QED
  BY <1>7, <1>9

(* The kinds of what is on either side of an artifact.                     *)
LEMMA Sides ==
    ASSUME DeskTypeOK, NEW a \in Artifacts
    PROVE  /\ a[1] \in {"task", "handoff", "decision"} /\ Root[1] = "task"
           /\ a = Root => Backward(a) = {} /\ \A x \in Forward(a) : x[1] = "handoff"
           /\ a[1] = "task" /\ a # Root => Forward(a) = {} /\ Backward(a) = {Root}
           /\ a[1] = "handoff" =>
                 /\ \A x \in Forward(a) : x[1] = "decision" /\ Backward(x) = {a}
                 /\ Backward(a) = {Root}
           /\ a[1] = "decision" =>
                 /\ \A x \in Forward(a) : x[1] = "task" /\ x # Root
                 /\ \A x \in Backward(a) : x[1] = "handoff"
<1>0. Root[1] = "task"
  BY DEF Root
<1>1. CASE a \in {"task"} \X ({Source} \union Drafts)
  <2>1. PICK t \in {Source} \union Drafts : a = <<"task", t>>
    BY <1>1
  <2>2. a[1] = "task" /\ (a = Root <=> t = Source)
    BY <2>1 DEF Root
  <2>3. \A x \in Forward(a) : x[1] = "handoff"
    BY <2>1, TaskLinks
  <2>4. (a = Root => Backward(a) = {}) /\ (a # Root => Forward(a) = {} /\ Backward(a) = {Root})
    BY <2>1, <2>2, TaskLinks
  <2> QED
    BY <1>0, <2>2, <2>3, <2>4
<1>2. CASE a \in {"handoff"} \X Handoffs
  <2>1. PICK h \in Handoffs : a = <<"handoff", h>>
    BY <1>2
  <2>2. a[1] = "handoff" /\ Backward(a) = {Root}
    BY <2>1, HandoffLinks
  <2>3. ASSUME NEW x \in Forward(a) PROVE x[1] = "decision" /\ Backward(x) = {a}
    <3>1. PICK d \in About(h) : x = <<"decision", d>>
      BY <2>1, <2>3, HandoffLinks
    <3>2. d \in DecisionIds /\ decision[d].handoff = h /\ Written(d)
      BY RailAssumption DEF About, Written
    <3> QED
      BY <2>1, <3>1, <3>2, DecisionLinks
  <2> QED
    BY <1>0, <2>2, <2>3
<1>3. CASE a \in {"decision"} \X {d \in DecisionIds : Written(d)}
  <2>1. PICK d \in DecisionIds : Written(d) /\ a = <<"decision", d>>
    BY <1>3
  <2>2. a[1] = "decision" /\ \A x \in Backward(a) : x[1] = "handoff"
    BY <2>1, DecisionLinks
  <2>3. \A x \in Forward(a) : x[1] = "task" /\ x # Root
    BY <2>1, DecisionLinks, DeskAssumption DEF Root
  <2> QED
    BY <1>0, <2>2, <2>3
<1> QED
  BY <1>1, <1>2, <1>3 DEF Artifacts

(* A walk between two rounds: what was added, and what waits.  Of two that *)
(* wait neither leads to the other.                                        *)
At(q, s) == [queue |-> q, seen |-> s, cycle |-> FALSE]
In(q) == {q[i] : i \in DOMAIN q}
Alone(a, s) ==
    a \notin s /\ (a[1] = "decision" => Forward(a) = {} \/ Backward(a) \subseteq s)
Two(a, b, s) ==
    /\ a \notin s /\ b \notin s
    /\ \/ a[1] = "decision" /\ b = Root /\ Backward(a) \subseteq s
       \/ a = Root /\ b[1] = "task" /\ b # Root
       \/ a[1] = "task" /\ a # Root /\ b[1] = "handoff" /\ Root \in s
Waiting(q, s) ==
    \/ q = <<>>
    \/ \E a : q = <<a>> /\ Alone(a, s)
    \/ \E a, b : q = <<a, b>> /\ Two(a, b, s)
Fit(n, U, q, s) ==
    /\ s \subseteq U /\ IsFiniteSet(s) /\ In(q) \subseteq U /\ n \in s \union In(q)
    /\ Waiting(q, s)
    /\ \A m \in s : Neighbours(m) \subseteq s \union In(q)

LEMMA Queues ==
    /\ In(<<>>) = {} /\ Entry({}) = <<>>
    /\ \A a : In(<<a>>) = {a} /\ Entry({a}) = <<a>> /\ <<a>> # <<>>
             /\ Head(<<a>>) = a /\ Tail(<<a>>) = <<>>
    /\ \A a, b : In(<<a, b>>) = {a, b} /\ <<a, b>> # <<>>
                /\ Head(<<a, b>>) = a /\ Tail(<<a, b>>) = <<b>>
    /\ <<>> \o <<>> = <<>>
    /\ \A a : <<>> \o <<a>> = <<a>> /\ <<a>> \o <<>> = <<a>>
    /\ \A a, b : <<a>> \o <<b>> = <<a, b>> /\ <<>> \o <<a, b>> = <<a, b>>
<1>1. In(<<>>) = {} /\ Entry({}) = <<>>
  BY DEF In, Entry
<1>2. ASSUME NEW a PROVE In(<<a>>) = {a} /\ Entry({a}) = <<a>> /\ <<a>> # <<>>
             /\ Head(<<a>>) = a /\ Tail(<<a>>) = <<>>
  <2>1. In(<<a>>) = {a} /\ <<a>> # <<>>
    BY DEF In
  <2>2. Entry({a}) = <<a>>
    BY DEF Entry
  <2>3. Head(<<a>>) = a /\ Tail(<<a>>) = <<>>
    OBVIOUS
  <2> QED
    BY <2>1, <2>2, <2>3
<1>3. ASSUME NEW a, NEW b PROVE In(<<a, b>>) = {a, b} /\ <<a, b>> # <<>>
                /\ Head(<<a, b>>) = a /\ Tail(<<a, b>>) = <<b>>
  <2>1. In(<<a, b>>) = {a, b} /\ <<a, b>> # <<>>
    BY DEF In
  <2>2. Head(<<a, b>>) = a /\ Tail(<<a, b>>) = <<b>>
    OBVIOUS
  <2> QED
    BY <2>1, <2>2
<1>4. <<>> \o <<>> = <<>>
  OBVIOUS
<1>5. \A a : <<>> \o <<a>> = <<a>> /\ <<a>> \o <<>> = <<a>>
  OBVIOUS
<1>6. ASSUME NEW a, NEW b PROVE <<a>> \o <<b>> = <<a, b>> /\ <<>> \o <<a, b>> = <<a, b>>
  <2>1. <<a>> \o <<b>> = <<a, b>>
    <3> DEFINE q == <<a>> \o <<b>>
    <3>1. q \in Seq({a, b}) /\ Len(q) = 2 /\ q[1] = a /\ q[2] = b
      OBVIOUS
    <3> HIDE DEF q
    <3>2. q = <<a, b>>
      BY <3>1
    <3> QED
      BY <3>2 DEF q
  <2>2. <<>> \o <<a, b>> = <<a, b>>
    OBVIOUS
  <2> QED
    BY <2>1, <2>2
<1> QED
  BY <1>1, <1>2, <1>3, <1>4, <1>5, <1>6

(* A round visits the head and queues what is new of its neighbours.       *)
LEMMA RoundAt ==
    ASSUME NEW q, NEW s, ~Over(At(q, s)), Head(q) \notin s, Present(Head(q))
    PROVE  Round(At(q, s)) =
              At(Tail(q) \o Queued(Head(q), s \union {Head(q)}), s \union {Head(q)})
<1> DEFINE w == At(q, s)
<1>1. w.queue = q /\ w.seen = s
  BY DEF At
<1>2. Round(w) = [w EXCEPT !.queue = Tail(q) \o Queued(Head(q), s \union {Head(q)}),
                           !.seen = s \union {Head(q)}]
  BY <1>1 DEF Round
<1> QED
  BY <1>2 DEF At

LEMMA QueuedIs ==
    ASSUME NEW a, NEW s, \A x, y \in Forward(a) : x = y, \A x, y \in Backward(a) : x = y
    PROVE  \/ Forward(a) \subseteq s /\ Backward(a) \subseteq s /\ Queued(a, s) = <<>>
           \/ \E x : /\ x \notin s /\ Queued(a, s) = <<x>>
                    /\ \/ Forward(a) = {x} /\ Backward(a) \subseteq s
                       \/ Forward(a) \subseteq s /\ Backward(a) = {x}
           \/ \E x, y : /\ x \notin s /\ y \notin s /\ Queued(a, s) = <<x, y>>
                       /\ Forward(a) = {x} /\ Backward(a) = {y}
<1> DEFINE F == Forward(a) \ s
           K == Backward(a) \ s
<1>1. \/ F = {} /\ Forward(a) \subseteq s
      \/ \E x : x \notin s /\ F = {x} /\ Forward(a) = {x}
  OBVIOUS
<1>2. \/ K = {} /\ Backward(a) \subseteq s
      \/ \E y : y \notin s /\ K = {y} /\ Backward(a) = {y}
  OBVIOUS
<1>3. Queued(a, s) = Entry(F) \o Entry(K)
  BY DEF Queued
<1> HIDE DEF F, K
<1>4. ASSUME F = {}, Forward(a) \subseteq s
      PROVE  \/ Forward(a) \subseteq s /\ Backward(a) \subseteq s /\ Queued(a, s) = <<>>
             \/ \E x : /\ x \notin s /\ Queued(a, s) = <<x>>
                      /\ Forward(a) \subseteq s /\ Backward(a) = {x}
  <2>1. Entry(F) = <<>>
    BY <1>4, Queues
  <2>2. CASE K = {} /\ Backward(a) \subseteq s
    <3>1. Entry(K) = <<>>
      BY <2>2, Queues
    <3> QED
      BY <1>3, <1>4, <2>1, <2>2, <3>1, Queues
  <2>3. ASSUME NEW y, y \notin s, K = {y}, Backward(a) = {y}
        PROVE  Queued(a, s) = <<y>>
    <3>1. Entry(K) = <<y>>
      BY <2>3, Queues
    <3>2. <<>> \o <<y>> = <<y>>
      BY Queues
    <3> QED
      BY <1>3, <2>1, <3>1, <3>2
  <2> QED
    BY <1>2, <1>4, <2>2, <2>3
<1>5. ASSUME NEW x, x \notin s, F = {x}, Forward(a) = {x}
      PROVE  \/ /\ Queued(a, s) = <<x>> /\ Backward(a) \subseteq s
             \/ \E y : /\ y \notin s /\ Queued(a, s) = <<x, y>> /\ Backward(a) = {y}
  <2>1. Entry(F) = <<x>>
    BY <1>5, Queues
  <2>2. ASSUME K = {} PROVE Queued(a, s) = <<x>>
    <3>1. Entry(K) = <<>>
      BY <2>2, Queues
    <3>2. <<x>> \o <<>> = <<x>>
      BY Queues
    <3> QED
      BY <1>3, <2>1, <3>1, <3>2
  <2>3. ASSUME NEW y, K = {y} PROVE Queued(a, s) = <<x, y>>
    <3>1. Entry(K) = <<y>>
      BY <2>3, Queues
    <3>2. <<x>> \o <<y>> = <<x, y>>
      BY Queues
    <3> QED
      BY <1>3, <2>1, <3>1, <3>2
  <2> QED
    BY <1>2, <2>2, <2>3
<1>6. CASE F = {} /\ Forward(a) \subseteq s
  BY <1>4, <1>6, Zenon
<1>7. ASSUME NEW x, x \notin s, F = {x}, Forward(a) = {x}
      PROVE  \/ \E z : /\ z \notin s /\ Queued(a, s) = <<z>>
                      /\ Forward(a) = {z} /\ Backward(a) \subseteq s
             \/ \E z, y : /\ z \notin s /\ y \notin s /\ Queued(a, s) = <<z, y>>
                         /\ Forward(a) = {z} /\ Backward(a) = {y}
  BY <1>5, <1>7, Zenon
<1> QED
  BY <1>1, <1>6, <1>7, Zenon

LEMMA WaitingOne ==
    ASSUME NEW a, NEW s, Waiting(<<a>>, s)
    PROVE  Alone(a, s)
<1>1. <<a>> # <<>> /\ \A x, y : <<a>> # <<x, y>>
  OBVIOUS
<1>2. PICK x : <<a>> = <<x>> /\ Alone(x, s)
  BY <1>1 DEF Waiting
<1>3. a = x
  BY <1>2
<1> QED
  BY <1>2, <1>3

LEMMA WaitingTwo ==
    ASSUME NEW a, NEW b, NEW s, Waiting(<<a, b>>, s)
    PROVE  Two(a, b, s)
<1>1. <<a, b>> # <<>> /\ \A x : <<a, b>> # <<x>>
  OBVIOUS
<1>2. PICK x, y : <<a, b>> = <<x, y>> /\ Two(x, y, s)
  BY <1>1 DEF Waiting
<1>3. a = x /\ b = y
  BY <1>2
<1> QED
  BY <1>2, <1>3

(* The round keeps the fit of one artifact that waits alone ...            *)
LEMMA AloneFits ==
    ASSUME DeskTypeOK, NEW n, NEW U, U \subseteq Artifacts, Closed(U), NEW a, NEW s,
           Fit(n, U, <<a>>, s)
    PROVE  Fit(n, U, Queued(a, s \union {a}), s \union {a})
<1> DEFINE t == s \union {a}
           q == Queued(a, t)
<1>1. /\ s \subseteq U /\ IsFiniteSet(s) /\ a \in U /\ n \in s \union {a} /\ a \notin s
      /\ \A m \in s : Neighbours(m) \subseteq s \union {a}
      /\ a[1] = "decision" => Forward(a) = {} \/ Backward(a) \subseteq s
  <2>1. In(<<a>>) = {a}
    BY Queues
  <2>2. a \notin s /\ (a[1] = "decision" => Forward(a) = {} \/ Backward(a) \subseteq s)
    BY WaitingOne DEF Fit, Alone
  <2> QED
    BY <2>1, <2>2 DEF Fit
<1>2. t \subseteq U /\ IsFiniteSet(t) /\ n \in t /\ Neighbours(a) \subseteq U
  BY <1>1, FS_AddElement DEF Closed
<1>3. ASSUME In(q) \subseteq Neighbours(a), Neighbours(a) \subseteq t \union In(q), Waiting(q, t)
      PROVE  Fit(n, U, q, t)
  BY <1>1, <1>2, <1>3 DEF Fit
<1>4. /\ \A x, y \in Forward(a) : x = y
      /\ \A x, y \in Backward(a) : x = y
      /\ a \in Artifacts
  BY <1>1, Neighbourhood
<1> HIDE DEF t
<1>5. ASSUME Forward(a) \subseteq t, Backward(a) \subseteq t, q = <<>>
      PROVE  Fit(n, U, q, t)
  <2>1. In(q) = {} /\ Waiting(q, t)
    BY <1>5, Queues, Zenon DEF Waiting
  <2> HIDE DEF q
  <2> QED
    BY <1>3, <1>5, <2>1 DEF Neighbours
<1>6. ASSUME NEW x, x \notin t, q = <<x>>,
             \/ Forward(a) = {x} /\ Backward(a) \subseteq t
             \/ Forward(a) \subseteq t /\ Backward(a) = {x}
      PROVE  Fit(n, U, q, t)
  <2>1. Alone(x, t)
    BY <1>4, <1>6, Sides DEF t, Alone
  <2>2. Waiting(q, t)
    BY <1>6, <2>1, Zenon DEF Waiting
  <2>3. In(q) = {x}
    BY <1>6, Queues
  <2> QED
    BY <1>3, <1>6, <2>2, <2>3 DEF Neighbours
<1>7. ASSUME NEW x, NEW y, x \notin t, y \notin t, q = <<x, y>>,
             Forward(a) = {x}, Backward(a) = {y}
      PROVE  Fit(n, U, q, t)
  <2>1. a[1] = "handoff"
    BY <1>1, <1>4, <1>7, Sides DEF t
  <2>2. x[1] = "decision" /\ Backward(x) = {a} /\ y = Root
    BY <1>4, <1>7, <2>1, Sides
  <2>3. Two(x, y, t)
    BY <1>7, <2>2 DEF Two, t
  <2>4. Waiting(q, t)
    BY <1>7, <2>3, Zenon DEF Waiting
  <2>5. In(q) = {x, y}
    BY <1>7, Queues
  <2> QED
    BY <1>3, <1>7, <2>4, <2>5 DEF Neighbours
<1>8. \/ Forward(a) \subseteq t /\ Backward(a) \subseteq t /\ q = <<>>
      \/ \E x : /\ x \notin t /\ q = <<x>>
               /\ \/ Forward(a) = {x} /\ Backward(a) \subseteq t
                  \/ Forward(a) \subseteq t /\ Backward(a) = {x}
      \/ \E x, y : /\ x \notin t /\ y \notin t /\ q = <<x, y>>
                  /\ Forward(a) = {x} /\ Backward(a) = {y}
  BY <1>4, QueuedIs, Zenon
<1>9. Fit(n, U, q, t)
  <2> HIDE DEF q
  <2> QED
    BY <1>5, <1>6, <1>7, <1>8, Zenon
<1> QED
  BY <1>9 DEF t

(* ... and of the first of two.                                            *)
LEMMA FirstFits ==
    ASSUME DeskTypeOK, NEW n, NEW U, U \subseteq Artifacts, Closed(U), NEW a, NEW b, NEW s,
           Fit(n, U, <<a, b>>, s)
    PROVE  /\ a \notin s
           /\ Fit(n, U, <<b>> \o Queued(a, s \union {a}), s \union {a})
<1> DEFINE t == s \union {a}
           q == <<b>> \o Queued(a, t)
<1>1. /\ s \subseteq U /\ IsFiniteSet(s) /\ a \in U /\ b \in U /\ n \in s \union {a, b}
      /\ \A m \in s : Neighbours(m) \subseteq s \union {a, b}
  <2>1. In(<<a, b>>) = {a, b}
    BY Queues
  <2> QED
    BY <2>1 DEF Fit
<1>2. /\ a \notin s /\ b \notin s
      /\ \/ a[1] = "decision" /\ b = Root /\ Backward(a) \subseteq s
         \/ a = Root /\ b[1] = "task" /\ b # Root
         \/ a[1] = "task" /\ a # Root /\ b[1] = "handoff" /\ Root \in s
  BY WaitingTwo DEF Fit, Two
<1>3. a \in Artifacts /\ b \in Artifacts /\ a # b /\ b \notin t
  BY <1>1, <1>2, Sides
<1>4. t \subseteq U /\ IsFiniteSet(t) /\ n \in t \union {b} /\ Neighbours(a) \subseteq U
  BY <1>1, FS_AddElement DEF Closed
<1>5. ASSUME In(q) \subseteq Neighbours(a) \union {b},
             Neighbours(a) \union {b} \subseteq t \union In(q), Waiting(q, t)
      PROVE  Fit(n, U, q, t)
  BY <1>1, <1>4, <1>5 DEF Fit
<1>6. /\ \A x, y \in Forward(a) : x = y
      /\ \A x, y \in Backward(a) : x = y
  BY <1>3, Neighbourhood
<1>7. Backward(a) \subseteq t
  BY <1>2, <1>3, Sides DEF t
<1>8. ASSUME NEW x, Forward(a) = {x}
      PROVE  \/ a[1] = "decision" /\ b = Root /\ x[1] = "task" /\ x # Root
             \/ a = Root /\ b[1] = "task" /\ b # Root /\ x[1] = "handoff"
  <2>1. CASE a[1] = "decision" /\ b = Root
    BY <1>3, <1>8, <2>1, Sides
  <2>2. CASE a = Root /\ b[1] = "task" /\ b # Root
    BY <1>3, <1>8, <2>2, Sides
  <2>3. ~(a[1] = "task" /\ a # Root)
    BY <1>3, <1>8, Sides
  <2> QED
    BY <1>2, <2>1, <2>2, <2>3
<1>9. b[1] # "decision"
  BY <1>2, <1>3, Sides
<1> HIDE DEF t
<1>10. ASSUME Forward(a) \subseteq t, Queued(a, t) = <<>>
       PROVE  Fit(n, U, q, t)
  <2>1. q = <<b>>
    BY <1>10, Queues, Zenon
  <2>2. Waiting(q, t)
    BY <1>3, <1>9, <2>1, Zenon DEF Waiting, Alone
  <2>3. In(q) = {b}
    BY <2>1, Queues, Zenon
  <2> HIDE DEF q
  <2> QED
    BY <1>5, <1>7, <1>10, <2>2, <2>3 DEF Neighbours
<1>11. ASSUME NEW x, x \notin t, Forward(a) = {x}, Queued(a, t) = <<x>>
       PROVE  Fit(n, U, q, t)
  <2>1. q = <<b, x>>
    <3>1. <<b>> \o <<x>> = <<b, x>>
      BY Queues
    <3> QED
      BY <1>11, <3>1
  <2>2. Two(b, x, t)
    <3>1. CASE a[1] = "decision" /\ b = Root /\ x[1] = "task" /\ x # Root
      BY <1>3, <1>11, <3>1 DEF Two
    <3>2. CASE a = Root /\ b[1] = "task" /\ b # Root /\ x[1] = "handoff"
      BY <1>3, <1>11, <3>2 DEF Two, t
    <3> QED
      BY <1>8, <1>11, <3>1, <3>2
  <2>3. Waiting(q, t)
    BY <2>1, <2>2, Zenon DEF Waiting
  <2>4. In(q) = {b, x}
    BY <2>1, Queues, Zenon
  <2> HIDE DEF q
  <2> QED
    BY <1>5, <1>7, <1>11, <2>3, <2>4 DEF Neighbours
<1>12. \/ Queued(a, t) = <<>> /\ Forward(a) \subseteq t
       \/ \E x : x \notin t /\ Forward(a) = {x} /\ Queued(a, t) = <<x>>
  <2>1. \/ Forward(a) \subseteq t /\ Backward(a) \subseteq t /\ Queued(a, t) = <<>>
        \/ \E x : /\ x \notin t /\ Queued(a, t) = <<x>>
                 /\ \/ Forward(a) = {x} /\ Backward(a) \subseteq t
                    \/ Forward(a) \subseteq t /\ Backward(a) = {x}
        \/ \E x, y : /\ x \notin t /\ y \notin t /\ Queued(a, t) = <<x, y>>
                    /\ Forward(a) = {x} /\ Backward(a) = {y}
    BY <1>6, QueuedIs, Zenon
  <2> QED
    BY <1>7, <2>1
<1>13. Fit(n, U, q, t)
  <2> HIDE DEF q
  <2> QED
    BY <1>10, <1>11, <1>12, Zenon
<1> QED
  BY <1>2, <1>13 DEF t

(* A walk that is over saw all that its start leads to, or was cut short.  *)
LEMMA WholeFrom ==
    ASSUME DeskTypeOK, NEW n \in Artifacts,
           n[1] = "task" \/ (n[1] = "decision" /\ Forward(n) = {}),
           \A m \in Artifacts : Present(m)
    PROVE  Whole(n)
<1> DEFINE U == Near(Near(Near(Near(Near({n})))))
           Qs == {<<>>} \union {<<a>> : a \in U} \union {<<p[1], p[2]>> : p \in U \X U}
           Fs == {p \in Qs \X SUBSET U : Fit(n, U, p[1], p[2])}
           G  == {At(p[1], p[2]) : p \in Fs}
<1>1. n \in U /\ Closed(U) /\ U \subseteq Artifacts
  BY FiveSteps
<1>2. Reached(n) = U
  BY <1>1 DEF Reached
<1>3. \A T, W : T \subseteq W /\ Closed(W) => Near(T) \subseteq W
  BY DEF Near, Closed
<1>4. ASSUME NEW s, Closed(s), n \in s PROVE U \subseteq s
  <2>1. {n} \subseteq s
    BY <1>4
  <2> QED
    BY <1>3, <1>4, <2>1
<1> HIDE DEF U
<1>5. ASSUME NEW q, NEW s, Fit(n, U, q, s) PROVE At(q, s) \in G
  <2>1. s \in SUBSET U
    BY <1>5 DEF Fit
  <2>2. ASSUME q = <<>> PROVE q \in Qs
    BY <2>2
  <2>3. ASSUME NEW a, q = <<a>> PROVE q \in Qs
    <3>1. In(q) = {a}
      BY <2>3, Queues
    <3> QED
      BY <1>5, <2>3, <3>1 DEF Fit
  <2>4. ASSUME NEW a, NEW b, q = <<a, b>> PROVE q \in Qs
    <3>1. In(q) = {a, b}
      BY <2>4, Queues
    <3>2. <<a, b>> \in U \X U
      BY <1>5, <3>1 DEF Fit
    <3> QED
      BY <2>4, <3>2
  <2>5. q \in Qs
    BY <1>5, <2>2, <2>3, <2>4 DEF Fit, Waiting
  <2> HIDE DEF Qs
  <2>6. <<q, s>> \in Fs
    BY <1>5, <2>1, <2>5
  <2> QED
    BY <2>6
<1>6. ASSUME NEW w \in G
      PROVE  \E q, s : w = At(q, s) /\ Fit(n, U, q, s)
  BY <1>6
<1> HIDE DEF G
<1>7. Begin(n) \in G
  <2>1. Alone(n, {}) /\ In(<<n>>) = {n}
    BY Queues DEF Alone
  <2>2. Fit(n, U, <<n>>, {})
    <3>1. Waiting(<<n>>, {})
      BY <2>1, Zenon DEF Waiting
    <3> QED
      BY <1>1, <2>1, <3>1, FS_EmptySet DEF Fit
  <2>3. Begin(n) = At(<<n>>, {})
    BY DEF Begin, At
  <2> QED
    BY <1>5, <2>2, <2>3
<1>8. \A w \in G : Cardinality(w.seen) \in Nat
  <2>1. ASSUME NEW q, NEW s, Fit(n, U, q, s) PROVE Cardinality(At(q, s).seen) \in Nat
    BY <2>1, FS_CardinalityType DEF Fit, At
  <2> QED
    BY <1>6, <2>1
<1>9. ASSUME NEW w \in G, ~Over(w)
      PROVE  Round(w) \in G /\ Cardinality(Round(w).seen) = Cardinality(w.seen) + 1
  <2>1. PICK q, s : w = At(q, s) /\ Fit(n, U, q, s)
    BY <1>6
  <2>2. w.queue = q /\ w.seen = s /\ q # <<>>
    BY <1>9, <2>1 DEF Over, At
  <2>3. ASSUME NEW a, NEW rest, a \notin s, a \in U, Head(q) = a, Tail(q) = rest,
               Fit(n, U, rest \o Queued(a, s \union {a}), s \union {a})
        PROVE  Round(w) \in G /\ Cardinality(Round(w).seen) = Cardinality(w.seen) + 1
    <3>1. Present(a)
      BY <1>1, <2>3
    <3>2. Round(w) = At(rest \o Queued(a, s \union {a}), s \union {a})
      BY <1>9, <2>1, <2>3, <3>1, RoundAt
    <3>3. Round(w).seen = s \union {a}
      BY <3>2 DEF At
    <3>4. Cardinality(s \union {a}) = Cardinality(s) + 1
      BY <2>1, <2>3, FS_AddElement DEF Fit
    <3>5. Round(w) \in G
      BY <1>5, <2>3, <3>2
    <3> QED
      BY <2>2, <3>3, <3>4, <3>5
  <2>4. ASSUME NEW a, q = <<a>>
        PROVE  Round(w) \in G /\ Cardinality(Round(w).seen) = Cardinality(w.seen) + 1
    <3> DEFINE k == Queued(a, s \union {a})
    <3>1. In(q) = {a} /\ Head(q) = a /\ Tail(q) = <<>>
      BY <2>4, Queues
    <3>2. a \notin s /\ a \in U
      BY <2>1, <2>4, <3>1, WaitingOne DEF Fit, Alone
    <3>3. Fit(n, U, k, s \union {a})
      BY <1>1, <2>1, <2>4, AloneFits
    <3> HIDE DEF k
    <3>4. \/ k = <<>>
          \/ \E x : k = <<x>>
          \/ \E x, y : k = <<x, y>>
      BY <3>3, Zenon DEF Fit, Waiting
    <3>5. <<>> \o k = k
      <4>1. \A x : <<>> \o <<x>> = <<x>>
        BY Queues
      <4>2. \A x, y : <<>> \o <<x, y>> = <<x, y>>
        BY Queues
      <4>3. <<>> \o <<>> = <<>>
        BY Queues
      <4> QED
        BY <3>4, <4>1, <4>2, <4>3, Zenon
    <3>6. Fit(n, U, <<>> \o k, s \union {a})
      BY <3>3, <3>5
    <3> QED
      BY <2>3, <3>1, <3>2, <3>6 DEF k
  <2>5. ASSUME NEW a, NEW b, q = <<a, b>>
        PROVE  Round(w) \in G /\ Cardinality(Round(w).seen) = Cardinality(w.seen) + 1
    <3>1. In(q) = {a, b} /\ Head(q) = a /\ Tail(q) = <<b>>
      BY <2>5, Queues
    <3>2. a \in U
      BY <2>1, <3>1 DEF Fit
    <3>3. a \notin s /\ Fit(n, U, <<b>> \o Queued(a, s \union {a}), s \union {a})
      BY <1>1, <2>1, <2>5, FirstFits
    <3> QED
      BY <2>3, <3>1, <3>2, <3>3
  <2>6. (\E a : q = <<a>>) \/ (\E a, b : q = <<a, b>>)
    BY <2>1, <2>2, Zenon DEF Fit, Waiting
  <2> QED
    BY <2>4, <2>5, <2>6
<1>10. Walk(n) \in G /\ Over(Walk(n))
  BY <1>7, <1>8, <1>9, Walked
<1>11. PICK q, s : Walk(n) = At(q, s) /\ Fit(n, U, q, s)
  BY <1>6, <1>10
<1>12. /\ Lineage(n).nodes = s /\ ~Lineage(n).cycle
       /\ q # <<>> => Lineage(n).truncated
  <2> DEFINE w == Walk(n)
  <2>1. w.queue = q /\ w.seen = s /\ w.cycle = FALSE /\ Over(w)
    BY <1>10, <1>11 DEF At
  <2> HIDE DEF w
  <2>2. q # <<>> => Cardinality(s) >= MaxNodes
    BY <2>1 DEF Over
  <2> DEFINE T == w.queue # <<>> /\ Cardinality(w.seen) >= MaxNodes /\ ~w.cycle
  <2>3. Lineage(n) = [nodes |-> w.seen, cycle |-> w.cycle, truncated |-> T]
    BY DEF Lineage, w
  <2>4. q # <<>> => T
    BY <2>1, <2>2
  <2> HIDE DEF T
  <2>5. Lineage(n).nodes = s /\ Lineage(n).cycle = FALSE /\ Lineage(n).truncated = T
    BY <2>1, <2>3
  <2> QED
    BY <2>4, <2>5
<1>13. CASE q = <<>>
  <2>1. In(q) = {}
    BY <1>13, Queues
  <2>2. s \subseteq U /\ n \in s /\ Closed(s)
    BY <1>11, <2>1 DEF Fit, Closed
  <2>3. s = U
    BY <1>4, <2>2
  <2> QED
    BY <1>2, <1>12, <2>3 DEF Whole
<1>14. CASE q # <<>>
  BY <1>12, <1>14 DEF Whole
<1> QED
  BY <1>13, <1>14

LEMMA LineageInv == DeskTypeOK => LineageWhole
<1> SUFFICES ASSUME DeskTypeOK, source.meta PROVE LineageWhole
  BY DEF LineageWhole
<1>1. \A m \in Artifacts : Present(m)
  BY DEF Present, Readable
<1>2. ASSUME NEW t \in Tasks PROVE Whole(<<"task", t>>)
  <2> DEFINE n == <<"task", t>>
  <2>1. n \in Artifacts /\ n[1] = "task"
    BY DEF Artifacts, Tasks
  <2> HIDE DEF n
  <2>2. Whole(n)
    BY <1>1, <2>1, WholeFrom
  <2> QED
    BY <2>2 DEF n
<1>3. ASSUME NEW d \in DecisionIds, Written(d), decision[d].task = None
      PROVE  Whole(<<"decision", d>>)
  <2> DEFINE n == <<"decision", d>>
  <2>1. n \in Artifacts /\ n[1] = "decision"
    BY <1>3 DEF Artifacts
  <2>2. Forward(n) = {}
    BY <1>3, DecisionLinks
  <2> HIDE DEF n
  <2>3. Whole(n)
    BY <1>1, <2>1, <2>2, WholeFrom
  <2> QED
    BY <2>3 DEF n
<1> QED
  BY <1>2, <1>3 DEF LineageWhole

(* What an operator is shown as the lineage of a task, or of a decision    *)
(* without a follow-up, is all that its artifacts lead to, unless it was   *)
(* cut short, and no cycle is reported; for any files of the desk, any     *)
(* order of a directory and any limit on the nodes.                        *)
THEOREM LineageWholeHolds == DeskSpec => []LineageWhole
<1>1. DeskInv => LineageWhole
  BY LineageInv DEF DeskInv
<1> QED
  BY <1>1, DeskInvariance, PTL
=============================================================================
