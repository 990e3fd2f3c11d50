------------------------ MODULE DeliveryOutbox_proofs -----------------------
(***************************************************************************)
(* Proofs about DeliveryOutbox, for any number of events, sessions, write  *)
(* calls and overlapping drain loops, any limit and any set of faults.     *)
(*                                                                         *)
(* OutboxInv is inductive: besides what it claims of delivered/ and of the *)
(* cards, it says that an event in a drain call's list belongs to the      *)
(* call's session, so the card goes to the right one, and that an event    *)
(* about to be marked has been seen, so the rename comes after the turn.   *)
(***************************************************************************)
EXTENDS DeliveryOutbox, TLAPS

(* The part of OutboxInv about one drain call.                             *)
DrainInv(d) ==
    /\ \A e \in batch[d] : Origin[e] = SessionOf[d]
    /\ dpc[d] = "mark" =>
          /\ current[d] \in Events
          /\ Origin[current[d]] = SessionOf[d]
          /\ <<current[d], SessionOf[d]>> \in shown \intersect woken

-----------------------------------------------------------------------------
(* The initial state: no file, no call under way.                          *)
LEMMA InitInv == Init => OutboxInv
BY OutboxAssumption DEF Init, OutboxInv, TypeOK, DeliveredWasSeen, OnlyOriginSees

(* A write call adds its event to pending/ and touches nothing else.       *)
LEMMA ProducerInv ==
    ASSUME OutboxInv, NEW p \in Producers, ProducerStep(p)
    PROVE  OutboxInv'
BY OutboxAssumption
   DEF OutboxInv, TypeOK, DeliveredWasSeen, OnlyOriginSees, ProducerStep, Produce,
       ProducerWrites, ProducerDies, boxVars, seenVars, drainVars

(* The list of a drain call holds events of its session only.              *)
LEMMA DrainBeginInv ==
    ASSUME OutboxInv, NEW d \in Drainers, DrainBegin(d)
    PROVE  OutboxInv'
<1>1. PICK T \in Listings(Limit) :
          LET todo == ForSession(T, SessionOf[d])
          IN /\ batch' = [batch EXCEPT ![d] = todo]
             /\ dpc' = [dpc EXCEPT ![d] = "deliver"]
  BY DEF DrainBegin
<1>2. ForSession(T, SessionOf[d]) \subseteq Events
  BY DEF Listings, ForSession, OutboxInv, TypeOK
<1>3. \A e \in ForSession(T, SessionOf[d]) : Origin[e] = SessionOf[d]
  BY DEF ForSession
<1> QED
  BY <1>1, <1>2, <1>3
     DEF DrainBegin, OutboxInv, TypeOK, DeliveredWasSeen, OnlyOriginSees, boxVars, seenVars

(* The boundary's card and turn go to the session of the event.            *)
LEMMA DeliverInv ==
    ASSUME OutboxInv, NEW d \in Drainers, Deliver(d)
    PROVE  OutboxInv'
<1>1. PICK e \in batch[d] :
          /\ batch' = [batch EXCEPT ![d] = @ \ {e}]
          /\ IF Refused(d, e)
             THEN /\ dpc' = [dpc EXCEPT ![d] = NextLabel(batch[d] \ {e})]
                  /\ UNCHANGED <<seenVars, current>>
             ELSE /\ shown' = shown \union {<<e, SessionOf[d]>>}
                  /\ woken' = woken \union {<<e, SessionOf[d]>>}
                  /\ current' = [current EXCEPT ![d] = e]
                  /\ dpc' = [dpc EXCEPT ![d] = "mark"]
  BY DEF Deliver
<1>2. /\ e \in Events /\ Origin[e] = SessionOf[d] /\ SessionOf[d] \in Sessions
      /\ UNCHANGED <<pending, delivered, ppc>>
  BY OutboxAssumption DEF OutboxInv, TypeOK, Deliver, boxVars
<1>3. ~Refused(d, e)
  BY <1>2 DEF Refused
<1>4. TypeOK'
  BY <1>1, <1>2, <1>3 DEF OutboxInv, TypeOK
<1>5. DeliveredWasSeen'
  BY <1>1, <1>2, <1>3 DEF OutboxInv, DeliveredWasSeen
<1>6. OnlyOriginSees'
  BY <1>1, <1>2, <1>3 DEF OutboxInv, OnlyOriginSees
<1>7. ASSUME NEW c \in Drainers PROVE DrainInv(c)'
  BY <1>1, <1>2, <1>3 DEF OutboxInv, TypeOK, DrainInv
<1> QED
  BY <1>4, <1>5, <1>6, <1>7 DEF OutboxInv, DrainInv

(* A failed delivery may have shown the card, but to the right session.    *)
LEMMA DeliverFailsInv ==
    ASSUME OutboxInv, NEW d \in Drainers, DeliverFails(d)
    PROVE  OutboxInv'
<1>1. PICK e \in batch[d] :
          /\ batch' = [batch EXCEPT ![d] = @ \ {e}]
          /\ dpc' = [dpc EXCEPT ![d] = NextLabel(batch[d] \ {e})]
          /\ shown' = shown \/ shown' = shown \union {<<e, SessionOf[d]>>}
  BY DEF DeliverFails
<1>2. /\ e \in Events /\ Origin[e] = SessionOf[d] /\ SessionOf[d] \in Sessions
      /\ UNCHANGED <<pending, delivered, woken, ppc, current>>
  BY OutboxAssumption DEF OutboxInv, TypeOK, DeliverFails, boxVars
<1>3. NextLabel(batch[d] \ {e}) \in {"idle", "deliver"}
  BY DEF NextLabel
<1>4. TypeOK'
  BY <1>1, <1>2, <1>3 DEF OutboxInv, TypeOK
<1>5. DeliveredWasSeen' /\ OnlyOriginSees'
  BY <1>1, <1>2 DEF OutboxInv, DeliveredWasSeen, OnlyOriginSees
<1>6. ASSUME NEW c \in Drainers PROVE DrainInv(c)'
  BY <1>1, <1>2, <1>3 DEF OutboxInv, TypeOK, DrainInv
<1> QED
  BY <1>4, <1>5, <1>6 DEF OutboxInv, DrainInv

(* What is renamed into delivered/ has been seen.                          *)
LEMMA MarkInv ==
    ASSUME OutboxInv, NEW d \in Drainers, Mark(d)
    PROVE  OutboxInv'
<1>1. /\ current[d] \in Events
      /\ <<current[d], Origin[current[d]]>> \in shown \intersect woken
  BY DEF OutboxInv, Mark
<1>2. NextLabel(batch[d]) \in {"idle", "deliver"}
  BY DEF NextLabel
<1>3. TypeOK'
  BY <1>1, <1>2 DEF OutboxInv, TypeOK, Mark, boxVars, seenVars
<1>4. DeliveredWasSeen' /\ OnlyOriginSees'
  BY <1>1 DEF OutboxInv, DeliveredWasSeen, OnlyOriginSees, Mark, boxVars, seenVars
<1>5. ASSUME NEW c \in Drainers PROVE DrainInv(c)'
  BY <1>2 DEF OutboxInv, TypeOK, DrainInv, Mark, seenVars
<1> QED
  BY <1>3, <1>4, <1>5 DEF OutboxInv, DrainInv

(* A drain call that dies leaves the files as they are.                    *)
LEMMA DrainerDiesInv ==
    ASSUME OutboxInv, NEW d \in Drainers, DrainerDies(d)
    PROVE  OutboxInv'
BY DEF OutboxInv, TypeOK, DeliveredWasSeen, OnlyOriginSees, DrainerDies, boxVars, seenVars

(* So does one whose rename fails.                                         *)
LEMMA MarkFailsInv ==
    ASSUME OutboxInv, NEW d \in Drainers, MarkFails(d)
    PROVE  OutboxInv'
<1>1. NextLabel(batch[d]) \in {"idle", "deliver"}
  BY DEF NextLabel
<1> QED
  BY <1>1 DEF OutboxInv, TypeOK, DeliveredWasSeen, OnlyOriginSees, MarkFails, boxVars, seenVars

-----------------------------------------------------------------------------
(* The inductive invariant, whatever overlaps, fails or dies.              *)
THEOREM OutboxInvariance == Spec => []OutboxInv
<1>1. OutboxInv /\ [Next]_vars => OutboxInv'
  <2> SUFFICES ASSUME OutboxInv, [Next]_vars PROVE OutboxInv'
    OBVIOUS
  <2>1. ASSUME NEW p \in Producers, ProducerStep(p) PROVE OutboxInv'
    BY <2>1, ProducerInv
  <2>2. ASSUME NEW d \in Drainers, DrainerStep(d) PROVE OutboxInv'
    BY <2>2, DrainBeginInv, DeliverInv, DeliverFailsInv, MarkInv, MarkFailsInv,
       DrainerDiesInv DEF DrainerStep
  <2>3. CASE UNCHANGED vars
    BY <2>3 DEF vars, OutboxInv, TypeOK, DeliveredWasSeen, OnlyOriginSees
  <2> QED
    BY <2>1, <2>2, <2>3 DEF Next
<1> QED
  BY InitInv, <1>1, PTL DEF Spec

(* No event leaves pending/ before its session got the card and the turn.  *)
THEOREM SeenBeforeDelivered == Spec => []DeliveredWasSeen
<1>1. OutboxInv => DeliveredWasSeen
  BY DEF OutboxInv
<1> QED
  BY OutboxInvariance, <1>1, PTL

(* No session sees the card of a task another session started.             *)
THEOREM NoForeignCard == Spec => []OnlyOriginSees
<1>1. OutboxInv => OnlyOriginSees
  BY DEF OutboxInv
<1> QED
  BY OutboxInvariance, <1>1, PTL

(* An event that was written is never lost, only renamed.                  *)
LEMMA StaysStep ==
    ASSUME [Next]_vars
    PROVE  pending \union delivered \subseteq pending' \union delivered'
<1>1. ASSUME NEW p \in Producers, ProducerStep(p)
      PROVE  pending \subseteq pending' /\ delivered \subseteq delivered'
  BY <1>1 DEF ProducerStep, Produce, ProducerWrites, ProducerDies, boxVars
<1>2. ASSUME NEW d \in Drainers, Mark(d)
      PROVE  pending \union delivered \subseteq pending' \union delivered'
  BY <1>2 DEF Mark, boxVars
<1>3. ASSUME NEW d \in Drainers, DrainerStep(d), ~Mark(d)
      PROVE  UNCHANGED boxVars
  BY <1>3 DEF DrainerStep, DrainBegin, Deliver, DeliverFails, MarkFails, DrainerDies
<1> QED
  BY <1>1, <1>2, <1>3 DEF Next, boxVars, vars

(* The files of an outbox keep what was written, through every rename,     *)
(* failure and death of a call.                                            *)
THEOREM EventsStay == Spec => NothingIsLost
<1>1. [Next]_vars => [pending \union delivered \subseteq pending' \union delivered']_vars
  BY StaysStep
<1> QED
  BY <1>1, PTL DEF Spec, NothingIsLost

-----------------------------------------------------------------------------
(* The outbox implements CompletionNotice. *)

(* What a drain call has still to handle was written by somebody.          *)
Noted == \A d \in Drainers : batch[d] \subseteq pending \union delivered

LEMMA NotedStep ==
    ASSUME OutboxInv, Noted, [Next]_vars
    PROVE  Noted'
<1>1. pending \union delivered \subseteq pending' \union delivered'
  BY StaysStep
<1>2. ASSUME NEW d \in Drainers, DrainBegin(d) PROVE Noted'
  <2>1. PICK T \in Listings(Limit) : batch' = [batch EXCEPT ![d] = ForSession(T, SessionOf[d])]
    BY <1>2 DEF DrainBegin
  <2>2. ForSession(T, SessionOf[d]) \subseteq pending
    BY DEF Listings, ForSession
  <2> QED
    BY <1>1, <2>1, <2>2 DEF Noted, OutboxInv, TypeOK
<1>3. ASSUME NEW d \in Drainers, DrainerStep(d), ~DrainBegin(d)
      PROVE  \A c \in Drainers : batch'[c] \subseteq batch[c]
  <2>1. CASE Deliver(d) \/ DeliverFails(d)
    <3>1. PICK e \in batch[d] : batch' = [batch EXCEPT ![d] = @ \ {e}]
      BY <2>1 DEF Deliver, DeliverFails
    <3> QED
      BY <3>1 DEF OutboxInv, TypeOK
  <2>2. CASE Mark(d) \/ MarkFails(d)
    <3>1. batch' = batch
      BY <2>2 DEF Mark, MarkFails
    <3> QED
      BY <3>1
  <2>3. CASE DrainerDies(d)
    <3>1. batch' = [batch EXCEPT ![d] = {}]
      BY <2>3 DEF DrainerDies
    <3> QED
      BY <3>1 DEF OutboxInv, TypeOK
  <2> QED
    BY <1>3, <2>1, <2>2, <2>3 DEF DrainerStep
<1>4. ASSUME NEW p \in Producers, ProducerStep(p) PROVE UNCHANGED batch
  BY <1>4 DEF ProducerStep, Produce, ProducerWrites, ProducerDies, drainVars
<1>5. UNCHANGED vars => UNCHANGED batch
  BY DEF vars
<1> QED
  BY <1>1, <1>2, <1>3, <1>4, <1>5 DEF Next, Noted

(* Each step of a call is one of CompletionNotice or nothing it sees.      *)
LEMMA OutboxRefines ==
    ASSUME OutboxInv, Noted, [Next]_vars
    PROVE  [Notice!CNNext]_(Notice!cnVars)
<1>1. UNCHANGED <<boxVars, seenVars>> => UNCHANGED Notice!cnVars
  BY DEF boxVars, seenVars, Notice!cnVars
<1>2. ASSUME NEW p \in Producers, ProducerStep(p) PROVE [Notice!CNNext]_(Notice!cnVars)
  <2>1. Produce(p) \/ ProducerDies(p) => UNCHANGED <<boxVars, seenVars>>
    BY DEF Produce, ProducerDies
  <2>2. ASSUME ProducerWrites(p) PROVE Notice!Note(EventOf[p]) \/ UNCHANGED Notice!cnVars
    BY <2>2 DEF ProducerWrites, seenVars, Notice!Note, Notice!cnVars
  <2>3. EventOf[p] \in Events
    BY OutboxAssumption
  <2> QED
    BY <1>1, <1>2, <2>1, <2>2, <2>3 DEF ProducerStep, Notice!CNNext
<1>3. ASSUME NEW d \in Drainers, NEW e \in batch[d]
      PROVE  /\ e \in Events /\ e \in pending \union delivered
             /\ Origin[e] = SessionOf[d] /\ Origin[e] # None
  <2>1. batch[d] \subseteq Events
    BY DEF OutboxInv, TypeOK
  <2>2. Origin[e] = SessionOf[d] /\ SessionOf[d] \in Sessions
    BY OutboxAssumption DEF OutboxInv
  <2>3. Origin[e] # None
    BY <2>2, OutboxAssumption
  <2> QED
    BY <2>1, <2>2, <2>3 DEF Noted
<1>4. ASSUME NEW d \in Drainers, Deliver(d) PROVE [Notice!CNNext]_(Notice!cnVars)
  <2>1. PICK e \in batch[d] :
            IF Refused(d, e)
            THEN UNCHANGED seenVars
            ELSE /\ shown' = shown \union {<<e, SessionOf[d]>>}
                 /\ woken' = woken \union {<<e, SessionOf[d]>>}
    BY <1>4 DEF Deliver
  <2>2. UNCHANGED boxVars
    BY <1>4 DEF Deliver
  <2>3. Refused(d, e) \/ Notice!Show(e)
    BY <1>3, <2>1, <2>2 DEF Notice!Show, boxVars
  <2> QED
    BY <1>1, <1>3, <2>1, <2>2, <2>3 DEF Notice!CNNext
<1>5. ASSUME NEW d \in Drainers, DeliverFails(d) PROVE [Notice!CNNext]_(Notice!cnVars)
  <2>1. PICK e \in batch[d] : shown' = shown \/ shown' = shown \union {<<e, SessionOf[d]>>}
    BY <1>5 DEF DeliverFails
  <2>2. UNCHANGED boxVars /\ UNCHANGED woken
    BY <1>5 DEF DeliverFails
  <2>3. UNCHANGED <<boxVars, seenVars>> \/ Notice!Show(e)
    BY <1>3, <2>1, <2>2 DEF Notice!Show, boxVars, seenVars
  <2> QED
    BY <1>1, <1>3, <2>3 DEF Notice!CNNext
<1>6. ASSUME NEW d \in Drainers, Mark(d) PROVE [Notice!CNNext]_(Notice!cnVars)
  <2>1. /\ current[d] \in Events
        /\ <<current[d], Origin[current[d]]>> \in shown \intersect woken
    BY <1>6 DEF OutboxInv, Mark
  <2>2. CASE current[d] \in pending
    <3>1. Notice!Settle(current[d])
      BY <1>6, <2>1, <2>2 DEF Mark, seenVars, Notice!Settle
    <3> QED
      BY <2>1, <3>1 DEF Notice!CNNext
  <2>3. CASE current[d] \notin pending
    BY <1>1, <1>6, <2>3 DEF Mark
  <2> QED
    BY <2>2, <2>3
<1>7. ASSUME NEW d \in Drainers, DrainBegin(d) \/ MarkFails(d) \/ DrainerDies(d)
      PROVE  UNCHANGED <<boxVars, seenVars>>
  BY <1>7 DEF DrainBegin, MarkFails, DrainerDies
<1>8. UNCHANGED vars => UNCHANGED <<boxVars, seenVars>>
  BY DEF vars, boxVars, seenVars
<1> QED
  BY <1>1, <1>2, <1>4, <1>5, <1>6, <1>7, <1>8 DEF Next, DrainerStep

(* However many drain calls overlap, fail or die, the outbox does no more  *)
(* than CompletionNotice says, for any number of events and sessions: a    *)
(* card is shown of what was noted only, to the session it is for, and     *)
(* what was noted is settled after that session had card and turn.         *)
THEOREM NoticeImplemented == Spec => ImplementsNotice
<1>1. Init => Notice!CNInit
  BY DEF Init, Notice!CNInit
<1>2. Init => Noted
  BY DEF Init, Noted
<1>3. OutboxInv /\ Noted /\ [Next]_vars => Noted'
  BY NotedStep
<1>4. OutboxInv /\ Noted /\ [Next]_vars => [Notice!CNNext]_(Notice!cnVars)
  BY OutboxRefines
<1> QED
  BY <1>1, <1>2, <1>3, <1>4, OutboxInvariance, PTL DEF Spec, ImplementsNotice, Notice!CNSpec
=============================================================================
