--------------------------- MODULE DeliveryOutbox ---------------------------
(***************************************************************************)
(* The completion-to-origin outbox.  Finalizers and failure paths (the     *)
(* producers) write one file per terminal task into pending/.  The WebUI   *)
(* process drains it: each drain call lists the pending events of one      *)
(* session, hands them one by one to the WebUI's delivery boundary, and    *)
(* renames an event into delivered/ once the boundary reports success.     *)
(* Nothing here takes a lock.  An event is named after its task, so it     *)
(* stands for the task.                                                    *)
(***************************************************************************)
EXTENDS Naturals, FiniteSets

CONSTANTS
    Events,      \* event ids, one for each terminal task
    Sessions,    \* WebUI sessions
    None,        \* no session, no event
    Origin,      \* the session an event is meant for; None: undeliverable
    CreatedAt,   \* created_at of an event, in seconds, so often the same
    Producers,   \* calls of write_outbox_event
    EventOf,     \* the event each of them writes
    Drainers,    \* loops of drain calls in the WebUI process
    SessionOf,   \* the session each of them drains
    Limit,       \* the limit a drain call passes
    Faults       \* which of FaultKinds may happen

(* The event cannot be written; the boundary fails, or shows the card but  *)
(* starts no turn; the rename fails; a process dies.                       *)
FaultKinds == {"write", "boundary", "rename", "crash"}

ASSUME OutboxAssumption ==
    /\ None \notin Sessions \union Events
    /\ Origin \in [Events -> Sessions \union {None}]
    /\ CreatedAt \in [Events -> Nat]
    /\ EventOf \in [Producers -> Events]
    /\ SessionOf \in [Drainers -> Sessions]
    /\ Limit \in Nat
    /\ Faults \subseteq FaultKinds

VARIABLES
    pending,     \* events in pending/
    delivered,   \* events in delivered/
    shown,       \* <<event, session>>: the boundary emitted the card ...
    woken,       \* ... and started the wakeup turn
    ppc,         \* where each producer is
    dpc,         \* where each drain loop is
    batch,       \* events its current call has still to handle
    current      \* the event it is about to mark

vars == <<pending, delivered, shown, woken, ppc, dpc, batch, current>>
boxVars   == <<pending, delivered>>
seenVars  == <<shown, woken>>
drainVars == <<dpc, batch, current>>

TypeOK ==
    /\ pending \subseteq Events /\ delivered \subseteq Events
    /\ shown \subseteq Events \X Sessions /\ woken \subseteq Events \X Sessions
    /\ ppc \in [Producers -> {"idle", "write", "done"}]
    /\ dpc \in [Drainers -> {"idle", "deliver", "mark"}]
    /\ batch \in [Drainers -> SUBSET Events]
    /\ current \in [Drainers -> Events \union {None}]

-----------------------------------------------------------------------------
(* Helpers *)

(* max(1, min(limit, 200))                                                 *)
Clamped(limit) == IF limit < 1 THEN 1 ELSE IF limit > 200 THEN 200 ELSE limit

(* Mutation: the slice ends one event too early.                           *)
ListingsCutShort(limit) ==
    {T \in SUBSET pending :
        /\ Cardinality(T) = Clamped(limit) - 1 \/ T = pending
        /\ Cardinality(T) <= Clamped(limit) - 1
        /\ \A e \in T, f \in pending \ T : CreatedAt[e] <= CreatedAt[f]}

(* list_pending_events: the oldest events, at most limit of them.  Events  *)
(* of the same second come in directory order, so it may be any of them.   *)
Listings(limit) ==
    {T \in SUBSET pending :
        /\ Cardinality(T) = Clamped(limit) \/ T = pending
        /\ Cardinality(T) <= Clamped(limit)
        /\ \A e \in T, f \in pending \ T : CreatedAt[e] <= CreatedAt[f]}

(* list_pending_events_for_session filters what the limit has left.        *)
ForSession(T, s) == {e \in T : Origin[e] = s}

(* A drain call goes through its list oldest first.                        *)
IsNext(d, e) == e \in batch[d] /\ \A f \in batch[d] : CreatedAt[e] <= CreatedAt[f]
NextLabel(rest) == IF rest = {} THEN "idle" ELSE "deliver"

-----------------------------------------------------------------------------
Init ==
    /\ pending = {} /\ delivered = {}
    /\ shown = {} /\ woken = {}
    /\ ppc = [p \in Producers |-> "idle"]
    /\ dpc = [d \in Drainers |-> "idle"]
    /\ batch = [d \in Drainers |-> {}]
    /\ current = [d \in Drainers |-> None]

(* write_outbox_event: only pending/ is looked at ...                      *)
Produce(p) ==
    /\ ppc[p] = "idle"
    /\ ppc' = [ppc EXCEPT ![p] = IF EventOf[p] \in pending THEN "done" ELSE "write"]
    /\ UNCHANGED <<boxVars, seenVars, drainVars>>

(* ... and the rename into it comes later.                                 *)
ProducerWrites(p) ==
    /\ ppc[p] = "write"
    /\ ppc' = [ppc EXCEPT ![p] = "done"]
    /\ \/ pending' = pending \union {EventOf[p]}
       \/ "write" \in Faults /\ UNCHANGED pending
    /\ UNCHANGED <<delivered, seenVars, drainVars>>

(* drain_pending_for_session takes its list.                               *)
DrainBegin(d) ==
    /\ dpc[d] = "idle"
    /\ \E T \in Listings(Limit) :
          LET todo == ForSession(T, SessionOf[d])
          IN /\ todo # {}
             /\ batch' = [batch EXCEPT ![d] = todo]
             /\ dpc' = [dpc EXCEPT ![d] = "deliver"]
    /\ UNCHANGED <<boxVars, seenVars, ppc, current>>

(* deliver_one_event: an event that another session started is refused.    *)
Refused(d, e) == Origin[e] # None /\ Origin[e] # SessionOf[d]

(* The boundary emits the card and starts the wakeup turn.                 *)
Deliver(d) ==
    /\ dpc[d] = "deliver"
    /\ \E e \in batch[d] :
          /\ IsNext(d, e)
          /\ batch' = [batch EXCEPT ![d] = @ \ {e}]
          /\ IF Refused(d, e)
             THEN /\ dpc' = [dpc EXCEPT ![d] = NextLabel(batch[d] \ {e})]
                  /\ UNCHANGED <<seenVars, current>>
             ELSE /\ shown' = shown \union {<<e, SessionOf[d]>>}
                  /\ woken' = woken \union {<<e, SessionOf[d]>>}
                  /\ current' = [current EXCEPT ![d] = e]
                  /\ dpc' = [dpc EXCEPT ![d] = "mark"]
    /\ UNCHANGED <<boxVars, ppc>>

(* Mutation: a card without its wakeup turn counts as a delivery.          *)
DeliverFailsUnnoticed(d) ==
    /\ "boundary" \in Faults
    /\ dpc[d] = "deliver"
    /\ \E e \in batch[d] :
          /\ IsNext(d, e)
          /\ batch' = [batch EXCEPT ![d] = @ \ {e}]
          /\ shown' = shown \union {<<e, SessionOf[d]>>}
          /\ current' = [current EXCEPT ![d] = e]
          /\ dpc' = [dpc EXCEPT ![d] = "mark"]
    /\ UNCHANGED <<boxVars, woken, ppc>>

(* The boundary is missing, raises, or does half of its work: the event    *)
(* stays pending and the call goes on with the next one.                   *)
DeliverFails(d) ==
    /\ "boundary" \in Faults
    /\ dpc[d] = "deliver"
    /\ \E e \in batch[d] :
          /\ IsNext(d, e)
          /\ batch' = [batch EXCEPT ![d] = @ \ {e}]
          /\ dpc' = [dpc EXCEPT ![d] = NextLabel(batch[d] \ {e})]
          /\ shown' \in {shown} \union
                (IF Refused(d, e) THEN {} ELSE {shown \union {<<e, SessionOf[d]>>}})
    /\ UNCHANGED <<boxVars, woken, ppc, current>>

(* Mutation: removing and writing instead of one rename; the write fails.  *)
MarkInTwoSteps(d) ==
    /\ dpc[d] = "mark"
    /\ pending' = pending \ {current[d]}
    /\ delivered' \in {delivered \union {current[d]}} \union
                      (IF "rename" \in Faults THEN {delivered} ELSE {})
    /\ current' = [current EXCEPT ![d] = None]
    /\ dpc' = [dpc EXCEPT ![d] = NextLabel(batch[d])]
    /\ UNCHANGED <<seenVars, ppc, batch>>

(* mark_event_delivered: one rename, unless another call was faster.       *)
Mark(d) ==
    /\ dpc[d] = "mark"
    /\ LET e == current[d]
       IN IF e \in pending
          THEN pending' = pending \ {e} /\ delivered' = delivered \union {e}
          ELSE UNCHANGED boxVars
    /\ current' = [current EXCEPT ![d] = None]
    /\ dpc' = [dpc EXCEPT ![d] = NextLabel(batch[d])]
    /\ UNCHANGED <<seenVars, ppc, batch>>

(* The rename fails: the event stays pending and is delivered again.       *)
MarkFails(d) ==
    /\ "rename" \in Faults
    /\ dpc[d] = "mark"
    /\ current' = [current EXCEPT ![d] = None]
    /\ dpc' = [dpc EXCEPT ![d] = NextLabel(batch[d])]
    /\ UNCHANGED <<boxVars, seenVars, ppc, batch>>

(* A process dies: its list is lost, the files stay.                       *)
ProducerDies(p) ==
    /\ "crash" \in Faults
    /\ ppc[p] = "write"
    /\ ppc' = [ppc EXCEPT ![p] = "done"]
    /\ UNCHANGED <<boxVars, seenVars, drainVars>>

DrainerDies(d) ==
    /\ "crash" \in Faults
    /\ dpc[d] # "idle"
    /\ dpc' = [dpc EXCEPT ![d] = "idle"]
    /\ batch' = [batch EXCEPT ![d] = {}]
    /\ current' = [current EXCEPT ![d] = None]
    /\ UNCHANGED <<boxVars, seenVars, ppc>>

ProducerStep(p) == Produce(p) \/ ProducerWrites(p) \/ ProducerDies(p)
DrainerStep(d) ==
    \/ DrainBegin(d) \/ Deliver(d) \/ DeliverFails(d)
    \/ Mark(d) \/ MarkFails(d) \/ DrainerDies(d)

Next ==
    \/ \E p \in Producers : ProducerStep(p)
    \/ \E d \in Drainers : DrainerStep(d)

Spec == Init /\ [][Next]_vars

-----------------------------------------------------------------------------
(* Safety *)

(* At least once: an event leaves pending/ only after its own session got  *)
(* the card and the turn, though drain calls of one session overlap.       *)
DeliveredWasSeen == \A e \in delivered : <<e, Origin[e]>> \in shown \intersect woken

(* A card reaches no session but the one that started the task; an event   *)
(* without a session reaches nobody.                                       *)
OnlyOriginSees == \A x \in shown \union woken : x[2] = Origin[x[1]]

(* Whatever dies or fails, an event once written stays in one of the two   *)
(* directories.                                                            *)
NothingIsLost ==
    [][pending \union delivered \subseteq pending' \union delivered']_vars

(* Whatever overlaps, fails or dies, the outbox does no more than          *)
(* CompletionNotice says: the card of a noted task is shown to its session *)
(* only, and its event leaves pending/ after that and into delivered/.     *)
Notice == INSTANCE CompletionNotice WITH
    open <- pending, settled <- delivered, cards <- shown, turns <- woken

ImplementsNotice == Notice!CNSpec

(* The inductive invariant: what a drain call carries is its own session's *)
(* and, when it is about to mark, has been seen.                           *)
OutboxInv ==
    /\ TypeOK /\ DeliveredWasSeen /\ OnlyOriginSees
    /\ \A d \in Drainers :
          /\ \A e \in batch[d] : Origin[e] = SessionOf[d]
          /\ dpc[d] = "mark" =>
                /\ current[d] \in Events
                /\ Origin[current[d]] = SessionOf[d]
                /\ <<current[d], SessionOf[d]>> \in shown \intersect woken

-----------------------------------------------------------------------------
(* Liveness.  The WebUI polls for ever; a delivery that is tried again and *)
(* again succeeds at last, and so does a rename.                           *)
Fairness ==
    \A d \in Drainers :
        /\ WF_vars(DrainBegin(d))
        /\ SF_vars(Deliver(d))
        /\ SF_vars(Mark(d))

FairSpec == Spec /\ Fairness

(* Events that no drain call takes: those without a session, and those of  *)
(* a session that nobody has open any more.                                *)
Untaken == {e \in pending : \A d \in Drainers : SessionOf[d] # Origin[e]}

(* Nobody removes them, and the listing is cut before it is filtered: as   *)
(* many of them as a listing holds, none of them younger, can hide e.      *)
Hidden(e) ==
    Cardinality({f \in Untaken : CreatedAt[f] <= CreatedAt[e]}) >= Clamped(Limit)

(* Whatever fails or dies on the way, every pending event of a session     *)
(* that is drained is delivered in the end, unless it is hidden.           *)
DrainReachesAll ==
    \A e \in Events : (e \in pending \ Untaken) ~> (e \notin pending \/ Hidden(e))

(* A statement of the repository that the code does not meet (README).     *)

(* _delivery_adapter.py: "Drain all pending outbox events for session_id". *)
DrainsAllPending == \A e \in Events : (e \in pending \ Untaken) ~> (e \notin pending)

=============================================================================
