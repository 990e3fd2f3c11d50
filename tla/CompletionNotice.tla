-------------------------- MODULE CompletionNotice --------------------------
(***************************************************************************)
(* What the outbox promises the session that started a task, with no word  *)
(* about directories, calls and their lists: the completion of the task is *)
(* noted, its card is shown to that session and to no other, and the note  *)
(* is settled only after the session had the card and its turn.  Until     *)
(* then it stays, and a card may be shown again.  DeliveryOutbox, the      *)
(* model of the code, is shown to implement it.                            *)
(***************************************************************************)

CONSTANTS
    Events,    \* notes, one for each terminal task
    Sessions,
    None,
    Origin     \* the session a note is meant for, or None

VARIABLES
    open,      \* notes that wait
    settled,   \* notes that were delivered
    cards,     \* <<note, session>>: who saw which card
    turns      \* <<note, session>>: who got a turn for it

cnVars == <<open, settled, cards, turns>>

CNInit == open = {} /\ settled = {} /\ cards = {} /\ turns = {}

(* A note may be taken again after it was settled.                         *)
Note(e) ==
    /\ open' = open \union {e}
    /\ UNCHANGED <<settled, cards, turns>>

(* Only what was noted is shown, and only where it belongs.                *)
Show(e) ==
    /\ e \in open \union settled
    /\ Origin[e] # None
    /\ cards' = cards \union {<<e, Origin[e]>>}
    /\ turns' \in {turns, turns \union {<<e, Origin[e]>>}}
    /\ UNCHANGED <<open, settled>>

Settle(e) ==
    /\ e \in open
    /\ <<e, Origin[e]>> \in cards \intersect turns
    /\ open' = open \ {e}
    /\ settled' = settled \union {e}
    /\ UNCHANGED <<cards, turns>>

CNNext == \E e \in Events : Note(e) \/ Show(e) \/ Settle(e)

CNSpec == CNInit /\ [][CNNext]_cnVars
=============================================================================
