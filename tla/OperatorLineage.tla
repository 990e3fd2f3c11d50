-------------------------- MODULE OperatorLineage --------------------------
(***************************************************************************)
(* The lineage an operator asks for: the walk from one artifact to the     *)
(* next over the files of OperatorView.                                    *)
(***************************************************************************)
EXTENDS OperatorView, Sequences

CONSTANT MaxNodes      \* nodes of a lineage

ASSUME LineageAssumption == MaxNodes \in Nat

-----------------------------------------------------------------------------
(* aota_orchestration_lineage walks breadth first, from an artifact to the *)
(* one it led to and to the one it came from.  Directories are listed in   *)
(* some order, and the first match is taken.                               *)
FirstOf(S) == IF S = {} THEN {} ELSE {CHOOSE x \in S : TRUE}

Forward(n) ==
    CASE n[1] = "task"     -> {<<"handoff", h>> : h \in FirstOf(HandoffOf(n[2]))}
      [] n[1] = "handoff"  -> {<<"decision", d>> : d \in FirstOf(About(n[2]))}
      [] n[1] = "decision" -> {<<"task", t>> : t \in {decision[n[2]].task} \ {None}}
Backward(n) ==
    CASE n[1] = "task"     -> IF n[2] = Source THEN {} ELSE {<<"task", Source>>}
      [] n[1] = "handoff"  -> {<<"task", Source>>}
      [] n[1] = "decision" -> {<<"handoff", decision[n[2]].handoff>>}
Neighbours(n) == Forward(n) \union Backward(n)
Present(n) == n[1] = "task" => Readable(n[2])

Entry(S) == IF S = {} THEN <<>> ELSE <<CHOOSE n \in S : TRUE>>

(* Mutation: a neighbour is queued although it was visited.                *)
QueuedAgain(n, seen) == Entry(Forward(n)) \o Entry(Backward(n))

(* A neighbour that was visited is not queued again; one that is waiting   *)
(* in the queue is.                                                        *)
Queued(n, seen) == Entry(Forward(n) \ seen) \o Entry(Backward(n) \ seen)

(* One round: what is at the head was visited, is added, or is missing.    *)
Over(w) == w.queue = <<>> \/ w.cycle \/ Cardinality(w.seen) >= MaxNodes
Round(w) ==
    LET n    == Head(w.queue)
        seen == w.seen \union {n}
        rest == Tail(w.queue)
    IN IF Over(w) THEN w
       ELSE IF n \in w.seen THEN [w EXCEPT !.cycle = TRUE]
       ELSE IF ~Present(n) THEN [w EXCEPT !.queue = rest]
       ELSE [w EXCEPT !.queue = rest \o Queued(n, seen), !.seen = seen]

(* Every node that is added queues two at most.                            *)
MaxRounds == 2 * MaxNodes + 1

Begin(n) == [queue |-> <<n>>, seen |-> {}, cycle |-> FALSE]
Walk(n) ==
    LET walk[k \in 0 .. MaxRounds] == IF k = 0 THEN Begin(n) ELSE Round(walk[k-1])
    IN walk[MaxRounds]
Lineage(n) ==
    LET w == Walk(n)
    IN [nodes |-> w.seen, cycle |-> w.cycle,
        truncated |-> w.queue # <<>> /\ Cardinality(w.seen) >= MaxNodes /\ ~w.cycle]

-----------------------------------------------------------------------------
(* What an artifact leads to, in up to five steps.                         *)
Near(T) == T \union UNION {Neighbours(m) : m \in T}
Reached(n) == {m \in Near(Near(Near(Near(Near({n}))))) : Present(m)}

Whole(n) ==
    LET w == Lineage(n)
    IN ~w.cycle /\ (w.truncated \/ w.nodes = Reached(n))

(* The lineage of a task, or of a decision that has no follow-up, is       *)
(* everything its artifacts lead to, and no cycle is reported, since there *)
(* is none.  (From a decision with its follow-up the source task is queued *)
(* twice, by the follow-up and by the handoff.)                            *)
LineageWhole ==
    source.meta =>
        /\ \A t \in Tasks : Whole(<<"task", t>>)
        /\ \A d \in DecisionIds :
              Written(d) /\ decision[d].task = None => Whole(<<"decision", d>>)
=============================================================================
