----------------------------- MODULE MCLiveness -----------------------------
(***************************************************************************)
(* What must happen in the end, for TLC: a task whose launcher may die     *)
(* ends and gets its handoff (ProfileTaskRun), and an event of the outbox  *)
(* is delivered (DeliveryOutbox).  A behaviour is about one of the two and *)
(* fair to that one.                                                       *)
(***************************************************************************)
EXTENDS MCDeliveryOutbox

CONSTANTS s1, c1, o1, Launcher, NoActor
VARIABLES topic, status, session, term, receipt, outcome, handoff, event, lock,
          pc, loc, worker, intent, workerExit, killed, launches

Run == INSTANCE ProfileTaskRun WITH
    Starters <- {s1}, Cancellers <- {c1}, Observers <- {o1},
    Timed <- TRUE, Steward <- FALSE, Faults <- {}, MayCrash <- {Launcher}

runVars == <<status, session, term, receipt, outcome, handoff, event, lock, pc,
             loc, worker, intent, workerExit, killed, launches>>

LiveInit == topic \in {"run", "outbox"} /\ Run!Init /\ Init
LiveNext ==
    \/ topic = "run" /\ Run!Next /\ UNCHANGED <<vars, topic>>
    \/ topic = "outbox" /\ Next /\ UNCHANGED <<runVars, topic>>

LiveSpec ==
    /\ LiveInit /\ [][LiveNext]_<<vars, runVars, topic>>
    /\ \/ topic = "run" /\ Run!Fairness
       \/ topic = "outbox" /\ Fairness

(* As in ProfileTaskRun, of the one task there is.                         *)
RunConcludes   == Run!RunConcludes
HandoffAppears == Run!HandoffAppears
=============================================================================
