--------------------------- MODULE TaskLifecycle ---------------------------
(***************************************************************************)
(* What the Profile Task rail promises its users about one task, with no   *)
(* word about locks, processes or files: a frozen task is started once,    *)
(* gets a completion receipt, ends in exactly one terminal status, and     *)
(* only then is handed over and announced.  ProfileTaskRun, the model of   *)
(* the code, is shown to implement it.                                     *)
(***************************************************************************)

VARIABLES
    phase,      \* lifecycle status of the task
    filed,      \* a completion receipt is on disk
    published,  \* a handoff artifact for the task is on disk
    notified    \* a delivery-outbox event for the task is on disk

alVars == <<phase, filed, published, notified>>

(* The six statuses of _TERMINAL_STATUSES that this rail can write;        *)
(* scope_violation is listed by the code but no path assigns it.           *)
Terminal == {"done", "failed", "needs_input", "cancelled", "timeout"}

ALInit ==
    /\ phase = "frozen"
    /\ filed = FALSE
    /\ published = FALSE
    /\ notified = FALSE

Start ==
    /\ phase = "frozen"
    /\ phase' = "running"
    /\ UNCHANGED <<filed, published, notified>>

(* A receipt may be filed (or rewritten) at any time after the start.      *)
File ==
    /\ phase # "frozen"
    /\ filed' = TRUE
    /\ UNCHANGED <<phase, published, notified>>

(* Only a task with a receipt on disk may become terminal, and only once.  *)
Conclude ==
    /\ phase = "running"
    /\ filed
    /\ phase' \in Terminal
    /\ UNCHANGED <<filed, published, notified>>

(* The handoff follows the terminal status, the event follows the handoff. *)
Publish ==
    /\ phase \in Terminal
    /\ published' = TRUE
    /\ UNCHANGED <<phase, filed, notified>>

Notify ==
    /\ published
    /\ notified' = TRUE
    /\ UNCHANGED <<phase, filed, published>>

ALNext == Start \/ File \/ Conclude \/ Publish \/ Notify

ALSpec == ALInit /\ [][ALNext]_alVars
=============================================================================
