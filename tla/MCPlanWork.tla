----------------------------- MODULE MCPlanWork -----------------------------
(***************************************************************************)
(* Instances for TLC of the two ends of a task: PlanMutation, the plan it  *)
(* belongs to, and LaunchBinding and WorkerTools, what its worker is       *)
(* started with and works with.  A behaviour is about one of the three.    *)
(***************************************************************************)
EXTENDS PlanMutation, WorkerTools, TLC

CONSTANTS m1, w1, pt1, n1, n2, s1, c1, c2, r1, r2
VARIABLE topic

(* One milestone and one work item, at work.                               *)
AtWork(p, m, w) ==
    [NewPlan(n1) EXCEPT
        !.status = p,
        !.milestones[m1] = [status |-> m, deps |-> {}],
        !.items[w1] = [status |-> w, milestone |-> m1, deps |-> {}, links |-> {}],
        !.activeMilestone = m1, !.activeItem = w1]
SomePlans == {AtWork("in_progress", "in_progress", "in_progress")}

SomeConfigs == {[provider |-> "p1", model |-> "m1", key |-> "k1"],
               [provider |-> "p2", model |-> "m2", key |-> "k1"],
               [provider |-> "p1", model |-> "m1", key |-> "k2"]}

Code == <<"src", "a">>
Lib  == <<"app", "src", "a">>
Note == <<"docs", "n">>
SomeFiles == {Code, Lib, Note}

(* Reads and writes src; writes all, told by a top-level field, but for the *)
(* note.                                                                   *)
SomeSpecs ==
    {[payload |-> [read_scope |-> {<<"src", "**">>}, write_scope |-> {<<"src", "**">>},
                   forbidden_scope |-> {}], top |-> <<>>],
     [payload |-> [read_scope |-> {<<"docs">>}, forbidden_scope |-> {<<"docs", "n">>}],
      top |-> [write_scope |-> {<<"**">>}]]}

SomeSites == {[root |-> <<>>, runtime |-> FALSE]}
-----------------------------------------------------------------------------
(* A launch, with an idle worker: one is like another with the runners     *)
(* exchanged.  A worker, launched from what lay there and still lies there.*)
(* An idle worker in an untouched workspace.                               *)
Untouched   == WorkInit /\ disk = head /\ events = <<>> /\ spec = CHOOSE s \in FrozenSpecs : TRUE
LaunchStart == Untouched /\ LaunchInit /\ runner = r1
WorkerStart == WorkInit /\ Launched
WorkerIdle  == Untouched /\ Launched

MCInit ==
    /\ Init
    /\ \/ topic = "plan" /\ WorkerIdle
       \/ topic = "launch" /\ plan = None /\ LaunchStart
       \/ topic = "worker" /\ plan = None /\ WorkerStart
MCNext ==
    \/ topic = "plan" /\ Next /\ UNCHANGED <<launch, work, topic>>
    \/ topic = "launch" /\ LaunchNext /\ UNCHANGED <<vars, work, topic>>
    \/ topic = "worker" /\ WorkerNext /\ UNCHANGED <<vars, topic>>
MCSpec == MCInit /\ [][MCNext]_<<vars, launch, work, topic>>

Symmetry == Permutations(Callers)
=============================================================================
