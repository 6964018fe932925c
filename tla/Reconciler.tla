----------------------------- MODULE Reconciler -----------------------------
(***************************************************************************)
(* What the hot reload of a set of running items promises, be they channel *)
(* instances or MCP servers: one operation at a time, each with a goal     *)
(* fixed when it begins; it leaves alone every item outside its scope and  *)
(* every item that already runs as wanted, it starts nothing while an item *)
(* of its scope still runs with another configuration, and what it starts  *)
(* runs as wanted.  A start may fail, so an operation may end with wanted  *)
(* items that do not run, but never with unwanted ones that do.            *)
(***************************************************************************)
CONSTANTS Items,    \* what is kept running
          Configs,  \* configurations an item can run with
          Down      \* not running

VARIABLES running,  \* the configuration every item runs with, or Down
          goal      \* what the operation under way wants, or NoGoal

States == Configs \cup {Down}
Goals == [want : [Items -> States],  \* the snapshot it works on
          scope : SUBSET Items,      \* items it may touch
          force : BOOLEAN]           \* it stops an item that runs as wanted too

NoGoal == [want |-> [i \in Items |-> Down], scope |-> {}, force |-> FALSE]

Settled(i) == running[i] \in {Down, goal.want[i]}

Init == running = [i \in Items |-> Down] /\ goal = NoGoal

BeginOperation ==
    /\ goal = NoGoal
    /\ goal' \in Goals
    /\ UNCHANGED running

Stop(i) ==
    /\ i \in goal.scope
    /\ running[i] # Down /\ (goal.force \/ running[i] # goal.want[i])
    /\ running' = [running EXCEPT ![i] = Down]
    /\ UNCHANGED goal

Start(i) ==
    /\ i \in goal.scope
    /\ running[i] = Down /\ \A j \in goal.scope : Settled(j)
    /\ running' = [running EXCEPT ![i] = goal.want[i]]
    /\ UNCHANGED goal

EndOperation ==
    /\ \A i \in goal.scope : Settled(i)
    /\ goal' = NoGoal
    /\ UNCHANGED running

StopAll ==
    /\ goal = NoGoal
    /\ running' = [i \in Items |-> Down]
    /\ UNCHANGED goal

Next ==
    \/ BeginOperation \/ EndOperation \/ StopAll
    \/ \E i \in Items : Stop(i) \/ Start(i)

Spec == Init /\ [][Next]_<<running, goal>>
=============================================================================
