--------------------------- MODULE ChannelManager ---------------------------
(***************************************************************************)
(* The channel instances of a running klaw and the panel that edits them:  *)
(* ChannelManager (klaw-channel/src/manager.rs), the runtime commands      *)
(* SyncChannels and RestartChannel (klaw-cli/src/commands/gui.rs) and the  *)
(* channel panel of the GUI (klaw-gui/src/panels/channel.rs).              *)
(*                                                                         *)
(* Each managed channel is an operating-system thread with a shutdown flag.*)
(* A command task reads the configuration and then queues for the lock of  *)
(* the manager (no await in between; tokio's lock is first come, first     *)
(* served), so the operations run one at a time, on snapshots in the order *)
(* in which they were read.  The threads write the shared status map at    *)
(* any time, those the manager gave up waiting for included.               *)
(*                                                                         *)
(* The setting of a key is Absent, Off, or a version of its configuration; *)
(* the state "trouble" stands for Degraded and Reconnecting, "none" for a  *)
(* key without status.  Starting is never seen: start_channel overwrites   *)
(* it before it returns.                                                   *)
(***************************************************************************)
EXTENDS Naturals, Sequences, FiniteSets

CONSTANTS
    Keys,        \* ChannelInstanceKey
    Versions,    \* configurations of an enabled channel
    MaxThreads,  \* bound: threads alive or managed at once
    MaxCommands  \* bound: saves, reloads and restarts clicked

Absent == "absent"
Off    == "off"
Settings == {Absent, Off} \cup Versions

ASSUME ChAssumption ==
    /\ MaxThreads \in Nat /\ {Absent, Off} \cap Versions = {}
    /\ "none" \notin Keys

VARIABLES
    saved,     \* the channels section of the configuration file
    panel,     \* sync_request and restart_request of the panel: pending?
    posted,    \* commands on their way to the runtime
    queue,     \* commands that read their snapshot and wait for the lock
    op,        \* the command that holds the lock, or NoOp
    stops,     \* its plan: keys still to be stopped
    starts,    \* its plan: keys still to be started
    joining,   \* threads whose end the manager waits for
    channels,  \* the managed handles: a thread, or 0
    threads,   \* every thread's key, setting, shutdown flag and life
    statuses,  \* the shared status map
    closed,    \* shutdown_all was called
    applied,   \* history: the snapshot of the last sync that finished
    givenUp,   \* history: keys of the threads whose stop timed out
    clicks     \* history: commands issued, against MaxCommands

chVars == <<saved, panel, posted, queue, op, stops, starts, joining, channels, threads,
            statuses, closed, applied, givenUp, clicks>>

Thread     == 1 .. MaxThreads
NoOp       == [kind |-> "none", key |-> "none", snapshot |-> <<>>, awaited |-> FALSE]
NoThread   == [key |-> "none", setting |-> Absent, signal |-> FALSE, life |-> "done"]
Live(t)    == threads[t].life = "live"

Commands == [kind : {"sync"}, key : {"none"}] \cup [kind : {"restart"}, key : Keys]
Operations ==
    {o \in [kind : {"sync", "restart"}, key : Keys \cup {"none"}, snapshot : [Keys -> Settings],
            awaited : BOOLEAN] : o.kind = "restart" => o.key \in Keys}
ThreadRecords ==
    [key : Keys \cup {"none"}, setting : Settings, signal : BOOLEAN, life : {"live", "done", "panicked"}]

AtRest     == op = NoOp /\ queue = <<>> /\ posted = {} /\ ~closed
\* A thread that ended: the record of one that nobody waits for is forgotten.
ThreadEnd(t, life) == IF threads[t].signal /\ t \notin joining THEN NoThread
                  ELSE [threads[t] EXCEPT !.life = life]

\* The program has started: its first sync runs before the command loop does.
ChInit ==
    /\ saved \in [Keys -> Settings]
    /\ panel = [sync |-> FALSE, restart |-> FALSE]
    /\ posted = {} /\ op = NoOp /\ stops = {} /\ starts = {} /\ joining = {}
    /\ queue = <<[kind |-> "sync", key |-> "none", snapshot |-> saved, awaited |-> FALSE]>>
    /\ channels = [k \in Keys |-> 0]
    /\ threads = [t \in Thread |-> NoThread]
    /\ statuses = [k \in Keys |-> "none"]
    /\ closed = FALSE
    /\ applied = [k \in Keys |-> Absent]
    /\ givenUp = {}
    /\ clicks = 0

panelVars == <<saved, panel, posted, queue, clicks>>
planVars  == <<op, stops, starts>>
hostVars  == <<joining, channels, threads, statuses, givenUp>>

----------------------------------------------------------------------------
\* The panel and the command loop.

\* save_config, for any edit of the panel, and reload (the setting stays): a
\* sync of the panel that is still pending stands for this one too.
SaveConfig(k, setting) ==
    /\ clicks < MaxCommands /\ ~closed
    /\ clicks' = clicks + 1
    /\ saved' = [saved EXCEPT ![k] = setting]
    /\ panel' = [panel EXCEPT !.sync = TRUE]
    /\ posted' = IF panel.sync THEN posted
                 ELSE posted \cup {[kind |-> "sync", key |-> "none"]}
    /\ UNCHANGED <<queue, closed, applied, planVars, hostVars>>

\* restart_channel of the panel: one restart at a time.
ClickRestart(k) ==
    /\ clicks < MaxCommands /\ ~closed
    /\ ~panel.restart
    /\ clicks' = clicks + 1
    /\ panel' = [panel EXCEPT !.restart = TRUE]
    /\ posted' = posted \cup {[kind |-> "restart", key |-> k]}
    /\ UNCHANGED <<saved, queue, closed, applied, planVars, hostVars>>

Opened(c) == [kind |-> c.kind, key |-> c.key, snapshot |-> saved, awaited |-> TRUE]

\* The command loop spawns a task that reads the configuration and queues up.
OpenSnapshot(c) ==
    /\ c \in posted /\ ~closed
    /\ posted' = posted \ {c}
    /\ queue' = Append(queue, Opened(c))
    /\ UNCHANGED <<saved, panel, clicks, closed, applied, planVars, hostVars>>

\* send_command gives up after RUNTIME_ACTION_TIMEOUT and the panel frees its
\* slot; the operation goes on.
RequestTimesOut(kind) ==
    LET late(o) == IF o.kind = kind THEN [o EXCEPT !.awaited = FALSE] ELSE o
    IN /\ \E o \in {op} \cup {queue[i] : i \in DOMAIN queue} : o.kind = kind /\ o.awaited
       /\ op' = late(op)
       /\ queue' = [i \in DOMAIN queue |-> late(queue[i])]
       /\ panel' = [panel EXCEPT ![kind] = FALSE]
       /\ UNCHANGED <<saved, posted, clicks, closed, applied, stops, starts, hostVars>>

----------------------------------------------------------------------------
\* The manager, under its lock.

Enabled(snapshot) == {k \in Keys : snapshot[k] \in Versions}
Managed == {k \in Keys : channels[k] # 0}
Respond(o) == panel' = IF o.awaited THEN [panel EXCEPT ![o.kind] = FALSE] ELSE panel

\* plan_channel_updates: the keys to stop for good, to restart and to start.
\* A managed thread that has ended is kept like any other.
Unwanted(snapshot) == Managed \ Enabled(snapshot)
ChangedAlways(snapshot) == Managed \cap Enabled(snapshot)   \* mutant: nothing is kept
Changed(snapshot)  == {k \in Managed \cap Enabled(snapshot) :
                          threads[channels[k]].setting # snapshot[k]}
Missing(snapshot)  == Enabled(snapshot) \ Managed

\* What sync and restart_channel are going to do.
Plan(o) ==
    IF o.kind = "sync"
    THEN /\ stops' = Unwanted(o.snapshot) \cup Changed(o.snapshot)
         /\ starts' = Missing(o.snapshot) \cup Changed(o.snapshot)
    ELSE /\ stops' = {o.key} \cap Managed
         /\ starts' = {o.key}

\* The head of the queue gets the lock.
Begin ==
    /\ op = NoOp /\ queue # <<>> /\ ~closed
    /\ Head(queue).kind = "restart" => Head(queue).key \in Enabled(Head(queue).snapshot)
    /\ op' = Head(queue)
    /\ queue' = Tail(queue)
    /\ Plan(Head(queue))
    /\ UNCHANGED <<saved, panel, posted, clicks, closed, applied, hostVars>>

\* restart_channel refuses a key that is not configured, or disabled.
RefuseRestart ==
    /\ op = NoOp /\ queue # <<>> /\ ~closed
    /\ Head(queue).kind = "restart" /\ Head(queue).key \notin Enabled(Head(queue).snapshot)
    /\ queue' = Tail(queue)
    /\ Respond(Head(queue))
    /\ UNCHANGED <<saved, posted, clicks, closed, applied, planVars, hostVars>>

\* stop_channel: the handle leaves the map, the flag is raised, the wait begins.
StopChannel(k) ==
    /\ k \in stops /\ joining = {}
    /\ stops' = stops \ {k}
    /\ joining' = {channels[k]}
    /\ threads' = [threads EXCEPT ![channels[k]].signal = TRUE]
    /\ channels' = [channels EXCEPT ![k] = 0]
    /\ UNCHANGED <<op, starts, statuses, givenUp, closed, applied, panelVars>>

EndJoin(t, status) ==
    /\ joining' = joining \ {t}
    /\ statuses' = [statuses EXCEPT ![threads[t].key] = status]
    /\ UNCHANGED <<channels, closed, applied, panelVars, planVars>>

\* The thread ended in time; the join of a panicked one is an error.
Joined(t) ==
    /\ t \in joining /\ ~Live(t)
    /\ EndJoin(t, IF threads[t].life = "panicked" THEN "failed" ELSE "stopped")
    /\ threads' = [threads EXCEPT ![t] = NoThread]
    /\ UNCHANGED givenUp

\* Mutant: the join has no timeout.
StopTimesOutNever(t) ==
    /\ t \in joining /\ ~Live(t)
    /\ EndJoin(t, "failed")
    /\ givenUp' = givenUp \cup {threads[t].key}
    /\ UNCHANGED threads

\* CHANNEL_SHUTDOWN_TIMEOUT passed: the thread is left running.
StopTimesOut(t) ==
    /\ t \in joining /\ Live(t)
    /\ EndJoin(t, "failed")
    /\ givenUp' = givenUp \cup {threads[t].key}
    /\ UNCHANGED threads

\* Mutant: the starts do not wait for the stops.
StopsOverIgnored == joining = {}

\* sync and restart_channel start nothing before every stop is over.
StopsOver == stops = {} /\ joining = {}

\* start_channel: the driver is built and its thread
\* spawned; either may fail, and then there is no handle.
StartChannel(k) ==
    /\ StopsOver /\ k \in starts
    /\ starts' = starts \ {k}
    /\ \/ \E t \in Thread :
             /\ ~Live(t) /\ \A j \in Keys : channels[j] # t
             /\ \A u \in 1 .. t - 1 : Live(u) \/ \E j \in Keys : channels[j] = u
             /\ threads' = [threads EXCEPT ![t] = [key |-> k, setting |-> op.snapshot[k],
                                                   signal |-> FALSE, life |-> "live"]]
             /\ channels' = [channels EXCEPT ![k] = t]
             /\ statuses' = [statuses EXCEPT ![k] = "running"]
       \/ /\ statuses' = [statuses EXCEPT ![k] = "failed"]
          /\ UNCHANGED <<channels, threads>>
    /\ UNCHANGED <<op, stops, joining, givenUp, closed, applied, panelVars>>

\* reconcile_statuses: keys without configuration lose their status, disabled
\* ones and new ones are stopped.
Reconciled(snapshot) ==
    [k \in Keys |-> CASE snapshot[k] = Absent -> "none"
                      [] snapshot[k] = Off    -> "stopped"
                      [] OTHER -> IF statuses[k] = "none" THEN "stopped" ELSE statuses[k]]

\* The operation reconciles the statuses, lets go of the lock and answers.
Finish ==
    /\ op # NoOp /\ stops = {} /\ starts = {} /\ joining = {}
    /\ op' = NoOp
    /\ statuses' = Reconciled(op.snapshot)
    /\ applied' = IF op.kind = "sync" THEN op.snapshot ELSE applied
    /\ Respond(op)
    /\ UNCHANGED <<saved, posted, queue, clicks, closed, stops, starts, joining, channels,
                   threads, givenUp>>

\* shutdown_all, when the command loop has ended: every thread at once.
ShutdownAll ==
    /\ op = NoOp /\ ~closed
    /\ closed' = TRUE
    /\ joining' = {channels[k] : k \in Managed}
    /\ threads' = [t \in Thread |-> [threads[t] EXCEPT
                      !.signal = @ \/ \E k \in Managed : channels[k] = t]]
    /\ channels' = [k \in Keys |-> 0]
    /\ UNCHANGED <<statuses, givenUp, applied, panelVars, planVars>>

----------------------------------------------------------------------------
\* The threads.

\* mark_running, mark_degraded, mark_reconnecting: a missing status is created.
Report(t, state) ==
    /\ Live(t)
    /\ statuses' = [statuses EXCEPT ![threads[t].key] = state]
    /\ UNCHANGED <<joining, channels, threads, givenUp, closed, applied, panelVars, planVars>>

\* run_until_shutdown returns: an error is written to the status, a normal end
\* only when it was asked for.
ThreadReturns(t, err) ==
    /\ Live(t)
    /\ threads' = [threads EXCEPT ![t] = ThreadEnd(t, "done")]
    /\ statuses' = IF err THEN [statuses EXCEPT ![threads[t].key] = "failed"]
                   ELSE IF threads[t].signal THEN [statuses EXCEPT ![threads[t].key] = "stopped"]
                   ELSE statuses
    /\ UNCHANGED <<joining, channels, givenUp, closed, applied, panelVars, planVars>>

ThreadPanics(t) ==
    /\ Live(t)
    /\ threads' = [threads EXCEPT ![t] = ThreadEnd(t, "panicked")]
    /\ UNCHANGED <<joining, channels, statuses, givenUp, closed, applied, panelVars, planVars>>

Command ==
    \/ \E k \in Keys : ClickRestart(k) \/ \E s \in Settings : SaveConfig(k, s)
    \/ \E kind \in {"sync", "restart"} : RequestTimesOut(kind)
    \/ ShutdownAll
Manager ==
    \/ \E c \in posted : OpenSnapshot(c)
    \/ Begin \/ RefuseRestart \/ Finish
    \/ \E k \in Keys : StopChannel(k) \/ StartChannel(k)
    \/ \E t \in Thread : Joined(t) \/ StopTimesOut(t)
ServerThreads ==
    \E t \in Thread :
        \/ \E s \in {"running", "trouble"} : Report(t, s)
        \/ \E err \in BOOLEAN : ThreadReturns(t, err)
        \/ ThreadPanics(t)

ChNext == Command \/ Manager \/ ServerThreads
ChSpec == ChInit /\ [][ChNext]_chVars

\* The runtime thread keeps running its tasks and its timers; nothing is asked
\* of the channel threads.
ChFairness == WF_chVars(Manager)

----------------------------------------------------------------------------
\* The fields of ChannelManager, its plan and the panel stay within their types;
\* a channel still to be stopped is managed.
ChTypeOK ==
    /\ saved \in [Keys -> Settings] /\ applied \in [Keys -> Settings]
    /\ panel \in [sync : BOOLEAN, restart : BOOLEAN]
    /\ posted \subseteq Commands /\ queue \in Seq(Operations) /\ op \in Operations \cup {NoOp}
    /\ stops \subseteq Managed /\ starts \subseteq Keys
    /\ joining \subseteq Thread /\ threads \in [Thread -> ThreadRecords]
    /\ channels \in [Keys -> 0 .. MaxThreads]
    /\ statuses \in [Keys -> {"none", "running", "trouble", "failed", "stopped"}]
    /\ closed \in BOOLEAN

\* Two threads never serve one channel unless one of them was told to stop and
\* outlived the wait: a live thread that was not told to stop is the managed
\* one of its key (stop_channel before start_channel in sync and
\* restart_channel; shutdown_all leaves no thread unsignalled).
OneServerPerChannel ==
    \A t \in Thread : Live(t) /\ ~threads[t].signal => channels[threads[t].key] = t

\* klaw-cli/README.md: the GUI sends SyncChannels after every save and the
\* runtime applies the newest snapshot.  At rest the saved configuration would
\* then be the one applied.
\* It does not hold and no run checks it (README.md).
SavedIsApplied ==
    AtRest => applied = saved

\* Every command that was read is executed and every stop ends, even if no
\* channel thread ever reacts to its flag (join_channel_thread_with_timeout).
CommandsServed ==
    [](queue # <<>> \/ op # NoOp => <>(closed \/ (queue = <<>> /\ op = NoOp)))

\* The operation under way, as the hot reload sees it: a sync may touch every
\* key, a restart one key, and that in any case.
GoalOf(o) ==
    IF o = NoOp THEN [want |-> [k \in Keys |-> Off], scope |-> {}, force |-> FALSE]
    ELSE [want  |-> [k \in Keys |-> IF k \in Enabled(o.snapshot) THEN o.snapshot[k] ELSE Off],
          scope |-> IF o.kind = "sync" THEN Keys ELSE {o.key},
          force |-> o.kind = "restart"]
ChGoal == GoalOf(op)

Reload == INSTANCE Reconciler WITH
    Items <- Keys, Configs <- Versions, Down <- Off,
    running <- [k \in Keys |-> IF channels[k] = 0 THEN Off ELSE threads[channels[k]].setting],
    goal <- ChGoal

\* sync, restart_channel and shutdown_all implement the hot reload: a channel
\* whose configuration did not change keeps its thread, a restart touches no
\* other channel, nothing starts before every stop is over, and what starts has
\* the configuration of the snapshot its operation read.
ChReconciles == Reload!Spec
====
