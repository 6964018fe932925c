----------------------------- MODULE MCSchedules -----------------------------
(***************************************************************************)
(* Small instances of the two workers a cron tick drives, CronWorker and   *)
(* Heartbeat.  They share no state: a behaviour moves one of them, the     *)
(* focus, and is fair to that one.                                         *)
(***************************************************************************)
EXTENDS MCCronWorker, Heartbeat

VARIABLE focus

schedulesVars == <<focus, vars, hbVars>>

\* A component that does not move has one initial state.
SchedulesInit ==
    /\ focus \in {"cron", "heartbeat"}
    /\ Init
    /\ HbInit
    /\ focus = "heartbeat" \/ beat.every = DefaultEvery

SchedulesNext ==
    /\ UNCHANGED focus
    /\ \/ focus = "cron" /\ Next /\ UNCHANGED hbVars
       \/ focus = "heartbeat" /\ HbNext /\ UNCHANGED vars

SchedulesSpec ==
    /\ SchedulesInit /\ [][SchedulesNext]_schedulesVars
    /\ \A w \in Workers : WF_vars(focus = "cron" /\ RunTick(w))
    /\ \A r \in Beaters : WF_hbVars(focus = "heartbeat" /\ HbRunTick(r))
=============================================================================
