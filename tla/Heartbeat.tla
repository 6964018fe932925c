----------------------------- MODULE Heartbeat -----------------------------
(***************************************************************************)
(* The heartbeat of one base session: HeartbeatWorker and HeartbeatManager *)
(* (klaw-heartbeat/src/lib.rs) over the heartbeat and heartbeat_task       *)
(* tables (klaw-storage/src/turso/heartbeat.rs), with those who write the  *)
(* row beside the worker: every routed message synchronises it with its    *)
(* session, the heartbeat_manager tool sets its prompt, the heartbeat      *)
(* panel edits, switches and deletes it.                                   *)
(*                                                                         *)
(* Every driver thread ticks the worker, and the panel's run-now button    *)
(* runs the job without a claim; one storage or transport call is one      *)
(* step.  The clock counts poll intervals.  Of a row only the columns the  *)
(* scheduling depends on are kept: prompt, channel and the like are data.  *)
(***************************************************************************)
EXTENDS Naturals, FiniteSets

CONSTANTS
    Beaters,      \* driver threads, which call run_tick
    RunNow,       \* tasks of the panel, which call run_job_now
    Touchers,     \* routed messages and tools, which read the row and write it back
    Periods,      \* values of the column every, in poll intervals
    DefaultEvery, \* the period of a heartbeat created for a session
    MaxClock,     \* bound on the clock
    MaxHbRows,    \* bound on the rows inserted
    MaxHbWrites,  \* bound on the writes beside the worker
    MaxHbFaults   \* bound on crashes and storage errors of a run

ASSUME HbAssumption ==
    /\ Periods \subseteq Nat \ {0} /\ DefaultEvery \in Periods
    /\ MaxClock \in Nat /\ MaxHbRows \in Nat \ {0} /\ MaxHbWrites \in Nat /\ MaxHbFaults \in Nat

VARIABLES
    clock,
    beat,       \* the row, or NoBeat
    hbRows,     \* rows inserted so far: the id of the newest
    available,  \* does resolve_available_session_key find a session?
    runner,     \* the run every worker and button is in
    toucher,    \* the row every writer has read
    hbWrites, hbFaults,  \* against their bounds
    switch,     \* history: the row and value of the last set_heartbeat_enabled
    claims,     \* history: how often each slot was claimed
    rewinds,    \* history: how often a write moved a row's next run back
    ended       \* history: the record of the run that ended last, and was it sent?

hbVars == <<clock, beat, hbRows, available, runner, toucher, hbWrites, hbFaults, switch,
            claims, rewinds, ended>>
hbHistory == <<switch, claims, rewinds, ended>>

Ids     == 1 .. MaxHbRows
HbTimes == 0 .. MaxClock
HbSlots == Ids \X HbTimes
NoBeat  == [id |-> 0, on |-> FALSE, next |-> 0, every |-> 0]
HbRest  == [pc |-> "idle", job |-> NoBeat, at |-> 0, status |-> "none", sent |-> FALSE]
HbRunners == Beaters \cup RunNow
NoRun   == [status |-> "none", message |-> FALSE, sent |-> FALSE]
Untouched == [pc |-> "idle", row |-> NoBeat]

HbInit ==
    /\ clock = 0
    /\ hbRows = 1
    /\ beat \in {[id |-> 1, on |-> TRUE, next |-> p, every |-> p] : p \in Periods}
    /\ available = TRUE
    /\ runner = [r \in HbRunners |-> HbRest]
    /\ toucher = [t \in Touchers |-> Untouched]
    /\ hbWrites = 0 /\ hbFaults = 0
    /\ switch = [id |-> 0, on |-> FALSE]
    /\ claims = [s \in HbSlots |-> 0]
    /\ rewinds = [i \in Ids |-> 0]
    /\ ended = NoRun

HbTick ==
    /\ clock < MaxClock
    /\ clock' = clock + 1
    /\ UNCHANGED <<beat, hbRows, available, runner, toucher, hbWrites, hbFaults, hbHistory>>

----------------------------------------------------------------------------
\* Writers of the row.
HbWrite == hbWrites < MaxHbWrites /\ hbWrites' = hbWrites + 1
HbQuiet == <<clock, available, runner, hbFaults, claims, ended>>

Rewound(next) == [rewinds EXCEPT ![beat.id] = IF next < beat.next THEN @ + 1 ELSE @]

\* The session, or the branch that is active, is removed or appears again.
ChangeSession ==
    /\ HbWrite
    /\ available' = ~available
    /\ UNCHANGED <<clock, beat, hbRows, runner, toucher, hbFaults, hbHistory>>

\* compute_next_run_at_ms and create_heartbeat; session_key is unique.
Insert(every) ==
    /\ beat = NoBeat /\ hbRows < MaxHbRows
    /\ hbRows' = hbRows + 1
    /\ beat' = [id |-> hbRows + 1, on |-> TRUE, next |-> clock + every, every |-> every]

CreateBeat(every) ==
    /\ HbWrite
    /\ Insert(every)
    /\ UNCHANGED <<HbQuiet, toucher, switch, rewinds>>

\* update_job computes the next run anew and writes every column but enabled.
UpdateBeat(every) ==
    /\ HbWrite
    /\ beat # NoBeat
    /\ beat' = [beat EXCEPT !.every = every, !.next = clock + every]
    /\ rewinds' = Rewound(clock + every)
    /\ UNCHANGED <<HbQuiet, hbRows, toucher, switch>>

SetBeatEnabled(on) ==
    /\ HbWrite
    /\ beat # NoBeat
    /\ beat' = [beat EXCEPT !.on = on]
    /\ switch' = [id |-> beat.id, on |-> on]
    /\ UNCHANGED <<HbQuiet, hbRows, toucher, rewinds>>

DeleteBeat ==
    /\ HbWrite
    /\ beat # NoBeat
    /\ beat' = NoBeat
    /\ UNCHANGED <<HbQuiet, hbRows, toucher, switch, rewinds>>

\* sync_job_to_session and do_update read the row ...
TouchRead(t) ==
    /\ toucher[t].pc = "idle"
    /\ HbWrite
    /\ toucher' = [toucher EXCEPT ![t] = [pc |-> "write", row |-> beat]]
    /\ UNCHANGED <<HbQuiet, beat, hbRows, switch, rewinds>>

TouchDone(t) == toucher' = [toucher EXCEPT ![t] = Untouched]

\* ... and update_heartbeat writes back what it did not change, the next run
\* included and enabled not.
Touched(old) == [old EXCEPT !.on = beat.on]

TouchWrite(t) ==
    /\ toucher[t].pc = "write" /\ toucher[t].row # NoBeat
    /\ LET old == toucher[t].row IN
       IF beat.id = old.id
       THEN beat' = Touched(old) /\ rewinds' = Rewound(old.next)
       ELSE UNCHANGED <<beat, rewinds>>
    /\ TouchDone(t)
    /\ UNCHANGED <<HbQuiet, hbRows, hbWrites, switch>>

\* sync_job_to_session found none: it inserts one, unless another did already.
TouchInsert(t) ==
    /\ toucher[t].pc = "write" /\ toucher[t].row = NoBeat
    /\ Insert(DefaultEvery) \/ (beat # NoBeat /\ UNCHANGED <<beat, hbRows>>)
    /\ TouchDone(t)
    /\ UNCHANGED <<HbQuiet, hbWrites, switch, rewinds>>

----------------------------------------------------------------------------
\* HeartbeatWorker.
hbRowVars == <<clock, beat, hbRows, available, toucher, hbWrites, switch, rewinds>>
HbGo(r, label) == runner' = [runner EXCEPT ![r].pc = label]

\* run_tick lists the due heartbeats.
BeatDue == beat.on /\ beat.next <= clock
HbScan(r) ==
    /\ runner[r].pc = "idle" /\ BeatDue
    /\ runner' = [runner EXCEPT ![r] = [HbRest EXCEPT !.pc = "claim", !.job = beat, !.at = clock]]
    /\ UNCHANGED <<hbRowVars, hbFaults, claims, ended>>

\* Due for more than a poll interval: the run was missed and is dropped.
Missed(w) == w.at > w.job.next + 1

HbNextRun(w) == (IF Missed(w) THEN w.at ELSE w.job.next) + w.job.every

\* Mutants: the row is claimed whatever its next run is by now; a missed run is
\* not claimed.
HbClaimableInTime(w) == beat.on /\ beat.id = w.job.id /\ beat.next = w.job.next /\ ~Missed(w)
HbClaimableById(w) == beat.on /\ beat.id = w.job.id
HbClaimable(w) == beat.on /\ beat.id = w.job.id /\ beat.next = w.job.next

HbClaim(r) ==
    /\ runner[r].pc = "claim"
    /\ LET w == runner[r]
           slot == <<w.job.id, w.job.next>> IN
       /\ HbClaimable(w)
       /\ beat' = [beat EXCEPT !.next = HbNextRun(w)]
       /\ claims' = [claims EXCEPT ![slot] = @ + 1]
       /\ runner' = [runner EXCEPT ![r] = IF Missed(w) THEN HbRest ELSE [HbRest EXCEPT !.pc = "append"]]
    /\ UNCHANGED <<clock, hbRows, available, toucher, hbWrites, switch, rewinds, hbFaults, ended>>

\* Another worker was faster, or the row changed.
HbLost(r) ==
    /\ runner[r].pc = "claim" /\ ~HbClaimable(runner[r])
    /\ runner' = [runner EXCEPT ![r] = HbRest]
    /\ UNCHANGED <<hbRowVars, hbFaults, claims, ended>>

\* run_job_now takes the row as it is, due or not, enabled or not.
RunBeatNow(r) ==
    /\ runner[r].pc = "idle" /\ beat # NoBeat
    /\ HbGo(r, "append")
    /\ UNCHANGED <<hbRowVars, hbFaults, claims, ended>>

\* execute_job_run: append_heartbeat_task_run and mark_heartbeat_task_running ...
RecordRun(r) ==
    /\ runner[r].pc = "append"
    /\ runner' = [runner EXCEPT ![r].pc = "publish", ![r].status = "running"]
    /\ UNCHANGED <<hbRowVars, hbFaults, claims, ended>>

\* ... publish_inbound: no session is available, or its history is read and the
\* message sent, or one of these fails ...
PublishBeat(r, outcome) ==
    /\ runner[r].pc = "publish"
    /\ ~available => outcome = "skipped"
    /\ available => outcome \in {"published", "failed"}
    /\ runner' = [runner EXCEPT ![r].pc = outcome, ![r].sent = outcome = "published"]
    /\ UNCHANGED <<hbRowVars, hbFaults, claims, ended>>

\* ... and mark_heartbeat_task_result records the outcome.
MarkResult(r) ==
    /\ runner[r].pc \in {"skipped", "published", "failed"}
    /\ ended' = [status  |-> IF runner[r].pc = "failed" THEN "failed" ELSE "success",
                 message |-> runner[r].pc = "published",
                 sent    |-> runner[r].sent]
    /\ runner' = [runner EXCEPT ![r] = HbRest]
    /\ UNCHANGED <<hbRowVars, hbFaults, claims>>

\* The process stops, or a storage call fails and the run is given up: what
\* was recorded so far stays, after append_heartbeat_task_run a pending run.
AbandonRun(r, status) ==
    /\ runner[r].pc # "idle" /\ hbFaults < MaxHbFaults
    /\ status = runner[r].status \/ (runner[r].pc = "append" /\ status = "pending")
    /\ hbFaults' = hbFaults + 1
    /\ ended' = [status |-> status, message |-> FALSE, sent |-> runner[r].sent]
    /\ runner' = [runner EXCEPT ![r] = HbRest]
    /\ UNCHANGED <<hbRowVars, claims>>

ExecuteRun(r) ==
    \/ RecordRun(r) \/ MarkResult(r)
    \/ \E outcome \in {"skipped", "published", "failed"} : PublishBeat(r, outcome)

HbRunTick(r) == HbScan(r) \/ HbClaim(r) \/ HbLost(r) \/ ExecuteRun(r)

HbNext ==
    \/ HbTick
    \/ ChangeSession
    \/ \E p \in Periods : CreateBeat(p) \/ UpdateBeat(p)
    \/ \E on \in BOOLEAN : SetBeatEnabled(on)
    \/ DeleteBeat
    \/ \E t \in Touchers : TouchRead(t) \/ TouchWrite(t) \/ TouchInsert(t)
    \/ \E r \in Beaters : HbRunTick(r)
    \/ \E r \in RunNow : RunBeatNow(r) \/ ExecuteRun(r)
    \/ \E r \in HbRunners, status \in {"none", "pending", "running"} : AbandonRun(r, status)

HbSpec == HbInit /\ [][HbNext]_hbVars

\* The drivers poll their ticks; nothing is asked of the clock or of writers.
HbFairSpec == HbSpec /\ \A r \in Beaters : WF_hbVars(HbRunTick(r))

----------------------------------------------------------------------------
\* A worker that claims holds a row that was due; the row's slot lies within
\* one period of the clock.
HbTypeOK ==
    /\ clock \in 0 .. MaxClock
    /\ beat = NoBeat \/ (/\ beat.id \in 1 .. hbRows /\ beat.on \in BOOLEAN
                         /\ beat.every \in Periods /\ beat.next \in Nat)
    /\ \A r \in HbRunners :
        /\ runner[r].pc \in {"idle", "claim", "append", "publish", "skipped", "published",
                             "failed"}
        /\ runner[r].pc = "claim" =>
              /\ runner[r].job.id \in 1 .. hbRows
              /\ runner[r].job.next <= runner[r].at /\ runner[r].at <= clock

\* A scheduled beat is claimed once, by one of the workers, and once more at most
\* for every write beside them that moved the next run back: a new period, or a
\* row that was read before a claim and written back after it
\* (claim_next_heartbeat_run compares the slot, and the next run lies after it).
BeatClaimedOnce == \A s \in HbSlots : claims[s] <= 1 + rewinds[s[1]]

\* The record of a run tells what became of its message: a failed one was not
\* sent, a success names its message exactly when it was sent, and a run that
\* stopped before it could be recorded is still pending or running.
BeatRecorded ==
    /\ ended.status \in {"none", "pending", "failed"} => ~ended.sent
    /\ ended.status = "success" => ended.message = ended.sent

\* The switch of the panel holds: whatever read the row before and writes it
\* back later, the row is enabled exactly as set_heartbeat_enabled last said.
SwitchHolds == beat.id # 0 /\ beat.id = switch.id => beat.on = switch.on

\* docs/src/tools/advanced/heartbeat.md: the claim updates next_run_at_ms
\* atomically, so that instances do not compete for a run.  Every slot would
\* then be claimed once.
\* It does not hold and no run checks it (README.md).
SlotClaimedOnce == \A s \in HbSlots : claims[s] <= 1

\* No enabled heartbeat stays due: each tick runs it or drops it and moves it on.
DueBeatMovesOn == BeatDue ~> ~BeatDue
=============================================================================
