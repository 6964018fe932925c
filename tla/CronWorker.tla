----------------------------- MODULE CronWorker -----------------------------
(***************************************************************************)
(* Scheduled jobs: CronWorker (klaw-cron/src/worker.rs) over the cron and  *)
(* cron_task tables (klaw-storage/src/turso/cron.rs), with the operations  *)
(* the cron manager panel and the cron_manager tool run beside it.         *)
(*                                                                         *)
(* Every driver thread ticks the worker, so several run_tick calls share   *)
(* the tables without a lock; one storage or transport call is one step.   *)
(* A job's slot is a value next_run_at_ms has had: a scheduled time.       *)
(***************************************************************************)
EXTENDS Integers, FiniteSets

CONSTANTS
    Jobs,          \* job ids
    EveryMs,       \* every-kind jobs: interval.as_millis(), 0 below a millisecond
    CronNext,      \* cron-kind jobs: the cron crate's next occurrence
    CronKind,      \* which jobs are of kind cron
    Exhausted,     \* cron expressions (with a year) that have no next occurrence
    Policy,        \* MissedRunPolicy
    BatchLimit,    \* CronWorkerConfig.batch_limit
    Workers,       \* driver threads, which call run_tick
    Runners,       \* tasks of the cron panel, which call run_job_now
    Edits,         \* the jobs someone updates while the workers run
    Faults,        \* may storage calls fail, and a worker's future be dropped?
    MaxTime,       \* bound on the clock
    Manual         \* "this run was started by run_job_now"

Times   == 0..MaxTime
Slots   == Jobs \X Nat
Threads == Workers \cup Runners

ASSUME CronAssumption ==
    /\ EveryMs \in [Jobs -> Nat]
    /\ CronKind \subseteq Jobs
    /\ CronNext \in [Jobs -> [Times -> Nat]]
    /\ \A j \in Jobs : \A t \in Times : CronNext[j][t] > t + 1
    /\ Exhausted \subseteq CronKind
    /\ Policy \in {"Skip", "CatchUp"}
    /\ BatchLimit \in Nat \ {0}
    /\ Edits \subseteq Jobs
    /\ Faults \in BOOLEAN
    /\ MaxTime \in Nat
    /\ Manual \notin Slots

VARIABLES
    now,        \* the clock
    state,      \* cron: "absent", "enabled", "disabled" or "deleted"
    next,       \* cron.next_run_at_ms
    status,     \* cron_task.status of the run each worker recorded last
    sent,       \* workers whose last run has its message on the inbound topic
    pc,         \* what a worker does next
    tick,       \* run_tick's now
    batch,      \* the due jobs run_tick has still to look at, with their slots
    cur,        \* the job and slot, or Manual, of the run a worker executes
    draft,      \* the editors' copy of next_run_at_ms, -1 when not editing
    starts,     \* history: first runs computed by create and by new schedules
    claimed,    \* history: slots claimed
    delivered,  \* history: slots whose message was published
    repeated    \* history: slots claimed or published a second time

table   == <<state, next>>
tasks   == <<status, sent>>
local   == <<pc, tick, batch, cur>>
history == <<starts, claimed, delivered, repeated>>
vars    == <<now, table, tasks, local, draft, history>>

Init ==
    /\ now = 0
    /\ state = [j \in Jobs |-> "absent"]
    /\ next = [j \in Jobs |-> 0]
    /\ status = [w \in Threads |-> "none"]
    /\ sent = {}
    /\ pc = [w \in Threads |-> "idle"]
    /\ tick = [w \in Threads |-> 0]
    /\ batch = [w \in Threads |-> {}]
    /\ cur = [w \in Threads |-> Manual]
    /\ draft = [j \in Jobs |-> -1]
    /\ starts = {}
    /\ claimed = {}
    /\ delivered = {}
    /\ repeated = {}

\* ScheduleSpec::next_run_after_ms_in_timezone.
NextRunAfter(j, t) == IF j \in CronKind THEN CronNext[j][t] ELSE t + EveryMs[j]

Tick ==
    /\ now < MaxTime
    /\ now' = now + 1
    /\ UNCHANGED <<table, tasks, local, draft, history>>

----------------------------------------------------------------------------
(* The operations of the cron manager and the cron_manager tool.           *)

\* create, enabled or not: validated by computing the first run from now.
Create(j) ==
    /\ state[j] = "absent"
    /\ \E s \in {"enabled", "disabled"} : state' = [state EXCEPT ![j] = s]
    /\ next' = [next EXCEPT ![j] = NextRunAfter(j, now)]
    /\ starts' = starts \cup {<<j, NextRunAfter(j, now)>>}
    /\ UNCHANGED <<now, tasks, local, draft, claimed, delivered, repeated>>

SetEnabled(j) ==
    /\ state[j] \in {"enabled", "disabled"}
    /\ state' = [state EXCEPT ![j] = IF @ = "enabled" THEN "disabled" ELSE "enabled"]
    /\ UNCHANGED <<now, next, tasks, local, draft, history>>

Delete(j) ==
    /\ state[j] \in {"enabled", "disabled"}
    /\ state' = [state EXCEPT ![j] = "deleted"]
    /\ UNCHANGED <<now, next, tasks, local, draft, history>>

\* update_cron reads the row; a patch without next_run_at_ms (a new name or
\* message) will write the value it read here back.
EditRead(j) ==
    /\ j \in Edits
    /\ state[j] \in {"enabled", "disabled"}
    /\ draft[j] = -1
    /\ draft' = [draft EXCEPT ![j] = next[j]]
    /\ UNCHANGED <<now, table, tasks, local, history>>

\* Mutant of Reschedule: a new schedule runs at once.
RescheduleAtOnce(j) ==
    /\ j \in Edits
    /\ state[j] \in {"enabled", "disabled"}
    /\ draft[j] = -1
    /\ draft' = [draft EXCEPT ![j] = now]
    /\ starts' = starts \cup {<<j, NextRunAfter(j, now)>>}
    /\ UNCHANGED <<now, table, tasks, local, claimed, delivered, repeated>>

\* A patch with a schedule (always from the GUI) carries the first run that was
\* computed from the clock before update_cron is called.
Reschedule(j) ==
    /\ j \in Edits
    /\ state[j] \in {"enabled", "disabled"}
    /\ draft[j] = -1
    /\ draft' = [draft EXCEPT ![j] = NextRunAfter(j, now)]
    /\ starts' = starts \cup {<<j, NextRunAfter(j, now)>>}
    /\ UNCHANGED <<now, table, tasks, local, claimed, delivered, repeated>>

\* update_cron writes the whole row.
EditWrite(j) ==
    /\ draft[j] # -1
    /\ next' = IF state[j] = "deleted" THEN next ELSE [next EXCEPT ![j] = draft[j]]
    /\ draft' = [draft EXCEPT ![j] = -1]
    /\ UNCHANGED <<now, state, tasks, local, history>>

----------------------------------------------------------------------------
(* The worker.                                                             *)

GoTo(w, label) == pc' = [pc EXCEPT ![w] = label]

\* run_tick or run_job_now returns, with a result or with an error.
Return(w) ==
    /\ GoTo(w, "idle")
    /\ tick' = [tick EXCEPT ![w] = 0]
    /\ batch' = [batch EXCEPT ![w] = {}]
    /\ cur' = [cur EXCEPT ![w] = Manual]

\* Mutant of Due: a job is not due at the very time of its slot.
DueLate == {<<j, next[j]>> : j \in {i \in Jobs : state[i] = "enabled" /\ next[i] < now}}

\* The rows list_due_crons selects.
Due == {<<j, next[j]>> : j \in {i \in Jobs : state[i] = "enabled" /\ next[i] <= now}}

\* The answers list_due_crons may give: the batch_limit jobs due earliest.
Batches ==
    {b \in SUBSET Due :
        /\ Cardinality(b) <= BatchLimit
        /\ b # Due => Cardinality(b) = BatchLimit
        /\ \A d \in b, e \in Due \ b : d[2] <= e[2]}

\* run_tick up to list_due_crons.
StartTick(w) ==
    /\ pc[w] = "idle"
    /\ Due # {}
    /\ tick' = [tick EXCEPT ![w] = now]
    /\ \E b \in Batches : batch' = [batch EXCEPT ![w] = b]
    /\ GoTo(w, "scan")
    /\ UNCHANGED <<now, table, tasks, cur, draft, history>>

\* The loop of run_tick reaches job d[1]: the batch is in order of slots.
Reached(w, d) ==
    /\ pc[w] = "scan"
    /\ d \in batch[w]
    /\ \A e \in batch[w] : d[2] <= e[2]

\* The schedule has no next run: the error leaves run_tick, and the jobs after
\* this one wait for another tick.
ScheduleError(w, d) ==
    /\ Reached(w, d)
    /\ d[1] \in Exhausted
    /\ Return(w)
    /\ UNCHANGED <<now, table, tasks, draft, history>>

\* Mutant of Claim: the row is not compared with the slot that was read.
ClaimUnconditional(w, d) ==
    /\ Reached(w, d)
    /\ d[1] \notin Exhausted
    /\ state[d[1]] = "enabled"
    /\ next' = [next EXCEPT ![d[1]] =
           NextRunAfter(d[1], IF Policy = "Skip" THEN tick[w] ELSE d[2])]
    /\ claimed' = claimed \cup {d}
    /\ repeated' = repeated \cup ({d} \cap claimed)
    /\ cur' = [cur EXCEPT ![w] = d]
    /\ batch' = [batch EXCEPT ![w] = @ \ {d}]
    /\ GoTo(w, "append")
    /\ UNCHANGED <<now, state, tasks, tick, draft, starts, delivered>>

\* claim_next_run updates the row if it is enabled and still has this slot.
Claim(w, d) ==
    /\ Reached(w, d)
    /\ d[1] \notin Exhausted
    /\ state[d[1]] = "enabled"
    /\ next[d[1]] = d[2]
    /\ next' = [next EXCEPT ![d[1]] =
           NextRunAfter(d[1], IF Policy = "Skip" THEN tick[w] ELSE d[2])]
    /\ claimed' = claimed \cup {d}
    /\ repeated' = repeated \cup ({d} \cap claimed)
    /\ cur' = [cur EXCEPT ![w] = d]
    /\ batch' = [batch EXCEPT ![w] = @ \ {d}]
    /\ GoTo(w, "append")
    /\ UNCHANGED <<now, state, tasks, tick, draft, starts, delivered>>

\* claim_next_run updated no row: another worker was first, or the job was
\* disabled, deleted or rescheduled.
ClaimMissed(w, d) ==
    /\ Reached(w, d)
    /\ d[1] \notin Exhausted
    /\ state[d[1]] # "enabled" \/ next[d[1]] # d[2]
    /\ batch' = [batch EXCEPT ![w] = @ \ {d}]
    /\ UNCHANGED <<now, table, tasks, pc, tick, cur, draft, history>>

EndTick(w) ==
    /\ pc[w] = "scan"
    /\ batch[w] = {}
    /\ Return(w)
    /\ UNCHANGED <<now, table, tasks, draft, history>>

\* run_job_now (its return is EndTick) makes no claim, and runs a disabled job too.
RunJobNow(w, j) ==
    /\ pc[w] = "idle"
    /\ state[j] \in {"enabled", "disabled"}
    /\ cur' = [cur EXCEPT ![w] = Manual]
    /\ GoTo(w, "append")
    /\ UNCHANGED <<now, table, tasks, tick, batch, draft, history>>

\* execute_job_run: append_task_run.
AppendTaskRun(w) ==
    /\ pc[w] = "append"
    /\ status' = [status EXCEPT ![w] = "pending"]
    /\ sent' = sent \ {w}
    /\ GoTo(w, "start")
    /\ UNCHANGED <<now, table, tick, batch, cur, draft, history>>

\* execute_job_run: mark_task_running.
MarkTaskRunning(w) ==
    /\ pc[w] = "start"
    /\ status' = [status EXCEPT ![w] = "running"]
    /\ GoTo(w, "publish")
    /\ UNCHANGED <<now, table, sent, tick, batch, cur, draft, history>>

\* publish_inbound: the message is on the inbound topic.
PublishInbound(w) ==
    /\ pc[w] = "publish"
    /\ sent' = sent \cup {w}
    /\ LET slot == {cur[w]} \ {Manual}
       IN  /\ delivered' = delivered \cup slot
           /\ repeated' = repeated \cup (slot \cap delivered)
    /\ GoTo(w, "published")
    /\ UNCHANGED <<now, table, status, tick, batch, cur, draft, starts, claimed>>

\* publish_inbound: the base session is unavailable.
PublishSkipped(w) ==
    /\ pc[w] = "publish"
    /\ GoTo(w, "skipped")
    /\ UNCHANGED <<now, table, tasks, tick, batch, cur, draft, history>>

\* publish_inbound: a payload, storage or transport error.
PublishFailed(w) ==
    /\ pc[w] = "publish"
    /\ Faults
    /\ GoTo(w, "failed")
    /\ UNCHANGED <<now, table, tasks, tick, batch, cur, draft, history>>

\* Mutant of MarkTaskResult: the outcome of publish_inbound is not looked at.
MarkTaskSuccess(w) ==
    /\ pc[w] \in {"published", "skipped", "failed"}
    /\ status' = [status EXCEPT ![w] = "published"]
    /\ GoTo(w, "scan")
    /\ UNCHANGED <<now, table, sent, tick, batch, cur, draft, history>>

\* execute_job_run: mark_task_result.  "published" and "skipped" are both
\* stored as success, with and without a published_message_id.
MarkTaskResult(w) ==
    /\ pc[w] \in {"published", "skipped", "failed"}
    /\ status' = [status EXCEPT ![w] = pc[w]]
    /\ GoTo(w, "scan")
    /\ UNCHANGED <<now, table, sent, tick, batch, cur, draft, history>>

\* A storage call of execute_job_run fails; run_tick goes on with the batch.
StorageError(w) ==
    /\ Faults
    /\ pc[w] \in {"append", "start", "published", "skipped", "failed"}
    /\ GoTo(w, "scan")
    /\ UNCHANGED <<now, table, tasks, tick, batch, cur, draft, history>>

\* The driver thread shuts down or the process dies between two calls, or
\* claim_next_run fails and its error leaves run_tick.
Cancel(w) ==
    /\ Faults
    /\ pc[w] # "idle"
    /\ Return(w)
    /\ UNCHANGED <<now, table, tasks, draft, history>>

----------------------------------------------------------------------------
Execute(w) ==
    \/ AppendTaskRun(w)
    \/ MarkTaskRunning(w)
    \/ PublishInbound(w)
    \/ PublishSkipped(w)
    \/ PublishFailed(w)
    \/ MarkTaskResult(w)
    \/ StorageError(w)

Scan(w) == \E d \in batch[w] : ScheduleError(w, d) \/ Claim(w, d) \/ ClaimMissed(w, d)

RunTick(w) == StartTick(w) \/ Scan(w) \/ EndTick(w) \/ Execute(w)

Manage(j) ==
    \/ Create(j)
    \/ SetEnabled(j)
    \/ Delete(j)
    \/ EditRead(j)
    \/ Reschedule(j)
    \/ EditWrite(j)

Next ==
    \/ Tick
    \/ \E j \in Jobs : Manage(j)
    \/ \E w \in Workers : RunTick(w)
    \/ \E w \in Runners, j \in Jobs : RunJobNow(w, j)
    \/ \E w \in Runners : Execute(w) \/ EndTick(w)
    \/ \E w \in Threads : Cancel(w)

Spec == Init /\ [][Next]_vars

\* The drivers tick the worker again and again.
FairSpec == Spec /\ \A w \in Workers : WF_vars(RunTick(w))

----------------------------------------------------------------------------
(* Properties.                                                             *)

\* Every variable has the type its Rust or SQL counterpart has.
TypeOK ==
    /\ now \in Times
    /\ state \in [Jobs -> {"absent", "enabled", "disabled", "deleted"}]
    /\ next \in [Jobs -> Nat]
    /\ status \in [Threads -> {"none", "pending", "running", "published", "skipped", "failed"}]
    /\ sent \subseteq Threads
    /\ pc \in [Threads -> {"idle", "scan", "append", "start", "publish",
                           "published", "skipped", "failed"}]
    /\ tick \in [Threads -> Times]
    /\ batch \in [Threads -> SUBSET Slots]
    /\ cur \in [Threads -> Slots \cup {Manual}]
    /\ draft \in [Jobs -> Nat \cup {-1}]
    /\ starts \subseteq Slots
    /\ claimed \subseteq Slots
    /\ delivered \subseteq Slots
    /\ repeated \subseteq Slots

\* However many workers read the same due jobs, and wherever they stop, a slot
\* is claimed by one of them and its message published once: the conditional
\* update of claim_next_run (docs/src/storage/cron.md, the CAS section).
SlotRunsOnce == repeated = {}

\* A task run tells the truth about its message, also after storage errors
\* and restarts: recorded as published only if the message is on the inbound
\* topic, and as skipped, failed or not yet running only if it is not.
RunStatusTruthful ==
    \A w \in Threads :
        /\ status[w] = "published" => w \in sent
        /\ status[w] \in {"none", "pending", "skipped", "failed"} => w \notin sent

\* With CatchUp no missed slot is left out: a slot is claimed only as the first
\* one of a schedule or as the successor of a claimed slot, also when edits put
\* an old or a new next run into the row while workers hold another one.
CatchUpInOrder ==
    Policy = "CatchUp" =>
        \A d \in claimed :
            \/ d \in starts
            \/ \E e \in claimed : e[1] = d[1] /\ d[2] = NextRunAfter(e[1], e[2])

\* Every due job that nobody edits is claimed, disabled or deleted in the end,
\* whatever is due before it and whatever edits put back into other rows (the
\* clock stops at MaxTime, so a backlog is finite).
DueIsClaimed ==
    \A j \in Jobs \ Edits :
        (state[j] = "enabled" /\ next[j] <= now)
            ~> (state[j] # "enabled" \/ next[j] > now)
=============================================================================
