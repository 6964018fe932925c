-------------------------- MODULE SchedulesProofs --------------------------
(***************************************************************************)
(* Proofs about the two schedulers.                                        *)
(* The cron worker: a slot runs once, for any number of jobs, workers and  *)
(* manual runners, both missed-run policies, any batch limit, and workers  *)
(* that stop anywhere, provided that schedules advance (every-kind         *)
(* intervals of a millisecond or more) and that nobody edits a job         *)
(* meanwhile.                                                              *)
(* The heartbeat, for any number of workers, buttons, writers, rows and    *)
(* faults and any positive periods: a slot is claimed once and once more   *)
(* at most for every write that moved the next run back, the switch of the *)
(* panel holds whatever is written back beside it, and the record of a run *)
(* tells whether its message was sent.                                     *)
(***************************************************************************)
EXTENDS CronWorker, Heartbeat, TLAPS

Advancing == Edits = {} /\ \A j \in Jobs \ CronKind : EveryMs[j] > 0

(***************************************************************************)
(* The inductive invariant.  A claimed slot lies strictly before the job's *)
(* next run, which is why the comparison in claim_next_run refuses it; a   *)
(* slot in a worker's hands lies at or before the worker's reading of the  *)
(* clock, which is why claiming it moves the next run past it.  A claimed  *)
(* slot that is still to be published is in the hands of one worker.       *)
(***************************************************************************)
ClaimedIsPast == \A d \in claimed : d[2] < next[d[1]] /\ state[d[1]] # "absent"

BatchIsDue == \A w \in Threads : \A d \in batch[w] : d[2] <= tick[w]

BatchIsKnown == \A w \in Threads : \A d \in batch[w] : state[d[1]] # "absent"

NobodyEdits == \A j \in Jobs : draft[j] = -1

ToPublish(w) == pc[w] \in {"append", "start", "publish"} /\ cur[w] # Manual

PendingIsClaimed ==
    \A w \in Threads : ToPublish(w) => cur[w] \in claimed /\ cur[w] \notin delivered

PendingIsUnshared ==
    \A v, w \in Threads : ToPublish(v) /\ ToPublish(w) /\ cur[v] = cur[w] => v = w

SlotInv ==
    /\ TypeOK
    /\ ClaimedIsPast
    /\ BatchIsDue
    /\ BatchIsKnown
    /\ NobodyEdits
    /\ delivered \subseteq claimed
    /\ PendingIsClaimed
    /\ PendingIsUnshared
    /\ SlotRunsOnce

----------------------------------------------------------------------------
(* Type correctness.                                                       *)

\* The next run is a time, for any time it may be computed from.
LEMMA NextRunType ==
    ASSUME NEW j \in Jobs, NEW t \in Times
    PROVE  NextRunAfter(j, t) \in Nat
  BY CronAssumption DEF NextRunAfter, Times

\* What a worker finds in its batch.
LEMMA BatchEntry ==
    ASSUME TypeOK, BatchIsDue, NEW w \in Threads, NEW d \in batch[w]
    PROVE  /\ d \in Slots
           /\ d[1] \in Jobs /\ d[2] \in Times /\ tick[w] \in Times
           /\ d[2] <= tick[w]
  <1>1. d \in Slots /\ d[1] \in Jobs /\ d[2] \in Nat /\ tick[w] \in Times
    BY DEF TypeOK, Slots
  <1> QED
    BY <1>1, CronAssumption DEF BatchIsDue, Times

LEMMA TypeInit == Init => TypeOK /\ BatchIsDue
  BY CronAssumption DEF Init, TypeOK, BatchIsDue, Times

LEMMA TypeNext == TypeOK /\ BatchIsDue /\ [Next]_vars => (TypeOK /\ BatchIsDue)'
  <1> SUFFICES ASSUME TypeOK, BatchIsDue, [Next]_vars
               PROVE  TypeOK' /\ BatchIsDue'
    BY Zenon
  <1> USE CronAssumption DEF TypeOK, BatchIsDue, Times, GoTo,
          table, tasks, local, history
  <1>1. CASE Tick
    BY <1>1 DEF Tick
  <1>2. ASSUME NEW j \in Jobs, Manage(j) PROVE TypeOK' /\ BatchIsDue'
    <2>0. NextRunAfter(j, now) \in Nat /\ <<j, NextRunAfter(j, now)>> \in Slots
      BY NextRunType, Zenon DEF Slots
    <2>1. CASE Create(j)
      BY <2>0, <2>1, Zenon DEF Create
    <2>2. CASE SetEnabled(j)
      BY <2>2, Zenon DEF SetEnabled
    <2>3. CASE Delete(j)
      BY <2>3, Zenon DEF Delete
    <2>4. CASE EditRead(j)
      BY <2>4, Zenon DEF EditRead
    <2>5. CASE EditWrite(j)
      BY <2>5, Zenon DEF EditWrite
    <2>6. CASE Reschedule(j)
      BY <2>0, <2>6, Zenon DEF Reschedule
    <2> QED
      BY <1>2, <2>1, <2>2, <2>3, <2>4, <2>5, <2>6, Zenon DEF Manage
  <1>3. ASSUME NEW w \in Workers, StartTick(w) PROVE TypeOK' /\ BatchIsDue'
    <2>1. w \in Threads
      BY Zenon DEF Threads
    <2>2. PICK b \in Batches : batch' = [batch EXCEPT ![w] = b]
      BY <1>3, Zenon DEF StartTick
    <2>3. \A d \in Due : d \in Slots /\ d[2] <= now
      BY DEF Due, Slots
    <2>4. b \subseteq Due
      BY <2>2, Zenon DEF Batches
    <2> QED
      BY <1>3, <2>1, <2>2, <2>3, <2>4, Zenon DEF StartTick
  <1>4. ASSUME NEW w \in Workers, NEW d \in batch[w], Claim(w, d)
        PROVE  TypeOK' /\ BatchIsDue'
    <2>1. w \in Threads
      BY Zenon DEF Threads
    <2>2. d \in Slots /\ d[1] \in Jobs /\ d[2] \in Times /\ tick[w] \in Times
      BY <2>1, BatchEntry, Zenon
    <2>3. NextRunAfter(d[1], IF Policy = "Skip" THEN tick[w] ELSE d[2]) \in Nat
      BY <2>2, NextRunType, Zenon
    <2> QED
      BY <1>4, <2>1, <2>2, <2>3, Zenon DEF Claim
  <1>5. ASSUME NEW w \in Workers, NEW d \in batch[w],
               ScheduleError(w, d) \/ ClaimMissed(w, d)
        PROVE  TypeOK' /\ BatchIsDue'
    <2>1. w \in Threads
      BY Zenon DEF Threads
    <2>2. CASE ScheduleError(w, d)
      BY <2>1, <2>2, SMTT(30) DEF ScheduleError, Return
    <2>3. CASE ClaimMissed(w, d)
      BY <2>1, <2>3, Zenon DEF ClaimMissed
    <2> QED
      BY <1>5, <2>2, <2>3, Zenon
  <1>6. ASSUME NEW w \in Threads, EndTick(w) \/ Cancel(w)
        PROVE  TypeOK' /\ BatchIsDue'
    <2>1. /\ Return(w)
          /\ UNCHANGED <<now, table, tasks, draft, history>>
      BY <1>6, Zenon DEF EndTick, Cancel
    <2>2. 0 \in Times
      OBVIOUS
    <2> QED
      BY <2>1, <2>2, Zenon DEF Return
  <1>7. ASSUME NEW w \in Threads, Execute(w) PROVE TypeOK' /\ BatchIsDue'
    <2>1. CASE AppendTaskRun(w)
      BY <2>1, Zenon DEF AppendTaskRun
    <2>2. CASE MarkTaskRunning(w)
      BY <2>2, Zenon DEF MarkTaskRunning
    <2>3. CASE PublishInbound(w)
      BY <2>3, Zenon DEF PublishInbound
    <2>4. CASE PublishSkipped(w) \/ PublishFailed(w) \/ StorageError(w)
      BY <2>4, Zenon DEF PublishSkipped, PublishFailed, StorageError
    <2>5. CASE MarkTaskResult(w)
      BY <2>5, Zenon DEF MarkTaskResult
    <2> QED
      BY <1>7, <2>1, <2>2, <2>3, <2>4, <2>5, Zenon DEF Execute
  <1>8. ASSUME NEW w \in Runners, NEW j \in Jobs, RunJobNow(w, j)
        PROVE  TypeOK' /\ BatchIsDue'
    BY <1>8, Zenon DEF RunJobNow, Threads
  <1>9. CASE UNCHANGED vars
    BY <1>9, Zenon DEF vars
  <1> QED
    BY <1>1, <1>2, <1>3, <1>4, <1>5, <1>6, <1>7, <1>8, <1>9, Zenon
    DEF Next, RunTick, Scan, Threads

\* Every reachable state of the scheduler is well typed, whatever the jobs,
\* edits and faults; in particular a next run is always a valid time.
THEOREM TypeCorrect == Spec => []TypeOK
  <1>1. Spec => [](TypeOK /\ BatchIsDue)
    BY TypeInit, TypeNext, PTL DEF Spec
  <1> QED
    BY <1>1, PTL

----------------------------------------------------------------------------
(* A slot runs once.                                                       *)

\* A schedule that advances puts the next run strictly after the time it is
\* computed from.
LEMMA NextRunLater ==
    ASSUME Advancing, NEW j \in Jobs, NEW t \in Times
    PROVE  NextRunAfter(j, t) > t
  BY CronAssumption DEF Advancing, NextRunAfter, Times

\* The slot part of the invariant; its type part is TypeNext.
SlotFacts ==
    /\ ClaimedIsPast
    /\ BatchIsKnown
    /\ NobodyEdits
    /\ delivered \subseteq claimed
    /\ PendingIsClaimed
    /\ PendingIsUnshared
    /\ SlotRunsOnce

\* Operations on jobs keep the slot facts.
LEMMA ManageSlots ==
    ASSUME Advancing, SlotInv, NEW j \in Jobs, Manage(j)
    PROVE  SlotFacts'
  <1> USE DEF SlotInv, SlotFacts, ClaimedIsPast, BatchIsKnown, NobodyEdits,
          PendingIsClaimed, PendingIsUnshared, SlotRunsOnce, ToPublish,
          tasks, local, history, table
  <1>0. /\ state \in [Jobs -> {"absent", "enabled", "disabled", "deleted"}]
        /\ next \in [Jobs -> Nat]
        /\ \A d \in claimed : d[1] \in Jobs
        /\ \A w \in Threads : \A d \in batch[w] : d[1] \in Jobs
    BY DEF TypeOK, Slots
  <1>1. CASE Create(j)
    BY <1>0, <1>1, Zenon DEF Create
  <1>2. CASE SetEnabled(j)
    BY <1>0, <1>2, Zenon DEF SetEnabled
  <1>3. CASE Delete(j)
    BY <1>0, <1>3, Zenon DEF Delete
  <1>4. ~EditRead(j) /\ ~Reschedule(j) /\ ~EditWrite(j)
    BY Zenon DEF Advancing, EditRead, Reschedule, EditWrite
  <1> QED
    BY <1>1, <1>2, <1>3, <1>4, Zenon DEF Manage

\* claim_next_run keeps the slot facts: the slot equals the row's next run,
\* so it is not among the claimed ones, and the new next run is past it.
LEMMA ClaimSlots ==
    ASSUME Advancing, SlotInv, NEW w \in Threads, NEW d \in batch[w], Claim(w, d)
    PROVE  SlotFacts'
  <1> DEFINE seed == IF Policy = "Skip" THEN tick[w] ELSE d[2]
  <1>0. /\ next \in [Jobs -> Nat]
        /\ pc \in [Threads -> {"idle", "scan", "append", "start", "publish",
                               "published", "skipped", "failed"}]
        /\ cur \in [Threads -> Slots \cup {Manual}]
        /\ batch \in [Threads -> SUBSET Slots]
        /\ \A e \in claimed : e[1] \in Jobs /\ e[2] \in Nat
    BY Zenon DEF SlotInv, TypeOK, Slots
  <1>1. /\ d \in Slots /\ d[1] \in Jobs /\ d[2] \in Times /\ tick[w] \in Times
        /\ d[2] <= tick[w]
    BY BatchEntry, Zenon DEF SlotInv
  <1>2. seed \in Times /\ d[2] <= seed
    BY <1>1, CronAssumption DEF Times
  <1>3. NextRunAfter(d[1], seed) \in Nat /\ NextRunAfter(d[1], seed) > d[2]
    <2>1. NextRunAfter(d[1], seed) > seed /\ NextRunAfter(d[1], seed) \in Nat
      BY <1>1, <1>2, NextRunLater, NextRunType, Zenon
    <2> QED
      BY <1>1, <1>2, <2>1, CronAssumption DEF Times
  <1>4. next[d[1]] = d[2] /\ next' = [next EXCEPT ![d[1]] = NextRunAfter(d[1], seed)]
    BY Zenon DEF Claim
  <1>5. d \notin claimed
    BY <1>0, <1>1, <1>4, CronAssumption DEF SlotInv, ClaimedIsPast, Times
  <1>6. state[d[1]] # "absent" /\ state' = state
    BY Zenon DEF Claim
  <1>7. ClaimedIsPast'
    <2>1. claimed' = claimed \cup {d}
      BY Zenon DEF Claim
    <2>2. ASSUME NEW e \in claimed PROVE e[2] < next'[e[1]] /\ state'[e[1]] # "absent"
      <3>1. e[2] < next[e[1]] /\ state[e[1]] # "absent"
        BY Zenon DEF SlotInv, ClaimedIsPast
      <3>2. CASE e[1] = d[1]
        BY <1>0, <1>1, <1>3, <1>4, <1>6, <3>1, <3>2, CronAssumption DEF Times
      <3>3. CASE e[1] # d[1]
        BY <1>0, <1>4, <1>6, <3>1, <3>3, Zenon
      <3> QED
        BY <3>2, <3>3, Zenon
    <2>3. d[2] < next'[d[1]]
      BY <1>0, <1>1, <1>3, <1>4, CronAssumption, Zenon DEF Times
    <2> QED
      BY <1>6, <2>1, <2>2, <2>3, Zenon DEF ClaimedIsPast
  <1>8. BatchIsKnown'
    BY <1>0, <1>6, Zenon DEF Claim, SlotInv, BatchIsKnown
  <1>9. PendingIsClaimed' /\ PendingIsUnshared'
    BY <1>0, <1>5
    DEF Claim, GoTo, SlotInv, PendingIsClaimed, PendingIsUnshared, ToPublish
  <1>10. SlotRunsOnce' /\ NobodyEdits' /\ delivered' \subseteq claimed'
    BY <1>5, Zenon DEF Claim, SlotInv, SlotRunsOnce, NobodyEdits
  <1> QED
    BY <1>7, <1>8, <1>9, <1>10, Zenon DEF SlotFacts

\* Everything else a thread does keeps the slot facts.
LEMMA ThreadSlots ==
    ASSUME SlotInv, NEW w \in Threads,
           \/ StartTick(w) \/ EndTick(w) \/ Cancel(w) \/ Execute(w)
           \/ \E d \in batch[w] : ScheduleError(w, d) \/ ClaimMissed(w, d)
           \/ \E j \in Jobs : RunJobNow(w, j)
    PROVE  SlotFacts'
  <1> USE DEF SlotInv, SlotFacts, ClaimedIsPast, BatchIsKnown, NobodyEdits,
          PendingIsClaimed, PendingIsUnshared, SlotRunsOnce, ToPublish, GoTo,
          tasks, history, table
  <1>0. /\ pc \in [Threads -> {"idle", "scan", "append", "start", "publish",
                               "published", "skipped", "failed"}]
        /\ cur \in [Threads -> Slots \cup {Manual}]
        /\ batch \in [Threads -> SUBSET Slots]
    BY Zenon DEF TypeOK
  <1>1. CASE StartTick(w)
    <2>1. PICK b \in Batches : batch' = [batch EXCEPT ![w] = b]
      BY <1>1, Zenon DEF StartTick
    <2>2. \A d \in b : state[d[1]] # "absent"
      BY DEF Batches, Due
    <2> QED
      BY <1>0, <1>1, <2>1, <2>2 DEF StartTick
  <1>2. CASE EndTick(w)
    BY <1>0, <1>2, Zenon DEF EndTick, Return
  <1>3. CASE Cancel(w)
    BY <1>0, <1>3, Zenon DEF Cancel, Return
  <1>4. CASE Execute(w)
    <2>1. CASE AppendTaskRun(w) \/ MarkTaskRunning(w)
      BY <1>0, <2>1 DEF AppendTaskRun, MarkTaskRunning
    <2>2. CASE PublishInbound(w)
      <3>1. CASE cur[w] = Manual
        BY <1>0, <2>2, <3>1, Zenon DEF PublishInbound
      <3>2. CASE cur[w] # Manual
        BY <1>0, <2>2, <3>2, Zenon DEF PublishInbound
      <3> QED
        BY <3>1, <3>2, Zenon
    <2>3. CASE PublishSkipped(w) \/ PublishFailed(w)
      BY <1>0, <2>3 DEF PublishSkipped, PublishFailed
    <2>4. CASE MarkTaskResult(w) \/ StorageError(w)
      BY <1>0, <2>4 DEF MarkTaskResult, StorageError
    <2> QED
      BY <1>4, <2>1, <2>2, <2>3, <2>4, Zenon DEF Execute
  <1>5. ASSUME NEW d \in batch[w], ScheduleError(w, d) \/ ClaimMissed(w, d)
        PROVE  SlotFacts'
    BY <1>0, <1>5 DEF ScheduleError, ClaimMissed, Reached, Return
  <1>6. ASSUME NEW j \in Jobs, RunJobNow(w, j) PROVE SlotFacts'
    BY <1>0, <1>6 DEF RunJobNow
  <1> QED
    BY <1>1, <1>2, <1>3, <1>4, <1>5, <1>6, Zenon

LEMMA SlotNext ==
    ASSUME Advancing
    PROVE  SlotInv /\ [Next]_vars => SlotInv'
  <1> SUFFICES ASSUME SlotInv, [Next]_vars PROVE SlotInv'
    BY Zenon
  <1>0. TypeOK' /\ BatchIsDue'
    BY TypeNext, Zenon DEF SlotInv
  <1> SUFFICES SlotFacts'
    BY <1>0, Zenon DEF SlotFacts, SlotInv
  <1>1. ASSUME NEW j \in Jobs, Manage(j) PROVE SlotFacts'
    BY <1>1, ManageSlots, Zenon
  <1>2. ASSUME NEW w \in Threads, NEW d \in batch[w], Claim(w, d) PROVE SlotFacts'
    BY <1>2, ClaimSlots, Zenon
  <1>3. CASE Tick \/ UNCHANGED vars
    BY <1>3, Zenon DEF Tick, vars, SlotInv, SlotFacts, ClaimedIsPast, BatchIsKnown,
       NobodyEdits, PendingIsClaimed, PendingIsUnshared, SlotRunsOnce, ToPublish,
       tasks, local, history, table
  <1> QED
    BY <1>1, <1>2, <1>3, ThreadSlots, Zenon DEF Next, RunTick, Scan, Threads

LEMMA SlotInit == Init => SlotInv
  BY TypeInit, Zenon DEF Init, SlotInv, ClaimedIsPast, BatchIsKnown, NobodyEdits,
     PendingIsClaimed, PendingIsUnshared, SlotRunsOnce, ToPublish

\* claim_next_run gives every slot to one worker, and the worker publishes it
\* at most once: however many workers list the same due jobs, and wherever
\* they fail or stop.  The two conditions of Advancing are needed: an interval
\* below a millisecond leaves the slot in the row, and an edit may write a
\* stale next run back (the run CronEdited).
THEOREM SlotSafety ==
    ASSUME Advancing
    PROVE  Spec => []SlotRunsOnce
  <1>1. SlotInv => SlotRunsOnce
    BY Zenon DEF SlotInv
  <1>2. SlotInv /\ [Next]_vars => SlotInv'
    BY SlotNext, Zenon
  <1> QED
    BY SlotInit, <1>1, <1>2, PTL DEF Spec

----------------------------------------------------------------------------
(* What a task run records about its message.                              *)

(***************************************************************************)
(* The record of a run lags behind the run.  The message is out from       *)
(* PublishInbound on, so that the record is only written as published when *)
(* it is out, and append_task_run starts a record whose message is not.    *)
(***************************************************************************)
RecordInv ==
    \A w \in Threads :
        /\ status[w] = "published" => w \in sent
        /\ status[w] \in {"none", "pending", "skipped", "failed"} => w \notin sent
        /\ pc[w] = "published" => w \in sent
        /\ pc[w] \in {"start", "publish", "skipped", "failed"} => w \notin sent
        /\ pc[w] = "publish" => status[w] = "running"

LEMMA RecordNext == TypeOK /\ RecordInv /\ [Next]_vars => RecordInv'
  <1> SUFFICES ASSUME TypeOK, RecordInv, [Next]_vars PROVE RecordInv'
    BY Zenon
  <1> USE DEF RecordInv, GoTo, tasks, local
  <1>0. /\ pc \in [Threads -> {"idle", "scan", "append", "start", "publish",
                               "published", "skipped", "failed"}]
        /\ status \in [Threads -> {"none", "pending", "running", "published",
                                   "skipped", "failed"}]
    BY Zenon DEF TypeOK
  <1>1. CASE Tick \/ UNCHANGED vars
    BY <1>1, Zenon DEF Tick, vars
  <1>2. ASSUME NEW j \in Jobs, Manage(j) PROVE RecordInv'
    BY <1>2, Zenon DEF Manage, Create, SetEnabled, Delete, EditRead, Reschedule, EditWrite
  <1>3. ASSUME NEW w \in Threads, Execute(w) PROVE RecordInv'
    <2>1. CASE AppendTaskRun(w)
      BY <1>0, <2>1, Zenon DEF AppendTaskRun
    <2>2. CASE MarkTaskRunning(w)
      BY <1>0, <2>2, Zenon DEF MarkTaskRunning
    <2>3. CASE PublishInbound(w)
      BY <1>0, <2>3, Zenon DEF PublishInbound
    <2>4. CASE PublishSkipped(w) \/ PublishFailed(w) \/ StorageError(w)
      BY <1>0, <2>4, Zenon DEF PublishSkipped, PublishFailed, StorageError
    <2>5. CASE MarkTaskResult(w)
      BY <1>0, <2>5, Zenon DEF MarkTaskResult
    <2> QED
      BY <1>3, <2>1, <2>2, <2>3, <2>4, <2>5, Zenon DEF Execute
  <1>4. ASSUME NEW w \in Threads,
               \/ StartTick(w) \/ EndTick(w) \/ Cancel(w)
               \/ \E d \in batch[w] : ScheduleError(w, d) \/ Claim(w, d) \/ ClaimMissed(w, d)
               \/ \E j \in Jobs : RunJobNow(w, j)
        PROVE  RecordInv'
    <2>1. /\ pc' \in {[pc EXCEPT ![w] = l] : l \in {"idle", "scan", "append"}} \cup {pc}
          /\ status' = status /\ sent' = sent
      BY <1>4, Zenon DEF StartTick, EndTick, Cancel, ScheduleError, Claim, ClaimMissed,
         RunJobNow, Return
    <2> QED
      BY <1>0, <2>1, Zenon
  <1> QED
    BY <1>1, <1>2, <1>3, <1>4, Zenon DEF Next, RunTick, Scan, Threads

\* A task run tells the truth about its message for any number of threads, jobs
\* and faults: execute_job_run marks the result after publish_inbound and from
\* its outcome, and the record of the run is a new one.
THEOREM RecordSafety == Spec => []RunStatusTruthful
  <1>1. Init => RecordInv
    BY Zenon DEF Init, RecordInv
  <1>2. RecordInv => RunStatusTruthful
    BY Zenon DEF RecordInv, RunStatusTruthful
  <1> QED
    BY <1>1, <1>2, RecordNext, TypeCorrect, PTL DEF Spec

----------------------------------------------------------------------------
(* CatchUp leaves no slot out.                                             *)

(***************************************************************************)
(* Every next run a row or an editor holds is a first run of a schedule or *)
(* the successor of a claimed slot.  An editor may hold a stale one, but   *)
(* it was legitimate when it was read, and starts and claimed only grow.   *)
(***************************************************************************)
Legitimate(j, n) ==
    \/ <<j, n>> \in starts
    \/ \E e \in claimed : e[1] = j /\ n = NextRunAfter(e[1], e[2])

OrderInv ==
    /\ \A j \in Jobs : state[j] # "absent" => Legitimate(j, next[j])
    /\ \A j \in Jobs : draft[j] # -1 => Legitimate(j, draft[j])
    /\ \A d \in claimed : Legitimate(d[1], d[2])

LEMMA OrderNext ==
    ASSUME Policy = "CatchUp"
    PROVE  TypeOK /\ OrderInv /\ [Next]_vars => OrderInv'
  <1> SUFFICES ASSUME TypeOK, OrderInv, [Next]_vars PROVE OrderInv'
    BY Zenon
  <1>0. /\ state \in [Jobs -> {"absent", "enabled", "disabled", "deleted"}]
        /\ next \in [Jobs -> Nat]
        /\ draft \in [Jobs -> Nat \cup {-1}]
        /\ \A w \in Threads : \A d \in batch[w] : d = <<d[1], d[2]>> /\ d[1] \in Jobs
    BY DEF TypeOK, Slots
  <1>1. ASSUME NEW j \in Jobs, Manage(j) PROVE OrderInv'
    <2> USE DEF OrderInv, Legitimate, history, table
    <2>1. CASE Create(j)
      <3>1. \A i \in Jobs : i # j => state'[i] = state[i] /\ next'[i] = next[i]
        BY <1>0, <2>1, Zenon DEF Create
      <3>2. next'[j] = NextRunAfter(j, now) /\ <<j, NextRunAfter(j, now)>> \in starts'
        BY <1>0, <2>1, Zenon DEF Create
      <3>3. starts \subseteq starts' /\ claimed' = claimed /\ draft' = draft
        BY <2>1, Zenon DEF Create
      <3> QED
        BY <3>1, <3>2, <3>3
    <2>2. CASE SetEnabled(j) \/ Delete(j)
      BY <1>0, <2>2 DEF SetEnabled, Delete
    <2>3. CASE EditRead(j)
      BY <1>0, <2>3 DEF EditRead
    <2>4. CASE Reschedule(j)
      <3>1. \A i \in Jobs : i # j => draft'[i] = draft[i]
        BY <1>0, <2>4, Zenon DEF Reschedule
      <3>2. draft'[j] = NextRunAfter(j, now) /\ <<j, NextRunAfter(j, now)>> \in starts'
        BY <1>0, <2>4, Zenon DEF Reschedule
      <3>3. starts \subseteq starts' /\ claimed' = claimed /\ state' = state /\ next' = next
        BY <2>4, Zenon DEF Reschedule
      <3> QED
        BY <3>1, <3>2, <3>3
    <2>5. CASE EditWrite(j)
      BY <1>0, <2>5 DEF EditWrite
    <2> QED
      BY <1>1, <2>1, <2>2, <2>3, <2>4, <2>5, Zenon DEF Manage
  <1>2. ASSUME NEW w \in Threads, NEW d \in batch[w], Claim(w, d) PROVE OrderInv'
    <2>1. /\ d = <<d[1], d[2]>> /\ d[1] \in Jobs /\ next[d[1]] = d[2]
          /\ state[d[1]] = "enabled" /\ state' = state
          /\ next' = [next EXCEPT ![d[1]] = NextRunAfter(d[1], d[2])]
          /\ claimed' = claimed \cup {d} /\ starts' = starts /\ draft' = draft
      BY <1>0, <1>2, Zenon DEF Claim
    <2>2. Legitimate(d[1], d[2])
      BY <2>1, Zenon DEF OrderInv
    <2>3. \A j, n : Legitimate(j, n) => Legitimate(j, n)'
      BY <2>1, Zenon DEF Legitimate
    <2>4. Legitimate(d[1], NextRunAfter(d[1], d[2]))'
      BY <2>1, Zenon DEF Legitimate
    <2>5. \A j \in Jobs : next'[j] = IF j = d[1] THEN NextRunAfter(d[1], d[2]) ELSE next[j]
      BY <1>0, <2>1, Zenon
    <2> QED
      BY <2>1, <2>2, <2>3, <2>4, <2>5, Zenon DEF OrderInv
  <1>3. CASE UNCHANGED <<state, next, draft, starts, claimed>>
    BY <1>3 DEF OrderInv, Legitimate
  <1>4. ASSUME NEW w \in Threads,
               \/ StartTick(w) \/ EndTick(w) \/ Cancel(w) \/ Execute(w)
               \/ \E d \in batch[w] : ScheduleError(w, d) \/ ClaimMissed(w, d)
               \/ \E j \in Jobs : RunJobNow(w, j)
        PROVE  UNCHANGED <<state, next, draft, starts, claimed>>
    BY <1>4, Zenon DEF StartTick, EndTick, Cancel, ScheduleError, ClaimMissed, RunJobNow,
       Execute, AppendTaskRun, MarkTaskRunning, PublishInbound, PublishSkipped,
       PublishFailed, MarkTaskResult, StorageError, table, history
  <1>5. CASE Tick \/ UNCHANGED vars
    BY <1>3, <1>5, Zenon DEF Tick, vars, table, history
  <1> QED
    BY <1>1, <1>2, <1>3, <1>4, <1>5, Zenon DEF Next, RunTick, Scan, Threads

\* With CatchUp a slot is claimed only as the first one of a schedule or as the
\* successor of a claimed slot: next_run_after is computed from the slot that is
\* claimed, and an edit writes back only what was a next run of the job.
THEOREM OrderSafety == Spec => []CatchUpInOrder
  <1>1. CASE Policy = "CatchUp"
    <2>1. Init => OrderInv
      BY DEF Init, OrderInv
    <2>2. OrderInv /\ TypeOK => CatchUpInOrder
      <3> SUFFICES ASSUME OrderInv, TypeOK, NEW d \in claimed
                   PROVE  \/ d \in starts
                          \/ \E e \in claimed : e[1] = d[1] /\ d[2] = NextRunAfter(e[1], e[2])
        BY Zenon DEF CatchUpInOrder
      <3>1. d = <<d[1], d[2]>>
        BY DEF TypeOK, Slots
      <3> QED
        BY <3>1, Zenon DEF OrderInv, Legitimate
    <2>3. TypeOK /\ OrderInv /\ [Next]_vars => OrderInv'
      BY <1>1, OrderNext, Zenon
    <2> QED
      BY <2>1, <2>2, <2>3, TypeCorrect, PTL DEF Spec
  <1>2. CASE Policy # "CatchUp"
    <2>1. CatchUpInOrder
      BY <1>2, Zenon DEF CatchUpInOrder
    <2> QED
      BY <2>1, PTL
  <1> QED
    BY <1>1, <1>2, Zenon

----------------------------------------------------------------------------
(* The heartbeat.                                                          *)

BeatRow == [id : Nat, on : BOOLEAN, next : Nat, every : Nat]

\* A row that was ever in the table has an id that was handed out.
Known(b) == b \in BeatRow /\ (b # NoBeat => b.id \in 1 .. hbRows /\ b.every \in Periods)

RunPcs == {"idle", "claim", "append", "publish", "skipped", "published", "failed"}
RunStates ==
    [pc : RunPcs, job : BeatRow, at : Nat,
     status : {"none", "pending", "running"}, sent : BOOLEAN]

HbTyped ==
    /\ clock \in HbTimes
    /\ hbRows \in Ids
    /\ Known(beat)
    /\ runner \in [HbRunners -> RunStates]
    /\ \A r \in HbRunners : runner[r].pc = "claim" =>
          /\ Known(runner[r].job) /\ runner[r].job # NoBeat
          /\ runner[r].job.next <= runner[r].at /\ runner[r].at <= clock
    /\ toucher \in [Touchers -> [pc : {"idle", "write"}, row : BeatRow]]
    /\ \A t \in Touchers : Known(toucher[t].row)
    /\ claims \in [HbSlots -> Nat]
    /\ rewinds \in [Ids -> Nat]

\* Slots of rows yet to be inserted are unclaimed, and so are, but for the
\* writes that moved the row back, those from its next run on.
ClaimsBehind ==
    /\ \A i \in Ids, t \in HbTimes : i > hbRows => claims[<<i, t>>] = 0
    /\ beat # NoBeat =>
          \A t \in HbTimes : t >= beat.next => claims[<<beat.id, t>>] <= rewinds[beat.id]

\* The last switch was of a row that was inserted.
SwitchKnown == switch \in [id : Nat, on : BOOLEAN] /\ switch.id <= hbRows

----------------------------------------------------------------------------
(* Steps of the writers.                                                   *)

LEMMA HbInitTyped == HbInit => HbTyped
  <1> SUFFICES ASSUME HbInit PROVE HbTyped
    BY Zenon
  <1> USE HbAssumption DEF HbInit, HbTimes, Ids, NoBeat, HbRest, Untouched, BeatRow, Known
  <1>1. clock \in HbTimes /\ hbRows \in Ids /\ Known(NoBeat)
    OBVIOUS
  <1>2. Known(beat)
    <2>1. PICK p \in Periods : beat = [id |-> 1, on |-> TRUE, next |-> p, every |-> p]
      BY Zenon
    <2>2. p \in Nat
      BY Zenon
    <2> QED
      BY <2>1, <2>2
  <1>3. /\ runner \in [HbRunners -> RunStates]
        /\ \A r \in HbRunners : runner[r].pc = "idle"
    BY Zenon DEF RunStates, RunPcs
  <1>4. /\ toucher \in [Touchers -> [pc : {"idle", "write"}, row : BeatRow]]
        /\ \A t \in Touchers : Known(toucher[t].row)
    BY Zenon
  <1>5. claims \in [HbSlots -> Nat] /\ rewinds \in [Ids -> Nat]
    BY Zenon
  <1> QED
    BY <1>1, <1>2, <1>3, <1>4, <1>5, Zenon DEF HbTyped

LEMMA NoBeatKnown == NoBeat \in BeatRow /\ Known(NoBeat)
  BY Zenon DEF NoBeat, BeatRow, Known

\* What a row written back, or written anew, is.
LEMMA RowWritten ==
    ASSUME HbTyped, beat # NoBeat,
           NEW e \in Periods, NEW n \in Nat, NEW o \in BOOLEAN
    PROVE  LET b == [id |-> beat.id, on |-> o, next |-> n, every |-> e] IN
           b \in BeatRow /\ Known(b) /\ b # NoBeat
  <1>1. beat.id \in 1 .. hbRows /\ e \in Nat /\ hbRows \in Nat
    BY HbAssumption DEF HbTyped, Known, Ids
  <1>2. [id |-> beat.id, on |-> o, next |-> n, every |-> e] # NoBeat
    BY <1>1 DEF NoBeat
  <1> QED
    BY <1>1, <1>2 DEF BeatRow, Known

\* create_heartbeat hands out a new id.
LEMMA InsertTyped ==
    ASSUME HbTyped, NEW e \in Periods, Insert(e)
    PROVE  /\ hbRows' = hbRows + 1 /\ hbRows' \in Ids
           /\ beat'.id = hbRows' /\ beat' # NoBeat
           /\ Known(beat)'
           /\ \A b \in BeatRow : Known(b) => Known(b)'
  <1>1. hbRows \in Nat /\ hbRows + 1 \in Ids /\ e \in Nat /\ clock + e \in Nat
    BY HbAssumption DEF HbTyped, Insert, Ids, HbTimes
  <1>2. /\ hbRows' = hbRows + 1
        /\ beat' = [id |-> hbRows + 1, on |-> TRUE, next |-> clock + e, every |-> e]
    BY Zenon DEF Insert
  <1>3. beat'.id = hbRows + 1 /\ beat' \in BeatRow /\ beat'.every = e
    BY <1>1, <1>2 DEF BeatRow
  <1>4. beat' # NoBeat
    BY <1>1, <1>3 DEF NoBeat
  <1>5. \A b \in BeatRow : Known(b) => Known(b)'
    BY <1>1, <1>2 DEF Known
  <1> QED
    BY <1>1, <1>2, <1>3, <1>4, <1>5 DEF Known

\* Facts about rows carry over when the number of rows stays.
LEMMA KnownStable ==
    ASSUME NEW b, Known(b), UNCHANGED hbRows
    PROVE  Known(b)'
  BY Zenon DEF Known

\* A write counts against its own row, when it moves the next run back.
LEMMA RewoundType ==
    ASSUME HbTyped, NEW n
    PROVE  /\ Rewound(n) \in [Ids -> Nat]
           /\ \A i \in Ids : Rewound(n)[i] >= rewinds[i]
           /\ beat.id \in Ids /\ n < beat.next => Rewound(n)[beat.id] = rewinds[beat.id] + 1
  <1> DEFINE by == IF n < beat.next THEN 1 ELSE 0
  <1>0. rewinds \in [Ids -> Nat] /\ \A i \in Ids : rewinds[i] \in Nat
    BY Zenon DEF HbTyped
  <1>1. by \in {0, 1} /\ (n < beat.next => by = 1)
    BY Zenon
  <1>2. Rewound(n) = [i \in Ids |-> IF i = beat.id THEN rewinds[i] + by ELSE rewinds[i]]
    <2>1. CASE n < beat.next
      <3>1. Rewound(n) = [rewinds EXCEPT ![beat.id] = rewinds[beat.id] + 1]
        BY <2>1, Zenon DEF Rewound
      <3> QED
        BY <1>0, <2>1, <3>1, Zenon
    <2>2. CASE ~(n < beat.next)
      <3>1. Rewound(n) = [rewinds EXCEPT ![beat.id] = rewinds[beat.id]]
        BY <2>2, Zenon DEF Rewound
      <3>2. \A i \in Ids : rewinds[i] + by = rewinds[i]
        BY <1>0, <2>2
      <3> QED
        BY <1>0, <3>1, <3>2, Zenon
    <2> QED
      BY <2>1, <2>2, Zenon
  <1> HIDE DEF by
  <1> QED
    BY <1>0, <1>1, <1>2

LEMMA WriterTyped ==
    ASSUME HbTyped,
           \/ HbTick \/ ChangeSession
           \/ \E p \in Periods : CreateBeat(p) \/ UpdateBeat(p)
           \/ \E on \in BOOLEAN : SetBeatEnabled(on)
           \/ DeleteBeat
    PROVE  HbTyped'
  <1> USE DEF HbQuiet, hbHistory
  <1>0. clock \in Nat /\ hbRows \in Nat /\ \A p \in Periods : p \in Nat /\ clock + p \in Nat
    BY HbAssumption DEF HbTyped, HbTimes, Ids
  <1>1. CASE HbTick
    <2>1. clock' \in HbTimes /\ clock' = clock + 1
      BY <1>0, <1>1, HbAssumption DEF HbTick, HbTimes
    <2>2. \A r \in HbRunners : runner[r].pc = "claim" => runner[r].at <= clock'
      BY <1>0, <2>1 DEF HbTyped, RunStates
    <2> QED
      BY <1>1, <2>1, <2>2, Zenon DEF HbTick, HbTyped, Known
  <1>2. CASE ChangeSession
    BY <1>2, Zenon DEF ChangeSession, HbTyped, Known
  <1>3. ASSUME NEW p \in Periods, CreateBeat(p) PROVE HbTyped'
    <2>1. Insert(p) /\ UNCHANGED <<clock, runner, toucher, claims, rewinds>>
      BY <1>3, Zenon DEF CreateBeat
    <2>2. /\ hbRows' \in Ids /\ Known(beat)'
          /\ \A b \in BeatRow : Known(b) => Known(b)'
      BY <2>1, InsertTyped, Zenon
    <2>3. /\ \A r \in HbRunners : runner[r].job \in BeatRow
          /\ \A t \in Touchers : toucher[t].row \in BeatRow
      BY Zenon DEF HbTyped, RunStates
    <2> QED
      BY <2>1, <2>2, <2>3, Zenon DEF HbTyped
  <1>4. ASSUME NEW p \in Periods, UpdateBeat(p) PROVE HbTyped'
    <2>1. /\ beat # NoBeat
          /\ beat' = [id |-> beat.id, on |-> beat.on, next |-> clock + p, every |-> p]
          /\ rewinds' = Rewound(clock + p)
          /\ UNCHANGED <<clock, hbRows, runner, toucher, claims>>
      BY <1>4, Zenon DEF UpdateBeat, HbTyped, Known, BeatRow
    <2>2. beat.on \in BOOLEAN
      BY Zenon DEF HbTyped, Known, BeatRow
    <2>3. Known(beat)'
      BY <1>0, <2>1, <2>2, RowWritten, Zenon DEF Known
    <2>4. rewinds' \in [Ids -> Nat]
      BY <2>1, RewoundType, Zenon
    <2> QED
      BY <2>1, <2>3, <2>4, Zenon DEF HbTyped, Known
  <1>5. ASSUME NEW on \in BOOLEAN, SetBeatEnabled(on) PROVE HbTyped'
    <2>1. /\ beat # NoBeat
          /\ beat' = [id |-> beat.id, on |-> on, next |-> beat.next, every |-> beat.every]
          /\ UNCHANGED <<clock, hbRows, runner, toucher, claims, rewinds>>
      BY <1>5, Zenon DEF SetBeatEnabled, HbTyped, Known, BeatRow
    <2>2. beat.next \in Nat /\ beat.every \in Periods
      BY <2>1, Zenon DEF HbTyped, Known, BeatRow
    <2>3. Known(beat)'
      BY <2>1, <2>2, RowWritten, Zenon DEF Known
    <2> QED
      BY <2>1, <2>3, Zenon DEF HbTyped, Known
  <1>6. CASE DeleteBeat
    <2>1. Known(beat)'
      BY <1>6, NoBeatKnown, Zenon DEF DeleteBeat, Known
    <2> QED
      BY <1>6, <2>1, Zenon DEF DeleteBeat, HbTyped, Known
  <1> QED
    BY <1>1, <1>2, <1>3, <1>4, <1>5, <1>6, Zenon

LEMMA ToucherTyped ==
    ASSUME HbTyped, NEW t \in Touchers, TouchRead(t) \/ TouchWrite(t) \/ TouchInsert(t)
    PROVE  HbTyped'
  <1> USE DEF HbQuiet
  <1>0. /\ Untouched.pc = "idle" /\ Untouched.row = NoBeat
        /\ Untouched \in [pc : {"idle", "write"}, row : BeatRow]
    BY NoBeatKnown, Zenon DEF Untouched
  <1>1. CASE TouchRead(t)
    <2>1. /\ toucher' \in [Touchers -> [pc : {"idle", "write"}, row : BeatRow]]
          /\ \A u \in Touchers : Known(toucher'[u].row)
      BY <1>1, Zenon DEF TouchRead, HbTyped, Known
    <2> QED
      BY <1>1, <2>1, Zenon DEF TouchRead, HbTyped, Known
  <1>2. /\ toucher' \in [Touchers -> [pc : {"idle", "write"}, row : BeatRow]]
        /\ \A u \in Touchers : Known(toucher'[u].row)
    BY <1>0, <1>1, NoBeatKnown, SMTT(30) DEF TouchWrite, TouchInsert, TouchDone, HbTyped, TouchRead, Known
  <1>3. CASE TouchWrite(t)
    <2>1. CASE beat.id = toucher[t].row.id
      <3> DEFINE old == toucher[t].row
      <3>1. old \in BeatRow /\ old # NoBeat /\ Known(old) /\ old.id \in 1 .. hbRows /\ hbRows \in Nat
        BY <1>3, HbAssumption DEF TouchWrite, HbTyped, Known, Ids
      <3>2. beat # NoBeat /\ beat.on \in BOOLEAN
        BY <2>1, <3>1 DEF HbTyped, Known, BeatRow, NoBeat
      <3>3. beat' = [id |-> beat.id, on |-> beat.on, next |-> old.next, every |-> old.every]
        BY <1>3, <2>1, <3>1, Zenon DEF TouchWrite, Touched, BeatRow
      <3>4. Known(beat)' /\ hbRows' = hbRows
        <4>1. old.next \in Nat /\ old.every \in Periods
          BY <3>1, Zenon DEF Known, BeatRow
        <4> HIDE DEF old
        <4>2. hbRows' = hbRows
          BY <1>3, Zenon DEF TouchWrite
        <4> QED
          BY <3>2, <3>3, <4>1, <4>2, RowWritten, Zenon DEF Known
      <3>5. rewinds' \in [Ids -> Nat]
        BY <1>3, <2>1, RewoundType, Zenon DEF TouchWrite
      <3> QED
        BY <1>2, <1>3, <3>4, <3>5, Zenon DEF TouchWrite, HbTyped, Known
    <2>2. CASE beat.id # toucher[t].row.id
      BY <1>2, <1>3, <2>2, Zenon DEF TouchWrite, HbTyped, Known
    <2> QED
      BY <2>1, <2>2, Zenon
  <1>4. CASE TouchInsert(t)
    <2>0. UNCHANGED <<clock, runner, claims, rewinds>>
      BY <1>4, Zenon DEF TouchInsert
    <2>1. CASE Insert(DefaultEvery)
      <3>1. /\ hbRows' \in Ids /\ Known(beat)'
            /\ \A b \in BeatRow : Known(b) => Known(b)'
        BY <2>1, InsertTyped, HbAssumption, Zenon
      <3>2. /\ \A r \in HbRunners : runner[r].job \in BeatRow
            /\ \A u \in Touchers : toucher'[u].row \in BeatRow
        BY <1>2, Zenon DEF HbTyped, RunStates
      <3> QED
        BY <1>2, <2>0, <3>1, <3>2, Zenon DEF HbTyped
    <2>2. CASE UNCHANGED <<beat, hbRows>>
      BY <1>2, <2>0, <2>2, Zenon DEF HbTyped, Known
    <2> QED
      BY <1>4, <2>1, <2>2, Zenon DEF TouchInsert
  <1> QED
    BY <1>1, <1>3, <1>4, Zenon

----------------------------------------------------------------------------
(* Steps of the workers.                                                   *)

LEMMA RestTyped == HbRest \in RunStates /\ HbRest.pc = "idle"
  BY NoBeatKnown, Zenon DEF HbRest, RunStates, RunPcs

\* The next run lies after the slot that is claimed.
LEMMA BeatMovesOn ==
    ASSUME HbTyped, NEW r \in HbRunners, runner[r].pc = "claim"
    PROVE  /\ HbNextRun(runner[r]) \in Nat
           /\ HbNextRun(runner[r]) > runner[r].job.next
           /\ <<runner[r].job.id, runner[r].job.next>> \in HbSlots
  <1>1. /\ runner[r].job.next \in Nat /\ runner[r].at \in Nat
        /\ runner[r].job.every \in Periods /\ runner[r].job.id \in 1 .. hbRows
        /\ runner[r].job.next <= runner[r].at /\ runner[r].at <= clock
    BY Zenon DEF HbTyped, Known, BeatRow, RunStates
  <1>2. runner[r].job.every \in Nat \ {0}
    BY <1>1, HbAssumption, Zenon
  <1>3. HbNextRun(runner[r]) \in Nat /\ HbNextRun(runner[r]) > runner[r].job.next
    BY <1>1, <1>2 DEF HbNextRun, Missed
  <1>4. clock \in 0 .. MaxClock /\ hbRows \in 1 .. MaxHbRows
    BY Zenon DEF HbTyped, HbTimes, Ids
  <1>5. runner[r].job.id \in Ids /\ runner[r].job.next \in HbTimes
    BY <1>1, <1>4, HbAssumption DEF Ids, HbTimes
  <1> QED
    BY <1>3, <1>5, Zenon DEF HbSlots

\* A step that changes only the run of one worker, and starts no claim.
LEMMA RunTyped ==
    ASSUME HbTyped, NEW r \in HbRunners, NEW w \in RunStates, w.pc # "claim",
           runner' = [runner EXCEPT ![r] = w],
           UNCHANGED <<clock, hbRows, beat, toucher, claims, rewinds>>
    PROVE  HbTyped'
  <1>1. runner' \in [HbRunners -> RunStates]
    BY Zenon DEF HbTyped
  <1>2. \A q \in HbRunners : runner'[q].pc = "claim" => runner'[q] = runner[q] /\ runner[q].pc = "claim"
    BY Zenon DEF HbTyped
  <1> QED
    BY <1>1, <1>2, Zenon DEF HbTyped, Known

LEMMA ExecuteTyped ==
    ASSUME HbTyped, NEW r \in HbRunners,
           \/ HbLost(r) \/ ExecuteRun(r) \/ RunBeatNow(r)
           \/ \E s \in {"none", "pending", "running"} : AbandonRun(r, s)
    PROVE  HbTyped'
  <1> USE DEF hbRowVars
  <1>0. /\ runner[r] \in RunStates /\ runner \in [HbRunners -> RunStates]
        /\ HbRest \in RunStates /\ HbRest.pc # "claim"
    BY RestTyped, Zenon DEF HbTyped
  <1>1. CASE HbLost(r)
    BY <1>0, <1>1, RunTyped, Zenon DEF HbLost
  <1>2. CASE RunBeatNow(r)
    <2>1. [runner[r] EXCEPT !.pc = "append"] \in RunStates
      BY <1>0, Zenon DEF RunStates, RunPcs
    <2>2. runner' = [runner EXCEPT ![r] = [runner[r] EXCEPT !.pc = "append"]]
      BY <1>0, <1>2, Zenon DEF RunBeatNow, HbGo
    <2>3. [runner[r] EXCEPT !.pc = "append"].pc # "claim"
      BY <1>0, Zenon DEF RunStates
    <2> QED
      BY <1>2, <2>1, <2>2, <2>3, RunTyped, Zenon DEF RunBeatNow
  <1>3. CASE RecordRun(r)
    <2> DEFINE w == [runner[r] EXCEPT !.pc = "publish", !.status = "running"]
    <2>1. w \in RunStates /\ w.pc # "claim"
      BY <1>0, Zenon DEF RunStates, RunPcs
    <2>2. runner' = [runner EXCEPT ![r] = w]
      BY <1>0, <1>3, Zenon DEF RecordRun
    <2> QED
      BY <1>3, <2>1, <2>2, RunTyped, Zenon DEF RecordRun
  <1>4. CASE MarkResult(r)
    BY <1>0, <1>4, RunTyped, Zenon DEF MarkResult
  <1>5. ASSUME NEW outcome \in {"skipped", "published", "failed"}, PublishBeat(r, outcome)
        PROVE  HbTyped'
    <2> DEFINE w == [runner[r] EXCEPT !.pc = outcome, !.sent = (outcome = "published")]
    <2>1. w \in RunStates /\ w.pc # "claim"
      BY <1>0, Zenon DEF RunStates, RunPcs
    <2>2. runner' = [runner EXCEPT ![r] = w]
      BY <1>0, <1>5, Zenon DEF PublishBeat
    <2> QED
      BY <1>5, <2>1, <2>2, RunTyped, Zenon DEF PublishBeat
  <1>6. ASSUME NEW s, AbandonRun(r, s) PROVE HbTyped'
    BY <1>0, <1>6, RunTyped, Zenon DEF AbandonRun
  <1> QED
    BY <1>1, <1>2, <1>3, <1>4, <1>5, <1>6, Zenon DEF ExecuteRun

LEMMA ScanTyped ==
    ASSUME HbTyped, NEW r \in HbRunners, HbScan(r)
    PROVE  HbTyped'
  <1> DEFINE w == [HbRest EXCEPT !.pc = "claim", !.job = beat, !.at = clock]
  <1>1. runner' = [runner EXCEPT ![r] = w] /\ UNCHANGED <<hbRowVars, claims>> /\ BeatDue
    BY Zenon DEF HbScan
  <1>2. beat # NoBeat
    BY <1>1 DEF BeatDue, NoBeat
  <1>3. Known(beat) /\ beat \in BeatRow /\ clock \in Nat
    BY HbAssumption DEF HbTyped, Known, HbTimes
  <1>4. /\ w \in RunStates /\ w.job = beat /\ w.at = clock
        /\ w.job.next <= w.at
    BY <1>1, <1>3, RestTyped, Zenon DEF RunStates, RunPcs, BeatDue
  <1> HIDE DEF w
  <1>5. /\ runner' \in [HbRunners -> RunStates]
        /\ \A q \in HbRunners : runner'[q] = w \/ runner'[q] = runner[q]
    BY <1>1, <1>4, Zenon DEF HbTyped
  <1> QED
    BY <1>1, <1>2, <1>3, <1>4, <1>5 DEF HbTyped, Known, hbRowVars

LEMMA ClaimTyped ==
    ASSUME HbTyped, NEW r \in HbRunners, HbClaim(r)
    PROVE  /\ HbTyped'
           /\ beat # NoBeat /\ beat' # NoBeat /\ beat'.id = beat.id /\ beat'.on = beat.on
           /\ beat'.next > beat.next
           /\ <<beat.id, beat.next>> \in HbSlots
           /\ claims' = [claims EXCEPT ![<<beat.id, beat.next>>] = @ + 1]
           /\ UNCHANGED <<hbRows, rewinds, switch>>
  <1>1. /\ runner[r].pc = "claim"
        /\ beat.id = runner[r].job.id /\ beat.next = runner[r].job.next
        /\ beat' = [beat EXCEPT !.next = HbNextRun(runner[r])]
        /\ claims' = [claims EXCEPT ![<<runner[r].job.id, runner[r].job.next>>] = @ + 1]
        /\ UNCHANGED <<clock, hbRows, toucher, rewinds, switch>>
    BY Zenon DEF HbClaim, HbClaimable
  <1>2. /\ HbNextRun(runner[r]) \in Nat /\ HbNextRun(runner[r]) > runner[r].job.next
        /\ <<runner[r].job.id, runner[r].job.next>> \in HbSlots
    BY <1>1, BeatMovesOn, Zenon
  <1>3. beat \in BeatRow /\ beat # NoBeat /\ beat.every \in Periods
    <2>1. runner[r].job.id # 0
      BY <1>1 DEF HbTyped, Known
    <2> QED
      BY <1>1, <2>1 DEF HbTyped, Known, NoBeat
  <1>4. beat' = [id |-> beat.id, on |-> beat.on, next |-> HbNextRun(runner[r]), every |-> beat.every]
    BY <1>1, <1>3, Zenon DEF BeatRow
  <1>5. beat.on \in BOOLEAN
    BY <1>3, Zenon DEF BeatRow
  <1>6. Known(beat)' /\ beat' # NoBeat
    BY <1>1, <1>2, <1>3, <1>4, <1>5, RowWritten, Zenon DEF Known
  <1>7. claims' \in [HbSlots -> Nat]
    BY <1>1, <1>2 DEF HbTyped
  <1>8. PICK w \in RunStates : w.pc # "claim" /\ runner' = [runner EXCEPT ![r] = w]
    <2>1. [HbRest EXCEPT !.pc = "append"] \in RunStates /\ [HbRest EXCEPT !.pc = "append"].pc # "claim"
      BY RestTyped, Zenon DEF RunStates, RunPcs
    <2>2. \/ runner' = [runner EXCEPT ![r] = HbRest]
          \/ runner' = [runner EXCEPT ![r] = [HbRest EXCEPT !.pc = "append"]]
      BY Zenon DEF HbClaim
    <2> QED
      BY <2>1, <2>2, RestTyped, Zenon
  <1>9. /\ runner' \in [HbRunners -> RunStates]
        /\ \A q \in HbRunners : runner'[q].pc = "claim" => runner'[q] = runner[q] /\ runner[q].pc = "claim"
    BY <1>8, Zenon DEF HbTyped
  <1>10. HbTyped'
    BY <1>1, <1>6, <1>7, <1>9, Zenon DEF HbTyped, Known
  <1>11. beat'.id = beat.id /\ beat'.next = HbNextRun(runner[r])
    BY <1>4, Zenon
  <1>12. beat'.on = beat.on
    BY <1>4, Zenon
  <1>13. beat'.next > beat.next
    BY <1>1, <1>2, <1>11, Zenon
  <1> QED
    BY <1>1, <1>2, <1>3, <1>6, <1>10, <1>11, <1>12, <1>13, Zenon

----------------------------------------------------------------------------
(* Type correctness.                                                       *)

LEMMA HbNextTyped == HbTyped /\ [HbNext]_hbVars => HbTyped'
  <1> SUFFICES ASSUME HbTyped, [HbNext]_hbVars PROVE HbTyped'
    BY Zenon
  <1>1. CASE UNCHANGED hbVars
    BY <1>1, Zenon DEF hbVars, HbTyped, Known
  <1>2. ASSUME NEW r \in HbRunners, HbRunTick(r) \/ RunBeatNow(r) \/ ExecuteRun(r)
        PROVE  HbTyped'
    BY <1>2, ScanTyped, ClaimTyped, ExecuteTyped, Zenon DEF HbRunTick
  <1>3. ASSUME NEW r \in HbRunners, NEW s \in {"none", "pending", "running"},
               AbandonRun(r, s)
        PROVE  HbTyped'
    BY <1>3, ExecuteTyped, Zenon
  <1>4. Beaters \subseteq HbRunners /\ RunNow \subseteq HbRunners
    BY Zenon DEF HbRunners
  <1> QED
    BY <1>1, <1>2, <1>3, <1>4, WriterTyped, ToucherTyped, Zenon DEF HbNext

\* In every reachable state the row has an id that was handed out and a positive
\* period, and a worker that is about to claim holds a slot that was due when
\* it listed the row.
THEOREM HbTypeCorrect == HbSpec => []HbTypeOK
  <1>1. HbTyped => HbTypeOK
    <2> SUFFICES ASSUME HbTyped PROVE HbTypeOK
      BY Zenon
    <2>1. clock \in 0 .. MaxClock
      BY Zenon DEF HbTyped, HbTimes
    <2>2. beat = NoBeat \/ (/\ beat.id \in 1 .. hbRows /\ beat.on \in BOOLEAN
                            /\ beat.every \in Periods /\ beat.next \in Nat)
      BY Zenon DEF HbTyped, Known, BeatRow
    <2>3. ASSUME NEW r \in HbRunners
          PROVE  /\ runner[r].pc \in RunPcs
                 /\ runner[r].pc = "claim" =>
                       /\ runner[r].job.id \in 1 .. hbRows
                       /\ runner[r].job.next <= runner[r].at /\ runner[r].at <= clock
      BY Zenon DEF HbTyped, Known, RunStates
    <2> QED
      BY <2>1, <2>2, <2>3, Zenon DEF HbTypeOK, RunPcs
  <1> QED
    BY <1>1, HbInitTyped, HbNextTyped, PTL DEF HbSpec

----------------------------------------------------------------------------
(* A slot is claimed once.                                                 *)

ClaimInv == HbTyped /\ ClaimsBehind /\ BeatClaimedOnce

\* Steps that leave claims, the row's next run and the counts alone.
LEMMA ClaimsKept ==
    ASSUME ClaimInv, UNCHANGED <<hbRows, claims, rewinds>>,
           beat' = NoBeat \/ (beat # NoBeat /\ beat'.id = beat.id /\ beat'.next = beat.next)
    PROVE  (ClaimsBehind /\ BeatClaimedOnce)'
  <1>1. BeatClaimedOnce'
    BY Zenon DEF ClaimInv, BeatClaimedOnce
  <1> QED
    BY <1>1, Zenon DEF ClaimInv, ClaimsBehind

\* A new row starts unclaimed.
LEMMA ClaimsInsert ==
    ASSUME ClaimInv, NEW e \in Periods, Insert(e), UNCHANGED <<claims, rewinds>>
    PROVE  (ClaimsBehind /\ BeatClaimedOnce)'
  <1>1. hbRows' = hbRows + 1 /\ hbRows \in Nat /\ hbRows' \in Ids /\ beat'.id = hbRows'
    BY InsertTyped, HbAssumption DEF ClaimInv, HbTyped, Ids
  <1>2. \A t \in HbTimes : claims[<<hbRows', t>>] = 0
    BY <1>1 DEF ClaimInv, ClaimsBehind, Ids
  <1>3. rewinds[hbRows'] \in Nat
    BY <1>1, Zenon DEF ClaimInv, HbTyped
  <1>4. \A i \in Ids : i \in Nat
    BY HbAssumption DEF Ids
  <1>5. ClaimsBehind'
    <2>1. \A i \in Ids, t \in HbTimes : i > hbRows' => claims'[<<i, t>>] = 0
      BY <1>1, <1>4 DEF ClaimInv, ClaimsBehind
    <2>2. \A t \in HbTimes : claims'[<<beat'.id, t>>] <= rewinds'[beat'.id]
      BY <1>1, <1>2, <1>3
    <2> QED
      BY <2>1, <2>2, Zenon DEF ClaimsBehind
  <1> QED
    BY <1>5, Zenon DEF ClaimInv, BeatClaimedOnce

\* A write that moves the next run back is counted.
LEMMA ClaimsRewound ==
    ASSUME ClaimInv, beat # NoBeat, beat'.id = beat.id, beat'.next \in Nat,
           rewinds' = Rewound(beat'.next), UNCHANGED <<hbRows, claims>>
    PROVE  (ClaimsBehind /\ BeatClaimedOnce)'
  <1>1. /\ rewinds' \in [Ids -> Nat] /\ rewinds \in [Ids -> Nat]
        /\ \A i \in Ids : rewinds'[i] >= rewinds[i]
        /\ beat.id \in Ids /\ beat'.next < beat.next => rewinds'[beat.id] = rewinds[beat.id] + 1
    BY RewoundType, Zenon DEF ClaimInv, HbTyped
  <1>2. beat.id \in Ids /\ beat.next \in Nat /\ claims \in [HbSlots -> Nat]
    BY HbAssumption DEF ClaimInv, HbTyped, Known, Ids, BeatRow
  <1>3. ASSUME NEW i \in Ids, NEW t \in HbTimes
        PROVE  claims[<<i, t>>] <= 1 + rewinds[i] /\ claims[<<i, t>>] \in Nat
    BY <1>2 DEF ClaimInv, BeatClaimedOnce, HbSlots
  <1>4. ASSUME NEW s \in HbSlots PROVE claims[s] <= 1 + rewinds'[s[1]]
    <2>1. s[1] \in Ids /\ s[2] \in HbTimes /\ s = <<s[1], s[2]>>
      BY DEF HbSlots
    <2>2. claims[s] <= 1 + rewinds[s[1]] /\ claims[s] \in Nat
      BY <2>1, <1>2, Zenon DEF ClaimInv, BeatClaimedOnce
    <2> QED
      BY <1>1, <2>1, <2>2
  <1>5. ASSUME NEW t \in HbTimes, t >= beat'.next
        PROVE  claims[<<beat.id, t>>] <= rewinds'[beat.id]
    <2>0. t \in Nat
      BY HbAssumption DEF HbTimes
    <2>1. CASE beat'.next < beat.next
      BY <1>1, <1>2, <1>3, <2>1
    <2>2. CASE ~(beat'.next < beat.next)
      <3>1. t >= beat.next
        BY <1>2, <1>5, <2>0, <2>2
      <3>2. claims[<<beat.id, t>>] <= rewinds[beat.id]
        BY <3>1, Zenon DEF ClaimInv, ClaimsBehind
      <3> QED
        BY <1>1, <1>2, <1>3, <3>2
    <2> QED
      BY <2>1, <2>2, Zenon
  <1>6. ClaimsBehind'
    BY <1>5, Zenon DEF ClaimInv, ClaimsBehind
  <1> QED
    BY <1>4, <1>6, Zenon DEF BeatClaimedOnce

\* A claim takes a slot that was not claimed since the last write that moved
\* the row back, and moves the next run past it.
LEMMA ClaimsClaim ==
    ASSUME ClaimInv, NEW r \in HbRunners, HbClaim(r)
    PROVE  (ClaimsBehind /\ BeatClaimedOnce)'
  <1> DEFINE slot == <<beat.id, beat.next>>
  <1>1. /\ HbTyped' /\ beat # NoBeat /\ beat' # NoBeat /\ beat'.id = beat.id
        /\ beat'.next > beat.next /\ slot \in HbSlots
        /\ claims' = [claims EXCEPT ![slot] = @ + 1]
        /\ UNCHANGED <<hbRows, rewinds>>
    BY ClaimTyped, Zenon DEF ClaimInv
  <1>2. /\ beat.id \in Ids /\ beat.id \in 1 .. hbRows /\ hbRows \in Nat
        /\ beat.next \in HbTimes /\ beat'.next \in Nat
        /\ claims \in [HbSlots -> Nat] /\ rewinds \in [Ids -> Nat]
        /\ \A i \in Ids : i \in Nat
        /\ \A t \in HbTimes : t \in Nat
    <2>1. /\ claims \in [HbSlots -> Nat] /\ rewinds \in [Ids -> Nat]
          /\ beat.id \in 1 .. hbRows /\ hbRows \in Ids
      BY <1>1, Zenon DEF ClaimInv, HbTyped, Known
    <2>2. beat.id \in Ids /\ beat.next \in HbTimes
      BY <1>1, Zenon DEF HbSlots
    <2>3. beat'.next \in Nat
      BY <1>1, Zenon DEF HbTyped, Known, BeatRow
    <2>4. /\ hbRows \in Nat
          /\ \A i \in Ids : i \in Nat
          /\ \A t \in HbTimes : t \in Nat
      BY <2>1, HbAssumption DEF HbTimes, Ids
    <2> QED
      BY <2>1, <2>2, <2>3, <2>4, Zenon
  <1>3. claims[slot] <= rewinds[beat.id]
    BY <1>1, <1>2 DEF ClaimInv, ClaimsBehind
  <1>4. ASSUME NEW s \in HbSlots PROVE claims'[s] <= 1 + rewinds[s[1]]
    <2>1. CASE s = slot
      BY <1>1, <1>2, <1>3, <2>1
    <2>2. CASE s # slot
      BY <1>1, <1>2, <2>2, Zenon DEF ClaimInv, BeatClaimedOnce
    <2> QED
      BY <2>1, <2>2, Zenon
  <1>5. ASSUME NEW i \in Ids, NEW t \in HbTimes, <<i, t>> # slot
        PROVE  claims'[<<i, t>>] = claims[<<i, t>>]
    BY <1>1, <1>2, <1>5, Zenon DEF HbSlots
  <1>6. ASSUME NEW i \in Ids, NEW t \in HbTimes, i > hbRows PROVE claims'[<<i, t>>] = 0
    <2>1. i # beat.id
      BY <1>2, <1>6
    <2> QED
      BY <1>5, <1>6, <2>1, Zenon DEF ClaimInv, ClaimsBehind
  <1>7. ASSUME NEW t \in HbTimes, t >= beat'.next
        PROVE  claims'[<<beat.id, t>>] <= rewinds[beat.id]
    <2>1. t # beat.next /\ t >= beat.next
      BY <1>1, <1>2, <1>7
    <2>2. claims'[<<beat.id, t>>] = claims[<<beat.id, t>>]
      BY <1>2, <1>5, <2>1, Zenon
    <2> QED
      BY <1>1, <2>1, <2>2, Zenon DEF ClaimInv, ClaimsBehind
  <1>8. ClaimsBehind'
    BY <1>1, <1>6, <1>7, Zenon DEF ClaimsBehind
  <1> QED
    BY <1>1, <1>4, <1>8, Zenon DEF BeatClaimedOnce

LEMMA ClaimNext == ClaimInv /\ [HbNext]_hbVars => ClaimInv'
  <1> SUFFICES ASSUME ClaimInv, [HbNext]_hbVars PROVE (ClaimsBehind /\ BeatClaimedOnce)'
    BY HbNextTyped, Zenon DEF ClaimInv
  <1> USE DEF HbQuiet, hbHistory, hbRowVars
  <1>0. /\ beat \in BeatRow /\ clock \in Nat
        /\ \A p \in Periods : p \in Nat
    BY HbAssumption DEF ClaimInv, HbTyped, Known, HbTimes
  <1>1. CASE \/ HbTick \/ ChangeSession \/ DeleteBeat \/ UNCHANGED hbVars
             \/ \E t \in Touchers : TouchRead(t)
             \/ \E r \in HbRunners : HbScan(r) \/ HbLost(r) \/ RunBeatNow(r) \/ ExecuteRun(r)
             \/ \E r \in HbRunners, s \in {"none", "pending", "running"} : AbandonRun(r, s)
    <2>1. UNCHANGED <<hbRows, claims, rewinds>> /\ (beat' = beat \/ beat' = NoBeat)
      BY <1>1, Zenon DEF HbTick, ChangeSession, DeleteBeat, hbVars, TouchRead, HbScan, HbLost,
                  RunBeatNow, ExecuteRun, RecordRun, MarkResult, PublishBeat, AbandonRun
    <2> QED
      BY <2>1, ClaimsKept, Zenon
  <1>2. ASSUME NEW p \in Periods, CreateBeat(p) PROVE (ClaimsBehind /\ BeatClaimedOnce)'
    BY <1>2, ClaimsInsert, Zenon DEF CreateBeat
  <1>3. ASSUME NEW p \in Periods, UpdateBeat(p) PROVE (ClaimsBehind /\ BeatClaimedOnce)'
    <2>1. /\ beat # NoBeat /\ beat'.id = beat.id /\ beat'.next = clock + p
          /\ rewinds' = Rewound(clock + p) /\ UNCHANGED <<hbRows, claims>>
      BY <1>0, <1>3, Zenon DEF UpdateBeat, BeatRow
    <2>2. clock + p \in Nat
      BY <1>0
    <2> QED
      BY <2>1, <2>2, ClaimsRewound, Zenon
  <1>4. ASSUME NEW on \in BOOLEAN, SetBeatEnabled(on) PROVE (ClaimsBehind /\ BeatClaimedOnce)'
    <2>1. /\ beat # NoBeat /\ beat'.id = beat.id /\ beat'.next = beat.next
          /\ UNCHANGED <<hbRows, claims, rewinds>>
      BY <1>0, <1>4, Zenon DEF SetBeatEnabled, BeatRow
    <2> QED
      BY <2>1, ClaimsKept, Zenon
  <1>5. ASSUME NEW t \in Touchers, TouchWrite(t) PROVE (ClaimsBehind /\ BeatClaimedOnce)'
    <2>0. toucher[t].row \in BeatRow /\ toucher[t].row # NoBeat /\ toucher[t].row.id # 0
      BY <1>5 DEF TouchWrite, ClaimInv, HbTyped, Known
    <2>1. CASE beat.id = toucher[t].row.id
      <3>1. /\ beat # NoBeat /\ beat'.id = beat.id /\ beat'.next = toucher[t].row.next
            /\ rewinds' = Rewound(toucher[t].row.next) /\ UNCHANGED <<hbRows, claims>>
        BY <1>5, <2>0, <2>1 DEF TouchWrite, Touched, BeatRow, NoBeat
      <3>2. toucher[t].row.next \in Nat
        BY <2>0, Zenon DEF BeatRow
      <3> QED
        BY <3>1, <3>2, ClaimsRewound, Zenon
    <2>2. CASE beat.id # toucher[t].row.id
      BY <1>5, <2>2, ClaimsKept, Zenon DEF TouchWrite
    <2> QED
      BY <2>1, <2>2, Zenon
  <1>6. ASSUME NEW t \in Touchers, TouchInsert(t) PROVE (ClaimsBehind /\ BeatClaimedOnce)'
    BY <1>6, ClaimsInsert, ClaimsKept, HbAssumption, Zenon DEF TouchInsert
  <1>7. ASSUME NEW r \in HbRunners, HbClaim(r) PROVE (ClaimsBehind /\ BeatClaimedOnce)'
    BY <1>7, ClaimsClaim, Zenon
  <1>8. Beaters \subseteq HbRunners /\ RunNow \subseteq HbRunners
    BY Zenon DEF HbRunners
  <1> QED
    BY <1>1, <1>2, <1>3, <1>4, <1>5, <1>6, <1>7, <1>8, Zenon DEF HbNext, HbRunTick

\* claim_next_heartbeat_run: whatever the workers, writers and faults, a slot is
\* claimed once, and once more at most for every write beside the workers that
\* moved the row's next run back.
THEOREM ClaimSafety == HbSpec => []BeatClaimedOnce
  <1>1. HbInit => ClaimInv
    <2> SUFFICES ASSUME HbInit PROVE ClaimInv
      BY Zenon
    <2>1. HbTyped /\ claims = [s \in HbSlots |-> 0]
      BY HbInitTyped, Zenon DEF HbInit
    <2>2. \A i \in Ids, t \in HbTimes : claims[<<i, t>>] = 0
      BY <2>1, Zenon DEF HbSlots
    <2>3. beat # NoBeat => beat.id \in Ids
      BY <2>1, HbAssumption DEF HbTyped, Known, Ids
    <2>4. ClaimsBehind
      BY <2>1, <2>2, <2>3 DEF ClaimsBehind, HbTyped
    <2>5. BeatClaimedOnce
      BY <2>1 DEF BeatClaimedOnce, HbTyped, HbSlots
    <2> QED
      BY <2>1, <2>4, <2>5, Zenon DEF ClaimInv
  <1>2. ClaimInv => BeatClaimedOnce
    BY Zenon DEF ClaimInv
  <1> QED
    BY <1>1, <1>2, ClaimNext, PTL DEF HbSpec

----------------------------------------------------------------------------
(* The switch holds.                                                       *)

SwitchInv == HbTyped /\ SwitchKnown /\ SwitchHolds

\* Steps that change neither the switch nor the row's identity and flag.
LEMMA SwitchKept ==
    ASSUME SwitchInv, UNCHANGED <<switch, hbRows>>,
           beat' = NoBeat \/ (beat'.id = beat.id /\ beat'.on = beat.on)
    PROVE  (SwitchKnown /\ SwitchHolds)'
  <1>1. SwitchKnown'
    BY Zenon DEF SwitchInv, SwitchKnown
  <1>2. SwitchHolds'
    BY DEF SwitchInv, SwitchHolds, NoBeat
  <1> QED
    BY <1>1, <1>2, Zenon

\* A new row is not the one that was switched.
LEMMA SwitchInsert ==
    ASSUME SwitchInv, NEW e \in Periods, Insert(e), UNCHANGED switch
    PROVE  (SwitchKnown /\ SwitchHolds)'
  <1>1. hbRows' = hbRows + 1 /\ hbRows \in Nat /\ beat'.id = hbRows'
    BY InsertTyped, HbAssumption DEF SwitchInv, HbTyped, Ids
  <1>2. switch \in [id : Nat, on : BOOLEAN] /\ switch.id \in Nat /\ switch.id <= hbRows
    BY Zenon DEF SwitchInv, SwitchKnown
  <1>3. SwitchKnown' /\ beat'.id # switch.id
    BY <1>1, <1>2 DEF SwitchKnown
  <1> QED
    BY <1>3, Zenon DEF SwitchHolds

LEMMA SwitchNext == SwitchInv /\ [HbNext]_hbVars => SwitchInv'
  <1> SUFFICES ASSUME SwitchInv, [HbNext]_hbVars PROVE (SwitchKnown /\ SwitchHolds)'
    BY HbNextTyped, Zenon DEF SwitchInv
  <1> USE DEF HbQuiet, hbHistory, hbRowVars
  <1>0. beat \in BeatRow
    BY Zenon DEF SwitchInv, HbTyped, Known
  <1>1. CASE \/ HbTick \/ ChangeSession \/ DeleteBeat \/ UNCHANGED hbVars
             \/ \E t \in Touchers : TouchRead(t)
             \/ \E r \in HbRunners : HbScan(r) \/ HbLost(r) \/ RunBeatNow(r) \/ ExecuteRun(r)
             \/ \E r \in HbRunners, s \in {"none", "pending", "running"} : AbandonRun(r, s)
    <2>1. UNCHANGED <<hbRows, switch>> /\ (beat' = beat \/ beat' = NoBeat)
      BY <1>1, Zenon DEF HbTick, ChangeSession, DeleteBeat, hbVars, TouchRead, HbScan, HbLost,
                  RunBeatNow, ExecuteRun, RecordRun, MarkResult, PublishBeat, AbandonRun
    <2> QED
      BY <2>1, SwitchKept, Zenon
  <1>2. ASSUME NEW p \in Periods, CreateBeat(p) PROVE (SwitchKnown /\ SwitchHolds)'
    BY <1>2, SwitchInsert, Zenon DEF CreateBeat
  <1>3. ASSUME NEW p \in Periods, UpdateBeat(p) PROVE (SwitchKnown /\ SwitchHolds)'
    <2>1. beat' = [beat EXCEPT !.every = p, !.next = clock + p] /\ UNCHANGED <<hbRows, switch>>
      BY <1>3, Zenon DEF UpdateBeat
    <2>2. beat'.id = beat.id /\ beat'.on = beat.on
      BY <1>0, <2>1, Zenon DEF BeatRow
    <2> QED
      BY <2>1, <2>2, SwitchKept, Zenon
  <1>4. ASSUME NEW on \in BOOLEAN, SetBeatEnabled(on) PROVE (SwitchKnown /\ SwitchHolds)'
    <2>1. /\ beat # NoBeat /\ switch' = [id |-> beat.id, on |-> on]
          /\ beat' = [beat EXCEPT !.on = on] /\ hbRows' = hbRows
      BY <1>4, Zenon DEF SetBeatEnabled
    <2>2. beat'.on = on /\ switch'.on = on
      BY <1>0, <2>1, Zenon DEF BeatRow
    <2>3. switch'.id \in Nat /\ switch'.id <= hbRows' /\ switch' \in [id : Nat, on : BOOLEAN]
      BY <2>1, HbAssumption DEF SwitchInv, HbTyped, Known, Ids
    <2> QED
      BY <2>2, <2>3, Zenon DEF SwitchKnown, SwitchHolds
  <1>5. ASSUME NEW t \in Touchers, TouchWrite(t) PROVE (SwitchKnown /\ SwitchHolds)'
    <2>0. toucher[t].row \in BeatRow /\ UNCHANGED <<switch, hbRows>>
      BY <1>5, Zenon DEF TouchWrite, SwitchInv, HbTyped
    <2>1. CASE beat.id = toucher[t].row.id
      <3>1. beat' = [toucher[t].row EXCEPT !.on = beat.on]
        BY <1>5, <2>1, Zenon DEF TouchWrite, Touched
      <3>2. beat'.id = beat.id /\ beat'.on = beat.on
        BY <2>0, <2>1, <3>1, Zenon DEF BeatRow
      <3> QED
        BY <2>0, <3>2, SwitchKept, Zenon
    <2>2. CASE beat.id # toucher[t].row.id
      BY <1>5, <2>0, <2>2, SwitchKept, Zenon DEF TouchWrite
    <2> QED
      BY <2>1, <2>2, Zenon
  <1>6. ASSUME NEW t \in Touchers, TouchInsert(t) PROVE (SwitchKnown /\ SwitchHolds)'
    BY <1>6, SwitchInsert, SwitchKept, HbAssumption, Zenon DEF TouchInsert
  <1>7. ASSUME NEW r \in HbRunners, HbClaim(r) PROVE (SwitchKnown /\ SwitchHolds)'
    BY <1>7, ClaimTyped, SwitchKept, Zenon DEF SwitchInv
  <1>8. Beaters \subseteq HbRunners /\ RunNow \subseteq HbRunners
    BY Zenon DEF HbRunners
  <1> QED
    BY <1>1, <1>2, <1>3, <1>4, <1>5, <1>6, <1>7, <1>8, Zenon DEF HbNext, HbRunTick

\* set_heartbeat_enabled: update_heartbeat leaves the flag alone, so no row read
\* before a switch and written back after it undoes the switch.
THEOREM SwitchSafety == HbSpec => []SwitchHolds
  <1>1. HbInit => SwitchInv
    <2> SUFFICES ASSUME HbInit PROVE SwitchInv
      BY Zenon
    <2>1. HbTyped /\ switch = [id |-> 0, on |-> FALSE] /\ hbRows = 1
      BY HbInitTyped, Zenon DEF HbInit
    <2>2. switch.id = 0 /\ SwitchKnown
      BY <2>1 DEF SwitchKnown
    <2>3. SwitchHolds
      BY <2>2, Zenon DEF SwitchHolds
    <2> QED
      BY <2>1, <2>2, <2>3, Zenon DEF SwitchInv
  <1>2. SwitchInv => SwitchHolds
    BY Zenon DEF SwitchInv
  <1> QED
    BY <1>1, <1>2, SwitchNext, PTL DEF HbSpec

----------------------------------------------------------------------------
(* The record of a run.                                                    *)

\* A run has sent its message exactly when it goes on to record so, and is marked
\* running from there on.
RunFacts(w) ==
    /\ w.sent <=> w.pc = "published"
    /\ w.status = IF w.pc \in {"publish", "skipped", "published", "failed"} THEN "running" ELSE "none"

BeatRecordInv ==
    /\ HbTyped /\ BeatRecorded
    /\ ended \in [status : {"none", "pending", "running", "failed", "success"}, message : BOOLEAN, sent : BOOLEAN]
    /\ \A r \in HbRunners : RunFacts(runner[r])

LEMMA RestFacts == RunFacts(HbRest) /\ RunFacts([HbRest EXCEPT !.pc = "append"])
  BY Zenon DEF RunFacts, HbRest

\* A step of one run that leaves the last record alone.
LEMMA RunStep ==
    ASSUME BeatRecordInv, HbTyped', NEW r \in HbRunners, NEW w, RunFacts(w),
           runner' = [runner EXCEPT ![r] = w], ended' = ended
    PROVE  BeatRecordInv'
  <1>1. \A q \in HbRunners : runner'[q] = w \/ runner'[q] = runner[q]
    BY Zenon DEF BeatRecordInv, HbTyped
  <1>2. \A q \in HbRunners : RunFacts(runner'[q])
    BY <1>1, Zenon DEF BeatRecordInv
  <1>3. BeatRecorded'
    BY Zenon DEF BeatRecordInv, BeatRecorded
  <1> QED
    BY <1>2, <1>3, Zenon DEF BeatRecordInv

\* A run ends with a record.
LEMMA RunEnds ==
    ASSUME BeatRecordInv, HbTyped', NEW r \in HbRunners, runner' = [runner EXCEPT ![r] = HbRest], BeatRecorded',
           ended' \in [status : {"none", "pending", "running", "failed", "success"}, message : BOOLEAN, sent : BOOLEAN]
    PROVE  BeatRecordInv'
  <1>1. \A q \in HbRunners : runner'[q] = HbRest \/ runner'[q] = runner[q]
    BY Zenon DEF BeatRecordInv, HbTyped
  <1>2. \A q \in HbRunners : RunFacts(runner'[q])
    BY <1>1, RestFacts, Zenon DEF BeatRecordInv
  <1> QED
    BY <1>2, Zenon DEF BeatRecordInv

LEMMA RecordRunner ==
    ASSUME BeatRecordInv, HbTyped', NEW r \in HbRunners,
           \/ HbRunTick(r) \/ RunBeatNow(r) \/ ExecuteRun(r)
           \/ \E s \in {"none", "pending", "running"} : AbandonRun(r, s)
    PROVE  BeatRecordInv'
  <1>0. /\ runner[r] \in RunStates /\ runner \in [HbRunners -> RunStates] /\ RunFacts(runner[r])
        /\ runner[r].sent \in BOOLEAN
    BY Zenon DEF BeatRecordInv, HbTyped, RunStates
  <1>1. CASE HbScan(r)
    <2> DEFINE w == [HbRest EXCEPT !.pc = "claim", !.job = beat, !.at = clock]
    <2>1. RunFacts(w)
      BY Zenon DEF RunFacts, HbRest
    <2>2. runner' = [runner EXCEPT ![r] = w] /\ ended' = ended
      BY <1>1, Zenon DEF HbScan
    <2> QED
      BY <2>1, <2>2, RunStep, Zenon
  <1>2. CASE HbClaim(r)
    <2>1. ended' = ended /\ \E w \in {HbRest, [HbRest EXCEPT !.pc = "append"]} : runner' = [runner EXCEPT ![r] = w]
      BY <1>2, Zenon DEF HbClaim
    <2> QED
      BY <2>1, RestFacts, RunStep, Zenon
  <1>3. CASE HbLost(r)
    BY <1>3, RestFacts, RunStep, Zenon DEF HbLost
  <1>4. CASE RunBeatNow(r)
    <2> DEFINE w == [runner[r] EXCEPT !.pc = "append"]
    <2>1. runner[r].pc = "idle" /\ runner' = [runner EXCEPT ![r] = w] /\ ended' = ended
      BY <1>0, <1>4, Zenon DEF RunBeatNow, HbGo
    <2>2. w.pc = "append" /\ w.status = runner[r].status /\ (w.sent <=> runner[r].sent)
      BY <1>0, Zenon DEF RunStates
    <2>3. RunFacts(w)
      BY <1>0, <2>1, <2>2, Zenon DEF RunFacts
    <2> QED
      BY <2>1, <2>3, RunStep, Zenon
  <1>5. CASE RecordRun(r)
    <2> DEFINE w == [runner[r] EXCEPT !.pc = "publish", !.status = "running"]
    <2>1. runner[r].pc = "append" /\ runner' = [runner EXCEPT ![r] = w] /\ ended' = ended
      BY <1>0, <1>5, Zenon DEF RecordRun
    <2>2. w.pc = "publish" /\ w.status = "running" /\ (w.sent <=> runner[r].sent)
      BY <1>0, Zenon DEF RunStates
    <2>3. RunFacts(w)
      BY <1>0, <2>1, <2>2, Zenon DEF RunFacts
    <2> QED
      BY <2>1, <2>3, RunStep, Zenon
  <1>6. ASSUME NEW outcome \in {"skipped", "published", "failed"}, PublishBeat(r, outcome)
        PROVE  BeatRecordInv'
    <2> DEFINE w == [runner[r] EXCEPT !.pc = outcome, !.sent = (outcome = "published")]
    <2>1. runner[r].pc = "publish" /\ runner' = [runner EXCEPT ![r] = w] /\ ended' = ended
      BY <1>0, <1>6, Zenon DEF PublishBeat
    <2>2. w.pc = outcome /\ w.status = runner[r].status /\ (w.sent <=> outcome = "published")
      BY <1>0, Zenon DEF RunStates
    <2>3. RunFacts(w)
      BY <1>0, <2>1, <2>2, Zenon DEF RunFacts
    <2> QED
      BY <2>1, <2>3, RunStep, Zenon
  <1>7. CASE MarkResult(r)
    <2>1. /\ runner' = [runner EXCEPT ![r] = HbRest]
          /\ runner[r].pc \in {"skipped", "published", "failed"}
          /\ ended' = [status |-> IF runner[r].pc = "failed" THEN "failed" ELSE "success",
                       message |-> runner[r].pc = "published", sent |-> runner[r].sent]
      BY <1>7, Zenon DEF MarkResult
    <2>2. /\ ended'.status = (IF runner[r].pc = "failed" THEN "failed" ELSE "success")
          /\ ended'.message <=> runner[r].pc = "published"
          /\ ended'.sent <=> runner[r].pc = "published"
          /\ ended'.message \in BOOLEAN /\ ended'.sent \in BOOLEAN
      BY <1>0, <2>1, Zenon DEF RunFacts
    <2>3. ended' \in [status : {"none", "pending", "running", "failed", "success"}, message : BOOLEAN, sent : BOOLEAN]
      BY <1>0, <2>1, Zenon
    <2>4. BeatRecorded'
      BY <2>2, Zenon DEF BeatRecorded
    <2> QED
      BY <2>1, <2>3, <2>4, RunEnds, Zenon
  <1>8. ASSUME NEW s \in {"none", "pending", "running"}, AbandonRun(r, s)  PROVE BeatRecordInv'
    <2>1. /\ runner' = [runner EXCEPT ![r] = HbRest]
          /\ s = runner[r].status \/ (runner[r].pc = "append" /\ s = "pending")
          /\ ended' = [status |-> s, message |-> FALSE, sent |-> runner[r].sent]
      BY <1>8, Zenon DEF AbandonRun
    <2>2. ended'.status = s /\ (ended'.sent <=> runner[r].sent)
      BY <1>0, <2>1, Zenon
    <2>3. s # "running" => ~runner[r].sent
      BY <1>0, <2>1, Zenon DEF RunFacts
    <2>4. BeatRecorded'
      BY <2>2, <2>3, Zenon DEF BeatRecorded
    <2>5. ended' \in [status : {"none", "pending", "running", "failed", "success"}, message : BOOLEAN, sent : BOOLEAN]
      BY <1>0, <2>1, Zenon
    <2> QED
      BY <2>1, <2>4, <2>5, RunEnds, Zenon
  <1> QED
    BY <1>1, <1>2, <1>3, <1>4, <1>5, <1>6, <1>7, <1>8, Zenon DEF HbRunTick, ExecuteRun

LEMMA BeatRecordNext == BeatRecordInv /\ [HbNext]_hbVars => BeatRecordInv'
  <1> SUFFICES ASSUME BeatRecordInv, [HbNext]_hbVars PROVE BeatRecordInv'
    BY Zenon
  <1>t. HbTyped'
    BY HbNextTyped, Zenon DEF BeatRecordInv
  <1>1. CASE \/ HbTick \/ ChangeSession \/ DeleteBeat \/ UNCHANGED hbVars
             \/ \E p \in Periods : CreateBeat(p) \/ UpdateBeat(p)
             \/ \E on \in BOOLEAN : SetBeatEnabled(on)
             \/ \E t \in Touchers : TouchRead(t) \/ TouchWrite(t) \/ TouchInsert(t)
    <2>1. runner' = runner /\ ended' = ended
      BY <1>1, Zenon DEF HbTick, ChangeSession, DeleteBeat, hbVars, CreateBeat, UpdateBeat, SetBeatEnabled,
                  TouchRead, TouchWrite, TouchInsert, HbQuiet, hbHistory
    <2> QED
      BY <1>t, <2>1, Zenon DEF BeatRecordInv, BeatRecorded
  <1>2. ASSUME NEW r \in HbRunners,
               \/ HbRunTick(r) \/ RunBeatNow(r) \/ ExecuteRun(r)
               \/ \E s \in {"none", "pending", "running"} : AbandonRun(r, s)
        PROVE  BeatRecordInv'
    BY <1>t, <1>2, RecordRunner, Zenon
  <1>3. Beaters \subseteq HbRunners /\ RunNow \subseteq HbRunners
    BY Zenon DEF HbRunners
  <1> QED
    BY <1>1, <1>2, <1>3, Zenon DEF HbNext

\* mark_heartbeat_task_result: whatever run stops, fails or is run by hand beside
\* another, its record says "success" with a message exactly when the message was
\* sent, and "failed", pending or nothing only when it was not.
THEOREM BeatRecordSafety == HbSpec => []BeatRecorded
  <1>1. HbInit => BeatRecordInv
    <2> SUFFICES ASSUME HbInit PROVE BeatRecordInv
      BY Zenon
    <2>1. HbTyped /\ (\A r \in HbRunners : runner[r] = HbRest) /\ ended = NoRun
      BY HbInitTyped, Zenon DEF HbInit
    <2>2. \A r \in HbRunners : RunFacts(runner[r])
      BY <2>1, RestFacts, Zenon
    <2> QED
      BY <2>1, <2>2, Zenon DEF BeatRecordInv, BeatRecorded, NoRun
  <1>2. BeatRecordInv => BeatRecorded
    BY Zenon DEF BeatRecordInv
  <1> QED
    BY <1>1, <1>2, BeatRecordNext, PTL DEF HbSpec
=============================================================================
