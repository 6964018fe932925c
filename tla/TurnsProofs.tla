---------------------------- MODULE TurnsProofs ----------------------------
(***************************************************************************)
(* Proofs about what a message goes through.                               *)
(* The reliable loop, for any sets of messages and workers, any retry      *)
(* limit and failure threshold, and any broker, fault and cancellation     *)
(* behaviour the constants allow: what an acknowledgement stands for, and  *)
(* how often a turn runs.                                                  *)
(* The rest of a turn, for any number of requests, callers, sessions and   *)
(* faults: the row of a webhook request tells what was sent, and to a      *)
(* session that was active; the counter and the state of the circuit       *)
(* breaker stay in range; a turn makes no call beyond its limits or after  *)
(* the user's signal; no tick of the background services sends an outbound *)
(* message twice.                                                          *)
(***************************************************************************)
EXTENDS ReliableLoop, Webhook, CircuitBreaker, AgentExecution, BackgroundServices,
        FiniteSetTheorems, TLAPS

----------------------------------------------------------------------------
(* The reliable loop.                                                      *)

(***************************************************************************)
(* The inductive invariant behind AckedHasOutcome and OnlyInvalidAborted:  *)
(* what a worker about to acknowledge knows about the message it holds,    *)
(* and what an entry of the idempotency store stands for.                  *)
(***************************************************************************)
SeenIsPublished == seen \subseteq published

WorkerKnows(w) ==
    /\ pc[w] \in {"success", "mark"} => cur[w] \in published
    /\ pc[w] = "ack" => cur[w] \in published \cup dead
    /\ pc[w] = "abort" => cur[w] \in Invalid

OutcomeInv ==
    /\ TypeOK
    /\ SeenIsPublished
    /\ \A w \in Workers : WorkerKnows(w)
    /\ OnlyInvalidAborted
    /\ AckedHasOutcome

(***************************************************************************)
(* The inductive invariant behind RunsWithinBudget: while a worker may     *)
(* still run the turn, the runs so far are fewer than its attempt counter. *)
(***************************************************************************)
RunLimit == IF MaxAttempts > 1 THEN MaxAttempts ELSE 1

WorkerBudget(w) ==
    /\ pc[w] \in {"idle", "dedupe"} => runs[w] = 0
    /\ pc[w] \in {"gate", "process"} =>
           /\ runs[w] < attempt[w]
           /\ runs[w] < RunLimit
           /\ runs[w] = 0 \/ attempt[w] <= MaxAttempts
    /\ pc[w] = "publish" => runs[w] <= attempt[w]
    /\ pc[w] = "sleep" => runs[w] <= attempt[w] /\ attempt[w] < MaxAttempts
    /\ runs[w] <= RunLimit

BudgetInv == TypeOK /\ \A w \in Workers : WorkerBudget(w)

(***************************************************************************)
(* The inductive invariant behind AnsweredOnce, for a single worker that   *)
(* is never cancelled.                                                     *)
(***************************************************************************)
Alone == ~Cancellable /\ \E w \in Workers : Workers = {w}

AnsweredIsSeen ==
    \A m \in published :
        m \in seen \/ \E w \in Workers : cur[w] = m /\ pc[w] \in {"success", "mark"}

UnansweredIsUnseen ==
    \A w \in Workers :
        pc[w] \in {"gate", "process", "publish", "sleep", "abort", "dlq"}
            => cur[w] \notin seen

OnceInv == TypeOK /\ AnsweredIsSeen /\ UnansweredIsUnseen /\ AnsweredOnce

----------------------------------------------------------------------------
(* Type correctness.                                                       *)

\* HandleRetryDecision moves its worker to one of four places.  Only the two
\* that lead back into the loop need attempts left, and only the validation
\* bucket (of the kinds the loop produces) reaches Abort.
LEMMA RetryDecisionShape ==
    ASSUME TypeOK, NEW w \in Workers, NEW kind, HandleRetryDecision(w, kind)
    PROVE  \/ /\ pc' = [pc EXCEPT ![w] = "gate"]
              /\ attempt[w] < MaxAttempts
              /\ attempt' = [attempt EXCEPT ![w] = attempt[w] + 1]
           \/ /\ pc' = [pc EXCEPT ![w] = "sleep"]
              /\ attempt[w] < MaxAttempts
              /\ attempt' = attempt
           \/ pc' = [pc EXCEPT ![w] = "dlq"] /\ attempt' = attempt
           \/ /\ pc' = [pc EXCEPT ![w] = "abort"]
              /\ attempt' = attempt
              /\ kind \in AbortKinds
  <1> DEFINE decision == Classify(kind, attempt[w])
  <1>1. attempt[w] \in Nat /\ MaxAttempts \in Nat
    BY PolicyAssumption, Zenon DEF TypeOK
  <1>2. \/ decision = "SendToDeadLetter"
        \/ decision = "Abort" /\ kind \in AbortKinds
        \/ decision = "RetryAfter" /\ attempt[w] < MaxAttempts
        \/ decision = "RetryNow" /\ attempt[w] < MaxAttempts
    BY <1>1 DEF Classify
  <1>3. /\ decision = "RetryNow" => pc' = [pc EXCEPT ![w] = "gate"]
        /\ decision = "RetryAfter" => pc' = [pc EXCEPT ![w] = "sleep"]
        /\ decision = "Abort" => pc' = [pc EXCEPT ![w] = "abort"]
        /\ decision = "SendToDeadLetter" => pc' = [pc EXCEPT ![w] = "dlq"]
    <2> HIDE DEF decision
    <2> QED BY Zenon DEF HandleRetryDecision, GoTo, decision
  <1>4. attempt' = IF decision = "RetryNow"
                   THEN [attempt EXCEPT ![w] = attempt[w] + 1] ELSE attempt
    BY Zenon DEF HandleRetryDecision
  <1> QED
    BY <1>2, <1>3, <1>4, Zenon

\* Every step of a worker keeps the types.
LEMMA StepTypes ==
    ASSUME TypeOK, NEW w \in Workers, Step(w)
    PROVE  TypeOK'
  <1> USE PolicyAssumption, LoopAssumption DEF TypeOK, Holding, GoTo, Return,
          broker, outputs, breaker, PCs
  <1>1. CASE Duplicate(w)
    BY <1>1, Zenon DEF Duplicate
  <1>2. CASE Fresh(w)
    BY <1>2, Zenon DEF Fresh
  <1>3. CASE Allowed(w)
    BY <1>3, Zenon DEF Allowed
  <1>4. CASE Denied(w)
    BY <1>4, RetryDecisionShape DEF Denied
  <1>5. CASE ProcessOk(w)
    BY <1>5 DEF ProcessOk
  <1>6. ASSUME NEW kind \in ProcessErrorKinds, ProcessError(w, kind)
        PROVE  TypeOK'
    <2>1. failures' \in Nat /\ open' \in BOOLEAN
      <3>1. CASE OnFailure
        BY <3>1 DEF OnFailure
      <3>2. CASE UNCHANGED breaker
        BY <3>2, Zenon
      <3> QED
        BY <1>6, <3>1, <3>2, Zenon DEF ProcessError
    <2>2. pc' \in [Workers -> PCs] /\ attempt' \in [Workers -> Nat]
      BY <1>6, RetryDecisionShape DEF ProcessError
    <2>3. pc[w] # "idle" /\ \A v \in Workers : v = w \/ pc'[v] = pc[v]
      BY <1>6, RetryDecisionShape DEF ProcessError
    <2>4. /\ UNCHANGED <<broker, seen, outputs, cur>>
          /\ runs' = [runs EXCEPT ![w] = runs[w] + 1]
      BY <1>6, Zenon DEF ProcessError
    <2> QED
      BY <2>1, <2>2, <2>3, <2>4
  <1>7. CASE PublishOk(w)
    BY <1>7, Zenon DEF PublishOk
  <1>8. CASE PublishErr(w)
    BY <1>8, RetryDecisionShape DEF PublishErr, OnFailure
  <1>9. CASE Success(w)
    <2>1. open' \in BOOLEAN
      BY <1>9, Zenon DEF Success, OnSuccess
    <2> QED
      BY <1>9, <2>1, Zenon DEF Success, OnSuccess
  <1>10. CASE MarkSeen(w)
    BY <1>10, Zenon DEF MarkSeen
  <1>11. CASE Wake(w)
    BY <1>11 DEF Wake
  <1>12. CASE DeadLetterOk(w)
    BY <1>12, Zenon DEF DeadLetterOk
  <1>13. CASE DeadLetterErr(w)
    BY <1>13, Zenon DEF DeadLetterErr
  <1>14. CASE AckOk(w)
    BY <1>14, Zenon DEF AckOk
  <1>15. CASE AckErr(w)
    BY <1>15, Zenon DEF AckErr
  <1> QED
    BY <1>1, <1>2, <1>3, <1>4, <1>5, <1>6, <1>7, <1>8, <1>9, <1>10, <1>11,
       <1>12, <1>13, <1>14, <1>15, Zenon DEF Step

LEMMA TypeInit == Init => TypeOK
  <1> SUFFICES ASSUME Init PROVE TypeOK
    BY Zenon
  <1>1. open \in BOOLEAN
    BY Zenon DEF Init
  <1> QED
    BY <1>1, LoopAssumption, Zenon DEF Init, TypeOK, PCs, Holding

LEMMA TypeNext == TypeOK /\ [Next]_vars => TypeOK'
  <1> SUFFICES ASSUME TypeOK, [Next]_vars PROVE TypeOK'
    BY Zenon
  <1> USE LoopAssumption DEF TypeOK, Holding, GoTo, Return, broker, outputs,
          breaker, PCs
  <1>1. ASSUME NEW m \in Msgs, Redeliver(m) PROVE TypeOK'
    BY <1>1, Zenon DEF Redeliver
  <1>2. ASSUME NEW w \in Workers, NEW m \in Msgs, Consume(w, m) PROVE TypeOK'
    BY <1>2, Zenon DEF Consume
  <1>3. ASSUME NEW w \in Workers, Step(w) PROVE TypeOK'
    BY <1>3, StepTypes, Zenon
  <1>4. ASSUME NEW w \in Workers, Cancel(w) PROVE TypeOK'
    BY <1>4, Zenon DEF Cancel
  <1>5. CASE IntervalElapses
    BY <1>5, Zenon DEF IntervalElapses
  <1>6. CASE UNCHANGED vars
    BY <1>6, Zenon DEF vars
  <1> QED
    BY <1>1, <1>2, <1>3, <1>4, <1>5, <1>6, Zenon DEF Next

\* Every reachable state of the loop is well typed; in particular a worker
\* past consume always holds a message.
THEOREM TypeCorrect == Spec => []TypeOK
  BY TypeInit, TypeNext, PTL DEF Spec

----------------------------------------------------------------------------
(* Acknowledged messages have an outcome.                                  *)

\* Every step of a worker keeps the outcome invariant.
LEMMA StepOutcome ==
    ASSUME OutcomeInv, NEW w \in Workers, Step(w)
    PROVE  OutcomeInv'
  <1>0. TypeOK /\ TypeOK'
    BY StepTypes, Zenon DEF OutcomeInv
  <1>a. /\ w \in DOMAIN pc /\ w \in DOMAIN cur
        /\ pc[w] # "idle" => cur[w] \in Msgs
    BY <1>0, Zenon DEF TypeOK, Holding
  <1> USE DEF OutcomeInv, SeenIsPublished, WorkerKnows, OnlyInvalidAborted,
          AckedHasOutcome, GoTo, Return, broker, outputs
  <1>1. CASE Duplicate(w)
    BY <1>0, <1>1, Zenon DEF Duplicate, TypeOK
  <1>2. CASE Fresh(w)
    BY <1>0, <1>2, Zenon DEF Fresh, TypeOK
  <1>3. CASE Allowed(w)
    BY <1>0, <1>3, Zenon DEF Allowed, TypeOK
  <1>4. CASE Denied(w)
    BY <1>0, <1>4, RetryDecisionShape DEF Denied, TypeOK, AbortKinds
  <1>5. CASE ProcessOk(w)
    BY <1>0, <1>5, Zenon DEF ProcessOk, TypeOK
  <1>6. ASSUME NEW kind \in ProcessErrorKinds, ProcessError(w, kind)
        PROVE  OutcomeInv'
    <2>1. /\ UNCHANGED <<broker, seen, outputs, cur>>
          /\ HandleRetryDecision(w, kind)
          /\ kind \in AbortKinds => cur[w] \in Invalid
      BY <1>6, Zenon DEF ProcessError, ProcessErrorKinds, AbortKinds
    <2> QED
      BY <1>0, <2>1, RetryDecisionShape DEF TypeOK
  <1>7. CASE PublishOk(w)
    BY <1>0, <1>7, Zenon DEF PublishOk, TypeOK
  <1>8. CASE PublishErr(w)
    BY <1>0, <1>8, RetryDecisionShape DEF PublishErr, TypeOK, AbortKinds
  <1>9. CASE Success(w)
    BY <1>0, <1>9, Zenon DEF Success, TypeOK
  <1>10. CASE MarkSeen(w)
    BY <1>0, <1>10, Zenon DEF MarkSeen, TypeOK
  <1>11. CASE Wake(w)
    BY <1>0, <1>11, Zenon DEF Wake, TypeOK
  <1>12. CASE DeadLetterOk(w)
    BY <1>0, <1>12, Zenon DEF DeadLetterOk, TypeOK
  <1>13. CASE DeadLetterErr(w)
    BY <1>0, <1>13, Zenon DEF DeadLetterErr, TypeOK
  <1>14. CASE AckOk(w)
    BY <1>0, <1>14 DEF AckOk, TypeOK
  <1>15. CASE AckErr(w)
    BY <1>0, <1>15, Zenon DEF AckErr, TypeOK
  <1> QED
    BY <1>1, <1>2, <1>3, <1>4, <1>5, <1>6, <1>7, <1>8, <1>9, <1>10, <1>11,
       <1>12, <1>13, <1>14, <1>15, Zenon DEF Step

LEMMA OutcomeInit == Init => OutcomeInv
  BY TypeInit, Zenon DEF Init, OutcomeInv, SeenIsPublished, WorkerKnows,
     OnlyInvalidAborted, AckedHasOutcome

LEMMA OutcomeNext == OutcomeInv /\ [Next]_vars => OutcomeInv'
  <1> SUFFICES ASSUME OutcomeInv, [Next]_vars PROVE OutcomeInv'
    BY Zenon
  <1>0. TypeOK /\ TypeOK'
    BY TypeNext, Zenon DEF OutcomeInv
  <1> USE DEF OutcomeInv, SeenIsPublished, WorkerKnows, OnlyInvalidAborted,
          AckedHasOutcome, GoTo, Return, broker, outputs
  <1>1. ASSUME NEW m \in Msgs, Redeliver(m) PROVE OutcomeInv'
    BY <1>0, <1>1, Zenon DEF Redeliver
  <1>2. ASSUME NEW w \in Workers, NEW m \in Msgs, Consume(w, m)
        PROVE  OutcomeInv'
    BY <1>0, <1>2, Zenon DEF Consume, TypeOK
  <1>3. ASSUME NEW w \in Workers, Step(w) PROVE OutcomeInv'
    BY <1>3, StepOutcome, Zenon
  <1>4. ASSUME NEW w \in Workers, Cancel(w) PROVE OutcomeInv'
    BY <1>0, <1>4, Zenon DEF Cancel, TypeOK
  <1>5. CASE IntervalElapses
    BY <1>0, <1>5, Zenon DEF IntervalElapses
  <1>6. CASE UNCHANGED vars
    BY <1>0, <1>6, Zenon DEF vars
  <1> QED
    BY <1>1, <1>2, <1>3, <1>4, <1>5, <1>6, Zenon DEF Next

LEMMA OutcomeAlways == Spec => []OutcomeInv
  BY OutcomeInit, OutcomeNext, PTL DEF Spec

\* run_once_reliable acknowledges a message only once it was answered,
\* dead-lettered or rejected by validation, on every path: the ordinary one,
\* the duplicate one, and after any mix of retries, denials, faults,
\* redeliveries and dropped futures of any number of workers.
THEOREM AckSafety == Spec => []AckedHasOutcome
  <1>1. OutcomeInv => AckedHasOutcome
    BY Zenon DEF OutcomeInv
  <1> QED
    BY OutcomeAlways, <1>1, PTL

\* Abort, the one decision that leaves no trace of a message, is taken only
\* for messages that fail validation.
THEOREM AbortSafety == Spec => []OnlyInvalidAborted
  <1>1. OutcomeInv => OnlyInvalidAborted
    BY Zenon DEF OutcomeInv
  <1> QED
    BY OutcomeAlways, <1>1, PTL

----------------------------------------------------------------------------
(* The loop implements Delivery.                                           *)

\* Every step of the loop is a step of Delivery or leaves its variables alone.
LEMMA StepRefines ==
    ASSUME OutcomeInv, OutcomeInv', [Next]_vars
    PROVE  [Promise!Next]_(Promise!vars)
  <1>0. TypeOK
    BY Zenon DEF OutcomeInv
  <1> USE DEF Promise!vars, Promise!Next, broker, outputs
  <1>1. ASSUME NEW m \in Msgs, Redeliver(m) PROVE UNCHANGED Promise!vars
    BY <1>1, Zenon DEF Redeliver
  <1>2. ASSUME NEW w \in Workers, NEW m \in Msgs, Consume(w, m)
        PROVE  UNCHANGED Promise!vars
    BY <1>2, Zenon DEF Consume
  <1>3. ASSUME NEW w \in Workers, Step(w)
        PROVE  [Promise!Next]_(Promise!vars)
    <2>1. CASE PublishOk(w)
      <3>1. cur[w] \in Msgs
        BY <1>0, <2>1, Zenon DEF PublishOk, TypeOK, Holding
      <3>2. Promise!Respond(cur[w])
        BY <2>1, Zenon DEF PublishOk, Promise!Respond
      <3> QED
        BY <3>1, <3>2, Zenon
    <2>2. CASE DeadLetterOk(w)
      <3>1. cur[w] \in Msgs
        BY <1>0, <2>2, Zenon DEF DeadLetterOk, TypeOK, Holding
      <3>2. Promise!DeadLetter(cur[w])
        BY <2>2, Zenon DEF DeadLetterOk, Promise!DeadLetter
      <3> QED
        BY <3>1, <3>2, Zenon
    <2>3. CASE AckOk(w)
      <3>1. cur[w] \in Msgs
        BY <1>0, <2>3, Zenon DEF AckOk, TypeOK, Holding
      <3>2. CASE pc[w] = "abort"
        <4>1. Promise!Abort(cur[w])
          BY <2>3, <3>2, Zenon DEF AckOk, Promise!Abort, OutcomeInv, WorkerKnows
        <4> QED
          BY <3>1, <4>1, Zenon
      <3>3. CASE pc[w] = "ack"
        <4>1. Promise!Ack(cur[w])
          BY <2>3, <3>3, Zenon DEF AckOk, Promise!Ack, OutcomeInv, WorkerKnows
        <4> QED
          BY <3>1, <4>1, Zenon
      <3> QED
        BY <2>3, <3>2, <3>3, Zenon DEF AckOk
    <2>4. CASE ~PublishOk(w) /\ ~DeadLetterOk(w) /\ ~AckOk(w)
      BY <1>3, <2>4, Zenon DEF Step, Duplicate, Fresh, Allowed, Denied, ProcessOk,
         ProcessError, PublishErr, Success, MarkSeen, Wake, DeadLetterErr, AckErr
    <2> QED
      BY <2>1, <2>2, <2>3, <2>4, Zenon
  <1>4. ASSUME NEW w \in Workers, Cancel(w) PROVE UNCHANGED Promise!vars
    BY <1>4, Zenon DEF Cancel
  <1>5. CASE IntervalElapses
    BY <1>5, Zenon DEF IntervalElapses
  <1>6. CASE UNCHANGED vars
    BY <1>6, Zenon DEF vars
  <1> QED
    BY <1>1, <1>2, <1>3, <1>4, <1>5, <1>6, Zenon DEF Next

\* The loop, with its workers, retries, breaker and idempotency store, keeps
\* the promise Delivery states without them.
THEOREM Refinement == Spec => ImplementsDelivery
  <1>1. Init => Promise!Init
    BY Zenon DEF Init, Promise!Init
  <1>2. OutcomeInv /\ OutcomeInv' /\ [Next]_vars => [Promise!Next]_(Promise!vars)
    BY StepRefines, Zenon
  <1> QED
    BY OutcomeAlways, <1>1, <1>2, PTL DEF Spec, ImplementsDelivery, Promise!Spec

----------------------------------------------------------------------------
(* The number of times one delivery runs the turn.                         *)

\* What a retry decision may do to the budget: it is taken after a run (or a
\* denial) that is within the attempt counter, and keeps it so.
LEMMA RetryKeepsBudget ==
    ASSUME TypeOK, NEW w \in Workers, NEW kind, HandleRetryDecision(w, kind),
           runs' \in [Workers -> Nat],
           runs'[w] <= attempt[w], runs'[w] <= RunLimit
    PROVE  WorkerBudget(w)'
  <1>1. /\ attempt[w] \in Nat /\ runs'[w] \in Nat /\ MaxAttempts \in Nat
        /\ pc \in [Workers -> PCs] /\ attempt \in [Workers -> Nat]
    BY PolicyAssumption, Zenon DEF TypeOK
  <1>2. CASE /\ pc' = [pc EXCEPT ![w] = "gate"]
             /\ attempt[w] < MaxAttempts
             /\ attempt' = [attempt EXCEPT ![w] = attempt[w] + 1]
    BY <1>1, <1>2 DEF WorkerBudget, RunLimit
  <1>3. CASE /\ pc' = [pc EXCEPT ![w] = "sleep"]
             /\ attempt[w] < MaxAttempts
             /\ attempt' = attempt
    BY <1>1, <1>3, Zenon DEF WorkerBudget, RunLimit
  <1>4. CASE pc'[w] \in {"dlq", "abort"} /\ attempt' = attempt
    BY <1>1, <1>4, Zenon DEF WorkerBudget, RunLimit
  <1> QED
    BY <1>1, <1>2, <1>3, <1>4, RetryDecisionShape, Zenon

\* A step of one worker leaves the budget of every other worker alone.
LEMMA OtherBudget ==
    ASSUME BudgetInv, NEW w \in Workers, NEW v \in Workers, v # w,
           Step(w) \/ Cancel(w) \/ \E m \in Msgs : Consume(w, m)
    PROVE  WorkerBudget(v)'
  <1>1. pc'[v] = pc[v] /\ attempt'[v] = attempt[v] /\ runs'[v] = runs[v]
    BY RetryDecisionShape, ZenonT(30)
    DEF BudgetInv, TypeOK, Step, Duplicate, Fresh, Allowed, Denied, ProcessOk,
        ProcessError, PublishOk, PublishErr, Success, MarkSeen, Wake,
        DeadLetterOk, DeadLetterErr, AckOk, AckErr, Cancel, Consume, Return, GoTo
  <1> QED
    BY <1>1, ZenonT(30) DEF BudgetInv, WorkerBudget

\* A step of a worker keeps its own budget.
LEMMA OwnBudget ==
    ASSUME BudgetInv, NEW w \in Workers, Step(w)
    PROVE  WorkerBudget(w)'
  <1>0. /\ TypeOK /\ WorkerBudget(w)
        /\ attempt[w] \in Nat /\ runs[w] \in Nat /\ MaxAttempts \in Nat
        /\ pc \in [Workers -> PCs] /\ attempt \in [Workers -> Nat]
        /\ runs \in [Workers -> Nat]
        /\ RunLimit \in Nat \ {0}
    BY PolicyAssumption DEF BudgetInv, TypeOK, RunLimit
  <1>1. CASE Duplicate(w) \/ Allowed(w) \/ PublishOk(w) \/ Success(w)
             \/ MarkSeen(w) \/ DeadLetterOk(w)
    BY <1>0, <1>1, Zenon DEF WorkerBudget, Duplicate, Allowed, PublishOk, Success,
       MarkSeen, DeadLetterOk, GoTo
  <1>2. CASE Fresh(w)
    <2>1. attempt'[w] >= 1 /\ attempt'[w] \in Nat
      <3>1. cur[w] \in Msgs
        BY <1>0, <1>2, Zenon DEF Fresh, TypeOK, Holding
      <3> QED
        BY <1>0, <1>2, <3>1, LoopAssumption DEF Fresh
    <2> QED
      BY <1>0, <1>2, <2>1 DEF Fresh, WorkerBudget, GoTo
  <1>3. CASE Denied(w)
    BY <1>0, <1>3, RetryKeepsBudget DEF Denied, WorkerBudget
  <1>4. CASE ProcessOk(w)
    BY <1>0, <1>4 DEF ProcessOk, WorkerBudget, GoTo
  <1>5. ASSUME NEW kind \in ProcessErrorKinds, ProcessError(w, kind)
        PROVE  WorkerBudget(w)'
    <2>1. runs' = [runs EXCEPT ![w] = runs[w] + 1] /\ pc[w] = "process"
      BY <1>5, Zenon DEF ProcessError
    <2>2. /\ runs' \in [Workers -> Nat]
          /\ runs'[w] <= attempt[w] /\ runs'[w] <= RunLimit
      BY <1>0, <2>1 DEF WorkerBudget
    <2> QED
      BY <1>0, <1>5, <2>2, RetryKeepsBudget, Zenon DEF ProcessError
  <1>6. CASE PublishErr(w)
    BY <1>0, <1>6, RetryKeepsBudget, Zenon DEF PublishErr, WorkerBudget
  <1>7. CASE Wake(w)
    BY <1>0, <1>7 DEF Wake, WorkerBudget, GoTo, RunLimit
  <1>8. CASE DeadLetterErr(w) \/ AckOk(w) \/ AckErr(w)
    BY <1>0, <1>8 DEF DeadLetterErr, AckOk, AckErr, Return, WorkerBudget, GoTo
  <1> QED
    BY <1>1, <1>2, <1>3, <1>4, <1>5, <1>6, <1>7, <1>8, Zenon DEF Step

LEMMA BudgetInit == Init => BudgetInv
  BY TypeInit, PolicyAssumption DEF Init, BudgetInv, WorkerBudget, RunLimit

LEMMA BudgetNext == BudgetInv /\ [Next]_vars => BudgetInv'
  <1> SUFFICES ASSUME BudgetInv, [Next]_vars PROVE BudgetInv'
    BY Zenon
  <1>0. TypeOK /\ TypeOK'
    BY TypeNext, Zenon DEF BudgetInv
  <1>1. ASSUME NEW m \in Msgs, Redeliver(m) PROVE BudgetInv'
    BY <1>0, <1>1, Zenon DEF Redeliver, BudgetInv, WorkerBudget
  <1>2. ASSUME NEW w \in Workers, NEW m \in Msgs, Consume(w, m)
        PROVE  BudgetInv'
    <2>1. WorkerBudget(w)'
      BY <1>0, <1>2, Zenon DEF Consume, GoTo, BudgetInv, WorkerBudget, TypeOK
    <2> QED
      BY <1>0, <1>2, <2>1, OtherBudget, Zenon DEF BudgetInv
  <1>3. ASSUME NEW w \in Workers, Step(w) PROVE BudgetInv'
    BY <1>0, <1>3, OwnBudget, OtherBudget, Zenon DEF BudgetInv
  <1>4. ASSUME NEW w \in Workers, Cancel(w) PROVE BudgetInv'
    <2>1. WorkerBudget(w)'
      BY <1>0, <1>4, PolicyAssumption
      DEF Cancel, Return, GoTo, WorkerBudget, TypeOK, RunLimit
    <2> QED
      BY <1>0, <1>4, <2>1, OtherBudget, ZenonT(30) DEF BudgetInv
  <1>5. CASE IntervalElapses
    BY <1>0, <1>5, Zenon DEF IntervalElapses, BudgetInv, WorkerBudget
  <1>6. CASE UNCHANGED vars
    BY <1>0, <1>6, Zenon DEF vars, BudgetInv, WorkerBudget
  <1> QED
    BY <1>1, <1>2, <1>3, <1>4, <1>5, <1>6, Zenon DEF Next

\* One delivery runs the turn, with its provider calls and tool side effects,
\* at most max_attempts times (once if the limit is zero), however the errors,
\* denials and publish failures are mixed.
THEOREM RunBudget == Spec => []RunsWithinBudget
  <1>1. BudgetInv => RunsWithinBudget
    BY Zenon DEF BudgetInv, WorkerBudget, RunsWithinBudget, RunLimit
  <1> QED
    BY BudgetInit, BudgetNext, <1>1, PTL DEF Spec

----------------------------------------------------------------------------
(* A single worker answers every message at most once.                     *)

LEMMA OnceInit == Init => OnceInv
  BY TypeInit, Zenon DEF Init, OnceInv, AnsweredIsSeen, UnansweredIsUnseen, AnsweredOnce

LEMMA OnceNext == Alone /\ OnceInv /\ [Next]_vars => OnceInv'
  <1> SUFFICES ASSUME Alone, OnceInv, [Next]_vars PROVE OnceInv'
    BY Zenon
  <1>0. TypeOK /\ TypeOK'
    BY TypeNext, Zenon DEF OnceInv
  <1>w. PICK w \in Workers : Workers = {w}
    BY Zenon DEF Alone
  <1> USE DEF OnceInv, AnsweredIsSeen, UnansweredIsUnseen, AnsweredOnce, GoTo,
          Return, broker, outputs
  <1>1. ASSUME NEW m \in Msgs, Redeliver(m) PROVE OnceInv'
    BY <1>0, <1>1, Zenon DEF Redeliver
  <1>2. ASSUME NEW m \in Msgs, Consume(w, m) PROVE OnceInv'
    BY <1>0, <1>w, <1>2, Zenon DEF Consume, TypeOK
  <1>3. CASE Step(w)
    <2>1. CASE \/ Duplicate(w) \/ Fresh(w) \/ Allowed(w) \/ ProcessOk(w)
               \/ Wake(w) \/ DeadLetterOk(w) \/ DeadLetterErr(w)
               \/ AckOk(w) \/ AckErr(w) \/ Success(w)
      <3>1. CASE Duplicate(w) \/ Fresh(w)
        BY <1>0, <1>w, <3>1, Zenon DEF Duplicate, Fresh, TypeOK
      <3>2. CASE Allowed(w) \/ ProcessOk(w)
        BY <1>0, <1>w, <3>2, Zenon DEF Allowed, ProcessOk, TypeOK
      <3>3. CASE Wake(w)
        BY <1>0, <1>w, <3>3, Zenon DEF Wake, TypeOK
      <3>4. CASE Success(w)
        BY <1>0, <1>w, <3>4, Zenon DEF Success, TypeOK
      <3>5. CASE DeadLetterOk(w)
        BY <1>0, <1>w, <3>5, Zenon DEF DeadLetterOk, TypeOK
      <3>6. CASE DeadLetterErr(w)
        BY <1>0, <1>w, <3>6, Zenon DEF DeadLetterErr, TypeOK
      <3>7. CASE AckOk(w)
        BY <1>0, <1>w, <3>7, Zenon DEF AckOk, TypeOK
      <3>8. CASE AckErr(w)
        BY <1>0, <1>w, <3>8, Zenon DEF AckErr, TypeOK
      <3> QED
        BY <2>1, <3>1, <3>2, <3>3, <3>4, <3>5, <3>6, <3>7, <3>8, Zenon
    <2>2. CASE Denied(w) \/ PublishErr(w)
      BY <1>0, <1>w, <2>2, RetryDecisionShape, Zenon DEF Denied, PublishErr, TypeOK
    <2>3. ASSUME NEW kind \in ProcessErrorKinds, ProcessError(w, kind)
          PROVE  OnceInv'
      BY <1>0, <1>w, <2>3, RetryDecisionShape, Zenon DEF ProcessError, TypeOK
    <2>4. CASE PublishOk(w)
      <3>1. cur[w] \notin published
        BY <1>w, <2>4, Zenon DEF PublishOk
      <3> QED
        BY <1>0, <1>w, <2>4, <3>1 DEF PublishOk, TypeOK
    <2>5. CASE MarkSeen(w)
      BY <1>0, <1>w, <2>5 DEF MarkSeen, TypeOK
    <2> QED
      BY <1>3, <2>1, <2>2, <2>3, <2>4, <2>5, ZenonT(30) DEF Step
  <1>4. ~Cancel(w)
    BY Zenon DEF Cancel, Alone
  <1>5. CASE IntervalElapses
    BY <1>0, <1>5, Zenon DEF IntervalElapses
  <1>6. CASE UNCHANGED vars
    BY <1>0, <1>6, Zenon DEF vars
  <1> QED
    BY <1>w, <1>1, <1>2, <1>3, <1>4, <1>5, <1>6, Zenon DEF Next

\* With one worker whose future is never dropped, no redelivery, retry or
\* transport fault makes the loop answer a message twice.  Both hypotheses are
\* needed: two workers race between seen and mark_seen, and a future dropped
\* after publish leaves the key unmarked.
THEOREM SingleWorkerAnswersOnce ==
    ASSUME Alone
    PROVE  Spec => []AnsweredOnce
  <1>1. OnceInv => AnsweredOnce
    BY Zenon DEF OnceInv
  <1>2. OnceInv /\ [Next]_vars => OnceInv'
    BY OnceNext, Zenon
  <1> QED
    BY OnceInit, <1>1, <1>2, PTL DEF Spec

----------------------------------------------------------------------------
(* Webhook requests.                                                       *)

\* Before its status is written the row says nothing about the answer.
RowOpen(r) == row[r].status \in {"none", "accepted"} /\ ~row[r].summary

\* What the task of a request knows at each of its steps: nothing was sent before
\* publish, a target for the answer is a session it saw active, and the result
\* it is about to write agrees with the turn and with what was sent.
JobFacts(r) ==
    /\ job[r].pc \notin {"none", "done"} => active \in wasActive[r]
    /\ call[r] # "answered" => job[r].pc = "none"
    /\ job[r].pc # "done" => RowOpen(r)
    /\ job[r].pc \in {"none", "channel", "session", "route", "turn", "publish"} =>
          hookSent[r] = <<>>
    /\ job[r].pc \in {"none", "channel", "session", "route"} => job[r].route = NoSession
    /\ job[r].pc \in {"turn", "publish"} =>
          IF job[r].to = "none" THEN job[r].route = NoSession
          ELSE job[r].route \in wasActive[r] /\ job[r].route # NoSession
    /\ job[r].pc = "publish" => job[r].to # "none"
    /\ job[r].pc \in {"publish", "persist"} => turned[r] = "answer"
    /\ job[r].pc = "persist" => (job[r].to # "none" => hookSent[r] # <<>>)
    /\ job[r].pc = "update" =>
          /\ job[r].result = "answer" => /\ turned[r] = "answer"
                                         /\ job[r].to # "none" => hookSent[r] # <<>>
          /\ job[r].result # "answer" => hookSent[r] = <<>>

RowFacts(r) ==
    /\ row[r].status = "failed" => hookSent[r] = <<>>
    /\ row[r].summary => /\ turned[r] = "answer"
                         /\ job[r].to # "none" => hookSent[r] # <<>>
    /\ hookSent[r] # <<>> /\ row[r].status = "processed" => row[r].summary

SentFacts(r) == \A i \in DOMAIN hookSent[r] : hookSent[r][i] \in wasActive[r]

HookInv ==
    /\ HookTypeOK
    /\ \A r \in Requests : JobFacts(r) /\ RowFacts(r) /\ SentFacts(r)

LEMMA HookInitOK == HookInit => HookInv
  <1> SUFFICES ASSUME HookInit PROVE HookInv
    BY Zenon
  <1>1. HookTypeOK
    BY HookAssumption DEF HookInit, HookTypeOK, Idle, NoRow, Targets, Calls, JobStates,
       HookPcs, RowStates
  <1>2. ASSUME NEW r \in Requests PROVE JobFacts(r) /\ RowFacts(r) /\ SentFacts(r)
    BY SMTT(30) DEF HookInit, JobFacts, RowFacts, SentFacts, RowOpen, Idle, NoRow
  <1> QED
    BY <1>1, <1>2, Zenon DEF HookInv

Facts(r) == JobFacts(r) /\ RowFacts(r) /\ SentFacts(r)

\* A request that a step does not touch keeps its facts: the sessions it has
\* seen only grow.
LEMMA FactsKept ==
    ASSUME NEW q \in Requests, Facts(q),
           call'[q] = call[q], job'[q] = job[q], row'[q] = row[q],
           hookSent'[q] = hookSent[q], turned'[q] = turned[q],
           wasActive[q] \subseteq wasActive'[q],
           active' = active \/ active' \in wasActive'[q] \/ job[q].pc \in {"none", "done"}
    PROVE  Facts(q)'
  BY DEF Facts, JobFacts, RowFacts, SentFacts, RowOpen

LEMMA HandlerTyped ==
    ASSUME HookTypeOK, NEW r \in Requests,
           \/ RefuseHook(r) \/ StartHook(r) \/ PromptMissing(r) \/ TouchExecution(r)
           \/ InsertRow(r) \/ SpawnHook(r) \/ HandlerFails(r) \/ HangUp(r)
    PROVE  HookTypeOK'
  <1> USE HookAssumption DEF HookTypeOK, hookHistory, Calls
  <1>1. CASE RefuseHook(r) \/ PromptMissing(r) \/ TouchExecution(r)
    BY <1>1, Zenon DEF RefuseHook, PromptMissing, TouchExecution
  <1>2. CASE StartHook(r)
    <2>1. job' \in [Requests -> JobStates]
      BY <1>2 DEF StartHook, JobStates
    <2> QED
      BY <1>2, <2>1, Zenon DEF StartHook
  <1>3. CASE InsertRow(r)
    <2>1. Accepted \in RowStates
      BY Zenon DEF Accepted, RowStates
    <2> QED
      BY <1>3, <2>1, Zenon DEF InsertRow
  <1>4. CASE SpawnHook(r)
    <2> DEFINE next == [job[r] EXCEPT !.pc = "channel"]
    <2>1. job[r] \in JobStates /\ job' = [job EXCEPT ![r] = next]
      BY <1>4, Zenon DEF SpawnHook
    <2>2. next \in JobStates
      BY <2>1, Zenon DEF JobStates, HookPcs
    <2> HIDE DEF next
    <2>3. job' \in [Requests -> JobStates]
      BY <2>1, <2>2, Zenon
    <2> QED
      BY <1>4, <2>3, Zenon DEF SpawnHook
  <1>5. CASE HandlerFails(r) \/ HangUp(r)
    BY <1>5 DEF HandlerFails, HangUp, Fault
  <1> QED
    BY <1>1, <1>2, <1>3, <1>4, <1>5, Zenon

LEMMA TaskTyped ==
    ASSUME HookInv, NEW r \in Requests, HookTask(r)
    PROVE  HookTypeOK'
  <1> USE DEF hookHistory, HookGoes
  <1>0. HookTypeOK
    BY Zenon DEF HookInv
  <1>1. job' \in [Requests -> JobStates]
    <2>1. /\ job \in [Requests -> JobStates] /\ job[r] \in JobStates
          /\ active \in Sessions \cup {NoSession}
      BY <1>0, Zenon DEF HookTypeOK
    <2> USE DEF JobStates, HookPcs
    <2>3. CASE CheckChannel(r) \/ CheckSession(r) \/ LookupFails(r)
      BY <2>1, <2>3 DEF CheckChannel, CheckSession, LookupFails
    <2>4. CASE ResolveRoute(r)
      BY <2>1, <2>4 DEF ResolveRoute
    <2>5. CASE ModelUnknown(r) \/ RunHookTurn(r)
      BY <2>1, <2>5 DEF ModelUnknown, RunHookTurn
    <2>6. CASE PublishHook(r) \/ PersistAnswer(r) \/ SubmitFails(r)
      BY <2>1, <2>6 DEF PublishHook, PersistAnswer, SubmitFails
    <2>7. CASE UpdateRow(r) \/ UpdateFails(r)
      BY <2>1, <2>7 DEF UpdateRow, UpdateFails
    <2> QED
      BY <2>3, <2>4, <2>5, <2>6, <2>7, Zenon DEF HookTask
  <1> USE HookAssumption DEF HookTypeOK
  <1>2. CASE CheckChannel(r) \/ CheckSession(r) \/ ResolveRoute(r) \/ ModelUnknown(r) \/ PersistAnswer(r)
    BY <1>0, <1>1, <1>2, Zenon DEF CheckChannel, CheckSession, ResolveRoute, ModelUnknown, PersistAnswer
  <1>3. CASE LookupFails(r) \/ SubmitFails(r) \/ UpdateFails(r)
    BY <1>0, <1>1, <1>3 DEF LookupFails, SubmitFails, UpdateFails, Fault
  <1>4. CASE RunHookTurn(r)
    BY <1>0, <1>1, <1>4 DEF RunHookTurn
  <1>5. CASE PublishHook(r)
    <2>1. /\ hookSent[r] = <<>> /\ job[r].route # NoSession
          /\ job[r].route \in Sessions \cup {NoSession}
      BY <1>5, Zenon DEF PublishHook, JobFacts, HookInv, JobStates
    <2>2. Append(<<>>, job[r].route) = <<job[r].route>>
      OBVIOUS
    <2>3. hookSent' \in [Requests -> {<<>>} \cup {<<s>> : s \in Sessions}]
      BY <1>0, <1>5, <2>1, <2>2, Zenon DEF PublishHook
    <2> QED
      BY <1>0, <1>1, <1>5, <2>3, Zenon DEF PublishHook
  <1>6. CASE UpdateRow(r)
    <2>1. HookUpdate(job[r].result) \in RowStates
      <3>1. (job[r].result = "answer") \in BOOLEAN
        BY Zenon
      <3> QED
        BY <3>1, Zenon DEF HookUpdate, RowStates
    <2> QED
      BY <1>0, <1>1, <1>6, <2>1, Zenon DEF UpdateRow
  <1> QED
    BY <1>2, <1>3, <1>4, <1>5, <1>6, Zenon DEF HookTask

LEMMA BesideTyped ==
    ASSUME HookTypeOK, SwitchSession \/ StopProcess
    PROVE  HookTypeOK'
  <1> USE HookAssumption DEF HookTypeOK
  <1>1. CASE SwitchSession
    BY <1>1 DEF SwitchSession
  <1>2. CASE StopProcess
    <2>1. job' \in [Requests -> JobStates]
      <3>1. ASSUME NEW q \in Requests PROVE [job[q] EXCEPT !.pc = "done"] \in JobStates
        BY DEF JobStates, HookPcs
      <3>2. ASSUME NEW q \in Requests PROVE job'[q] \in JobStates
        BY <1>2, <3>1, Zenon DEF StopProcess
      <3> QED
        BY <1>2, <3>2, Zenon DEF StopProcess
    <2> QED
      BY <1>2, <2>1 DEF StopProcess, Fault, Calls
  <1> QED
    BY <1>1, <1>2, Zenon

LEMMA HandlerFacts ==
    ASSUME HookInv, NEW r \in Requests,
           \/ RefuseHook(r) \/ StartHook(r) \/ PromptMissing(r) \/ TouchExecution(r)
           \/ InsertRow(r) \/ SpawnHook(r) \/ HandlerFails(r) \/ HangUp(r)
    PROVE  \A q \in Requests : Facts(q)'
  <1> SUFFICES ASSUME NEW q \in Requests PROVE Facts(q)'
    BY Zenon
  <1> USE DEF hookHistory
  <1>0. HookTypeOK /\ Facts(q) /\ Facts(r)
    BY Zenon DEF HookInv, Facts
  <1>1. CASE q # r
    BY <1>0, <1>1, FactsKept, Zenon DEF HookTypeOK, RefuseHook, StartHook, PromptMissing,
       TouchExecution, InsertRow, SpawnHook, HandlerFails, HangUp
  <1>2. CASE q = r
    <2>1. CASE RefuseHook(r) \/ PromptMissing(r) \/ TouchExecution(r) \/ HandlerFails(r) \/ HangUp(r)
      BY <1>0, <1>2, <2>1, Zenon DEF HookTypeOK, RefuseHook, PromptMissing, TouchExecution,
         HandlerFails, HangUp, Facts, JobFacts, RowFacts, SentFacts, RowOpen
    <2>2. CASE StartHook(r)
      BY <1>0, <1>2, <2>2 DEF HookTypeOK, StartHook, Facts, JobFacts, RowFacts, SentFacts, RowOpen
    <2>3. CASE InsertRow(r)
      BY <1>0, <1>2, <2>3, Zenon DEF HookTypeOK, InsertRow, Accepted, Facts, JobFacts, RowFacts,
         SentFacts, RowOpen
    <2>4. CASE SpawnHook(r)
      BY <1>0, <1>2, <2>4 DEF HookTypeOK, SpawnHook, Facts, JobFacts, RowFacts, SentFacts, RowOpen
    <2> QED
      BY <2>1, <2>2, <2>3, <2>4, Zenon
  <1> QED
    BY <1>1, <1>2, Zenon

LEMMA TaskFacts ==
    ASSUME HookInv, NEW r \in Requests, HookTask(r)
    PROVE  \A q \in Requests : Facts(q)'
  <1> SUFFICES ASSUME NEW q \in Requests PROVE Facts(q)'
    BY Zenon
  <1> USE DEF hookHistory, HookGoes
  <1>0. HookTypeOK /\ Facts(q) /\ Facts(r)
    BY Zenon DEF HookInv, Facts
  <1>1. CASE q # r
    BY <1>0, <1>1, FactsKept, Zenon DEF HookTypeOK, HookTask, CheckChannel, CheckSession, LookupFails,
       ResolveRoute, ModelUnknown, RunHookTurn, PublishHook, PersistAnswer, SubmitFails,
       UpdateRow, UpdateFails
  <1>2. CASE q = r
    <2> USE DEF Facts, JobFacts, RowFacts, SentFacts, RowOpen
    <2>0. /\ job[r] \in JobStates /\ job \in [Requests -> JobStates]
          /\ row \in [Requests -> RowStates] /\ hookSent \in [Requests -> {<<>>} \cup {<<s>> : s \in Sessions}]
          /\ turned \in [Requests -> {"none", "answer", "silent", "failed"}]
          /\ call \in [Requests -> Calls]
      BY <1>0, Zenon DEF HookTypeOK
    <2>1. CASE CheckChannel(r) \/ CheckSession(r) \/ LookupFails(r)
      BY <1>0, <1>2, <2>0, <2>1 DEF CheckChannel, CheckSession, LookupFails, JobStates
    <2>2. CASE ResolveRoute(r)
      <3>1. active \in wasActive[r]
        BY <1>0, <2>2, Zenon DEF ResolveRoute
      <3> QED
        BY <1>0, <1>2, <2>0, <2>2, <3>1 DEF ResolveRoute, JobStates
    <2>3. CASE ModelUnknown(r) \/ SubmitFails(r)
      BY <1>0, <1>2, <2>0, <2>3 DEF ModelUnknown, SubmitFails, JobStates
    <2>4. CASE RunHookTurn(r)
      BY <1>0, <1>2, <2>0, <2>4 DEF RunHookTurn, JobStates
    <2>5. CASE PublishHook(r)
      <3>1. hookSent[r] = <<>> /\ job[r].route \in wasActive[r]
        BY <1>0, <2>5, Zenon DEF PublishHook
      <3>2. hookSent'[r] = <<job[r].route>>
        BY <2>0, <2>5, <3>1 DEF PublishHook
      <3>3. hookSent'[r] # <<>> /\ SentFacts(r)'
        BY <2>5, <3>1, <3>2 DEF PublishHook
      <3>4. job'[r].pc = "persist" /\ job'[r].to = job[r].to
        BY <2>0, <2>5, Zenon DEF PublishHook, JobStates
      <3>5. job[r].pc = "publish" /\ UNCHANGED <<active, call, row, wasActive, turned>>
        BY <2>5, Zenon DEF PublishHook
      <3> HIDE DEF SentFacts
      <3>6. JobFacts(r)'
        BY <1>0, <3>3, <3>4, <3>5, Zenon
      <3>7. RowFacts(r)'
        BY <1>0, <3>3, <3>4, <3>5, Zenon
      <3> QED
        BY <1>2, <3>3, <3>6, <3>7, Zenon
    <2>6. CASE PersistAnswer(r)
      BY <1>0, <1>2, <2>0, <2>6 DEF PersistAnswer, JobStates
    <2>7. CASE UpdateRow(r)
      BY <1>0, <1>2, <2>0, <2>7, ZenonT(30) DEF UpdateRow, HookUpdate, JobStates, RowStates
    <2>8. CASE UpdateFails(r)
      BY <1>0, <1>2, <2>0, <2>8 DEF UpdateFails, JobStates
    <2> QED
      BY <2>1, <2>2, <2>3, <2>4, <2>5, <2>6, <2>7, <2>8, Zenon DEF HookTask
  <1> QED
    BY <1>1, <1>2, Zenon

LEMMA BesideFacts ==
    ASSUME HookInv, SwitchSession \/ StopProcess
    PROVE  \A q \in Requests : Facts(q)'
  <1> SUFFICES ASSUME NEW q \in Requests PROVE Facts(q)'
    BY Zenon
  <1>0. HookTypeOK /\ Facts(q)
    BY Zenon DEF HookInv, Facts
  <1>1. CASE SwitchSession
    <2>1. PICK s : /\ active' = s
                   /\ wasActive' = [r \in Requests |-> IF job[r].pc \in {"none", "done"} THEN wasActive[r]
                                                      ELSE wasActive[r] \cup {s}]
      BY <1>1, Zenon DEF SwitchSession
    <2>2. /\ wasActive[q] \subseteq wasActive'[q]
          /\ active' \in wasActive'[q] \/ job[q].pc \in {"none", "done"}
      BY <2>1, Zenon
    <2> QED
      BY <1>0, <1>1, <2>2, FactsKept, Zenon DEF SwitchSession
  <1>2. CASE StopProcess
    <2>1. /\ UNCHANGED <<active, row, hookSent, wasActive, turned>>
          /\ call'[q] = "answered" <=> call[q] = "answered"
          /\ job[q].pc = "none" => job'[q] = job[q]
          /\ job[q].pc # "none" => job'[q].pc = "done" /\ job'[q].to = job[q].to
      BY <1>0, <1>2 DEF StopProcess, HookTypeOK, JobStates
    <2>2. JobFacts(q)'
      BY <1>0, <2>1, Zenon DEF Facts, JobFacts, RowOpen
    <2>3. RowFacts(q)' /\ SentFacts(q)'
      BY <1>0, <2>1, Zenon DEF Facts, RowFacts, SentFacts
    <2> QED
      BY <2>2, <2>3, Zenon DEF Facts
  <1> QED
    BY <1>1, <1>2, Zenon

LEMMA HookNextOK == HookInv /\ [HookNext]_hookVars => HookInv'
  <1> SUFFICES ASSUME HookInv, [HookNext]_hookVars
               PROVE  HookTypeOK' /\ \A q \in Requests : Facts(q)'
    BY ZenonT(30) DEF HookInv, Facts
  <1>1. CASE UNCHANGED hookVars
    BY <1>1 DEF hookVars, HookInv, HookTypeOK, Facts, JobFacts, RowFacts, SentFacts, RowOpen
  <1>2. CASE HookNext
    BY <1>2, HandlerTyped, TaskTyped, BesideTyped, HandlerFacts, TaskFacts, BesideFacts, Zenon
    DEF HookNext, HookInv
  <1> QED
    BY <1>1, <1>2, Zenon

\* The invariant of a webhook delivery's row, its handler and its spawned task holds
\* for any requests and sessions.
THEOREM HookInvariant == HookSpec => []HookInv
  BY HookInitOK, HookNextOK, PTL DEF HookSpec

\* The rows, the tasks and the calls of webhook requests keep their types.
THEOREM HookTypeCorrect == HookSpec => []HookTypeOK
  <1>1. HookInv => HookTypeOK
    BY Zenon DEF HookInv
  <1> QED
    BY <1>1, HookInvariant, PTL

\* The row of a webhook request tells what left the process, for any number of
\* requests, faults and changes of the session: submit_webhook_isolated_turn
\* fails only before it publishes.
THEOREM HookStatusSafety == HookSpec => []HookStatusTruthful
  <1>1. HookInv => HookStatusTruthful
    <2> SUFFICES ASSUME HookInv, NEW r \in Requests
                 PROVE  /\ row[r].status = "failed" => hookSent[r] = <<>>
                        /\ row[r].summary => /\ turned[r] = "answer"
                                             /\ job[r].to # "none" => Len(hookSent[r]) = 1
                        /\ hookSent[r] # <<>> /\ row[r].status = "processed" => row[r].summary
      BY Zenon DEF HookStatusTruthful
    <2>1. RowFacts(r) /\ hookSent[r] \in {<<>>} \cup {<<s>> : s \in Sessions}
      BY Zenon DEF HookInv, HookTypeOK
    <2>2. hookSent[r] # <<>> => Len(hookSent[r]) = 1
      BY <2>1
    <2> QED
      BY <2>1, <2>2, Zenon DEF RowFacts
  <1> QED
    BY <1>1, HookInvariant, PTL

\* resolve_webhook_delivery_route: an answer goes to a session the base session
\* had active while the request was processed.
THEOREM HookRouteSafety == HookSpec => []HookSentToActive
  <1>1. HookInv => HookSentToActive
    BY Zenon DEF HookInv, HookSentToActive, SentFacts
  <1> QED
    BY <1>1, HookInvariant, PTL

----------------------------------------------------------------------------
(* The circuit breaker.                                                    *)

\* Callers that have seen the counter trip and not reset it yet.
Tripped == {t \in Threads : caller[t] \in {"open", "reset"}}

LEMMA TrippedFinite == IsFiniteSet(Tripped) /\ Cardinality(Tripped) \in Nat
  <1>1. Tripped \subseteq Threads
    BY Zenon DEF Tripped
  <1> QED
    BY <1>1, BreakerAssumption, FS_Subset, FS_CardinalityType, Zenon

LEMMA BreakerNextTyped == BreakerTypeOK /\ [BreakerNext]_breakerVars => BreakerTypeOK'
  BY BreakerAssumption, PolicyAssumption
  DEF BreakerTypeOK, BreakerNext, breakerVars, CallerStep, Succeed, Fail, AllowRequest,
      SuccessResets, SuccessCloses, FailureCounts, FailureOpens, FailureResets, Tick,
      CallerGoesTo

\* The atomics of the breaker keep their ranges, however the callers interleave.
THEOREM BreakerTypeCorrect == BreakerSpec => []BreakerTypeOK
  <1>1. BreakerInit => BreakerTypeOK
    BY BreakerAssumption DEF BreakerInit, BreakerTypeOK
  <1> QED
    BY <1>1, BreakerNextTyped, PTL DEF BreakerSpec

LEMMA BreakerStepBounded ==
    ASSUME BreakerTypeOK, FailuresBounded, BreakerNext
    PROVE  FailuresBounded'
  <1> USE DEF BreakerTypeOK, CallerGoesTo
  <1>0. /\ consecutiveFailures \in Nat /\ FailureThreshold \in Nat \ {0}
        /\ consecutiveFailures < FailureThreshold + Cardinality(Tripped)
        /\ IsFiniteSet(Tripped) /\ Cardinality(Tripped) \in Nat
    BY TrippedFinite, PolicyAssumption, Zenon DEF FailuresBounded, Tripped
  <1>1. Cardinality(Tripped') \in Nat
    <2>1. Tripped' \subseteq Threads
      BY Zenon DEF Tripped
    <2> QED
      BY <2>1, BreakerAssumption, FS_Subset, FS_CardinalityType, Zenon
  <1>2. SUFFICES consecutiveFailures' < FailureThreshold + Cardinality(Tripped')
    BY Zenon DEF FailuresBounded, Tripped
  <1>3. CASE Tick
    <2>1. Tripped' = Tripped
      BY <1>3, Zenon DEF Tick, Tripped
    <2> QED
      BY <1>0, <1>3, <2>1, Zenon DEF Tick
  <1>4. ASSUME NEW t \in Threads, AllowRequest(t) \/ SuccessCloses(t) \/ FailureOpens(t)
        PROVE  consecutiveFailures' < FailureThreshold + Cardinality(Tripped')
    <2>1. Tripped' = Tripped
      BY <1>4, Zenon DEF AllowRequest, SuccessCloses, FailureOpens, Tripped
    <2> QED
      BY <1>0, <1>4, <2>1, Zenon DEF AllowRequest, SuccessCloses, FailureOpens
  <1>5. ASSUME NEW t \in Threads, SuccessResets(t) \/ FailureResets(t)
        PROVE  consecutiveFailures' < FailureThreshold + Cardinality(Tripped')
    BY <1>0, <1>1, <1>5 DEF SuccessResets, FailureResets
  <1>6. ASSUME NEW t \in Threads, FailureCounts(t)
        PROVE  consecutiveFailures' < FailureThreshold + Cardinality(Tripped')
    <2>1. CASE ~Trips(consecutiveFailures + 1)
      BY <1>0, <1>1, <1>6, <2>1 DEF FailureCounts, Trips
    <2>2. CASE Trips(consecutiveFailures + 1)
      <3>1. Tripped' = Tripped \cup {t} /\ t \notin Tripped
        BY <1>6, <2>2, Zenon DEF FailureCounts, Tripped
      <3>2. Cardinality(Tripped') = Cardinality(Tripped) + 1
        BY <1>0, <3>1, FS_AddElement, Zenon
      <3> QED
        BY <1>0, <1>6, <3>2 DEF FailureCounts
    <2> QED
      BY <2>1, <2>2, Zenon
  <1> QED
    BY <1>3, <1>4, <1>5, <1>6, Zenon DEF BreakerNext, CallerStep, Succeed, Fail

\* For any number of callers the failure counter exceeds the last harmless
\* value only by callers that are about to reset it, although on_failure and
\* on_success take no lock.
THEOREM BreakerBounded == BreakerSpec => []FailuresBounded
  <1>1. BreakerInit => FailuresBounded
    <2> SUFFICES ASSUME BreakerInit PROVE FailuresBounded
      BY Zenon
    <2>1. consecutiveFailures = 0 /\ Cardinality(Tripped) \in Nat
      BY TrippedFinite, Zenon DEF BreakerInit
    <2> QED
      BY <2>1, PolicyAssumption DEF FailuresBounded, Tripped
  <1>2. BreakerTypeOK /\ FailuresBounded /\ [BreakerNext]_breakerVars => FailuresBounded'
    <2>1. CASE UNCHANGED breakerVars
      BY <2>1, Zenon DEF breakerVars, FailuresBounded
    <2> QED
      BY <2>1, BreakerStepBounded, Zenon
  <1> QED
    BY <1>1, <1>2, BreakerTypeCorrect, PTL DEF BreakerSpec

----------------------------------------------------------------------------
(* One turn of the agent.                                                  *)

\* Where the executed calls are: none belongs to the request that is under way,
\* and of the answer that is worked on only the first seq were looked at.
CallsBehind ==
    \A e \in executed :
        /\ e \in Nat \X Nat
        /\ e[1] <= iteration
        /\ turn \in {"request", "drain"} => e[1] < iteration
        /\ turn = "tools" => e[1] < iteration \/ e[2] <= seq

\* Every executed call was counted, and an uncounted limit is an ended turn.
CallsCounted ==
    /\ IsFiniteSet(executed) /\ Cardinality(executed) <= calls
    /\ limits.calls > 0 /\ turn # "ToolLoopExhausted" => calls <= limits.calls

ExecInv ==
    /\ ExecTypeOK
    /\ CallsBehind
    /\ CallsCounted
    /\ LimitsHold
    /\ SignalEndsTurn
    /\ StreamShowsCurrent

LEMMA ExecInitOK == ExecInit => ExecInv
  <1> SUFFICES ASSUME ExecInit PROVE ExecInv
    BY Zenon
  <1>1. executed = {} /\ raised = {} /\ turn = "loop" /\ IsFiniteSet({}) /\ Cardinality({}) = 0
    BY FS_EmptySet, Zenon DEF ExecInit
  <1>2. limits.iterations \in Nat /\ limits.calls \in Nat /\ limits.budget \in Nat
    BY ExecAssumption, Zenon DEF ExecInit
  <1>3. ExecTypeOK
    BY ExecAssumption DEF ExecInit, ExecTypeOK
  <1>4. CallsBehind /\ SignalEndsTurn
    BY <1>1, Zenon DEF CallsBehind, SignalEndsTurn
  <1>5. CallsCounted /\ LimitsHold /\ StreamShowsCurrent
    BY <1>1, <1>2 DEF ExecInit, CallsCounted, LimitsHold, StreamShowsCurrent, Ok
  <1> QED
    BY <1>3, <1>4, <1>5, Zenon DEF ExecInv

LEMMA ExecTyped == ASSUME ExecInv, ExecNext PROVE ExecTypeOK'
  <1> USE ExecAssumption DEF ExecTypeOK, Ended, Ok, Failed
  <1>0. ExecTypeOK
    BY Zenon DEF ExecInv
  <1>1. CASE IterationsExhausted \/ SendRequest \/ ProviderFails \/ ProviderAnswers
    <2>1. CASE IterationsExhausted \/ ProviderFails
      BY <1>0, <2>1, Zenon DEF IterationsExhausted, ProviderFails, FailWith
    <2>2. CASE SendRequest
      BY <1>0, <2>2 DEF SendRequest
    <2>3. CASE ProviderAnswers
      BY <1>0, <2>3 DEF ProviderAnswers
    <2> QED
      BY <1>1, <2>1, <2>2, <2>3, Zenon
  <1>2. ASSUME NEW usage \in Usages, Account(usage) PROVE ExecTypeOK'
    BY <1>0, <1>2 DEF Account, FailWith
  <1>3. CASE CallsExhausted \/ NextIteration
    BY <1>0, <1>3 DEF CallsExhausted, NextIteration, FailWith
  <1>4. ASSUME NEW signal \in {"none", "ApprovalRequired", "Stopped"}, ExecuteCall(signal)
        PROVE  ExecTypeOK'
    BY <1>0, <1>4 DEF ExecuteCall
  <1>5. CASE Delta \/ Forward
    BY <1>0, <1>5 DEF Delta, Forward
  <1> QED
    BY <1>1, <1>2, <1>3, <1>4, <1>5, Zenon DEF ExecNext, ExecTurn

LEMMA ExecCallsOK == ASSUME ExecInv, ExecNext PROVE CallsBehind' /\ SignalEndsTurn'
  <1>0. ExecTypeOK /\ CallsBehind /\ SignalEndsTurn
    BY Zenon DEF ExecInv
  <1>1. /\ iteration \in Nat /\ seq \in Nat /\ batch \in Nat /\ raised \subseteq executed
        /\ turn \notin Ok => raised = {}
    BY <1>0, ExecAssumption DEF ExecTypeOK, SignalEndsTurn
  <1> USE DEF CallsBehind, SignalEndsTurn, Ok
  <1>2. CASE IterationsExhausted \/ SendRequest \/ ProviderFails \/ ProviderAnswers
    BY <1>0, <1>1, <1>2 DEF IterationsExhausted, SendRequest, ProviderFails, ProviderAnswers, FailWith
  <1>3. ASSUME NEW usage \in Usages, Account(usage) PROVE CallsBehind' /\ SignalEndsTurn'
    BY <1>0, <1>1, <1>3, Zenon DEF Account, FailWith
  <1>4. CASE CallsExhausted \/ NextIteration
    BY <1>0, <1>1, <1>4, Zenon DEF CallsExhausted, NextIteration, FailWith
  <1>5. ASSUME NEW signal \in {"none", "ApprovalRequired", "Stopped"}, ExecuteCall(signal)
        PROVE  CallsBehind' /\ SignalEndsTurn'
    <2>1. /\ turn = "tools" /\ raised = {} /\ iteration' = iteration /\ seq' = seq + 1
          /\ executed' = executed \cup {<<iteration, seq + 1>>}
          /\ raised' \subseteq {<<iteration, seq + 1>>}
          /\ raised' # {} => turn' \in Ok
          /\ turn' \in {"tools", "ApprovalRequired", "Stopped"}
      BY <1>1, <1>5, Zenon DEF ExecuteCall
    <2>2. ASSUME NEW e \in executed' PROVE /\ e \in Nat \X Nat /\ e[1] <= iteration
                                           /\ e[1] < iteration \/ e[2] <= seq + 1
      BY <1>0, <1>1, <2>1
    <2>3. CallsBehind'
      BY <2>1, <2>2, Zenon
    <2>4. SignalEndsTurn'
      BY <1>1, <2>1, <2>2
    <2> QED
      BY <2>3, <2>4, Zenon
  <1>6. CASE Delta \/ Forward
    BY <1>0, <1>1, <1>6, Zenon DEF Delta, Forward
  <1> QED
    BY <1>2, <1>3, <1>4, <1>5, <1>6, Zenon DEF ExecNext, ExecTurn

LEMMA ExecLimitsOK == ASSUME ExecInv, ExecNext PROVE CallsCounted' /\ LimitsHold'
  <1>0. ExecTypeOK /\ CallsCounted /\ LimitsHold
    BY Zenon DEF ExecInv
  <1>1. /\ iteration \in Nat /\ calls \in Nat /\ tokens \in Nat
        /\ limits.iterations \in Nat /\ limits.calls \in Nat /\ limits.budget \in Nat
        /\ Cardinality(executed) \in Nat
    BY <1>0, ExecAssumption, FS_CardinalityType, Zenon DEF ExecTypeOK, CallsCounted
  <1> USE DEF CallsCounted, LimitsHold
  <1>2. CASE IterationsExhausted \/ SendRequest \/ ProviderFails \/ ProviderAnswers
    BY <1>0, <1>1, <1>2 DEF IterationsExhausted, SendRequest, ProviderFails, ProviderAnswers, FailWith
  <1>3. ASSUME NEW usage \in Usages, Account(usage) PROVE CallsCounted' /\ LimitsHold'
    BY <1>0, <1>1, <1>3, ExecAssumption, Zenon DEF Account, FailWith
  <1>4. CASE CallsExhausted \/ NextIteration
    BY <1>0, <1>1, <1>4 DEF CallsExhausted, NextIteration, FailWith
  <1>5. ASSUME NEW signal \in {"none", "ApprovalRequired", "Stopped"}, ExecuteCall(signal)
        PROVE  CallsCounted' /\ LimitsHold'
    <2>1. ASSUME NEW e PROVE /\ IsFiniteSet(executed \cup {e})
                             /\ Cardinality(executed \cup {e}) <= Cardinality(executed) + 1
                             /\ Cardinality(executed \cup {e}) \in Nat
      <3>1. IsFiniteSet(executed)
        BY <1>0, Zenon
      <3>2. CASE e \in executed
        <4>1. executed \cup {e} = executed
          BY <3>2, Zenon
        <4> QED
          BY <1>1, <3>1, <4>1, SMTT(30)
      <3>3. CASE e \notin executed
        BY <1>1, <3>1, <3>3, FS_AddElement
      <3> QED
        BY <3>2, <3>3, Zenon
    <2>2. PICK e : executed' = executed \cup {e}
      BY <1>5, Zenon DEF ExecuteCall
    <2>3. /\ calls' = calls + 1
          /\ limits.calls > 0 => calls + 1 <= limits.calls
          /\ turn' # "BudgetExceeded" /\ turn = "tools"
          /\ UNCHANGED <<limits, iteration, tokens>>
      BY <1>5, Zenon DEF ExecuteCall
    <2>4. /\ IsFiniteSet(executed') /\ Cardinality(executed') <= Cardinality(executed) + 1
          /\ Cardinality(executed') \in Nat
      BY <2>1, <2>2, Zenon
    <2>5. Cardinality(executed') <= calls' /\ (limits'.calls > 0 => calls' <= limits'.calls)
      BY <1>0, <1>1, <2>3, <2>4
    <2>6. CallsCounted'
      BY <2>4, <2>5, Zenon
    <2>7. LimitsHold'
      BY <1>0, <1>1, <2>3, <2>4, <2>5
    <2> QED
      BY <2>6, <2>7, Zenon
  <1>6. CASE Delta \/ Forward
    BY <1>0, <1>1, <1>6, Zenon DEF Delta, Forward
  <1> QED
    BY <1>2, <1>3, <1>4, <1>5, <1>6, Zenon DEF ExecNext, ExecTurn

LEMMA ExecStreamOK == ASSUME ExecInv, ExecNext PROVE StreamShowsCurrent'
  <1>0. ExecTypeOK /\ StreamShowsCurrent /\ deltas \in Nat
    BY ExecAssumption DEF ExecInv, ExecTypeOK
  <1> USE DEF StreamShowsCurrent, Ok
  <1>1. CASE IterationsExhausted \/ SendRequest \/ ProviderFails \/ ProviderAnswers
    BY <1>0, <1>1, Zenon DEF IterationsExhausted, SendRequest, ProviderFails, ProviderAnswers, FailWith
  <1>2. ASSUME NEW usage \in Usages, Account(usage) PROVE StreamShowsCurrent'
    BY <1>0, <1>2, Zenon DEF Account, FailWith
  <1>3. CASE CallsExhausted \/ NextIteration
    BY <1>0, <1>3, Zenon DEF CallsExhausted, NextIteration, FailWith
  <1>4. ASSUME NEW signal \in {"none", "ApprovalRequired", "Stopped"}, ExecuteCall(signal)
        PROVE  StreamShowsCurrent'
    BY <1>0, <1>4, Zenon DEF ExecuteCall
  <1>5. CASE Delta \/ Forward
    BY <1>0, <1>5 DEF Delta, Forward
  <1> QED
    BY <1>1, <1>2, <1>3, <1>4, <1>5, Zenon DEF ExecNext, ExecTurn

\* The invariant of the agent's loop, its tool calls and its stream holds for any
\* limits, batch sizes and usage reports.
THEOREM ExecInvariant == ExecSpec => []ExecInv
  <1>1. ExecInv /\ UNCHANGED execVars => ExecInv'
    BY Zenon DEF ExecInv, execVars, ExecTypeOK, CallsBehind, CallsCounted, LimitsHold,
       SignalEndsTurn, StreamShowsCurrent
  <1>2. ExecInv /\ [ExecNext]_execVars => ExecInv'
    BY <1>1, ExecTyped, ExecCallsOK, ExecLimitsOK, ExecStreamOK, Zenon DEF ExecInv
  <1> QED
    BY <1>2, ExecInitOK, PTL DEF ExecSpec

\* What a turn keeps has the type of its Rust counterpart, whatever limits,
\* answers and usage it meets.
THEOREM ExecTypeCorrect == ExecSpec => []ExecTypeOK
  <1>1. ExecInv => ExecTypeOK
    BY Zenon DEF ExecInv
  <1> QED
    BY <1>1, ExecInvariant, PTL

\* For all limits and all answers: the requests, the executed calls and the
\* tokens of a turn stay within the limits that are set.
THEOREM LimitSafety == ExecSpec => []LimitsHold
  <1>1. ExecInv => LimitsHold
    BY Zenon DEF ExecInv
  <1> QED
    BY <1>1, ExecInvariant, PTL

\* apply_tool_calls leaves the rest of an answer behind when a call raises a
\* signal, and run_agent_execution does not ask again.
THEOREM SignalSafety == ExecSpec => []SignalEndsTurn
  <1>1. ExecInv => SignalEndsTurn
    BY Zenon DEF ExecInv
  <1> QED
    BY <1>1, ExecInvariant, PTL

\* The forwarder is drained before the stream is cleared or the turn returns a
\* result, however many deltas an answer has and however late it runs.
THEOREM StreamSafety == ExecSpec => []StreamShowsCurrent
  <1>1. ExecInv => StreamShowsCurrent
    BY Zenon DEF ExecInv
  <1> QED
    BY <1>1, ExecInvariant, PTL

----------------------------------------------------------------------------
(* The runtime ticks.                                                      *)

\* A tick that waits for the list, reads it or forwards holds the guard, and one
\* that forwards starts where the count still is.
ServicesInv ==
    /\ ServicesTypeOK
    /\ \A a \in Ticks : phase[a] = "forward" => /\ range[a].from = dispatched
                                                /\ dispatched <= range[a].upTo
                                                /\ range[a].upTo <= outbound
    /\ OutboundOnce

\* Forwarding the messages after n up to m extends 1 .. n to 1 .. m.
LEMMA ForwardExtends ==
    ASSUME NEW n \in Nat, NEW m \in Nat, n <= m
    PROVE  [i \in 1 .. n |-> i] \o [i \in 1 .. m - n |-> n + i] = [i \in 1 .. m |-> i]
  <1> DEFINE s == [i \in 1 .. n |-> i]
             t == [i \in 1 .. m - n |-> n + i]
  <1>1. s \in Seq(Nat) /\ Len(s) = n /\ t \in Seq(Nat) /\ Len(t) = m - n
    OBVIOUS
  <1>2. s \o t \in Seq(Nat) /\ Len(s \o t) = m
    BY <1>1
  <1>3. ASSUME NEW i \in 1 .. m PROVE (s \o t)[i] = i
    BY <1>1
  <1>4. s \o t = [i \in 1 .. m |-> (s \o t)[i]]
    BY <1>2
  <1> QED
    BY <1>3, <1>4, Zenon

LEMMA AfterDrainOK ==
    ASSUME ServicesInv, NEW a \in Ticks, NEW ok \in BOOLEAN, AfterDrain(a, ok),
           phase[a] \in {"drain", "blocked", "failing"},
           UNCHANGED <<handling, outbound, range, dispatched, forwarded>>
    PROVE  ServicesInv'
  <1>0. PICK p \in {"idle", "parkedRead", "read", "blocked", "failing"} :
           /\ phase' = [phase EXCEPT ![a] = p]
           /\ IF p \in {"read", "parkedRead"} THEN guard = NoTick /\ guard' = a ELSE guard' = guard
    BY Zenon DEF AfterDrain, LockPublished
  <1>1. /\ phase' \in [Ticks -> {"idle", "drain", "parkedPush", "parkedRead"} \cup OnThread]
        /\ guard' \in Ticks \cup {NoTick}
    BY <1>0, Zenon DEF ServicesInv, ServicesTypeOK, OnThread
  <1>2. ASSUME NEW b \in Ticks
        PROVE  /\ guard' = b <=> phase'[b] \in {"read", "parkedRead", "forward"}
               /\ phase'[b] = "forward" => phase[b] = "forward"
    <2>1. NoTick \notin Ticks
      BY ServicesAssumption, Zenon DEF Ticks
    <2> QED
      BY <1>0, <2>1 DEF ServicesInv, ServicesTypeOK
  <1>3. ServicesTypeOK'
    BY <1>1, <1>2, Zenon DEF ServicesInv, ServicesTypeOK
  <1> QED
    BY <1>2, <1>3, Zenon DEF ServicesInv, OutboundOnce

LEMMA ServicesTickOK ==
    ASSUME ServicesInv, NEW a \in Ticks, StartTick(a) \/ DrainPublishes(a) \/ TickStep(a)
    PROVE  ServicesInv'
  <1> USE DEF ServicesInv, ServicesTypeOK
  <1>1. CASE StartTick(a) \/ DrainPublishes(a) \/ Push(a)
    <2>1. PICK p \in {"drain", "push", "parkedPush"} : phase' = [phase EXCEPT ![a] = p]
      BY <1>1, Zenon DEF StartTick, DrainPublishes, LockPublished, Push
    <2>0. /\ phase'[a] = p /\ \A b \in Ticks \ {a} : phase'[b] = phase[b]
          /\ phase' = [b \in Ticks |-> phase'[b]]
      BY <2>1, Zenon
    <2>2. /\ UNCHANGED <<handling, guard, range, dispatched, forwarded>>
          /\ outbound' = outbound \/ outbound' = outbound + 1
          /\ phase[a] \in {"idle", "drain", "push", "parkedPush"}
      BY <1>1, Zenon DEF StartTick, DrainPublishes, Push
    <2>3. \A b \in Ticks : /\ phase'[b] \in {"read", "parkedRead", "forward"} <=>
                                  phase[b] \in {"read", "parkedRead", "forward"}
                           /\ phase'[b] = "forward" => phase[b] = "forward"
      BY <2>0, <2>2, Zenon
    <2>4. phase' \in [Ticks -> {"idle", "drain", "parkedPush", "parkedRead"} \cup OnThread]
      BY <2>1, Zenon DEF OnThread
    <2>5. ServicesTypeOK'
      BY <2>2, <2>3, <2>4
    <2> QED
      BY <2>2, <2>3, <2>5 DEF OutboundOnce
  <1>2. ASSUME NEW ok \in BOOLEAN, DrainEnds(a, ok) PROVE ServicesInv'
    BY <1>2, AfterDrainOK, Zenon DEF DrainEnds
  <1>3. CASE Unblocks(a)
    BY <1>3, AfterDrainOK, Zenon DEF Unblocks
  <1>4. CASE ReadPublished(a)
    <2>1. guard = a /\ guard' = guard /\ phase' = [phase EXCEPT ![a] = "forward"]
      BY <1>4, Zenon DEF ReadPublished
    <2>2. range' \in [Ticks -> [from : Nat, upTo : Nat]]
      BY <1>4, Zenon DEF ReadPublished
    <2>3. \A b \in Ticks : guard' = b <=> phase'[b] \in {"read", "parkedRead", "forward"}
      BY <2>1, Zenon
    <2> QED
      BY <1>4, <2>1, <2>2, <2>3 DEF ReadPublished, OutboundOnce, OnThread
  <1>5. CASE ForwardOut(a)
    <2>1. /\ guard = a /\ range[a].from = dispatched /\ dispatched <= range[a].upTo
          /\ range[a].upTo \in Nat /\ range[a].upTo <= outbound /\ dispatched \in Nat
          /\ forwarded = [i \in 1 .. dispatched |-> i]
      BY <1>5, Zenon DEF ForwardOut, OutboundOnce
    <2>2. forwarded' = [i \in 1 .. range[a].upTo |-> i]
      BY <1>5, <2>1, ForwardExtends DEF ForwardOut
    <2>3. OutboundOnce'
      BY <1>5, <2>2, Zenon DEF ForwardOut, OutboundOnce
    <2>4. /\ guard' = NoTick /\ NoTick \notin Ticks
          /\ \A b \in Ticks : phase'[b] \notin {"read", "parkedRead", "forward"}
      BY <1>5, <2>1, ServicesAssumption, Zenon DEF ForwardOut, Ticks
    <2> QED
      BY <1>5, <2>1, <2>3, <2>4 DEF ForwardOut, OnThread
  <1> QED
    BY <1>1, <1>2, <1>3, <1>4, <1>5, ZenonT(30) DEF TickStep

LEMMA ServicesDriverOK ==
    ASSUME ServicesInv, NEW d \in Drivers, DropTick(d) \/ StartUpdate(d) \/ EndUpdate(d)
    PROVE  ServicesInv'
  <1> USE DEF ServicesInv, ServicesTypeOK
  <1>1. CASE DropTick(d)
    <2>1. d \in Ticks /\ NoTick \notin Ticks
      BY ServicesAssumption, Zenon DEF Ticks
    <2>2. /\ phase' = [phase EXCEPT ![d] = "idle"] /\ guard' = (IF guard = d THEN NoTick ELSE guard)
          /\ UNCHANGED <<handling, outbound, range, dispatched, forwarded>>
      BY <1>1, Zenon DEF DropTick
    <2>3. \A b \in Ticks : /\ guard' = b <=> phase'[b] \in {"read", "parkedRead", "forward"}
                           /\ phase'[b] = "forward" => phase[b] = "forward"
      <3>1. \A b \in Ticks \ {d} : phase'[b] = phase[b]
        BY <2>2, Zenon
      <3>2. phase'[d] = "idle"
        BY <2>1, <2>2, Zenon
      <3> QED
        BY <2>1, <2>2, <3>1, <3>2, Zenon
    <2>4. /\ phase' \in [Ticks -> {"idle", "drain", "parkedPush", "parkedRead"} \cup OnThread]
          /\ guard' \in Ticks \cup {NoTick}
      BY <2>1, <2>2, Zenon
    <2>5. ServicesTypeOK'
      BY <2>2, <2>3, <2>4, Zenon
    <2> QED
      BY <2>2, <2>3, <2>5, Zenon DEF OutboundOnce
  <1>2. CASE StartUpdate(d) \/ EndUpdate(d)
    BY <1>2, Zenon DEF StartUpdate, EndUpdate, OutboundOnce
  <1> QED
    BY <1>1, <1>2, Zenon

\* The inductive invariant of the ticks: the guard and the phases agree, and a
\* tick that forwards starts where the count still is.
THEOREM ServicesInvariant == ServicesSpec => []ServicesInv
  <1>1. ServicesInit => ServicesInv
    <2>1. NoTick \notin Ticks
      BY ServicesAssumption, Zenon DEF Ticks
    <2> QED
      BY <2>1 DEF ServicesInit, ServicesInv, ServicesTypeOK, OutboundOnce
  <1>2. ServicesInv /\ [ServicesNext]_serviceVars => ServicesInv'
    <2>1. ServicesInv /\ UNCHANGED serviceVars => ServicesInv'
      BY Zenon DEF ServicesInv, ServicesTypeOK, serviceVars, OutboundOnce
    <2> QED
      BY <2>1, ServicesTickOK, ServicesDriverOK, Zenon DEF ServicesNext
  <1> QED
    BY <1>1, <1>2, PTL DEF ServicesSpec

\* For any drivers and clicks: on_runtime_tick holds runtime_drain_error exactly
\* from the request for the published list to the stored count.
THEOREM ServicesTypeCorrect == ServicesSpec => []ServicesTypeOK
  <1>1. ServicesInv => ServicesTypeOK
    BY Zenon DEF ServicesInv
  <1> QED
    BY <1>1, ServicesInvariant, PTL

\* For any number of drivers, clicks, messages, failed drains and dropped ticks,
\* the dispatcher receives every message once and in order: a tick that reads
\* the count holds runtime_drain_error until it has stored the new one.
THEOREM OutboundSafety == ServicesSpec => []OutboundOnce
  <1>1. ServicesInv => OutboundOnce
    BY Zenon DEF ServicesInv
  <1> QED
    BY <1>1, ServicesInvariant, PTL
=============================================================================
