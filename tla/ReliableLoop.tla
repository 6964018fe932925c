---------------------------- MODULE ReliableLoop ----------------------------
(***************************************************************************)
(* AgentLoop::run_once_reliable (klaw-core/src/agent_loop.rs), run by      *)
(* several workers over one inbound transport, one idempotency store and   *)
(* one circuit breaker.  Every channel driver thread ticks the runtime     *)
(* (BackgroundServices::on_runtime_tick), so two workers really may be     *)
(* inside the loop at once, and a driver that shuts down drops the future  *)
(* it is polling at whatever await it has reached.                         *)
(*                                                                         *)
(* One action is the code between two awaits on shared state.  Waiting     *)
(* times are abstracted: a backoff ends, and an open circuit lets requests *)
(* through again, at some later step.                                      *)
(***************************************************************************)
EXTENDS Integers, Reliability

CONSTANTS
    Msgs,           \* inbound messages (message_id and session_key fixed)
    Invalid,        \* messages that fail validation: empty, no media, no resume
    HeaderAttempt,  \* EnvelopeHeader.attempt of every message
    Workers,        \* threads that call run_once_reliable
    Redelivers,     \* does the broker redeliver what is not acknowledged?
    Faulty,         \* may publish and ack return a TransportError?
    Cancellable,    \* may a worker's future be dropped at an await?
    NoMsg           \* "this worker holds no message"

ASSUME LoopAssumption ==
    /\ Invalid \subseteq Msgs
    /\ HeaderAttempt \in [Msgs -> Nat]
    /\ Redelivers \in BOOLEAN
    /\ Faulty \in BOOLEAN
    /\ Cancellable \in BOOLEAN
    /\ NoMsg \notin Msgs

VARIABLES
    visible,     \* messages the inbound transport can hand out
    acked,       \* messages acknowledged to the inbound transport
    seen,        \* keys of the idempotency store
    published,   \* messages answered on the outbound topic
    republished, \* history: answered again after a first answer
    dead,        \* messages published on the dead-letter topic
    aborted,     \* history: dropped by RetryDecision::Abort
    failures,    \* InMemoryCircuitBreaker.consecutive_failures
    open,        \* now < open_until_epoch_ms
    pc,          \* the await a worker has reached
    cur,         \* the message a worker holds
    attempt,     \* the loop's attempt counter
    runs         \* history: process_message calls for this delivery

broker  == <<visible, acked>>
outputs == <<published, republished, dead, aborted>>
breaker == <<failures, open>>
vars    == <<broker, seen, outputs, breaker, pc, cur, attempt, runs>>

PCs == {"idle", "dedupe", "gate", "process", "publish", "success", "mark",
        "sleep", "abort", "dlq", "ack"}

Init ==
    /\ visible = Msgs
    /\ acked = {}
    /\ seen = {}
    /\ published = {}
    /\ republished = {}
    /\ dead = {}
    /\ aborted = {}
    /\ failures = 0
    /\ open = FALSE
    /\ pc = [w \in Workers |-> "idle"]
    /\ cur = [w \in Workers |-> NoMsg]
    /\ attempt = [w \in Workers |-> 0]
    /\ runs = [w \in Workers |-> 0]

GoTo(w, label) == pc' = [pc EXCEPT ![w] = label]

\* run_once_reliable returns, with a result or with an error.
Return(w) ==
    /\ GoTo(w, "idle")
    /\ cur' = [cur EXCEPT ![w] = NoMsg]
    /\ attempt' = [attempt EXCEPT ![w] = 0]
    /\ runs' = [runs EXCEPT ![w] = 0]

----------------------------------------------------------------------------
(* The inbound transport.                                                  *)

\* The visibility timeout of a message that was handed out and not
\* acknowledged has passed.  Its holder, if any, knows nothing of it.
Redeliver(m) ==
    /\ Redelivers
    /\ m \notin visible \cup acked
    /\ visible' = visible \cup {m}
    /\ UNCHANGED <<acked, seen, outputs, breaker, pc, cur, attempt, runs>>

\* inbound_transport.consume; "queue empty" returns without a state change.
Consume(w, m) ==
    /\ pc[w] = "idle"
    /\ m \in visible
    /\ visible' = visible \ {m}
    /\ cur' = [cur EXCEPT ![w] = m]
    /\ GoTo(w, "dedupe")
    /\ UNCHANGED <<acked, seen, outputs, breaker, attempt, runs>>

----------------------------------------------------------------------------
(* The circuit breaker, one operation at a time (CircuitBreaker.tla takes  *)
(* the operations apart into their atomic accesses).                       *)

OnFailure ==
    /\ failures' = IF Trips(failures + 1) THEN 0 ELSE failures + 1
    /\ open' = (open \/ Trips(failures + 1))

OnSuccess ==
    /\ failures' = 0
    /\ open' = FALSE

\* open_until_epoch_ms has passed.
IntervalElapses ==
    /\ open
    /\ open' = FALSE
    /\ UNCHANGED <<broker, seen, outputs, failures, pc, cur, attempt, runs>>

----------------------------------------------------------------------------
(* One delivery.                                                           *)

\* idempotency.seen returned true: acknowledge and report DuplicateMessage.
Duplicate(w) ==
    /\ pc[w] = "dedupe"
    /\ cur[w] \in seen
    /\ GoTo(w, "ack")
    /\ UNCHANGED <<broker, seen, outputs, breaker, cur, attempt, runs>>

\* Mutant of Fresh: the store is not consulted.
FreshUnchecked(w) ==
    /\ pc[w] = "dedupe"
    /\ attempt' = [attempt EXCEPT ![w] = 1]
    /\ GoTo(w, "gate")
    /\ UNCHANGED <<broker, seen, outputs, breaker, cur, runs>>

\* idempotency.seen returned false: attempt = header.attempt.max(1).
Fresh(w) ==
    /\ pc[w] = "dedupe"
    /\ cur[w] \notin seen
    /\ attempt' = [attempt EXCEPT ![w] =
           IF HeaderAttempt[cur[w]] > 1 THEN HeaderAttempt[cur[w]] ELSE 1]
    /\ GoTo(w, "gate")
    /\ UNCHANGED <<broker, seen, outputs, breaker, cur, runs>>

\* handle_retry_decision up to its first await, for the decision the policy
\* takes on this kind of failure.  RetryNow goes round the loop at once.
HandleRetryDecision(w, kind) ==
    LET decision == Classify(kind, attempt[w])
    IN  /\ GoTo(w, CASE decision = "RetryNow"         -> "gate"
                     [] decision = "RetryAfter"       -> "sleep"
                     [] decision = "Abort"            -> "abort"
                     [] decision = "SendToDeadLetter" -> "dlq")
        /\ attempt' = IF decision = "RetryNow"
                      THEN [attempt EXCEPT ![w] = @ + 1]
                      ELSE attempt

\* allow_request returned true.
Allowed(w) ==
    /\ pc[w] = "gate"
    /\ ~open
    /\ GoTo(w, "process")
    /\ UNCHANGED <<broker, seen, outputs, breaker, cur, attempt, runs>>

\* allow_request returned false: an attempt is spent without processing.
Denied(w) ==
    /\ pc[w] = "gate"
    /\ open
    /\ HandleRetryDecision(w, "provider_unavailable")
    /\ UNCHANGED <<broker, seen, outputs, breaker, cur, runs>>

\* process_message ended with a response and no error code.
ProcessOk(w) ==
    /\ pc[w] = "process"
    /\ cur[w] \notin Invalid
    /\ runs' = [runs EXCEPT ![w] = @ + 1]
    /\ GoTo(w, "publish")
    /\ UNCHANGED <<broker, seen, outputs, breaker, cur, attempt>>

\* process_message ended with an error code: ValidationFailed always and only
\* for an invalid message, ProviderUnavailable, or one of the codes without a
\* bucket (ProviderResponseInvalid, BudgetExceeded, and RetryExhausted, whose
\* response is dropped here).  Only ProviderUnavailable counts as a failure.
ProcessError(w, kind) ==
    /\ pc[w] = "process"
    /\ (kind = "validation") <=> (cur[w] \in Invalid)
    /\ runs' = [runs EXCEPT ![w] = @ + 1]
    /\ HandleRetryDecision(w, kind)
    /\ \/ kind = "provider_unavailable" /\ OnFailure
       \/ kind # "provider_unavailable" /\ UNCHANGED breaker
    /\ UNCHANGED <<broker, seen, outputs, cur>>

\* outbound_transport.publish returned Ok.
PublishOk(w) ==
    /\ pc[w] = "publish"
    /\ published' = published \cup {cur[w]}
    /\ republished' = republished \cup ({cur[w]} \cap published)
    /\ GoTo(w, "success")
    /\ UNCHANGED <<broker, seen, dead, aborted, breaker, cur, attempt, runs>>

\* Mutant of PublishErr: the error is ignored.
PublishErrIgnored(w) ==
    /\ pc[w] = "publish"
    /\ Faulty
    /\ GoTo(w, "success")
    /\ UNCHANGED <<broker, seen, outputs, breaker, cur, attempt, runs>>

\* outbound_transport.publish returned an error: the whole turn is retried.
PublishErr(w) ==
    /\ pc[w] = "publish"
    /\ Faulty
    /\ OnFailure
    /\ HandleRetryDecision(w, "transport_unavailable")
    /\ UNCHANGED <<broker, seen, outputs, cur, runs>>

\* circuit_breaker.on_success.
Success(w) ==
    /\ pc[w] = "success"
    /\ OnSuccess
    /\ GoTo(w, "mark")
    /\ UNCHANGED <<broker, seen, outputs, cur, attempt, runs>>

\* idempotency.mark_seen; the in-memory store ignores the TTL.
MarkSeen(w) ==
    /\ pc[w] = "mark"
    /\ seen' = seen \cup {cur[w]}
    /\ GoTo(w, "ack")
    /\ UNCHANGED <<broker, outputs, breaker, cur, attempt, runs>>

\* Mutant of Wake: the attempt is not counted.
WakeUncounted(w) ==
    /\ pc[w] = "sleep"
    /\ GoTo(w, "gate")
    /\ UNCHANGED <<broker, seen, outputs, breaker, cur, attempt, runs>>

\* The backoff sleep of RetryAfter ends.
Wake(w) ==
    /\ pc[w] = "sleep"
    /\ attempt' = [attempt EXCEPT ![w] = @ + 1]
    /\ GoTo(w, "gate")
    /\ UNCHANGED <<broker, seen, outputs, breaker, cur, runs>>

\* The dead-letter publish returned Ok.  The key is not marked as seen.
DeadLetterOk(w) ==
    /\ pc[w] = "dlq"
    /\ dead' = dead \cup {cur[w]}
    /\ GoTo(w, "ack")
    /\ UNCHANGED <<broker, seen, published, republished, aborted, breaker,
                   cur, attempt, runs>>

\* Mutant of DeadLetterErr: the error is ignored.
DeadLetterErrIgnored(w) ==
    /\ pc[w] = "dlq"
    /\ Faulty
    /\ GoTo(w, "ack")
    /\ UNCHANGED <<broker, seen, outputs, breaker, cur, attempt, runs>>

\* The dead-letter publish failed: the error leaves run_once_reliable.
DeadLetterErr(w) ==
    /\ pc[w] = "dlq"
    /\ Faulty
    /\ Return(w)
    /\ UNCHANGED <<broker, seen, outputs, breaker>>

\* inbound_transport.ack returned Ok and run_once_reliable returns.
AckOk(w) ==
    /\ pc[w] \in {"ack", "abort"}
    /\ acked' = acked \cup {cur[w]}
    /\ visible' = visible \ {cur[w]}
    /\ aborted' = IF pc[w] = "abort" THEN aborted \cup {cur[w]} ELSE aborted
    /\ Return(w)
    /\ UNCHANGED <<seen, published, republished, dead, breaker>>

\* inbound_transport.ack failed: the error leaves run_once_reliable.
AckErr(w) ==
    /\ pc[w] \in {"ack", "abort"}
    /\ Faulty
    /\ Return(w)
    /\ UNCHANGED <<broker, seen, outputs, breaker>>

\* The driver that polls this worker's future shuts down and drops it.
Cancel(w) ==
    /\ Cancellable
    /\ pc[w] # "idle"
    /\ Return(w)
    /\ UNCHANGED <<broker, seen, outputs, breaker>>

----------------------------------------------------------------------------
ProcessErrorKinds == {"validation", "provider_unavailable", "unknown"}

\* Everything a worker does by itself once it holds a message.
Step(w) ==
    \/ Duplicate(w)
    \/ Fresh(w)
    \/ Allowed(w)
    \/ Denied(w)
    \/ ProcessOk(w)
    \/ \E kind \in ProcessErrorKinds : ProcessError(w, kind)
    \/ PublishOk(w)
    \/ PublishErr(w)
    \/ Success(w)
    \/ MarkSeen(w)
    \/ Wake(w)
    \/ DeadLetterOk(w)
    \/ DeadLetterErr(w)
    \/ AckOk(w)
    \/ AckErr(w)

Next ==
    \/ \E m \in Msgs : Redeliver(m)
    \/ \E w \in Workers, m \in Msgs : Consume(w, m)
    \/ \E w \in Workers : Step(w)
    \/ \E w \in Workers : Cancel(w)
    \/ IntervalElapses

Spec == Init /\ [][Next]_vars

\* A worker that holds a message is polled until it returns.
FairSpec == Spec /\ \A w \in Workers : WF_vars(Step(w))

----------------------------------------------------------------------------
(* Properties.                                                             *)

Holding(w) == pc[w] # "idle"

\* Every variable has the type its Rust counterpart has.
TypeOK ==
    /\ visible \subseteq Msgs
    /\ acked \subseteq Msgs
    /\ seen \subseteq Msgs
    /\ published \subseteq Msgs
    /\ republished \subseteq Msgs
    /\ dead \subseteq Msgs
    /\ aborted \subseteq Msgs
    /\ failures \in Nat
    /\ open \in BOOLEAN
    /\ pc \in [Workers -> PCs]
    /\ cur \in [Workers -> Msgs \cup {NoMsg}]
    /\ attempt \in [Workers -> Nat]
    /\ runs \in [Workers -> Nat]
    /\ \A w \in Workers : Holding(w) => cur[w] \in Msgs

\* A message is acknowledged only after it was answered, dead-lettered, or
\* dropped by validation.  The path to worry about is the duplicate one: it
\* acknowledges without producing anything, on the word of the idempotency
\* store that another delivery, perhaps by another worker, did.
AckedHasOutcome == acked \subseteq published \cup dead \cup aborted

\* The only messages that vanish without an answer or a dead letter are the
\* ones validation rejects: Abort is reached for no other error, whatever the
\* retries, denials and publish errors before it.
OnlyInvalidAborted == aborted \subseteq Invalid

\* The turn (provider calls and tool side effects included) runs at most
\* max_attempts times for one delivery, and a denial by the circuit breaker
\* spends one of these; a message whose header already carries more attempts
\* runs at most once.
RunsWithinBudget ==
    \A w \in Workers :
        Holding(w) => runs[w] <= IF MaxAttempts > 1 THEN MaxAttempts ELSE 1

\* With one worker whose future is never dropped, redelivery never makes the
\* loop answer a message twice: mark_seen precedes the acknowledgement.
AnsweredOnce == republished = {}

\* No broker message is lost: what is not acknowledged is waiting in the
\* transport or held by a worker.
NeverLost ==
    \A m \in Msgs \ acked : m \in visible \/ \E w \in Workers : cur[w] = m

\* Every delivery ends: a worker that took a message returns, however often
\* the provider, the transports and the circuit breaker fail it.
EveryDeliveryEnds == \A w \in Workers : Holding(w) ~> ~Holding(w)

\* The loop keeps the promise of Delivery.
Promise == INSTANCE Delivery
ImplementsDelivery == Promise!Spec
=============================================================================
