---------------------------- MODULE Reliability ----------------------------
(***************************************************************************)
(* The retry policy and the failure-counting rule of                       *)
(* klaw-core/src/reliability.rs, as the pure operators the agent loop and  *)
(* the circuit breaker share.  Error kinds are the buckets that            *)
(* classify_error_kind (agent_loop.rs) maps protocol error codes onto.     *)
(***************************************************************************)
EXTENDS Naturals

CONSTANTS
    MaxAttempts,       \* ExponentialBackoffRetryPolicy.max_attempts
    FailureThreshold   \* CircuitBreakerPolicy.failure_threshold

ASSUME PolicyAssumption ==
    /\ MaxAttempts \in Nat
    /\ FailureThreshold \in Nat \ {0}

\* Buckets that can never succeed on a retry, and buckets that back off.
AbortKinds   == {"validation", "schema", "duplicate"}
BackoffKinds == {"provider_unavailable", "transport_unavailable", "tool_timeout"}

\* RetryPolicy::classify.  The attempt limit is tested before the kind, so a
\* validation failure on the last attempt is dead-lettered, not aborted.
Classify(kind, attempt) ==
    IF attempt >= MaxAttempts THEN "SendToDeadLetter"
    ELSE IF kind \in AbortKinds THEN "Abort"
    ELSE IF kind \in BackoffKinds THEN "RetryAfter"
    ELSE "RetryNow"

\* on_failure: does the n-th failure in a row open the circuit?
Trips(n) == n >= FailureThreshold
=============================================================================
