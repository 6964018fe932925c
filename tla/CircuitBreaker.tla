--------------------------- MODULE CircuitBreaker ---------------------------
(***************************************************************************)
(* InMemoryCircuitBreaker (klaw-core/src/reliability.rs) under concurrent  *)
(* callers.  The breaker has no lock: on_success and on_failure are runs   *)
(* of separate atomic accesses to consecutive_failures and                 *)
(* open_until_epoch_ms, and every access is a step here.                   *)
(*                                                                         *)
(* open_until_epoch_ms is kept relative to the clock: openFor is the time  *)
(* until it is reached, and 0 once now >= open_until.  Reading the clock    *)
(* belongs to the access that uses it: the load of allow_request and the   *)
(* store of open_until.                                                    *)
(***************************************************************************)
EXTENDS Naturals, FiniteSets, Reliability

CONSTANTS
    Threads,             \* callers of the breaker
    OpenInterval         \* CircuitBreakerPolicy.open_interval, in clock ticks

ASSUME BreakerAssumption == OpenInterval \in Nat \ {0} /\ IsFiniteSet(Threads)

VARIABLES
    consecutiveFailures,  \* consecutive_failures
    openFor,              \* open_until_epoch_ms - now, or 0
    caller                \* what a caller does next

breakerVars == <<consecutiveFailures, openFor, caller>>

BreakerInit ==
    /\ consecutiveFailures = 0
    /\ openFor = 0
    /\ caller = [t \in Threads |-> "ask"]

CallerGoesTo(t, label) == caller' = [caller EXCEPT ![t] = label]

\* Mutant of AllowRequest: the open circuit is not looked at.
AllowRequestAlways(t) ==
    /\ caller[t] = "ask"
    /\ CallerGoesTo(t, "request")
    /\ UNCHANGED <<consecutiveFailures, openFor>>

\* allow_request returned true; a refused caller changes nothing.
\* half_open_max_requests is not consulted.
AllowRequest(t) ==
    /\ caller[t] = "ask"
    /\ openFor = 0
    /\ CallerGoesTo(t, "request")
    /\ UNCHANGED <<consecutiveFailures, openFor>>

\* The request succeeded; on_success: consecutive_failures.store(0).
SuccessResets(t) ==
    /\ caller[t] = "request"
    /\ consecutiveFailures' = 0
    /\ CallerGoesTo(t, "close")
    /\ UNCHANGED openFor

\* on_success: open_until_epoch_ms.store(0).
SuccessCloses(t) ==
    /\ caller[t] = "close"
    /\ openFor' = 0
    /\ CallerGoesTo(t, "ask")
    /\ UNCHANGED consecutiveFailures

\* The request failed; on_failure: fetch_add(1) and the threshold test.
FailureCounts(t) ==
    /\ caller[t] = "request"
    /\ consecutiveFailures' = consecutiveFailures + 1
    /\ CallerGoesTo(t, IF Trips(consecutiveFailures + 1) THEN "open" ELSE "ask")
    /\ UNCHANGED openFor

\* Mutant of FailureOpens: on_failure ends without resetting the counter.
FailureOpensOnly(t) ==
    /\ caller[t] = "open"
    /\ openFor' = OpenInterval
    /\ CallerGoesTo(t, "ask")
    /\ UNCHANGED consecutiveFailures

\* on_failure: open_until_epoch_ms.store(now + open_interval).
FailureOpens(t) ==
    /\ caller[t] = "open"
    /\ openFor' = OpenInterval
    /\ CallerGoesTo(t, "reset")
    /\ UNCHANGED consecutiveFailures

\* on_failure: consecutive_failures.store(0).
FailureResets(t) ==
    /\ caller[t] = "reset"
    /\ consecutiveFailures' = 0
    /\ CallerGoesTo(t, "ask")
    /\ UNCHANGED openFor

\* The clock advances.
Tick ==
    /\ openFor > 0
    /\ openFor' = openFor - 1
    /\ UNCHANGED <<consecutiveFailures, caller>>

Succeed(t) == SuccessResets(t) \/ SuccessCloses(t)
Fail(t) == FailureCounts(t) \/ FailureOpens(t) \/ FailureResets(t)
CallerStep(t) == AllowRequest(t) \/ Succeed(t) \/ Fail(t)

BreakerNext == Tick \/ \E t \in Threads : CallerStep(t)

\* The clock runs, and a caller that can go on does.
BreakerFairness == WF_breakerVars(Tick) /\ \A t \in Threads : WF_breakerVars(CallerStep(t))

BreakerSpec == BreakerInit /\ [][BreakerNext]_breakerVars /\ BreakerFairness

----------------------------------------------------------------------------
\* Every variable has the type its Rust counterpart has.
BreakerTypeOK ==
    /\ consecutiveFailures \in Nat
    /\ openFor \in 0..OpenInterval
    /\ caller \in [Threads -> {"ask", "request", "close", "open", "reset"}]

\* However fetch_add and the two resetting stores interleave, the counter
\* exceeds the last harmless value only by callers that have seen it trip and
\* not yet reset it, so it can neither run away nor overflow.
FailuresBounded ==
    consecutiveFailures < FailureThreshold
               + Cardinality({t \in Threads : caller[t] \in {"open", "reset"}})

\* An open circuit lets requests through again: requests that were in flight
\* when it opened may fail and prolong it, but not for ever.
Recovers == openFor > 0 ~> openFor = 0
=============================================================================
