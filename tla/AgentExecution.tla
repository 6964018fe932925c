--------------------------- MODULE AgentExecution ---------------------------
(***************************************************************************)
(* One turn of the agent: run_agent_execution and apply_tool_calls         *)
(* (klaw-agent/src/lib.rs), and what process_message_inner                 *)
(* (klaw-core/src/agent_loop.rs) makes of their result.                    *)
(*                                                                         *)
(* The turn asks the provider, executes the tool calls of the answer one   *)
(* by one, and asks again, until an answer has no tool calls, a tool       *)
(* raises a signal, or a limit is hit; a limit of 0 is no limit.  Beside   *)
(* it runs a forwarder task that turns the provider's deltas into stream   *)
(* snapshots.  A call is its request and its place in the answer.          *)
(***************************************************************************)
EXTENDS Naturals, FiniteSets

CONSTANTS
    LimitSets,    \* the AgentExecutionLimits a turn may be given
    BatchSizes,   \* how many tool calls an answer may carry
    Usages,       \* total_tokens an answer may report; 0: no usage record
    MaxDeltas,    \* bound: deltas streamed per request
    MaxRequests   \* bound: requests of a turn without an iteration limit

ASSUME ExecAssumption ==
    /\ LimitSets \subseteq [iterations : Nat, calls : Nat, budget : Nat]
    /\ BatchSizes \subseteq Nat /\ Usages \subseteq Nat
    /\ MaxDeltas \in Nat /\ MaxRequests \in Nat

VARIABLES
    limits,    \* max_tool_iterations, max_tool_calls and token_budget
    turn,      \* "loop", "request", "drain", "tools", or how the turn ended
    iteration, \* requests sent
    batch,     \* tool calls of the last answer
    seq,       \* how many of them were looked at
    calls,     \* tool_calls_used
    tokens,    \* tokens_used
    deltas,    \* deltas the forwarder has not turned into a snapshot
    view,      \* stream subscriber: the request whose text it shows, 0: none
    audits,    \* tool_audits, and after the turn those of the ProcessOutcome
    executed,  \* history: the calls that were executed
    raised     \* history: the calls that raised a signal

execVars == <<limits, turn, iteration, batch, seq, calls, tokens, deltas, view, audits,
              executed, raised>>

\* Results of process_message_inner with the outcome's error code, if it has one.
Ok     == {"FinalMessage", "ApprovalRequired", "Stopped"}
Failed == {"Provider", "BudgetExceeded", "ToolLoopExhausted"}
Ended  == Ok \cup Failed

ExecInit ==
    /\ limits \in LimitSets
    /\ turn = "loop"
    /\ iteration = 0 /\ batch = 0 /\ seq = 0 /\ calls = 0 /\ tokens = 0
    /\ deltas = 0 /\ view = 0
    /\ audits = {} /\ executed = {} /\ raised = {}

\* An error returns without the collected audits, and the outcome is built with
\* none (Provider keeps the audit of the failed request only).
FailWith(err) == turn' = err /\ audits' = {}

----------------------------------------------------------------------------
\* The head of the loop: the iteration limit is reached.
IterationsExhausted ==
    /\ turn = "loop"
    /\ limits.iterations > 0 /\ iteration >= limits.iterations
    /\ FailWith("ToolLoopExhausted")
    /\ UNCHANGED <<limits, iteration, batch, seq, calls, tokens, deltas, view, executed, raised>>

\* chat_stream is called.
SendRequest ==
    /\ turn = "loop"
    /\ limits.iterations > 0 => iteration < limits.iterations
    /\ iteration < MaxRequests
    /\ iteration' = iteration + 1
    /\ turn' = "request"
    /\ UNCHANGED <<limits, batch, seq, calls, tokens, deltas, view, audits, executed, raised>>

\* The provider streams a delta.
Delta ==
    /\ turn = "request"
    /\ deltas < MaxDeltas
    /\ deltas' = deltas + 1
    /\ UNCHANGED <<limits, turn, iteration, batch, seq, calls, tokens, view, audits, executed, raised>>

\* The forwarder sends the text so far, whatever the turn does meanwhile.
Forward ==
    /\ deltas > 0
    /\ deltas' = deltas - 1
    /\ view' = iteration
    /\ UNCHANGED <<limits, turn, iteration, batch, seq, calls, tokens, audits, executed, raised>>

\* The ? on chat_stream: the error returns before the forwarder is awaited.
ProviderFails ==
    /\ turn = "request"
    /\ FailWith("Provider")
    /\ UNCHANGED <<limits, iteration, batch, seq, calls, tokens, deltas, view, executed, raised>>

ProviderAnswers ==
    /\ turn = "request"
    /\ batch' \in {0} \cup BatchSizes
    /\ seq' = 0
    /\ turn' = "drain"
    /\ UNCHANGED <<limits, iteration, calls, tokens, deltas, view, audits, executed, raised>>

\* Mutant of Account: stream_forwarder is not awaited.
AccountUndrained(usage) ==
    /\ turn = "drain"
    /\ tokens' = tokens + usage
    /\ IF limits.budget > 0 /\ tokens + usage > limits.budget
       THEN FailWith("BudgetExceeded") /\ view' = view
       ELSE IF batch = 0
       THEN turn' = "FinalMessage" /\ UNCHANGED <<view, audits>>
       ELSE turn' = "tools" /\ view' = 0 /\ UNCHANGED audits
    /\ UNCHANGED <<limits, iteration, batch, seq, calls, deltas, executed, raised>>

\* forwarder.await, the usage and the budget, and where the answer leads: a
\* final message, or Clear on the stream and the tool calls.
Account(usage) ==
    /\ turn = "drain"
    /\ deltas = 0
    /\ tokens' = tokens + usage
    /\ IF limits.budget > 0 /\ tokens + usage > limits.budget
       THEN FailWith("BudgetExceeded") /\ view' = view
       ELSE IF batch = 0
       THEN turn' = "FinalMessage" /\ UNCHANGED <<view, audits>>
       ELSE turn' = "tools" /\ view' = 0 /\ UNCHANGED audits
    /\ UNCHANGED <<limits, iteration, batch, seq, calls, deltas, executed, raised>>

\* apply_tool_calls: the call is counted, and over the limit.
CallsExhausted ==
    /\ turn = "tools" /\ seq < batch
    /\ calls' = calls + 1
    /\ limits.calls > 0 /\ calls + 1 > limits.calls
    /\ FailWith("ToolLoopExhausted")
    /\ UNCHANGED <<limits, iteration, batch, seq, tokens, deltas, view, executed, raised>>

\* Mutant of ExecuteCall: a signal ends the turn only after the whole answer.
ExecuteCallToEnd(signal) ==
    /\ turn = "tools" /\ seq < batch
    /\ limits.calls > 0 => calls + 1 <= limits.calls
    /\ calls' = calls + 1
    /\ seq' = seq + 1
    /\ executed' = executed \cup {<<iteration, seq + 1>>}
    /\ audits' = audits \cup {<<iteration, seq + 1>>}
    /\ raised' = IF signal = "none" THEN raised ELSE raised \cup {<<iteration, seq + 1>>}
    /\ turn' = IF seq + 1 = batch /\ signal # "none" THEN signal ELSE "tools"
    /\ UNCHANGED <<limits, iteration, batch, tokens, deltas, view>>

\* apply_tool_calls: one call is executed and audited; an approval_required or
\* a stop signal leaves the rest of the answer and ends the turn.
ExecuteCall(signal) ==
    /\ turn = "tools" /\ seq < batch
    /\ limits.calls > 0 => calls + 1 <= limits.calls
    /\ calls' = calls + 1
    /\ seq' = seq + 1
    /\ executed' = executed \cup {<<iteration, seq + 1>>}
    /\ audits' = audits \cup {<<iteration, seq + 1>>}
    /\ raised' = IF signal = "none" THEN raised ELSE raised \cup {<<iteration, seq + 1>>}
    /\ turn' = IF signal = "none" THEN "tools" ELSE signal
    /\ UNCHANGED <<limits, iteration, batch, tokens, deltas, view>>

\* Every call of the answer was executed.
NextIteration ==
    /\ turn = "tools" /\ seq = batch
    /\ turn' = "loop"
    /\ UNCHANGED <<limits, iteration, batch, seq, calls, tokens, deltas, view, audits, executed, raised>>

----------------------------------------------------------------------------
ExecTurn ==
    \/ IterationsExhausted
    \/ SendRequest
    \/ ProviderFails
    \/ ProviderAnswers
    \/ \E usage \in Usages : Account(usage)
    \/ CallsExhausted
    \/ \E signal \in {"none", "ApprovalRequired", "Stopped"} : ExecuteCall(signal)
    \/ NextIteration

ExecNext == ExecTurn \/ Delta \/ Forward

ExecSpec == ExecInit /\ [][ExecNext]_execVars

\* The provider answers or times out, tools return, the forwarder is scheduled.
ExecFairness == WF_execVars(ExecTurn) /\ WF_execVars(Forward)

----------------------------------------------------------------------------
\* Every variable has the type its Rust counterpart has.
ExecTypeOK ==
    /\ limits \in LimitSets
    /\ turn \in {"loop", "request", "drain", "tools"} \cup Ended
    /\ iteration \in Nat /\ calls \in Nat /\ tokens \in Nat
    /\ batch \in {0} \cup BatchSizes
    /\ seq \in 0..batch
    /\ deltas \in 0..MaxDeltas
    /\ view \in 0..iteration
    /\ audits \subseteq executed
    /\ raised \subseteq executed

\* No limit that is set is overrun, at its boundary either: requests and
\* executed calls stay within their limits, and a turn that has used more
\* than its budget is over.
LimitsHold ==
    /\ limits.iterations > 0 => iteration <= limits.iterations
    /\ limits.calls > 0 => Cardinality(executed) <= limits.calls
    /\ limits.budget > 0 /\ tokens > limits.budget => turn = "BudgetExceeded"

\* A stop or approval_required signal is the last thing a turn does: no call
\* after it in the same answer is executed, and the provider is not asked again.
SignalEndsTurn ==
    \A r \in raised :
        /\ turn \in Ok
        /\ iteration = r[1]
        /\ \A e \in executed : e[1] < r[1] \/ (e[1] = r[1] /\ e[2] <= r[2])

\* However late the forwarder runs, no text of an answer reaches the stream
\* after the Clear that retracts it, or after the turn has returned its result
\* (run_agent_execution awaits the forwarder before it clears the stream).
StreamShowsCurrent ==
    turn \in {"loop", "tools"} \cup Ok =>
        /\ deltas = 0
        /\ turn # "FinalMessage" => view = 0

\* What the crate's README says of the audits: there is one for every tool
\* call, whatever ends the turn (klaw-agent/README.md:11).
\* It does not hold and no run checks it (README.md).
EveryCallAudited == turn \in Ended => audits = executed
=============================================================================
