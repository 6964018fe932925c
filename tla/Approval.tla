------------------------------ MODULE Approval ------------------------------
(***************************************************************************)
(* Approvals of risky tool calls (klaw-approval over the `approvals' table  *)
(* of klaw-storage).  A tool call that needs an approval consumes a granted *)
(* one or files a request (check_approval of the shell and apply_patch      *)
(* tools); a person resolves requests with /approve and /reject, from the   *)
(* GUI or through the approval tool; /approve replays the tool call.        *)
(*                                                                         *)
(* Every SQL statement is one step and the callers interleave between them. *)
(* resolve_approval reads the row and then writes it with no condition;     *)
(* consume_approved_tool_command is a single conditional UPDATE.            *)
(***************************************************************************)
EXTENDS Integers

CONSTANTS
    Approvals,      \* the ids rows may get
    Commands,       \* what an approval is for: session, tool and command hash
    ShellCommands,  \* those of the shell tool, whose replay passes the id
    Callers,        \* concurrent callers: agents, channels, the GUI
    Ttls,           \* lifetimes a request may ask for
    MaxTime         \* the bound on the clock

ASSUME ApprovalAssumption ==
    /\ ShellCommands \subseteq Commands
    /\ Ttls \subseteq Nat \ {0}
    /\ MaxTime \in Nat
    /\ Commands # {} /\ Approvals # {}

VARIABLES
    now,
    status, command, created, expires, consumed,    \* the rows
    call,       \* what each caller is doing, with its locals
    granted,    \* history: approvals once written as approved
    uses        \* history: how often each approval was consumed

rows == <<status, command, created, expires, consumed>>
vars == <<now, rows, call, granted, uses>>

Times == 0 .. MaxTime
Null == -1
Decisions == {"approve", "reject"}
Statuses == {"none", "pending", "approved", "rejected", "expired", "consumed"}
PCs == {"idle", "resolve", "read", "decide", "byId", "consume", "latest",
        "select", "consumeLatest", "create", "guiConsume"}

\* id: the approval; decision: what to do with it; at: the clock as read; replay:
\* whether /approve goes on to run the tool; want: the command to run.
Calls == [pc : PCs, id : Approvals, decision : Decisions, at : Times,
          replay : BOOLEAN, want : Commands]

Idle == [pc |-> "idle", id |-> CHOOSE a \in Approvals : TRUE, decision |-> "reject",
         at |-> 0, replay |-> FALSE, want |-> CHOOSE k \in Commands : TRUE]

Existing == {a \in Approvals : status[a] # "none"}

Init ==
    /\ now = 0
    /\ status = [a \in Approvals |-> "none"]
    /\ command = [a \in Approvals |-> Idle.want]
    /\ created = [a \in Approvals |-> 0]
    /\ expires = [a \in Approvals |-> 0]
    /\ consumed = [a \in Approvals |-> Null]
    /\ call = [c \in Callers |-> Idle]
    /\ granted = {}
    /\ uses = [a \in Approvals |-> 0]

Continue(c, locals) == call' = [call EXCEPT ![c] = locals]
GoTo(c, p) == Continue(c, [call[c] EXCEPT !.pc = p])
Return(c) == Continue(c, Idle)

Tick ==
    /\ now < MaxTime
    /\ now' = now + 1
    /\ UNCHANGED <<rows, call, granted, uses>>

\* Where a caller reads the clock before the call it is about to make.
ClockThen == [resolve |-> "read", byId |-> "consume", latest |-> "select"]

ReadClock(c) ==
    /\ call[c].pc \in DOMAIN ClockThen
    /\ Continue(c, [call[c] EXCEPT !.pc = ClockThen[@], !.at = now])
    /\ UNCHANGED <<now, rows, granted, uses>>

----------------------------------------------------------------------------
(* Requesting and resolving.                                               *)

\* The approval tool's `request'.
Request(c) ==
    /\ call[c].pc = "idle"
    /\ \E k \in Commands : Continue(c, [Idle EXCEPT !.pc = "create", !.want = k])
    /\ UNCHANGED <<now, rows, granted, uses>>

CreateApproval(c) ==
    /\ call[c].pc = "create"
    /\ \E a \in Approvals \ Existing, ttl \in Ttls :
          /\ status' = [status EXCEPT ![a] = "pending"]
          /\ command' = [command EXCEPT ![a] = call[c].want]
          /\ created' = [created EXCEPT ![a] = now]
          /\ expires' = [expires EXCEPT ![a] = now + ttl]
    /\ Return(c)
    /\ UNCHANGED <<now, consumed, granted, uses>>

\* The GUI and the approval tool resolve without replaying anything.
ResolveOnly(c) ==
    /\ call[c].pc = "idle"
    /\ \E a \in Existing, d \in Decisions :
          Continue(c, [Idle EXCEPT !.pc = "resolve", !.id = a, !.decision = d])
    /\ UNCHANGED <<now, rows, granted, uses>>

\* /approve and /reject look at the row first; an approval that is pending and
\* not expired goes on to the replay.
ImCommand(c) ==
    /\ call[c].pc = "idle"
    /\ \E a \in Existing, d \in Decisions :
          /\ status[a] = "pending"
          /\ Continue(c, [Idle EXCEPT !.pc = "resolve", !.id = a, !.decision = d,
                                      !.replay = (d = "approve" /\ expires[a] >= now)])
    /\ UNCHANGED <<now, rows, granted, uses>>

\* What follows resolve_approval, whatever it returned.
AfterResolve(c) ==
    LET k == command[call[c].id] IN
    \/ ~call[c].replay /\ Return(c)
    \/ /\ call[c].replay
       /\ Continue(c, [call[c] EXCEPT !.pc = IF k \in ShellCommands THEN "byId"
                                                                   ELSE "latest",
                                      !.want = k])

\* resolve_approval, the read: a row that is not pending is returned as it is.
Read(c) ==
    /\ call[c].pc = "read"
    /\ \/ status[call[c].id] # "pending" /\ AfterResolve(c)
       \/ status[call[c].id] = "pending" /\ GoTo(c, "decide")
    /\ UNCHANGED <<now, rows, granted, uses>>

\* The status a decision turns into.
Outcome(c) ==
    IF expires[call[c].id] < call[c].at THEN "expired"
    ELSE IF call[c].decision = "approve" THEN "approved" ELSE "rejected"

\* resolve_approval, the write: update_approval_status has no condition.
Decide(c) ==
    /\ call[c].pc = "decide"
    /\ status' = [status EXCEPT ![call[c].id] = Outcome(c)]
    /\ granted' = granted \cup {a \in {call[c].id} : Outcome(c) = "approved"}
    /\ AfterResolve(c)
    /\ UNCHANGED <<now, command, created, expires, consumed, uses>>

----------------------------------------------------------------------------
(* Consuming.                                                              *)

\* The condition without the test that nobody consumed the row before.
ConsumableByStatus(a, k, t) ==
    status[a] = "approved" /\ command[a] = k /\ expires[a] >= t

Consumable(a, k, t) ==
    /\ status[a] = "approved"
    /\ command[a] = k
    /\ consumed[a] = Null
    /\ expires[a] >= t

MarkConsumed(a, t) ==
    /\ status' = [status EXCEPT ![a] = "consumed"]
    /\ consumed' = [consumed EXCEPT ![a] = t]
    /\ uses' = [uses EXCEPT ![a] = @ + 1]

\* A tool call that needs an approval, with or without an approval id.
CallTool(c) ==
    /\ call[c].pc = "idle"
    /\ \E k \in Commands :
          \/ Continue(c, [Idle EXCEPT !.pc = "latest", !.want = k])
          \/ \E a \in Existing :
                 Continue(c, [Idle EXCEPT !.pc = "byId", !.id = a, !.want = k])
    /\ UNCHANGED <<now, rows, granted, uses>>

\* The newest approval that fits, or none.
Select(c) ==
    /\ call[c].pc = "select"
    /\ LET found == {a \in Approvals : Consumable(a, call[c].want, call[c].at)}
       IN  \/ found = {} /\ GoTo(c, "create")
           \/ \E a \in found :
                 /\ \A b \in found : created[b] <= created[a]
                 /\ Continue(c, [call[c] EXCEPT !.pc = "consumeLatest", !.id = a])
    /\ UNCHANGED <<now, rows, granted, uses>>

\* Where a tool call goes when the UPDATE matched no row.
Otherwise == [consume |-> "latest", consumeLatest |-> "create"]

Consume(c) ==
    /\ call[c].pc \in {"consume", "consumeLatest", "guiConsume"}
    /\ Consumable(call[c].id, call[c].want, call[c].at)
    /\ MarkConsumed(call[c].id, call[c].at)
    /\ Return(c)
    /\ UNCHANGED <<now, command, created, expires, granted>>

ConsumeRefused(c) ==
    /\ ~Consumable(call[c].id, call[c].want, call[c].at)
    /\ \/ call[c].pc \in DOMAIN Otherwise /\ GoTo(c, Otherwise[call[c].pc])
       \/ call[c].pc = "guiConsume" /\ Return(c)
    /\ UNCHANGED <<now, rows, granted, uses>>

\* The GUI's consume button: the row's own key, read first.
ConsumeApproval(c) ==
    /\ call[c].pc = "idle"
    /\ \E a \in Existing :
          Continue(c, [Idle EXCEPT !.pc = "guiConsume", !.id = a, !.at = now,
                                  !.want = command[a]])
    /\ UNCHANGED <<now, rows, granted, uses>>

\* A storage error, a dropped future, or a replay without an audit record.
Abandon(c) ==
    /\ call[c].pc # "idle"
    /\ Return(c)
    /\ UNCHANGED <<now, rows, granted, uses>>

Step(c) ==
    \/ ReadClock(c) \/ Request(c) \/ CreateApproval(c) \/ ResolveOnly(c)
    \/ ImCommand(c) \/ Read(c) \/ Decide(c) \/ CallTool(c) \/ Select(c)
    \/ Consume(c) \/ ConsumeRefused(c) \/ ConsumeApproval(c) \/ Abandon(c)

Next == Tick \/ \E c \in Callers : Step(c)

Spec == Init /\ [][Next]_vars

----------------------------------------------------------------------------
(* Properties.                                                             *)

\* The rows and the callers' locals have the shapes the code gives them.
TypeOK ==
    /\ now \in Times
    /\ status \in [Approvals -> Statuses]
    /\ command \in [Approvals -> Commands]
    /\ created \in [Approvals -> Times]
    /\ expires \in [Approvals -> Nat]
    /\ consumed \in [Approvals -> Times \cup {Null}]
    /\ call \in [Callers -> Calls]
    /\ granted \subseteq Approvals
    /\ uses \in [Approvals -> Nat]

\* An approval authorises at most one run of its command, although a resolver
\* that read the row before it was consumed may write `approved' over
\* `consumed': the UPDATE of consume_approved_tool_command also asks for
\* consumed_at_ms to be NULL, and nothing sets it back.
UsedOnce == \A a \in Approvals : uses[a] <= 1

\* A consumed approval was granted by somebody, and was consumed by a caller
\* that read the clock before it expired.
UseAuthorised ==
    \A a \in Approvals :
        uses[a] > 0 => a \in granted /\ consumed[a] # Null /\ consumed[a] <= expires[a]

\* A resolved approval is not resolved again: it only goes from approved to
\* consumed.  resolve_approval tests the status in a read of its own.
ResolutionFinal ==
    [][\A a \in Approvals :
          status[a] \notin {"none", "pending"} =>
              status'[a] = status[a] \/ (status[a] = "approved" /\ status'[a] = "consumed")]_vars
=============================================================================
