------------------------------ MODULE Webhook ------------------------------
(***************************************************************************)
(* Webhook requests: the gateway's handlers (klaw-gateway/src/webhook.rs), *)
(* RuntimeWebhookHandler and the tasks it spawns                           *)
(* (klaw-runtime/src/webhook.rs), the isolated turn they submit            *)
(* (klaw-runtime/src/lib.rs) and the webhook_events and webhook_agents     *)
(* tables (klaw-storage/src/turso/session.rs).                             *)
(*                                                                         *)
(* A request is recorded as accepted, answered with 202, and processed by  *)
(* a task of its own, which ends by writing the row's status.  Meanwhile   *)
(* the base session the answer goes to may switch to another active        *)
(* session or be deleted, the caller may hang up, a storage call may fail  *)
(* and the process may stop.  Payloads are data; of a target only what     *)
(* decides the path of the request is kept.                                *)
(***************************************************************************)
EXTENDS Naturals, Sequences

CONSTANTS
    Requests,
    Agents,        \* the requests of /webhook/agents, the others are events
    BaseSession,   \* the base session itself
    Branches,      \* the sessions it may have active besides itself
    NoSession,     \* no session: deleted, or not resolved
    MaxSwitches,   \* bound on changes of the base session
    MaxHookFaults  \* bound on storage errors, hang-ups and stops

\* No base session; one of a channel disabled when the gateway options were
\* built; one of an IM channel; one of a channel, or without the metadata, that
\* background delivery needs.
Targets == {"none", "off", "im", "web"}

ASSUME HookAssumption ==
    /\ Agents \subseteq Requests
    /\ NoSession \notin Branches \cup {BaseSession}
    /\ MaxSwitches \in Nat /\ MaxHookFaults \in Nat

VARIABLES
    active,      \* active session of the base session, NoSession once that is deleted
    call,        \* where the HTTP handler of every request is
    job,         \* its task: a pc, the target, the session resolved, what came of it
    row,         \* its row
    hookSent,    \* the sessions its answer was published to
    switches, hookFaults,  \* against their bounds
    wasActive,        \* history: the sessions active since the request's task started
    turned,      \* history: how the turn of the request ended
    abandoned    \* history: requests a fault kept from having their status written

hookVars == <<active, call, job, row, hookSent, switches, hookFaults, wasActive, turned, abandoned>>
hookHistory == <<wasActive, turned, abandoned>>

Sessions == Branches \cup {BaseSession}
Calls    == {"new", "started", "touched", "inserted", "answered", "refused", "dropped"}
Idle     == [pc |-> "none", to |-> "none", route |-> NoSession, result |-> "none"]
NoRow    == [status |-> "none", summary |-> FALSE]
Accepted == [status |-> "accepted", summary |-> FALSE]

HookInit ==
    /\ active \in Sessions
    /\ call = [r \in Requests |-> "new"]
    /\ job = [r \in Requests |-> Idle]
    /\ row = [r \in Requests |-> NoRow]
    /\ hookSent = [r \in Requests |-> <<>>]
    /\ switches = 0 /\ hookFaults = 0
    /\ wasActive = [r \in Requests |-> {}]
    /\ turned = [r \in Requests |-> "none"]
    /\ abandoned = {}

Fault == hookFaults < MaxHookFaults /\ hookFaults' = hookFaults + 1

----------------------------------------------------------------------------
\* The handler.

\* A request the gateway refuses: authentication, payload or a required field.
RefuseHook(r) ==
    /\ call[r] = "new"
    /\ call' = [call EXCEPT ![r] = "refused"]
    /\ UNCHANGED <<active, job, row, hookSent, switches, hookFaults, hookHistory>>

\* The payload names the target.  An event goes straight to touch_session; an agent request first reads its
\* hook's prompt file and is answered 404 when that is not there.
StartHook(r) ==
    /\ call[r] = "new"
    /\ call' = [call EXCEPT ![r] = "started"]
    /\ \E t \in Targets : job' = [job EXCEPT ![r].to = t]
    /\ UNCHANGED <<active, row, hookSent, switches, hookFaults, hookHistory>>

PromptMissing(r) ==
    /\ r \in Agents /\ call[r] = "started"
    /\ call' = [call EXCEPT ![r] = "refused"]
    /\ UNCHANGED <<active, job, row, hookSent, switches, hookFaults, hookHistory>>

TouchExecution(r) ==
    /\ call[r] = "started"
    /\ call' = [call EXCEPT ![r] = "touched"]
    /\ UNCHANGED <<active, job, row, hookSent, switches, hookFaults, hookHistory>>

\* The INSERT of append_webhook_event and append_webhook_agent; the row is then
\* read back, and the handler goes on when it has it.
InsertRow(r) ==
    /\ call[r] = "touched"
    /\ call' = [call EXCEPT ![r] = "inserted"]
    /\ row' = [row EXCEPT ![r] = Accepted]
    /\ UNCHANGED <<active, job, hookSent, switches, hookFaults, hookHistory>>

\* tokio::spawn and the 202, with no await between them.
SpawnHook(r) ==
    /\ call[r] = "inserted"
    /\ call' = [call EXCEPT ![r] = "answered"]
    /\ job' = [job EXCEPT ![r].pc = "channel"]
    /\ wasActive' = [wasActive EXCEPT ![r] = {active}]
    /\ UNCHANGED <<active, row, hookSent, switches, hookFaults, turned, abandoned>>

\* A storage call of the handler fails, which answers 500, ...
HandlerFails(r) ==
    /\ call[r] \in {"started", "touched", "inserted"}
    /\ Fault
    /\ call' = [call EXCEPT ![r] = "refused"]
    /\ UNCHANGED <<active, job, row, hookSent, switches, hookHistory>>

\* ... or the caller hangs up, which drops the handler where it waits.
HangUp(r) ==
    /\ call[r] \in {"started", "touched", "inserted"}
    /\ Fault
    /\ call' = [call EXCEPT ![r] = "dropped"]
    /\ UNCHANGED <<active, job, row, hookSent, switches, hookHistory>>

----------------------------------------------------------------------------
\* The task.

HookGoes(r, pc) == job' = [job EXCEPT ![r].pc = pc]

\* What a task's end makes of its row: a request that was skipped, or whose turn
\* gave no answer, is processed without a summary.
HookUpdate(result) ==
    [status |-> IF result = "error" THEN "failed" ELSE "processed",
     summary |-> result = "answer"]

\* webhook_target_disabled_reason, on the availability the gateway started with.
CheckChannel(r) ==
    /\ job[r].pc = "channel"
    /\ \/ job[r].to = "off" /\ job' = [job EXCEPT ![r].pc = "update", ![r].result = "skipped"]
       \/ job[r].to # "off" /\ HookGoes(r, "session")
    /\ UNCHANGED <<active, call, row, hookSent, switches, hookFaults, hookHistory>>

\* webhook_session_unavailable; a lookup that fails counts as unavailable.
CheckSession(r) ==
    /\ job[r].pc = "session"
    /\ \/ /\ job[r].to # "none" /\ active = NoSession
          /\ job' = [job EXCEPT ![r].pc = "update", ![r].result = "skipped"]
       \/ /\ job[r].to = "none" \/ active # NoSession
          /\ HookGoes(r, "route")
    /\ UNCHANGED <<active, call, row, hookSent, switches, hookFaults, hookHistory>>

LookupFails(r) ==
    /\ job[r].pc = "session" /\ job[r].to # "none"
    /\ Fault
    /\ job' = [job EXCEPT ![r].pc = "update", ![r].result = "skipped"]
    /\ UNCHANGED <<active, call, row, hookSent, switches, hookHistory>>

\* resolve_webhook_delivery_route.
ResolveRoute(r) ==
    /\ job[r].pc = "route"
    /\ \/ /\ job[r].to = "web" \/ (job[r].to = "im" /\ active = NoSession)
          /\ job' = [job EXCEPT ![r].pc = "update", ![r].result = "error"]
       \/ /\ job[r].to = "none"
          /\ HookGoes(r, "turn")
       \/ /\ job[r].to = "im" /\ active # NoSession
          /\ job' = [job EXCEPT ![r].pc = "turn", ![r].route = active]
    /\ UNCHANGED <<active, call, row, hookSent, switches, hookFaults, hookHistory>>

\* resolve_webhook_agent_model rejects a provider that is not configured, before
\* the turn begins.
ModelUnknown(r) ==
    /\ r \in Agents /\ job[r].pc = "turn"
    /\ job' = [job EXCEPT ![r].pc = "update", ![r].result = "error"]
    /\ UNCHANGED <<active, call, row, hookSent, switches, hookFaults, hookHistory>>

\* The turn: the user record is appended and the session touched, then
\* process_message runs.  It answers, is silent (an answer marked to be
\* suppressed), or fails; a failed turn has no final response either.
RunHookTurn(r) ==
    /\ job[r].pc = "turn"
    /\ \E end \in {"answer", "silent", "failed"} :
         /\ turned' = [turned EXCEPT ![r] = end]
         /\ IF end = "answer"
              THEN HookGoes(r, IF job[r].route = NoSession THEN "persist" ELSE "publish")
              ELSE job' = [job EXCEPT ![r].pc = "update", ![r].result = "empty"]
    /\ UNCHANGED <<active, call, row, hookSent, switches, hookFaults, wasActive, abandoned>>

PublishHook(r) ==
    /\ job[r].pc = "publish"
    /\ hookSent' = [hookSent EXCEPT ![r] = Append(@, job[r].route)]
    /\ HookGoes(r, "persist")
    /\ UNCHANGED <<active, call, row, switches, hookFaults, hookHistory>>

PersistOrFail(r) ==
    /\ job[r].pc = "persist"
    /\ \E result \in {"answer", "error"} :
         job' = [job EXCEPT ![r].pc = "update", ![r].result = result]
    /\ UNCHANGED <<active, call, row, hookSent, switches, hookFaults, hookHistory>>

\* persist_assistant_response_state only logs what it cannot write.
PersistAnswer(r) ==
    /\ job[r].pc = "persist"
    /\ job' = [job EXCEPT ![r].pc = "update", ![r].result = "answer"]
    /\ UNCHANGED <<active, call, row, hookSent, switches, hookFaults, hookHistory>>

\* A storage call of the routing or before the turn fails, or publish does.
SubmitFails(r) ==
    /\ job[r].pc \in {"route", "turn", "publish"}
    /\ Fault
    /\ job' = [job EXCEPT ![r].pc = "update", ![r].result = "error"]
    /\ UNCHANGED <<active, call, row, hookSent, switches, hookHistory>>

UpdateRowUnlessSkipped(r) ==
    /\ job[r].pc = "update"
    /\ job' = [job EXCEPT ![r].pc = "done"]
    /\ row' = IF job[r].result = "skipped" THEN row
              ELSE [row EXCEPT ![r] = HookUpdate(job[r].result)]
    /\ UNCHANGED <<active, call, hookSent, switches, hookFaults, hookHistory>>

\* update_webhook_event_status and update_webhook_agent_status.
UpdateRow(r) ==
    /\ job[r].pc = "update"
    /\ job' = [job EXCEPT ![r].pc = "done"]
    /\ row' = [row EXCEPT ![r] = HookUpdate(job[r].result)]
    /\ UNCHANGED <<active, call, hookSent, switches, hookFaults, hookHistory>>

\* An UPDATE that fails is logged, and the row stays accepted.
UpdateFails(r) ==
    /\ job[r].pc = "update"
    /\ Fault
    /\ job' = [job EXCEPT ![r].pc = "done"]
    /\ abandoned' = abandoned \cup {r}
    /\ UNCHANGED <<active, call, row, hookSent, switches, wasActive, turned>>

HookTask(r) ==
    \/ CheckChannel(r) \/ CheckSession(r) \/ LookupFails(r) \/ ResolveRoute(r)
    \/ ModelUnknown(r) \/ RunHookTurn(r) \/ PublishHook(r) \/ PersistAnswer(r)
    \/ SubmitFails(r) \/ UpdateRow(r) \/ UpdateFails(r)

----------------------------------------------------------------------------
\* Beside the tasks.

\* /new or a resumed conversation switches the active session; a websocket
\* client deletes the base session, or the one it has active, and the next
\* message of the chat brings it back.
SwitchSession ==
    /\ switches < MaxSwitches
    /\ \E s \in (Sessions \cup {NoSession}) \ {active} :
         /\ active' = s
         /\ wasActive' = [r \in Requests |-> IF job[r].pc \in {"none", "done"} THEN wasActive[r]
                                        ELSE wasActive[r] \cup {s}]
    /\ switches' = switches + 1
    /\ UNCHANGED <<call, job, row, hookSent, hookFaults, turned, abandoned>>

\* The process stops: handlers and tasks end, and nothing takes an accepted
\* row up again.
StopProcess ==
    /\ Fault
    /\ call' = [r \in Requests |-> IF call[r] \in {"answered", "refused", "new"} THEN call[r]
                                   ELSE "dropped"]
    /\ job' = [r \in Requests |-> IF job[r].pc = "none" THEN job[r]
                                  ELSE [job[r] EXCEPT !.pc = "done"]]
    /\ abandoned' = abandoned \cup {r \in Requests : job[r].pc \notin {"none", "done"}}
    /\ UNCHANGED <<active, row, hookSent, switches, wasActive, turned>>

HookNext ==
    \/ \E r \in Requests :
         \/ RefuseHook(r) \/ StartHook(r) \/ PromptMissing(r) \/ TouchExecution(r)
         \/ InsertRow(r) \/ SpawnHook(r) \/ HandlerFails(r) \/ HangUp(r)
         \/ HookTask(r)
    \/ SwitchSession
    \/ StopProcess

HookSpec == HookInit /\ [][HookNext]_hookVars

\* The runtime polls every spawned task.
HookFairSpec == HookSpec /\ \A r \in Requests : WF_hookVars(HookTask(r))

----------------------------------------------------------------------------
HookPcs == {"none", "channel", "session", "route", "turn", "publish", "persist",
            "update", "done"}
JobStates == [pc : HookPcs, to : Targets, route : Sessions \cup {NoSession},
              result : {"none", "skipped", "error", "empty", "answer"}]
RowStates == [status : {"none", "accepted", "processed", "failed"}, summary : BOOLEAN]

HookTypeOK ==
    /\ active \in Sessions \cup {NoSession}
    /\ call \in [Requests -> Calls]
    /\ job \in [Requests -> JobStates]
    /\ row \in [Requests -> RowStates]
    /\ hookSent \in [Requests -> {<<>>} \cup {<<s>> : s \in Sessions}]
    /\ switches \in 0 .. MaxSwitches /\ hookFaults \in 0 .. MaxHookFaults
    /\ wasActive \in [Requests -> SUBSET (Sessions \cup {NoSession})]
    /\ turned \in [Requests -> {"none", "answer", "silent", "failed"}]
    /\ abandoned \subseteq Requests

\* The row tells what left the process: submit_webhook_isolated_turn publishes
\* before it persists and only logs what fails after that, so a request shown
\* as failed has sent nothing (it may be sent again), and one shown with a
\* summary ran its turn and sent its answer, if it has a target, exactly once.
HookStatusTruthful ==
    \A r \in Requests :
        /\ row[r].status = "failed" => hookSent[r] = <<>>
        /\ row[r].summary => /\ turned[r] = "answer"
                             /\ job[r].to # "none" => Len(hookSent[r]) = 1
        /\ hookSent[r] # <<>> /\ row[r].status = "processed" => row[r].summary

\* The answer goes to a session the base session had active while the request
\* was being processed: resolve_webhook_delivery_route follows the active
\* session (docs/src/gateway/webhook.md:16), though what it found may be stale
\* when the turn is over.
HookSentToActive ==
    \A r \in Requests : \A i \in DOMAIN hookSent[r] : hookSent[r][i] \in wasActive[r]

\* A request answered with 202 has its status written in the end, whatever
\* happens to its target, unless the UPDATE fails or the process stops.
HookSettles ==
    \A r \in Requests :
        call[r] = "answered" ~> row[r].status \in {"processed", "failed"} \/ r \in abandoned

\* The panel shows whether a request succeeded
\* or failed (docs/src/gateway/webhook.md:280): a turn that fails has no final
\* response, which submit_webhook_isolated_turn takes for a silent one.
\* It does not hold and no run checks it (README.md).
FailedTurnShown ==
    \A r \in Requests : turned[r] = "failed" => row[r].status # "processed"

\* Requests whose session is unavailable are skipped "instead of failing the
\* request after acceptance" (klaw-runtime/CHANGELOG.md:50): the session may be
\* deleted between the check and resolve_webhook_delivery_route.
\* It does not hold and no run checks it (README.md).
UnavailableIsSkipped ==
    \A r \in Requests :
        job[r].to = "im" /\ r \notin Agents /\ hookFaults = 0 => row[r].status # "failed"
=============================================================================
