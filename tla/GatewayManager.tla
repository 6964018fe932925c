--------------------------- MODULE GatewayManager ---------------------------
(***************************************************************************)
(* The gateway's lifecycle: GatewayManager                                 *)
(* (klaw-runtime/src/gateway_manager.rs) over GatewayHandle and            *)
(* TailscaleManager (klaw-gateway/src/), driven by the runtime commands of *)
(* klaw-cli/src/commands/gui.rs.                                           *)
(*                                                                         *)
(* Each command is a task that marks the cached status as transitioning,   *)
(* waits for the manager's lock and runs its operation under a timeout.    *)
(* The timeout drops the operation at whatever await it has reached: a     *)
(* graceful shutdown that waits for an open connection, or the tailscale   *)
(* commands of a start.  A handle dropped that way withdraws its exposure  *)
(* from a task of its own, which may run at any later time.                *)
(***************************************************************************)
EXTENDS Naturals, Sequences

CONSTANTS
    ResetOnExit,    \* gateway.tailscale.reset_on_exit
    MaxGwCommands   \* bound: commands and edits

Modes == {"off", "serve", "funnel"}
GwCommands ==
    [kind : {"start", "restart", "enable", "disable", "host"}, mode : {"off"}]
        \cup [kind : {"mode"}, mode : Modes]
NoCommand == [kind |-> "none", mode |-> "off"]
Steps == {"idle", "stop", "draining", "stopped", "start", "expose"}

VARIABLES
    gwDisk,         \* the configuration file: gateway.enabled, tailscale.mode
    gwMeta,         \* the manager's copy of both
    gwHandle,       \* mode of the running gateway, or "none"
    transitioning,  \* the manager's flag
    gwQueue,        \* commands, the first one at the lock
    gwStep,         \* where the operation at the lock stands
    target,         \* the configuration it works from
    previous,       \* set_tailscale_mode: previous_mode
    draining,       \* mode of the handle whose shutdown is awaited
    exposure,       \* what the tailscale daemon serves
    lateResets,     \* teardowns left to tasks by dropped handles
    gwCache,        \* gateway_status_cache
    reply,         \* history: the last answer, and to which command
    ran,            \* history: a gateway ran when the operation began
    gwIssued        \* history: against MaxGwCommands

gwConfVars == <<gwDisk, gwMeta, target, previous>>
gwTailVars == <<draining, exposure, lateResets>>
gwVars == <<gwConfVars, gwHandle, transitioning, gwQueue, gwStep, gwTailVars, gwCache, reply, ran, gwIssued>>

GwInit ==
    /\ gwDisk \in [enabled : BOOLEAN, mode : Modes]
    /\ gwMeta = gwDisk /\ target = gwDisk /\ previous = gwDisk.mode
    /\ gwHandle = "none" /\ transitioning = FALSE /\ gwStep = "idle"
    /\ gwQueue = IF gwDisk.enabled THEN <<[kind |-> "start", mode |-> "off"]>> ELSE <<>>
    /\ draining = "off" /\ exposure = "off" /\ lateResets = 0
    /\ gwCache = [running |-> FALSE, transitioning |-> gwDisk.enabled]
    /\ reply = [command |-> NoCommand, ok |-> TRUE] /\ ran = FALSE
    /\ gwIssued = 0

GwIssue == gwIssued < MaxGwCommands /\ gwIssued' = gwIssued + 1

----------------------------------------------------------------------------
\* The commands of the GUI, and a save of gateway.enabled by its panel.
SubmitGateway(c) ==
    /\ GwIssue
    /\ gwQueue' = Append(gwQueue, c)
    /\ gwCache' = [gwCache EXCEPT !.transitioning = @ \/ c.kind # "host"]
    /\ UNCHANGED <<gwConfVars, gwHandle, transitioning, gwStep, gwTailVars, reply, ran>>

SaveEnabled ==
    /\ GwIssue
    /\ gwDisk' = [gwDisk EXCEPT !.enabled = ~@]
    /\ UNCHANGED <<gwMeta, target, previous, gwHandle, transitioning, gwQueue, gwStep, gwTailVars, gwCache, reply, ran>>

\* GetGatewayStatus; when the lock is taken it answers from the cache.
GetGatewayStatus ==
    /\ gwQueue = <<>>
    /\ gwMeta' \in {gwMeta, gwDisk}
    /\ gwCache' = [running |-> gwHandle # "none", transitioning |-> transitioning]
    /\ UNCHANGED <<gwDisk, target, previous, gwHandle, transitioning, gwQueue, gwStep, gwTailVars, reply, ran, gwIssued>>

----------------------------------------------------------------------------
\* run_gateway_operation_with_timeout: the operation is over, the lock is
\* released and the snapshot becomes the cached status.
Kind == Head(gwQueue).kind
Answer(ok, handle, flag) ==
    /\ gwQueue' = Tail(gwQueue)
    /\ gwStep' = "idle"
    /\ gwCache' = [running |-> handle # "none", transitioning |-> flag]
    /\ reply' = [command |-> Head(gwQueue), ok |-> ok]
GoOn(step) == gwStep' = step /\ UNCHANGED <<gwQueue, gwCache, reply>>

\* The first part of each operation, up to stop() or start_from_config().
RefreshHost ==
    /\ Kind = "host"
    /\ Answer(TRUE, gwHandle, transitioning)
    /\ UNCHANGED gwConfVars

\* load_config_from_store or save_* fails: the store does not open or save.
StoreFails ==
    /\ Kind \notin {"host", "disable"}
    /\ Answer(FALSE, gwHandle, transitioning)
    /\ UNCHANGED gwConfVars

StartFromStore ==
    /\ Kind = "start"
    /\ gwMeta' = gwDisk /\ target' = gwDisk
    /\ IF gwDisk.enabled THEN GoOn("start") ELSE Answer(FALSE, gwHandle, transitioning)
    /\ UNCHANGED <<gwDisk, previous>>

RestartFromStore ==
    /\ Kind = "restart"
    /\ gwMeta' = gwDisk /\ target' = gwDisk
    /\ IF gwDisk.enabled THEN GoOn("stop") ELSE Answer(FALSE, gwHandle, transitioning)
    /\ UNCHANGED <<gwDisk, previous>>

SetEnabled ==
    \/ /\ Kind = "enable"
       /\ gwDisk' = [gwDisk EXCEPT !.enabled = TRUE]
       /\ target' = gwDisk'
       /\ GoOn("start")
       /\ UNCHANGED <<gwMeta, previous>>
    \/ /\ Kind = "disable"
       /\ GoOn("stop")
       /\ UNCHANGED gwConfVars

SetTailscaleMode ==
    /\ Kind = "mode"
    /\ previous' = gwMeta.mode
    /\ gwDisk' = [gwDisk EXCEPT !.mode = Head(gwQueue).mode]
    /\ gwMeta' = [gwMeta EXCEPT !.mode = Head(gwQueue).mode]
    /\ target' = gwDisk'
    /\ IF gwHandle = "none" THEN Answer(TRUE, gwHandle, transitioning) ELSE GoOn("stop")

BeginOperation ==
    /\ gwStep = "idle" /\ gwQueue # <<>>
    /\ \/ RefreshHost \/ StoreFails \/ StartFromStore \/ RestartFromStore
       \/ SetEnabled \/ SetTailscaleMode
    /\ ran' = (gwHandle # "none")
    /\ UNCHANGED <<gwHandle, transitioning, gwTailVars, gwIssued>>

\* mutant: the handle stays in place until the server has gone
TakeHandleLast ==
    /\ gwStep = "stop"
    /\ IF gwHandle = "none"
       THEN GoOn("stopped") /\ UNCHANGED <<draining, transitioning>>
       ELSE GoOn("draining") /\ draining' = gwHandle /\ transitioning' = TRUE
    /\ UNCHANGED <<gwConfVars, gwHandle, exposure, lateResets, ran, gwIssued>>

\* stop(): the handle is taken, and its shutdown awaited.
TakeHandle ==
    /\ gwStep = "stop"
    /\ IF gwHandle = "none"
       THEN GoOn("stopped") /\ UNCHANGED <<draining, transitioning>>
       ELSE GoOn("draining") /\ draining' = gwHandle /\ transitioning' = TRUE
    /\ gwHandle' = "none"
    /\ UNCHANGED <<gwConfVars, exposure, lateResets, ran, gwIssued>>

Resets(mode) == IF ResetOnExit /\ mode # "off" THEN 1 ELSE 0

\* shutdown_gracefully: the server has drained, teardown has run.
StopEnds ==
    /\ gwStep = "draining"
    /\ transitioning' = FALSE
    /\ exposure' \in {exposure} \cup (IF Resets(draining) = 1 THEN {"off"} ELSE {})
    /\ GoOn("stopped")
    /\ UNCHANGED <<gwConfVars, gwHandle, draining, lateResets, ran, gwIssued>>

\* The server task failed to join: the handle is dropped with its teardown.
StopFails ==
    /\ gwStep = "draining"
    /\ transitioning' = FALSE
    /\ lateResets' = lateResets + Resets(draining)
    /\ IF Kind = "disable" THEN Answer(FALSE, gwHandle, FALSE) ELSE GoOn("stopped")
    /\ UNCHANGED <<gwConfVars, gwHandle, draining, exposure, ran, gwIssued>>

\* What follows the stop: set_enabled(false) saves, the others start again.
AfterStop ==
    /\ gwStep = "stopped"
    /\ \/ /\ Kind = "disable"
          /\ gwDisk' = [gwDisk EXCEPT !.enabled = FALSE]
          /\ gwMeta' = [gwMeta EXCEPT !.enabled = FALSE]
          /\ Answer(TRUE, gwHandle, transitioning)
       \/ /\ Kind = "disable"
          /\ Answer(FALSE, gwHandle, transitioning)
          /\ UNCHANGED <<gwDisk, gwMeta>>
       \/ /\ Kind \in {"restart", "mode"}
          /\ IF Kind = "mode" /\ ~target.enabled THEN Answer(TRUE, gwHandle, transitioning)
             ELSE GoOn("start")
          /\ UNCHANGED <<gwDisk, gwMeta>>
    /\ UNCHANGED <<target, previous, gwHandle, transitioning, gwTailVars, ran, gwIssued>>

\* start_from_config failed; set_tailscale_mode puts the previous mode back,
\* in the file too when that save succeeds.
StartFails ==
    /\ gwMeta' = [target EXCEPT !.mode = IF Kind = "mode" THEN previous ELSE @]
    /\ gwDisk' \in {gwDisk} \cup (IF Kind = "mode" THEN {[gwDisk EXCEPT !.mode = previous]} ELSE {})
    /\ Answer(FALSE, gwHandle, transitioning)
    /\ UNCHANGED <<gwHandle, transitioning>>

\* start_from_config: a running gateway is left alone; spawn_gateway binds its
\* port and sets the exposure up.
StartFromConfig ==
    /\ gwStep = "start"
    /\ \/ gwHandle = "none" /\ StartFails
       \/ /\ gwHandle # "none" \/ target.mode = "off"
          /\ gwHandle' = IF gwHandle = "none" THEN "off" ELSE gwHandle
          /\ gwMeta' = target
          /\ Answer(TRUE, gwHandle', transitioning)
          /\ UNCHANGED <<gwDisk, transitioning>>
       \/ /\ gwHandle = "none" /\ target.mode # "off"
          /\ gwMeta' = target
          /\ transitioning' = TRUE
          /\ GoOn("expose")
          /\ UNCHANGED <<gwDisk, gwHandle>>
    /\ UNCHANGED <<target, previous, gwTailVars, ran, gwIssued>>

\* setup_tailscale: the gateway runs whether or not the exposure succeeded.
ExposeEnds ==
    /\ gwStep = "expose"
    /\ exposure' \in {exposure, target.mode}
    /\ gwHandle' = target.mode
    /\ transitioning' = FALSE
    /\ Answer(TRUE, target.mode, FALSE)
    /\ UNCHANGED <<gwConfVars, draining, lateResets, ran, gwIssued>>

OperationNeverTimesOut == FALSE   \* mutant: no timeout around the operation

\* The timeout drops the operation; mark_operation_timed_out.
OperationTimesOut ==
    /\ gwStep \in {"draining", "expose"}
    /\ \/ gwStep = "draining" /\ lateResets' = lateResets + Resets(draining) /\ UNCHANGED exposure
       \/ gwStep = "draining" /\ UNCHANGED <<lateResets, exposure>>   \* teardown had begun
       \/ gwStep = "expose" /\ exposure' \in {exposure, target.mode} /\ UNCHANGED lateResets
    /\ transitioning' = FALSE
    /\ Answer(FALSE, gwHandle, FALSE)
    /\ UNCHANGED <<gwConfVars, gwHandle, draining, ran, gwIssued>>

\* The task a dropped handle leaves behind: tailscale serve/funnel reset.
LateReset ==
    /\ lateResets > 0
    /\ lateResets' = lateResets - 1
    /\ exposure' \in {exposure, "off"}
    /\ UNCHANGED <<gwConfVars, gwHandle, transitioning, gwQueue, gwStep, draining, gwCache, reply, ran, gwIssued>>

GwStep == BeginOperation \/ TakeHandle \/ AfterStop \/ StartFromConfig \/ OperationTimesOut

GwNext ==
    \/ \E c \in GwCommands : SubmitGateway(c)
    \/ SaveEnabled \/ GetGatewayStatus
    \/ GwStep \/ StopEnds \/ StopFails \/ ExposeEnds \/ LateReset

\* The runtime keeps polling the operation at the lock and its timer fires; a
\* shutdown need not end and a tailscale command need not return.
GwFairness == WF_gwVars(GwStep)
GwSpec == GwInit /\ [][GwNext]_gwVars

----------------------------------------------------------------------------
\* GatewayManager's fields and the cached status stay within their types.
GwTypeOK ==
    /\ gwDisk \in [enabled : BOOLEAN, mode : Modes] /\ gwMeta \in [enabled : BOOLEAN, mode : Modes]
    /\ gwHandle \in Modes \cup {"none"} /\ transitioning \in BOOLEAN
    /\ gwQueue \in Seq(GwCommands) /\ gwStep \in Steps
    /\ target \in [enabled : BOOLEAN, mode : Modes] /\ previous \in Modes
    /\ draining \in Modes /\ exposure \in Modes /\ lateResets \in Nat
    /\ gwCache \in [running : BOOLEAN, transitioning : BOOLEAN]
    /\ reply \in [command : GwCommands \cup {NoCommand}, ok : BOOLEAN] /\ ran \in BOOLEAN

\* mark_operation_timed_out and the cache of gui.rs: however an operation
\* ended, the manager is not left transitioning, and once no command is left
\* the cached status says exactly whether a gateway runs.
StatusSettled ==
    /\ gwStep \in {"idle", "stopped", "stop"} => ~transitioning
    /\ gwQueue = <<>> => gwCache = [running |-> gwHandle # "none", transitioning |-> FALSE]

\* set_tailscale_mode, with every failure, revert and timeout: between two
\* operations a running gateway runs with the mode the file holds.
RunsSavedMode == gwStep = "idle" /\ gwHandle # "none" => gwHandle = gwDisk.mode

\* The answer the panel shows: a command reported as done has had its effect,
\* whatever was queued before it.
HonestAnswer ==
    gwQueue # <<>> /\ gwQueue' = Tail(gwQueue) /\ reply'.ok =>
        /\ Kind \in {"start", "restart", "enable"} => gwHandle' # "none"
        /\ Kind = "disable" => gwHandle' = "none" /\ ~gwDisk'.enabled
        /\ Kind = "mode" => gwDisk'.mode = Head(gwQueue).mode
                            /\ (ran' /\ target'.enabled => gwHandle' # "none")
AnswerTruthful == [][HonestAnswer]_gwVars

\* run_gateway_operation_with_timeout: with a connection that never closes and
\* a tailscale command that never returns, every command is still answered.
GatewayAnswers == gwQueue # <<>> ~> gwQueue = <<>>

\* docs/src/gateway/tailscale.md: switching the mode restarts the gateway.
\* It does not hold and no run checks it (README.md).
ModeSwitchRestarts ==
    gwStep = "idle" /\ reply.command.kind = "mode" /\ ran /\ target.enabled
        => gwHandle # "none"
=============================================================================
