------------------------------ MODULE ToolHost ------------------------------
(***************************************************************************)
(* The tool registry of a running klaw and those who change it: the MCP    *)
(* manager (klaw-mcp/src/manager.rs) with its client hub, the ACP manager  *)
(* (klaw-acp/src/manager.rs) and sync_runtime_tools                        *)
(* (klaw-runtime/src/lib.rs), driven by the runtime commands of            *)
(* klaw-cli/src/commands/gui.rs and by the gateway's MCP API               *)
(* (klaw-runtime/src/webhook.rs).                                          *)
(*                                                                         *)
(* They run on one thread and give way only at an await: an MCP server is  *)
(* started and stopped across awaits, the built-in tools are constructed   *)
(* across one, an ACP sync has none.  Turns of the agent run on other      *)
(* threads and may look a tool up in the registry, and its MCP client in   *)
(* the hub, between any two steps.  A name in the registry belongs to      *)
(* whoever registered it last.                                             *)
(***************************************************************************)
EXTENDS Naturals, Sequences, FiniteSets

CONSTANTS
    Servers,     \* MCP servers
    McpVersions,    \* configurations of an enabled server; "off": disabled
    Catalog,     \* [Servers -> sets of tool names list_tools may return]
    Builtins,    \* names of the configurable built-in tools
    Agents,      \* ACP agents; an agent's tool has the agent's name
    MaxHostCommands  \* bound: edits and restarts

Names  == Builtins \cup Agents \cup UNION UNION {Catalog[s] : s \in Servers}
Owners == {"nobody", "builtin"} \cup Agents \cup Servers
McpOff    == "off"
McpAbsent == "absent"   \* no entry in the configuration
McpSettings == {McpOff, McpAbsent} \cup McpVersions

\* An owner is an agent, a server, "builtin" or "nobody": the kinds differ.
ASSUME ToolHostAssumption ==
    /\ {McpOff, McpAbsent} \cap McpVersions = {}
    /\ Servers \cap Agents = {} /\ {"nobody", "builtin"} \cap (Servers \cup Agents) = {}

VARIABLES
    mcpConfig, toolConfig, acpConfig,  \* what the configuration file says
    mcpQueue,   \* MCP commands that read their snapshot and wait for the lock
    mcpOp,      \* the one that holds it, or NoCmd
    toStop, toStart,   \* its plan
    stopping, starting,  \* servers whose shutdown or start is awaited
    servers,    \* handles: the setting a server runs with, and its tool_names
    hub,        \* servers with a client in McpClientHub
    mcpStatus,  \* McpLifecycleState of every server that is shown
    toolTasks,  \* sync_runtime_tools tasks that construct their tools
    agents,     \* ACP agents that are registered
    registry,   \* ToolRegistry: the owner of every name
    commands    \* history: commands issued, against MaxHostCommands

mcpVars  == <<mcpQueue, mcpOp, toStop, toStart, stopping, starting, servers, hub, mcpStatus>>
confVars == <<mcpConfig, toolConfig, acpConfig, commands>>
toolHostVars == <<mcpVars, confVars, toolTasks, agents, registry>>

NoCmd    == [kind |-> "none", server |-> "none", snapshot |-> <<>>]
NoHandle == [setting |-> McpOff, tools |-> {}]
McpCommands ==
    {c \in [kind : {"sync", "restart"}, server : Servers \cup {"none"}, snapshot : [Servers -> McpSettings]] :
        c.kind = "restart" => c.server \in Servers}
Handles(s) == {NoHandle} \cup [setting : McpVersions, tools : Catalog[s]]
RunningServers  == {s \in Servers : servers[s] # NoHandle}
McpIdle  == mcpOp = NoCmd /\ mcpQueue = <<>>

HostInit ==
    /\ mcpConfig \in [Servers -> {McpOff} \cup McpVersions]
    /\ toolConfig = Builtins /\ acpConfig = {}
    /\ mcpQueue = <<[kind |-> "sync", server |-> "none", snapshot |-> mcpConfig]>>
    /\ mcpOp = NoCmd /\ toStop = {} /\ toStart = {} /\ stopping = {} /\ starting = {}
    /\ servers = [s \in Servers |-> NoHandle]
    /\ hub = {} /\ agents = {} /\ toolTasks = <<>>
    /\ mcpStatus = [s \in Servers |-> "absent"]
    /\ registry = [n \in Names |-> IF n \in Builtins THEN "builtin" ELSE "nobody"]
    /\ commands = 0

Issue == commands < MaxHostCommands /\ commands' = commands + 1

----------------------------------------------------------------------------
\* The tool registry.
RegisterMany(names, owner) == [n \in Names |-> IF n \in names THEN owner ELSE registry[n]]
UnregisterMany(names) == RegisterMany(names, "nobody")

----------------------------------------------------------------------------
\* Commands.  A task reads the configuration when it queues for the lock.
QueueMcp(kind, s, snapshot) ==
    mcpQueue' = Append(mcpQueue, [kind |-> kind, server |-> s, snapshot |-> snapshot])
mcpRest == <<mcpOp, toStop, toStart, stopping, starting, servers, hub, mcpStatus>>

SyncMcp(s, setting) ==
    /\ Issue
    /\ mcpConfig' = [mcpConfig EXCEPT ![s] = setting]
    /\ QueueMcp("sync", "none", mcpConfig')
    /\ UNCHANGED <<toolConfig, acpConfig, mcpRest, toolTasks, agents, registry>>

RestartMcpServer(s) ==
    /\ Issue
    /\ QueueMcp("restart", s, mcpConfig)
    /\ UNCHANGED <<mcpConfig, toolConfig, acpConfig, mcpRest, toolTasks, agents, registry>>

\* The gateway's MCP API.  It saves and, without an await in between, queues
\* the configuration it saved: create_server takes a new id ...
CreateServer(s, setting) ==
    /\ mcpConfig[s] = McpAbsent /\ setting # McpAbsent
    /\ SyncMcp(s, setting)

\* ... update_server one that is there (under its own id) ...
UpdateServer(s, setting) ==
    /\ mcpConfig[s] # McpAbsent /\ setting # McpAbsent
    /\ SyncMcp(s, setting)

\* ... delete_server removes the entry, and sync applies the file as it is.
DeleteServer(s) == mcpConfig[s] # McpAbsent /\ SyncMcp(s, McpAbsent)
ApiSync(s) == SyncMcp(s, mcpConfig[s])

SyncTools(enabled) ==
    /\ Issue
    /\ toolConfig' = enabled
    /\ toolTasks' = Append(toolTasks, enabled)
    /\ UNCHANGED <<mcpConfig, acpConfig, mcpVars, agents, registry>>

\* stop_agent and start_agent of the AcpManager.
StopAgents(leaving, reg) == [n \in Names |-> IF n \in leaving THEN "nobody" ELSE reg[n]]
StartAgents(new, reg)    == [n \in Names |-> IF n \in new THEN n ELSE reg[n]]

\* AcpManager.sync, whole: those no longer enabled stop, the new ones start.
SyncAcp(enabled) ==
    /\ Issue
    /\ acpConfig' = enabled
    /\ agents' = enabled
    /\ registry' = StartAgents(enabled \ agents, StopAgents(agents \ enabled, registry))
    /\ UNCHANGED <<mcpConfig, toolConfig, mcpVars, toolTasks>>

----------------------------------------------------------------------------
\* sync_runtime_tools: the tools are constructed, the built-in names cleared
\* and the constructed tools registered.  Tasks do not wait for each other.
ApplyTools(i) ==
    /\ i \in DOMAIN toolTasks
    /\ toolTasks' = SubSeq(toolTasks, 1, i - 1) \o SubSeq(toolTasks, i + 1, Len(toolTasks))
    /\ registry' = [n \in Names |-> IF n \in toolTasks[i] THEN "builtin"
                                    ELSE IF n \in Builtins THEN "nobody" ELSE registry[n]]
    /\ UNCHANGED <<confVars, mcpVars, agents>>

----------------------------------------------------------------------------
\* McpManager, under its lock.
Wanted(snapshot)  == {s \in Servers : snapshot[s] \in McpVersions}
Altered(snapshot) == {s \in RunningServers \cap Wanted(snapshot) : servers[s].setting # snapshot[s]}

\* sync stops what is not wanted any more and restarts what was altered.
PlanSync(snapshot) ==
    /\ toStop' = (RunningServers \ Wanted(snapshot)) \cup Altered(snapshot)
    /\ toStart' = (Wanted(snapshot) \ RunningServers) \cup Altered(snapshot)

\* restart_server stops and starts one server.
PlanRestart(s, snapshot) ==
    /\ s \in Wanted(snapshot)
    /\ toStop' = {s} \cap RunningServers
    /\ toStart' = {s}

\* The head of the queue gets the lock.
BeginMcp ==
    /\ mcpOp = NoCmd /\ mcpQueue # <<>>
    /\ LET c == Head(mcpQueue) IN
       /\ mcpOp' = c
       /\ \/ c.kind = "sync" /\ PlanSync(c.snapshot)
          \/ c.kind = "restart" /\ PlanRestart(c.server, c.snapshot)
    /\ mcpQueue' = Tail(mcpQueue)
    /\ UNCHANGED <<stopping, starting, servers, hub, mcpStatus, confVars, toolTasks, agents, registry>>

\* restart_server refuses a server that is unknown, disabled or not stdio.
RefuseMcp ==
    /\ mcpOp = NoCmd /\ mcpQueue # <<>>
    /\ Head(mcpQueue).kind = "restart"
    /\ mcpQueue' = Tail(mcpQueue)
    /\ UNCHANGED <<mcpRest, confVars, toolTasks, agents, registry>>

\* Mutant: the client leaves the hub before the tools leave the registry.
StopServerHubFirst(s) ==
    /\ s \in toStop /\ stopping = {}
    /\ toStop' = toStop \ {s}
    /\ stopping' = {s}
    /\ servers' = [servers EXCEPT ![s] = NoHandle]
    /\ hub' = hub \ {s}
    /\ UNCHANGED <<mcpQueue, mcpOp, toStart, starting, mcpStatus, confVars, toolTasks, agents, registry>>

\* stop_server: the tools are unregistered, then the client's shutdown awaited.
StopServer(s) ==
    /\ s \in toStop /\ stopping = {}
    /\ toStop' = toStop \ {s}
    /\ stopping' = {s}
    /\ servers' = [servers EXCEPT ![s] = NoHandle]
    /\ registry' = UnregisterMany(servers[s].tools)
    /\ UNCHANGED <<mcpQueue, mcpOp, toStart, starting, hub, mcpStatus, confVars, toolTasks,
                   agents>>

\* The client leaves the hub once its shutdown has ended ...
ServerStopped(s) ==
    /\ s \in stopping
    /\ stopping' = {}
    /\ hub' = hub \ {s}
    /\ mcpStatus' = [mcpStatus EXCEPT ![s] = "stopped"]
    /\ UNCHANGED <<mcpQueue, mcpOp, toStop, toStart, starting, servers, confVars, toolTasks,
                   agents, registry>>

\* Mutant: the shutdown is awaited without a timeout.
NoShutdownTimeout(s) == s \in stopping /\ s \in RunningServers /\ ServerStopped(s)

\* ... or SERVER_SHUTDOWN_TIMEOUT has passed.
ShutdownTimesOut(s) == ServerStopped(s)

\* start_server: create_client, initialize and list_tools are awaited.
StartServer(s) ==
    /\ toStop = {} /\ stopping = {} /\ starting = {} /\ s \in toStart
    /\ toStart' = toStart \ {s}
    /\ starting' = {s}
    /\ mcpStatus' = [mcpStatus EXCEPT ![s] = "starting"]
    /\ UNCHANGED <<mcpQueue, mcpOp, toStop, stopping, servers, hub, confVars, toolTasks, agents, registry>>

\* It answered within startup_timeout_seconds.
ServerStarted(s, tools) ==
    /\ s \in starting
    /\ starting' = {}
    /\ hub' = hub \cup {s}
    /\ registry' = RegisterMany(tools, s)
    /\ servers' = [servers EXCEPT ![s] = [setting |-> mcpOp.snapshot[s], tools |-> tools]]
    /\ mcpStatus' = [mcpStatus EXCEPT ![s] = "running"]
    /\ UNCHANGED <<mcpQueue, mcpOp, toStop, toStart, stopping, confVars, toolTasks, agents>>

\* It failed ...
ServerFailed(s) ==
    /\ s \in starting
    /\ starting' = {}
    /\ mcpStatus' = [mcpStatus EXCEPT ![s] = "failed"]
    /\ UNCHANGED <<mcpQueue, mcpOp, toStop, toStart, stopping, servers, hub, confVars, toolTasks,
                   agents, registry>>

\* ... or startup_timeout_seconds passed.
StartTimesOut(s) == ServerFailed(s)

\* reconcile_statuses: a disabled server, or one that is new to the manager, is
\* shown stopped; one that has no entry is not shown.
McpShown(snapshot) ==
    [s \in Servers |-> IF snapshot[s] = McpAbsent THEN "absent"
                       ELSE IF s \in Wanted(snapshot) /\ mcpStatus[s] # "absent" THEN mcpStatus[s]
                       ELSE "stopped"]

FinishMcp ==
    /\ mcpOp # NoCmd /\ toStop = {} /\ toStart = {} /\ stopping = {} /\ starting = {}
    /\ mcpOp' = NoCmd
    /\ mcpStatus' = McpShown(mcpOp.snapshot)
    /\ UNCHANGED <<mcpQueue, toStop, toStart, stopping, starting, servers, hub, confVars,
                   toolTasks, agents, registry>>

----------------------------------------------------------------------------
McpStep ==
    \/ BeginMcp \/ RefuseMcp \/ FinishMcp
    \/ \E s \in Servers : StopServer(s) \/ StartServer(s)
    \/ \E s \in Servers : ShutdownTimesOut(s) \/ StartTimesOut(s)
ServerAnswers ==
    \E s \in Servers :
        \/ ServerStopped(s) \/ ServerFailed(s)
        \/ \E tools \in Catalog[s] : ServerStarted(s, tools)

HostNext ==
    \/ \E s \in Servers, v \in McpSettings :
        SyncMcp(s, v) \/ CreateServer(s, v) \/ UpdateServer(s, v)
    \/ \E s \in Servers : RestartMcpServer(s) \/ DeleteServer(s) \/ ApiSync(s)
    \/ \E enabled \in SUBSET Builtins : SyncTools(enabled)
    \/ \E enabled \in SUBSET Agents : SyncAcp(enabled)
    \/ \E i \in DOMAIN toolTasks : ApplyTools(i)
    \/ McpStep \/ ServerAnswers

HostSpec == HostInit /\ [][HostNext]_toolHostVars

\* The runtime thread polls its tasks and timers; nothing is asked of servers.
HostFairness == WF_toolHostVars(McpStep)

----------------------------------------------------------------------------
\* The maps of McpManager agree with each other and with the hub: a server with
\* a handle has its client in the hub and is neither being stopped nor started.
HostTypeOK ==
    /\ mcpConfig \in [Servers -> McpSettings]
    /\ toolConfig \subseteq Builtins /\ acpConfig \subseteq Agents /\ agents \subseteq Agents
    /\ mcpQueue \in Seq(McpCommands) /\ mcpOp \in McpCommands \cup {NoCmd}
    /\ DOMAIN servers = Servers /\ \A s \in Servers : servers[s] \in Handles(s)
    /\ hub \subseteq Servers /\ stopping \subseteq Servers /\ starting \subseteq Servers
    /\ toolTasks \in Seq(SUBSET Builtins)
    /\ toStop \subseteq RunningServers /\ toStart \subseteq Servers \ starting
    /\ stopping \cap RunningServers = {} /\ starting \cap RunningServers = {}
    /\ RunningServers \subseteq hub
    /\ mcpStatus \in [Servers -> {"starting", "running", "stopped", "failed", "absent"}]
    /\ registry \in [Names -> Owners]

\* A registered tool can be reached: whenever the registry leads to an MCP
\* server, its client is in the hub, and to an ACP agent, it is registered,
\* at every point of a hot reload (insert before register in start_server,
\* unregister before remove in stop_server).
RegisteredIsServed ==
    \A n \in Names :
        /\ registry[n] \in Servers => registry[n] \in hub
        /\ registry[n] \in Agents => registry[n] \in agents

\* Names another server, a built-in tool or an agent may claim.
Contested(s) == Builtins \cup Agents
                \cup UNION UNION {Catalog[t] : t \in Servers \ {s}}

\* A running server owns its tools as long as no one else uses their names,
\* whatever else was started, stopped and synchronised in the meantime.
OwnToolsKept ==
    \A s \in RunningServers : \A n \in servers[s].tools \ Contested(s) : registry[n] = s

\* Once the queued commands are done, a server is shown running exactly when it
\* has a handle, and it runs with the configuration of the file (restart_server
\* reconciles statuses with a snapshot nobody has synchronised yet).
McpApplied ==
    McpIdle => \A s \in Servers :
        /\ mcpStatus[s] = "running" <=> s \in RunningServers
        /\ s \in RunningServers => servers[s].setting = mcpConfig[s]
        /\ mcpConfig[s] \in McpVersions => mcpStatus[s] \in {"running", "failed"}
        /\ mcpConfig[s] = McpAbsent <=> mcpStatus[s] = "absent"

\* klaw-mcp/README.md: tool name conflicts are handled, and proxy tools reach
\* the newest client after a hot reload.  Every tool of a running server would
\* then be registered for someone.
\* It does not hold and no run checks it (README.md).
RunningToolsRegistered ==
    McpIdle /\ toolTasks = <<>> =>
        \A s \in RunningServers : \A n \in servers[s].tools : registry[n] # "nobody"

\* Every command that waits for the MCP manager is executed, however long its
\* servers take to start and stop.
McpCommandsServed == (mcpQueue # <<>>) ~> McpIdle

\* The MCP operation under way, as the hot reload sees it.
McpGoalOf(c) ==
    IF c = NoCmd THEN [want |-> [s \in Servers |-> McpOff], scope |-> {}, force |-> FALSE]
    ELSE [want  |-> [s \in Servers |-> IF s \in Wanted(c.snapshot) THEN c.snapshot[s] ELSE McpOff],
          scope |-> IF c.kind = "sync" THEN Servers ELSE {c.server},
          force |-> c.kind = "restart"]
McpGoal == McpGoalOf(mcpOp)

McpReload == INSTANCE Reconciler WITH
    Items <- Servers, Configs <- McpVersions, Down <- McpOff,
    running <- [s \in Servers |-> servers[s].setting],
    goal <- McpGoal

\* sync and restart_server implement the hot reload, although servers start and
\* stop across awaits, fail or time out: a server whose configuration did not
\* change keeps its client, a restart touches no other server, and what starts
\* has the configuration of the snapshot its operation read.
McpReconciles == McpReload!Spec
====
