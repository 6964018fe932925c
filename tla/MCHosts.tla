------------------------------- MODULE MCHosts -------------------------------
(***************************************************************************)
(* Small instances of the three managers the GUI's commands drive: the     *)
(* channel manager, the MCP manager with the tool registry, the gateway    *)
(* manager.  They share no state: a behaviour moves one of them, the       *)
(* focus, and is fair to that one.                                         *)
(***************************************************************************)
EXTENDS ChannelManager, ToolHost, GatewayManager

VARIABLE focus

MCCatalog == [s \in Servers |-> IF s = "s1" THEN {{"own", "shared"}} ELSE {{"shared"}, {"shared", "builtin1"}}]

hostsVars == <<focus, chVars, toolHostVars, gwVars>>

\* A component that does not move has one initial state.
HostsInit ==
    /\ focus \in {"channels", "tools", "gateway"}
    /\ ChInit
    /\ HostInit
    /\ GwInit
    /\ focus = "channels" \/ saved = [k \in Keys |-> Absent]
    /\ focus = "tools" \/ mcpConfig = [s \in Servers |-> McpOff]
    /\ focus = "gateway" \/ gwDisk = [enabled |-> FALSE, mode |-> "off"]

HostsNext ==
    /\ UNCHANGED focus
    /\ \/ focus = "channels" /\ ChNext /\ UNCHANGED <<toolHostVars, gwVars>>
       \/ focus = "tools" /\ HostNext /\ UNCHANGED <<chVars, gwVars>>
       \/ focus = "gateway" /\ GwNext /\ UNCHANGED <<chVars, toolHostVars>>

HostsSpec ==
    /\ HostsInit /\ [][HostsNext]_hostsVars
    /\ WF_chVars(focus = "channels" /\ Manager)
    /\ WF_toolHostVars(focus = "tools" /\ McpStep)
    /\ WF_gwVars(focus = "gateway" /\ GwStep)

\* CommandsServed where the runtime thread runs: join_channel_thread_with_timeout
\* gives up on a thread that does not end, so that every command is served.
ChannelsServed == focus = "channels" => CommandsServed

\* McpCommandsServed where the runtime thread runs: initialize, list_tools and the
\* shutdown of a server have timeouts, so that every command is served.
McpServed == focus = "tools" => McpCommandsServed

\* GatewayAnswers where the runtime thread runs: run_gateway_operation_with_timeout
\* drops an operation that does not end, so that every command is answered.
GatewayAnswered == focus = "gateway" => GatewayAnswers
=============================================================================
