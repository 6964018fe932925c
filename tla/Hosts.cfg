SPECIFICATION HostsSpec
CONSTANTS
    Keys = {k1, k2}
    Versions = {v1, v2}
    MaxThreads = 3
    MaxCommands = 1
    Servers = {"s1", "s2"}
    McpVersions = {m1, m2}
    Catalog <- MCCatalog
    Builtins = {"builtin1"}
    Agents = {"acp"}
    MaxHostCommands = 2
    ResetOnExit = TRUE
    MaxGwCommands = 2
CHECK_DEADLOCK FALSE
INVARIANTS
    OneServerPerChannel
    RegisteredIsServed
    
PROPERTIES
    ChReconciles
    ChannelsServed
    McpServed
    GatewayAnswered
