SPECIFICATION TurnsSpec
CONSTANTS
    m1 = m1
    m2 = m2
    bad = bad
    NoMsg = NoMsg
    Msgs = {m1, m2, bad}
    Invalid = {bad}
    HeaderAttempt <- MCHeaderAttempt
    Workers = {w1}
    Redelivers = TRUE
    Faulty = TRUE
    Cancellable = FALSE
    LimitSets <- MCLimitSets
    BatchSizes = {1, 2}
    Usages = {0, 1, 2}
    MaxDeltas = 2
    MaxRequests = 4
    Threads = {t1, t2, t3}
    MaxAttempts = 3
    FailureThreshold = 2
    OpenInterval = 2
    Drivers = {d1, d2}
    Clicks = {c1}
    NoTick = NoTick
    MaxMessages = 2
    MaxMishaps = 2
    Requests = {r1}
    Agents = {r1}
    BaseSession = base
    Branches = {branch}
    NoSession = NoSession
    MaxSwitches = 3
    MaxHookFaults = 2
CHECK_DEADLOCK FALSE
INVARIANTS
    AnsweredOnce
    SignalEndsTurn
    StreamShowsCurrent
    FailuresBounded
    OutboundOnce
    HookStatusTruthful
PROPERTIES
    
    Recovers
    
    
