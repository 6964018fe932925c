SPECIFICATION SharedSpec
CONSTANTS
    Conns = {c1, c2}
    ChatTurns = {t1}
    NoTurn = NoTurn
    Capacity = 1
    MaxActive = 1
    MaxFrames = 2
    MaxPushes = 1
    MaxSockets = 3
    UiTurns = {1}
    PageSize = 1
    MaxStored = 1
    MaxActs = 1
    MaxPending = 2
    MaxRefusals = 1
    Turns = {u1, u2}
    HistoryLimits = {0, 1, 2, 3, 4}
    MaxSessions = 2
    MaxTurns = 3
    MaxReplies = 1
    Registries = {"r1", "r2"}
    SkillNames = {"n1", "n2"}
    Offers <- MCOffers
    MaxSkillOps = 3
    Savers = {gui, runtime}
    Stores = {s1, s2}
    Settings = {f1, f2}
    Values = {v0, v1}
    DefaultValue = v0
    MaxSaves = 3
CHECK_DEADLOCK FALSE
INVARIANTS
    NoGaps
    StarterLearnsEnd
    MessagesUnique
    LoadingEnds
    SummaryFaithful
    ContextComplete
    
PROPERTIES
    UpdateIsLocal
