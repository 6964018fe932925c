SPECIFICATION SchedulesSpec
CONSTANTS
    j1 = j1
    j2 = j2
    w1 = w1
    w2 = w2
    gui = gui
    Manual = Manual
    Jobs = {j1, j2}
    EveryMs <- MCEveryTick
    CronNext <- MCCronNext
    CronKind = {j2}
    Exhausted = {}
    Policy = "CatchUp"
    BatchLimit = 2
    Workers = {w1}
    Runners = {}
    Edits = {j1}
    Faults = FALSE
    MaxTime = 2
    Beaters = {b1, b2}
    RunNow = {b2}
    Touchers = {t1}
    Periods = {1, 2}
    DefaultEvery = 2
    MaxClock = 3
    MaxHbRows = 2
    MaxHbWrites = 1
    MaxHbFaults = 1
CHECK_DEADLOCK FALSE
INVARIANTS
    
    BeatClaimedOnce
PROPERTIES
    
    DueBeatMovesOn
