SPECIFICATION Spec
CONSTANTS
    j1 = j1
    j2 = j2
    w1 = w1
    w2 = w2
    gui = gui
    Manual = Manual
    Jobs = {j1}
    EveryMs <- MCEveryTick
    CronNext <- MCCronNext
    CronKind = {}
    Exhausted = {}
    Policy = "Skip"
    BatchLimit = 1
    Workers = {w1}
    Runners = {}
    Edits = {j1}
    Faults = FALSE
    MaxTime = 3
CHECK_DEADLOCK FALSE
INVARIANT SlotRunsOnce
