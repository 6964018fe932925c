SPECIFICATION Spec
CONSTANTS
    j1 = j1
    j2 = j2
    w1 = w1
    w2 = w2
    gui = gui
    Manual = Manual
    Jobs = {j1, j2}
    EveryMs <- MCEveryTick
    CronNext <- MCCronNext
    CronKind = {j2}
    Exhausted = {j2}
    Policy = "Skip"
    BatchLimit = 1
    Workers = {w1, w2}
    Runners = {gui}
    Edits = {j2}
    Faults = TRUE
    MaxTime = 2
SYMMETRY WorkerSymmetry
CHECK_DEADLOCK FALSE
INVARIANTS
    SlotRunsOnce
    RunStatusTruthful
