SPECIFICATION Spec
CONSTANTS
    m1 = m1
    m2 = m2
    bad = bad
    NoMsg = NoMsg
    w1 = w1
    w2 = w2
    Msgs = {m1}
    Invalid = {}
    HeaderAttempt <- MCHeaderAttempt
    Workers = {w1}
    Redelivers = FALSE
    Faulty = FALSE
    Cancellable = TRUE
    MaxAttempts = 3
    FailureThreshold = 2
CHECK_DEADLOCK FALSE
INVARIANT NeverLost
