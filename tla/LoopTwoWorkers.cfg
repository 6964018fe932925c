SPECIFICATION Spec
CONSTANTS
    m1 = m1
    m2 = m2
    bad = bad
    NoMsg = NoMsg
    w1 = w1
    w2 = w2
    Msgs = {m1, bad}
    Invalid = {bad}
    HeaderAttempt <- MCHeaderAttempt
    Workers = {w1, w2}
    Redelivers = TRUE
    Faulty = TRUE
    Cancellable = TRUE
    MaxAttempts = 2
    FailureThreshold = 2
CHECK_DEADLOCK FALSE
INVARIANTS
    AckedHasOutcome
PROPERTIES
    ImplementsDelivery
