SPECIFICATION FairServicesSpec
CONSTANTS
    Drivers = {d1}
    Clicks = {c1, c2}
    NoTick = NoTick
    MaxMessages = 2
    MaxMishaps = 1
CHECK_DEADLOCK FALSE
PROPERTY GuardReleased
