SPECIFICATION FairSpec
CONSTANTS
    Faults <- MCNoFaults
    Credentials = TRUE
    MaxAge <- MCMaxAge
    Warmup = 2
    PingInterval = 1
    PongTimeout = 3
    ResyncAttempts = 2
    MaxAttempts = 2
    Window = 3
    MaxDelay = 1
    MaxChanges = 0
PROPERTY
    StopAlwaysEnds
CHECK_DEADLOCK FALSE
