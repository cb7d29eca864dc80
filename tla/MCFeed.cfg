SPECIFICATION FairSpec
CONSTANTS
    Faults <- MCFaults
    Credentials = TRUE
    MaxAge <- MCMaxAge
    Warmup = 2
    PingInterval = 1
    PongTimeout = 3
    ResyncAttempts = 2
    MaxAttempts = 2
    Window = 3
    MaxDelay = 1
    MaxChanges = 2
INVARIANTS
    TypeOK
    ServedIsCurrent
    PositionIsKnown
    PositionForward
    NotHammered
PROPERTIES
    PingGoesFirst
    StopEnds
\* run() returns when it is stopped, cancelled, refused or in a storm.
CHECK_DEADLOCK FALSE
