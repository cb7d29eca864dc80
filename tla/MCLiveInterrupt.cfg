SPECIFICATION Spec
CONSTANTS
    Size = 2
    MaxTrades = 2
    Directions <- MCLong
    Faults <- MCInterruptFaults
    SlAttempts = 2
    Tp1Pct = 50
    Tp2Pct = 25
    Outage = 2
    MaxCalls = 2
    NoPosition = NoPosition
INVARIANTS
    DisarmedOnStop
CHECK_DEADLOCK FALSE
