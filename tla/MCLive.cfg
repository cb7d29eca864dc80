SPECIFICATION Spec
CONSTANTS
    Size = 2
    MaxTrades = 2
    Directions <- MCDirections
    Faults <- MCFaults
    SlAttempts = 2
    Tp1Pct = 50
    Tp2Pct = 25
    Outage = 2
    MaxCalls = 2
    NoPosition = NoPosition
CONSTRAINT
    SecondTradeBound
INVARIANTS
    TypeOK
    Covered
    NeverForgets
    NeverDoubles
    BookedExactly
    NoStaleLevel
CHECK_DEADLOCK FALSE
