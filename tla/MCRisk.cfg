SPECIFICATION Spec
CONSTANTS
    Equities <- MCEquities
    MaxDrawdown = 3
    MaxDailyLoss = 1
    MaxConsecutiveLosses = 2
    MaxOpenPositions = 1
    CooldownLoss = 1
    CooldownWin = 2
    ClockTolerance = 1
    DayLength = 2
    ClockSteps <- MCClockSteps
    MaxTime = 3
    MaxStreak = 2
    PanelWhileRunning = FALSE
    NoState = NoState
INVARIANTS
    TypeOK
    NoEntryWhileHalted
    DayLatchHolds
    DrawdownBound
    CooldownHolds
    WriteThrough
