SPECIFICATION Spec
CONSTANTS
    Windows <- MCWindows
    FlatBefore = 30
    NoEntryBefore = 45
    NoEntryAfter = 15
    UnknownClosed = TRUE
    Top = 5
    Size = 2
    StopTicks = 2
    Tp1Pct = 50
    Tp2Pct = 25
    Unit = 4
    Maker <- MCMaker
    Taker = 1
    BarMinutes = 15
    LastBar = 4
    Polls = 2
    MaxTrades = 2
    Faults <- MCFaults
    NoPosition = NoPosition
    MinTrades = 2
    MaxLossPct = 150
    Venues <- MCVenues
    Earlier <- MCEarlier
    NoTestimony = NoTestimony
    Corrupt = Corrupt
    NotStarted = NotStarted
INVARIANTS
    TypeOK
    TracksSimulator
    BooksReconcile
    FaithfulBooks
    CleanTestimonyIsTrue
    LiveStartIsEarned
PROPERTIES
    SessionRespected
    RunProgresses
CHECK_DEADLOCK FALSE
