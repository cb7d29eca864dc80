SPECIFICATION FairSpec
CONSTANTS
    Size = 2
    MaxTrades = 2
    Directions <- MCDirections
    Faults <- MCFaults
INVARIANTS
    TypeOK
    RecordsAreReal
PROPERTIES
    KeepsPromise
    AnswerComes
CHECK_DEADLOCK FALSE
