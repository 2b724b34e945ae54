SPECIFICATION FairSpec
CONSTANTS
    Levels = {l1}
    Streams = {"user"}
    Limit = 4
    Size = 2
    MaxCycles = 2
    MaxGenerations = 2
    MaxLosses = 2
    MaxRestarts = 0
    Orders <- AllOrders
    Callers <- AllThreads
CHECK_DEADLOCK FALSE
INVARIANTS
    TypeOK
    EngineCoversVenue
    FilledIsTrue
    PositionIsReal
PROPERTIES
    KeepsBook
    ReconciliationEnds
