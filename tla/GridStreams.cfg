SPECIFICATION Spec
CONSTANTS
    Levels = {l1}
    Streams = {"user", "market"}
    Limit = 2
    Size = 1
    MaxCycles = 2
    MaxGenerations = 2
    MaxLosses = 2
    MaxRestarts = 0
    Orders <- AllOrders
    Callers <- AllThreads
CHECK_DEADLOCK FALSE
INVARIANTS
    SingleInFlight
    EngineCoversVenue
