SPECIFICATION Spec
CONSTANTS
    Levels = {l1}
    Streams = {"user"}
    Limit = 2
    Size = 1
    MaxCycles = 2
    MaxGenerations = 2
    MaxLosses = 1
    MaxRestarts = 1
    Orders <- AllOrders
    Callers <- AllThreads
CHECK_DEADLOCK FALSE
INVARIANTS
    WriteAhead
    StartsReconciled
PROPERTIES
    NoBlindRetry
    KeepsBook
