SPECIFICATION Spec
CONSTANTS
    Levels = {l1}
    Streams = {"user"}
    Limit = 2
    Size = 1
    MaxCycles = 2
    MaxGenerations = 2
    MaxLosses = 1
    MaxRestarts = 0
    Orders <- AllOrders
    Callers <- AllThreads
CHECK_DEADLOCK FALSE
INVARIANT CanceledReleased
