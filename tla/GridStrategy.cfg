\* A call returns: the end of it is no deadlock.
CHECK_DEADLOCK FALSE
SPECIFICATION Spec
CONSTANTS
    Calls <- SmallCalls
    MaxLevels = 4
INVARIANTS
    TypeOK
    WithinInventory
    PricesSound
    DealtOut
