SPECIFICATION Spec
CONSTANTS
    first = first
    second = second
    Orders = {first, second}
    Qty <- Sizes
    MaxExposure = 3
    Unpositioned <- NoPosition
CHECK_DEADLOCK FALSE
INVARIANTS
    TypeOK
    BooksAgree
    LoggedFirst
PROPERTIES
    OneOrderPerProposal
    GrantWithinLimit
    KeepsJournal
