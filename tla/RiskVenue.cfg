SPECIFICATION VenueSpec
CONSTANTS
    Limit = 3
    Orders = {o1, o2}
    Fills <- AllFills
    MaxApprovals = 3
    MaxQty = 2
INVARIANTS
    CoversVenue
    ConflictsResolvable
    LimitAtAllTimes
    NothingLeaked
PROPERTY KeepsPromise
