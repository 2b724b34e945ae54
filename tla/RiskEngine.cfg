SPECIFICATION Spec
CONSTANTS
    Limit = 3
    Orders = {o1, o2}
    Fills = {f1, f2}
    MaxApprovals = 3
    MaxQty = 2
SYMMETRY Symmetry
INVARIANTS
    TypeOK
    LedgerCovers
    ConflictGate
    OneUnknownOrder
    OrdersConsistent
    ApprovalsConsistent
PROPERTIES
    GrowthWithinLimit
    NoSilentRiskDeletion
    StaleApprovalsNeverSubmitted
    Reopening
