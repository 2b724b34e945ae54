SPECIFICATION Spec
CONSTANTS
    Limit = 2
    Orders = {o1, o2}
    Fills = {f1, f2}
    MaxApprovals = 2
    MaxQty = 2
SYMMETRY Symmetry
INVARIANT
    Capacity
