SPECIFICATION Spec
CONSTANTS
    Orders = {o1}
    Items = {i1, i2}
    Requests = {r1, r2}
    Mixes <- Racing
    MaxDeductions = 2
    None = None
INVARIANT TypeOK
INVARIANT MilestonesStamped
INVARIANT CookingAccepted
SYMMETRY Symmetry
