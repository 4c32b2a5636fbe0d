SPECIFICATION Spec
CONSTANTS
    Payments = {p1, p2, p3}
    Refunds = {f1, f2}
    Requests = {r1}
    Mixes <- Departments
    MayFail = FALSE
    MaxTotal = 3
    MaxEntries = 2
    None = None
PROPERTY CollectedWithinTotal
INVARIANT RefundedWithinAmount
INVARIANT StatusTellsRefunds
 
SYMMETRY Symmetry
CHECK_DEADLOCK FALSE
