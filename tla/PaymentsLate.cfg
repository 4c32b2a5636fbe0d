SPECIFICATION Spec
CONSTANTS
    Payments = {p1, p2}
    Refunds = {f1}
    Requests = {r1}
    Mixes <- LateCallbacks
    MayFail = FALSE
    MaxTotal = 2
    MaxEntries = 2
    None = None
PROPERTY CollectedWithinTotal
SYMMETRY Symmetry
CHECK_DEADLOCK FALSE
