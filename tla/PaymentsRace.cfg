SPECIFICATION Spec
CONSTANTS
    Payments = {p1, p2}
    Refunds = {f1}
    Requests = {r1, r2}
    Mixes <- Everything
    MayFail = TRUE
    MaxTotal = 1
    MaxEntries = 2
    None = None
INVARIANT TypeOK
INVARIANT LedgerExplainsStatus
INVARIANT ProcessedIsSettled
PROPERTY ImplementsBook
SYMMETRY Symmetry
CHECK_DEADLOCK FALSE
