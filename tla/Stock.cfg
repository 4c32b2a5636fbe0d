SPECIFICATION Spec
CONSTANTS
    Originals = {i1, i2}
    Clones = {c1, c2}
    Sites = {s1, s2}
    POs = {p1}
    Lines = {l1, l2}
    Transfers = {t1, t2}
    Requests = {r1, r2}
    Mixes <- Shifts
    Openings = {1}
    MaxQty = 2
    MaxMoved = 3
    None = None
INVARIANT TypeOK
INVARIANT LedgerBalances
INVARIANT MovementsExplained
INVARIANT ReceivedIsComplete
SYMMETRY Symmetry
CHECK_DEADLOCK FALSE
