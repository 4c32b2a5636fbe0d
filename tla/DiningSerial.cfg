SPECIFICATION FairSpec
CONSTANTS
    Tables = {t1, t2}
    Sessions = {s1, s2}
    Orders = {o1, o2}
    Guests = {g1, g2}
    Lines = {l1, l2}
    Requests = {r1}
    Mixes <- Shifts
    None = None
INVARIANT TypeOK
INVARIANT FloorAgrees
INVARIANT ClosedIsSettled
INVARIANT OrdersFollowSession
INVARIANT LinesKept
PROPERTY EmptySessionsClose
CHECK_DEADLOCK FALSE
