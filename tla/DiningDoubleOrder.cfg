SPECIFICATION Spec
CONSTANTS
    Tables = {t1}
    Sessions = {s1, s2}
    Orders = {o1, o2}
    Guests = {g1, g2}
    Lines = {l1, l2}
    Requests = {r1, r2}
    Mixes <- TogetherAtTable
    None = None
INVARIANT OrderedOnce
CHECK_DEADLOCK FALSE
