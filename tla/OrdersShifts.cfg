SPECIFICATION FairSpec
CONSTANTS
    Orders = {o1}
    Items = {i1, i2}
    Requests = {r1, r2}
    Mixes <- Shifts
    MaxDeductions = 2
    None = None
 
PROPERTY CompletedIsFinal
PROPERTY CookedIsBumped
CHECK_DEADLOCK FALSE
