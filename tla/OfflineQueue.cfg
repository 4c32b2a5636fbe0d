SPECIFICATION FairSpec
CONSTANTS
    Sessions = {s1}
    Tabs = {1, 2}
    Calls = {1, 2}
    Entries = {1, 2}
    MaxCopies = 2
    Mixes <- Days
    None = None
INVARIANT TypeOK
INVARIANT CopiesExcused
PROPERTY ClaimsResolve
CHECK_DEADLOCK FALSE
