SPECIFICATION FairSpec
CONSTANTS
    Sessions = {s1}
    Tabs = {1}
    Calls = {1}
    Entries = {1}
    MaxCopies = 2
    Mixes <- QuietDay
    None = None
PROPERTY LiveSessionRefreshes
CHECK_DEADLOCK FALSE
