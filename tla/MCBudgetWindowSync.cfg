SPECIFICATION FairSpec
CONSTANTS
    Requests = {r1}
    Admins = {a1}
    Spends = {1}
    SpendCap = 1
    Limits = {2}
    LimitCap = 2
    Durations = {1}
    Enforcements = {TRUE}
    MaxTime = 1
    MaxSpent = 3
    MaxUpdates = 0
    MaxFaults = 0
    MaxCrashes = 0
PROPERTIES
    SpendWipedOnlyAtWindowEnd
CHECK_DEADLOCK FALSE
