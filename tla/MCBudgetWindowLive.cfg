SPECIFICATION FairSpec
CONSTANTS
    Requests = {r1}
    Admins = {a1}
    Spends = {1}
    SpendCap = 1
    Limits = {2}
    LimitCap = 2
    Durations = {1}
    Enforcements = {TRUE, FALSE}
    MaxTime = 1
    MaxSpent = 2
    MaxUpdates = 1
    MaxFaults = 1
    MaxCrashes = 1
PROPERTIES
    ChargesBecomeDurable
    ConfigConverges
CHECK_DEADLOCK FALSE
