SPECIFICATION Spec
CONSTANTS
    Requests = {r1, r2}
    Admins = {a1}
    Spends = {1, 2}
    SpendCap = 2
    Limits = {2}
    LimitCap = 2
    Durations = {1}
    Enforcements = {TRUE}
    MaxTime = 1
    MaxSpent = 3
    MaxUpdates = 1
    MaxFaults = 1
    MaxCrashes = 1
SYMMETRY RequestSymmetry
INVARIANTS
    Ledger
    OvershootBounded
    BudgetInv
CHECK_DEADLOCK FALSE
