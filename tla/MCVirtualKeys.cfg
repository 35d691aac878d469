SPECIFICATION FairSpec
CONSTANTS
    Keys = {k1, k2}
    Secrets = {s1, s2, s3}
    Budgets = {b1}
    Routings = {rr, lc}
    Implemented = {rr}
    Admins = {a1, a2}
    MaxOps = 3
    MaxCrashes = 1
INVARIANTS
    KeysInv
    BudgetIsExclusive
PROPERTIES
    CacheConverges
    EntriesConverge
CHECK_DEADLOCK FALSE
