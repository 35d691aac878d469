SPECIFICATION UsageFairSpec
CONSTANTS
    Records = {u1, u2, u3, u4}
    Capacity = 2
    MaxFailures = 2
    MaxCrashes = 1
INVARIANT
    UsageInv
PROPERTIES
    RecordsSettle
    ImplementsDelivery
CHECK_DEADLOCK FALSE
