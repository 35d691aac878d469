SPECIFICATION FairSpec
CONSTANTS
    Events = {1, 2, 3}
    Capacity = 2
    maxWriteAttempts = 2
    MaxFaults = 2
    Minute = 1
    MaxWindow = 15000
    StartedAt <- MCStartedAt
    Outcome <- MCOutcome
    Provider <- MCProvider
    KeyOf <- MCKeyOf
    BudgetOf <- MCBudgetOf
    Cost <- MCCost
    Ranges <- MCRanges
INVARIANTS
    MetricsInv
    NoLostWakeup
    CleanShutdownDrains
    ReportsAgree
PROPERTIES
    GivenUpOnlyAfterAllAttempts
    EventsSettle
    ImplementsDelivery
CHECK_DEADLOCK FALSE
