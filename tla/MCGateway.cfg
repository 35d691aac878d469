SPECIFICATION FairSpec
CONSTANTS
    Requests = {q1, a1}
    Admin = {a1}
    StreamGrace = 1
    ShutdownTimeout = 2
    MaxFaults = 1
INVARIANTS
    GatewayInv
    StopKeepsWork
PROPERTY
    StopReturns
CHECK_DEADLOCK FALSE
