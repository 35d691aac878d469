SPECIFICATION FairSpec
CONSTANTS
    NumJobs = 2
    RunAtStart = {1}
    RunAtStop = {1, 2}
INVARIANTS
    WorkerInv
    ShutdownDrains
PROPERTIES
    TriggersHonoured
    LoopsExit
CHECK_DEADLOCK FALSE
