SPECIFICATION FairSpec
CONSTANTS
    MaxAttempts = 2
    ChanCap = 1
    MaxFrames = 3
    MaxTokens = 2
INVARIANTS
    ChatInv
    CompleteIsWhole
    ChargedAsReported
PROPERTY
    RequestEnds
CHECK_DEADLOCK FALSE
