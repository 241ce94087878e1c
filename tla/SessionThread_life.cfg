SPECIFICATION FairSpec
CONSTANTS
    c1 = c1
    c2 = c2
    Callers <- MCCallers
    Nobody = Nobody
    Endpoint = c1
    Targets <- MCTargets
    Causes <- MCCauses
    QueueLen = 2
    NewLoops = 1
    EarlyHangup = TRUE
INVARIANTS
    NoUseAfterFree
    WakeupsAccounted
    CauseKept
PROPERTIES
    OnlyInitAborts
    LaunchedOnce
    LivesChannelLife
    
