SPECIFICATION FairSpec
CONSTANTS
    t1 = t1
    t2 = t2
    c1 = c1
    NoTask = NoTask
    Tasks <- MCTasks
    Clients <- MCClients
    OwnThread <- MCOwnThread
    NoDel <- MCNone
    Rescheduling <- MCOwnThread
    Group <- MCGroup
    Epoch = 3
    MaxTime = 4
    Delays <- MCNow
    Intervals <- MCIntervals
    QueueLen = 8
INVARIANTS
    NoUseAfterFree
    OneShotOnce
PROPERTIES
    DueRuns
    DeletedFreed
    OneThreadPerTask
    CancelledNeverStarts
