SPECIFICATION FairSpec
CONSTANTS
    e1 = e1
    e2 = e2
    n1 = n1
    n2 = n2
    cb = cb
    Events = {e1, e2}
    Nodes = {n1, n2}
    Wants <- MCWants
    Callback <- MCCallback
    MAX_DISPATCH = 2
    QueueLens = {1, 2}
    NoEvent = NoEvent
    NoNode = NoNode
INVARIANTS
    NoStaleCallback
    OnceInOrder
    QuietAfterShutdown
PROPERTIES
    Delivered
    
    ShutdownEnds
CHECK_DEADLOCK FALSE
