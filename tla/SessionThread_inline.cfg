SPECIFICATION Spec
CONSTANTS
    c1 = c1
    c2 = c2
    Callers <- MCCallers
    Nobody = Nobody
    Endpoint = c1
    Targets <- MCTargets
    Causes <- MCCauses
    QueueLen = 1
    NewLoops = 1
    EarlyHangup = FALSE
INVARIANTS
    NoLostWakeup
