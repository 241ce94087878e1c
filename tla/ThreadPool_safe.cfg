SPECIFICATION FairSpec
CONSTANTS
    j1 = j1
    j2 = j2
    j3 = j3
    j4 = j4
    w1 = w1
    w2 = w2
    w3 = w3
    w4 = w4
    Jobs <- ThreeJobs
    Workers <- ThreeWorkers
    NoJob = NoJob
    Spurious = TRUE
INVARIANTS
    CountersExact
    EnoughWorkers
PROPERTIES
    Served
    PoolShrinks
