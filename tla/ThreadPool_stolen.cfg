SPECIFICATION Spec
CONSTANTS
    j1 = j1
    j2 = j2
    j3 = j3
    j4 = j4
    w1 = w1
    w2 = w2
    w3 = w3
    w4 = w4
    Jobs <- FourJobs
    Workers <- FourWorkers
    NoJob = NoJob
    Spurious = FALSE
SYMMETRY Names
INVARIANTS
    EachHasAWorker
