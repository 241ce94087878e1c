SPECIFICATION Spec
CONSTANTS
    Sessions = {s1, s2, s3}
    Names = {u1}
    Requesters = {r1, r2}
    NoLimits = {}
    Readers = {h1, h2}
    Hupalls = {h1}
    session_limit = 1
    sps_total = 2
    None = None
SYMMETRY Symmetry
INVARIANTS
    NoDangling
    Findable
    CountExact
    LimitBounded
    RateBounded
    HeldStays
    HupallReaches
