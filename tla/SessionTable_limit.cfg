SPECIFICATION Spec
CONSTANTS
    Sessions = {s1, s2}
    Names = {u1}
    Requesters = {r1, r2}
    NoLimits = {}
    Readers = {h1}
    Hupalls = {}
    session_limit = 1
    sps_total = 3
    None = None
SYMMETRY Symmetry
INVARIANT SessionLimit
