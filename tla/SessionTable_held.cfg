SPECIFICATION Spec
CONSTANTS
    Sessions = {s1, s2}
    Names = {u1}
    Requesters = {r1}
    NoLimits = {}
    Readers = {h1}
    Hupalls = {}
    session_limit = 2
    sps_total = 3
    None = None
SYMMETRY Symmetry
INVARIANT SafeToRead
