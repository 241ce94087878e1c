SPECIFICATION FairSpec
CONSTANTS
    e1 = e1
    e2 = e2
    e3 = e3
    Engines <- MCEngines
    START_PORT = 5
    END_PORT = 9
    Robust = TRUE
    IPv4 = TRUE
    MaxFaults = 1
INVARIANTS
    PortsAccounted
PROPERTIES
    LeasesPorts
    RefusedOnlyWhenFull
    SearchEnds
