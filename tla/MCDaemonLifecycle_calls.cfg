CONSTANTS
    Daemons = {d1, d2, d3}
    Clients = {k1, k2}
    None = None
SPECIFICATION FairSpec
INVARIANTS
    OneOwner
    ServingIsReachable
PROPERTIES
    CallFailsForAReason
    CallEnds
CHECK_DEADLOCK FALSE
