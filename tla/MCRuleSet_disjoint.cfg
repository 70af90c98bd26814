CONSTANTS
    Names = {n1, n2, n3}
    Ports = {p1, p2}
    V4 = {lo4, eth4}
    V6 = {lo6}
    Loopback = {lo4, lo6}
    MaxRules = 2
SPECIFICATION Spec
SYMMETRY Symmetry
INVARIANTS
    ListenersAreDisjoint
