CONSTANTS
    n1 = n1
    p1 = p1
    lo4 = lo4
    lo6 = lo6
    far = far
    Names <- MCNames
    Ports = {p1}
    V4 = {lo4}
    V6 = {lo6}
    Loopback = {lo4, lo6}
    MaxRules = 3
    Ids = {1, 2, 3, 4, 5, 6}
    Hosts = {h1}
    Lo = lo4
    Dests = {lo4, far}
    Outputs <- MCOutputs
    Adds <- MCAdds
    None = None
    MaxChanges = 2
    MaxOpen = 1
    MaxActive = 1
SPECIFICATION EditorSpec
INVARIANTS
    ClashesAreWildcardPairs
    OnlyClashesAreRefused
    ImportKeepsPromise
PROPERTIES
    HiddenFieldsSurvive
CHECK_DEADLOCK FALSE
