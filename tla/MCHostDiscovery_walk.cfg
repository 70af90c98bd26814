CONSTANTS
    f1 = f1
    f2 = f2
    f3 = f3
    f4 = f4
    link = link
    gone = gone
    Files = {f1, f2, f3, f4}
    Aliases = {f1, f2, f3, f4}
    Root = f1
    Target <- MCTarget
    Missing = Missing
    Unreadable = Unreadable
    Configs <- MCConfigs
    MaxFiles = 3
    MaxDepth = 2
SPECIFICATION FairSpec
INVARIANTS
    DiscoversReached
    RefusedOnlyIfLarge
PROPERTY QueryEnds
