CONSTANTS
    Capacity = 1
    MaxEvents = 2
    Ids = {r1, r2}
    Startable = {r1}
    Settings = {s1, s2}
    Default = s1
    None = None
SPECIFICATION FairSpec
PROPERTY SubscriptionLasts
CHECK_DEADLOCK FALSE
