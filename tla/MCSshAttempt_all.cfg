CONSTANTS
    Startup = 30
    Control = 5
    Grace = 5
    Slack = 2
    Helpers = {"none", "quiet", "noisy"}
SPECIFICATION FairSpec
CHECK_DEADLOCK FALSE
INVARIANTS
    EndedWhenReturned
    LockCoversMaster
    NothingLeftBehind
PROPERTIES
    GraceSuffices
    KeepsPromise
    CallsReturn
    LeaseEndsMaster
    MasterEndIsNoticed
