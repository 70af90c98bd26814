CONSTANTS
    Ids = {r1}
    Configs = {web, alt}
    Settings = {s1}
    Clients = {k1, k2}
    Supervisor = supervisor
    Attempts = {a1, a2, a3, a4}
    None = None
    AutoStart = {web}
    Reconnect = {web}
    Listening = {web}
    Clash <- SameListener
SPECIFICATION Spec
SYMMETRY Symmetry
INVARIANTS
    AttemptHasOneOwner
    RunningAsConfigured
    StartingHasWorker
    StoppedStaysStopped
    EditIsExclusive
PROPERTY OnlyEditorTouches
