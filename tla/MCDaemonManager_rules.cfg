CONSTANTS
    Ids = {r1, r2}
    Configs = {web, alt}
    Settings = {s1, s2}
    Clients = {k1}
    Supervisor = supervisor
    Attempts = {a1, a2, a3, a4}
    None = None
    AutoStart = {web}
    Reconnect = {web}
    Listening = {web}
    Clash <- SameListener
SPECIFICATION Spec
SYMMETRY Symmetry
INVARIANTS
    TypeOK
    RulesAreValid
    ServedIsSaved
    StatusIsConsistent
