CONSTANTS
    Ids = {r1}
    Configs = {web, alt}
    Settings = {s1, s2}
    Clients = {k1}
    Supervisor = supervisor
    Attempts = {a1, a2, a3}
    None = None
    AutoStart = {web}
    Reconnect = {web}
    Listening = {web}
    Clash <- SameListener
SPECIFICATION FairSpec
PROPERTIES
    EditIsReleased
    StartingSettles
    UnwantedIsEnded
    ExitIsNoticed
