CONSTANTS
    k1 = k1
    k2 = k2
    Cids <- MCCids
    Keys = {k1, k2}
    Touch = Touch
    Host = Host
    None = None
    Profiles <- MCProfiles
    First <- MCFirst
    Worker = Worker
    Ipc = Ipc
    IO = IO
    Nobody = Nobody
    MaxReports = 3
    MaxLosses = 1
    MaxDrops = 1
    MaxCalls = 2
SPECIFICATION Spec
INVARIANTS HeldIsKnown DivertsAreKnown
CHECK_DEADLOCK FALSE
