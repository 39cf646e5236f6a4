CONSTANTS
    Workers = {w1, w2}
    Uhid = Uhid
    None = None
    Refreshes = 1
    Resends = 1
    MaxLinks = 2
    MaxBroadcasts = 1
    MaxEvents = 1
SPECIFICATION Spec
SYMMETRY Sym
INVARIANTS
    BatteryFollowsSleep
    KernelIsTold
    UsedWhileThere
CHECK_DEADLOCK FALSE
