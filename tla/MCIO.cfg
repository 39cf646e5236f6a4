CONSTANTS
    Protocol = "hidpp20"
    Callers = {c1, c2, c3}
    Features <- MCFeatures
    Addresses <- MCAddresses
    NoAckAddress <- MCNoAckAddress20
    NoRequest = NoRequest
    Slots = 16
    MaxCalls = 3
    MaxErrors = 1
    Clients = {k1, k2}
    IO = IO
    Stopper = Stopper
    Fds = {f1, f2}
    EventFd = EventFd
    Nobody = Nobody
    MaxOps = 3
SPECIFICATION MCSpec
INVARIANTS
    SlotsAreOwned
    OwnReplyUntilTimeout
    FdsExclusive
    NoMissedYield
PROPERTIES
    EveryCallReturns
    NobodyBlocked
CHECK_DEADLOCK FALSE
