SPECIFICATION Spec
CONSTANTS
    Indices = {d1}
    Workers = {w1, w2}
    Nobody = Nobody
    MaxTries = 1
    MaxEvents = 1
    MaxBroadcasts = 1
INVARIANT
    RemovalIsTold
CHECK_DEADLOCK FALSE
