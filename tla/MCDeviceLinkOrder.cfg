SPECIFICATION Spec
CONSTANTS
    Indices = {d1}
    Workers = {w1, w2}
    Nobody = Nobody
    MaxTries = 1
    MaxEvents = 3
    MaxBroadcasts = 0
INVARIANT
    HooksInEventOrder
CHECK_DEADLOCK FALSE
