SPECIFICATION Spec
CONSTANTS
    Indices = {d1}
    Workers = {w1, w2}
    Nobody = Nobody
    MaxTries = 2
    MaxEvents = 4
    MaxBroadcasts = 1
INVARIANTS LinkIsFollowed
CHECK_DEADLOCK FALSE
