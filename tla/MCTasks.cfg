CONSTANTS
    Workers = {w1, w2}
    Tasks = {t1, t2, t3}
    Delays = {0, 2}
    MaxTime = 2
    NoTask = NoTask
    Jobs = {j1, j2, j3, j4}
    Empty = {j4}
    Threads = {r1, r2}
    NoJob = NoJob
SPECIFICATION MCSpec
INVARIANTS
    OneChild
    NothingLost
PROPERTIES
    StartsInTurn
    Progress
    EveryJobTaken
    Ordered
