CONSTANTS
    Tries = 2
    MaxMoves = 3
    MaxFaults = 2
    MaxKills = 1
SPECIFICATION Spec
INVARIANT DepartureIsKept
PROPERTY ReturnsHome
CHECK_DEADLOCK FALSE
