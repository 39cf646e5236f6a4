CONSTANTS
    Hosts = {"button"}
    Kinds = {"threshold"}
    Threshold = 2
    Interval = 2
    Multiplier = 1
    HiRes = 2
    ClickThreshold = 2
    Width = 6
    MaxDelta = 2
    Half = 32768
    MaxSteps = 4
SPECIFICATION Spec
INVARIANT VerticalFollowsMotion
CHECK_DEADLOCK FALSE
