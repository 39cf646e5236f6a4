CONSTANTS
    Main = main
    Workers = {main, w1, w2}
    None = None
    MaxTries = 1
    MaxPlugs = 2
    MaxNaps = 2
SPECIFICATION HotplugSpec
INVARIANT ManagerAgrees
PROPERTY PluggedIsAdded
CHECK_DEADLOCK FALSE
