CONSTANTS
    Unset = Unset
    None = None
    Count = 3
    Profiles = {"default", "other"}
    MaxReports = 2
    MaxSets = 0
    MaxFailures = 0
SPECIFICATION Spec
PROPERTY CyclesItsList
CHECK_DEADLOCK FALSE
