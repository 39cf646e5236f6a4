CONSTANTS
    Off = Off
    None = None
    Unset = Unset
    Failed = Failed
    NoDevice = NoDevice
    Hosts = {"button", "wheel", "thumb", "touchpad"}
    Kinds = {"axis", "interval", "release", "threshold", "null"}
    Threshold = 2
    Interval = 2
    Multiplier = 1
    HiRes = 2
    ClickThreshold = 2
    Width = 6
    MaxDelta = 2
    Half = 32768
    MaxSteps = 4
    Candidates = {d1, d2}
    PairSlots = {1, 2, 3}
    BlockSize = 2
    MaxName = 3
    MaxPairCalls = 3
    MaxReports = 2
    MaxTimeouts = 1
    Profiles = {"default", "other"}
    FirstProfile = "default"
    MinDPI = 2
    MaxDPI = 8
    StepDPI = 3
    Wants = {0, 6}
    Equipped = {{"dpi", "thumbwheel"}, {"smartshift", "hiresscroll"}}
    MaxCalls = 2
    MaxFaults = 1
    MaxCycles = 1
    Voltages = {3400, 3500, 3660, 4000, 4300}
    Percents = {0, 35, 101}
    LevelBits = {8, 1, 3}
    MaxTries = 6
    MaxDrops = 2
    MaxErrors = 1
    DeviceNames = {"mouse", "keyboard"}
    MaxChanges = 2
    MaxKills = 1
    Removers = {k1, k2}
    IO = IO
    Handlers = {h1, h2, h3}
    MaxRuns = 2
    RawObjects = {"raw1", "raw2"}
    RawNodes = {"hidraw0", "hidraw1"}
    HostCount = 3
    MaxPresses = 4
SPECIFICATION MCSpec
INVARIANTS
    HorizontalFollowsMotion
    MotionIsCounted
    StateIsTheReceivers
    NamesTheTarget
    EveryPairedSlot
    SettingsApplied
    ProfilesAreAlive
    PublishesBest
    AnswersAreOwn
    SavedIsRead
    ListIsExact
    KernelAgrees
    DescriptorsAreOwn
    ReadBack
    EndsAsAsked
    ActsAsAsked
PROPERTIES OneGestureFires EveryHandlerCalled
CHECK_DEADLOCK FALSE
