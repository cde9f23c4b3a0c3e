CONSTANTS
    HeapSize = 16
    PageSize = 4
    Sizes <- MCSizes
    Opens <- MCOpens
    MaxUnderruns = 2
    Period = 1024
    Rates <- MCRates
    MaxPeriods = 12
    Fd = {1}
    None = 0
    AxisReading = {0, 1}
    Axes = {"ABS_X", "ABS_Z"}
    MaxQueue = 2
    MaxFds = 2
    SampleReading = {0, 1}
    Page = {"p1", "p2"}
    Regular = {"r1"}
    NoBuffer = "none"
    Depths = {16, 32}
    ScreenFaults = {"open", "mmap", "pan", "vsync"}
    LightThread = {"t1", "t2"}
    NoThread = "none"
    Level = {0, 1, 128, 255}
    Changes <- MCChanges
    Refusals <- MCRefusals
    MaxCalls = 3
    NodeFaults = {"open", "format", "reqbufs", "queue", "on", "poll", "off"}
    EncoderFaults = {"open", "format", "reqbufs", "queue", "on", "poll", "dequeue", "off"}
    Lengths = {4, 20}
    Calls <- MCCalls
    Regions <- MCRegions

SPECIFICATION PartsSpec

INVARIANTS
    ListKept
    CaptureKept
    TransfersRight
    SamplesRight
    ScreenKept
    LevelIsLast
    GuardTells
    
    NodeKept
    PictureRight
    ClipsFit

PROPERTIES
    ImplementsHeap
    OrientationOfSample

CHECK_DEADLOCK FALSE
