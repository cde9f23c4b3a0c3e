CONSTANTS
    NumBuffers = 3
    InitialSkip = 1
    Faults <- StreamAlwaysStops
    EarlyRelease = FALSE
SPECIFICATION FairSpec
INVARIANTS
    TypeOK
    CaptureExclusive
    FrameStable
    StoppedMeansQuiet
    CaptureFlagExact
PROPERTY CallsReturn
