CONSTANTS
    NumBuffers = 3
    InitialSkip = 1
    Faults = {}
    EarlyRelease = FALSE
SPECIFICATION Spec
INVARIANT FocusRunsWhenAsked
