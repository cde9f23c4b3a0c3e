CONSTANTS
    a = a
    b = b
    h1 = h1
    h2 = h2
    h3 = h3
    NoThread = NoThread
    NoHandle = NoHandle
    Thread <- MCThread
    FbThreads <- MCFbThreads
    Handle <- MCHandle
    Pages = 2
    Sizes <- MCSizes
    Screens <- TwoScreens
    Faults <- AllFaults

SPECIFICATION FairSpec

INVARIANTS
    TypeOK
    MemoryAccounted
    ExposedNeverReused

PROPERTIES
    CallsReturn
