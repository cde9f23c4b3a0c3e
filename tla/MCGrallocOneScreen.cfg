CONSTANTS
    a = a
    b = b
    h1 = h1
    h2 = h2
    h3 = h3
    NoThread = NoThread
    NoHandle = NoHandle
    Thread <- MCThread
    FbThreads <- MCFbThreads
    Handle <- MCHandle
    Pages = 2
    Sizes <- MCSizes
    Screens <- OneScreen
    Faults <- NoFaults

SPECIFICATION Spec

INVARIANTS
    NeverWaitsForItself
