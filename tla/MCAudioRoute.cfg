CONSTANTS
    HeapRoutes <- MCHeapRoutes
    OutDevices <- MCOutDevices
    InDevices <- MCInDevices
    CancelDelayed = FALSE

SPECIFICATION Spec

INVARIANTS
    Balanced
    MuteIsOff
    CallLeavesNothing

CHECK_DEADLOCK FALSE
