CONSTANTS
    Faults <- NoFaults
    CloseDuringCalls = TRUE

SPECIFICATION Spec

INVARIANTS
    LockOrder
