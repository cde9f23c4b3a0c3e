CONSTANTS
    Faults <- StreamFaults
    CloseDuringCalls = FALSE

SPECIFICATION FairSpec

INVARIANTS
    TypeOK
    LockOrder
    DevicesAccounted
    Handshake

PROPERTIES
    OutputBeforeInput
    StateChangesLocked
    CallsReturn
