CONSTANTS
    Faults <- CallFaults
    CloseDuringCalls = FALSE

SPECIFICATION Spec

PROPERTIES
    CallGivesBackItsOwn
