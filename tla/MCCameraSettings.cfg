CONSTANTS
    Changes <- MCChanges
    Refusals <- MCRefusals
    MaxCalls = 3

SPECIFICATION Spec

INVARIANTS
    SettingsReachDevice

CHECK_DEADLOCK FALSE
