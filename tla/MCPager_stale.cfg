SPECIFICATION Spec
CONSTANTS
    Settings <- StaleSettings
    MaxPages = 3
INVARIANT
    CleanIsStored
CHECK_DEADLOCK FALSE
