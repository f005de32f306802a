SPECIFICATION CursorSpec
CONSTANTS
    c1 = c1
    c2 = c2
    Cursor = {c1, c2}
    Forms <- All
INVARIANTS
    TreeSound
    InPlace
PROPERTIES
    MapSpec
    ScanIsComplete
CHECK_DEADLOCK FALSE
