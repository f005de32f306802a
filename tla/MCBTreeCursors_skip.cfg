SPECIFICATION CursorSpec
CONSTANTS
    c1 = c1
    c2 = c2
    Cursor = {c1, c2}
    Forms <- Skips
PROPERTIES
    ScanIsComplete
CHECK_DEADLOCK FALSE
