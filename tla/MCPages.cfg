SPECIFICATION MCSpec
CONSTANTS
    Forms <- MCForms
    MaxPage = 6
INVARIANTS
    FileSound
    PageSound
PROPERTIES
    StoreSpec
\* A small file may be full.
CHECK_DEADLOCK FALSE
