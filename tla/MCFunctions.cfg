SPECIFICATION MCSpec
CONSTANTS
    Rows <- SomeRows
    Scale = 60
    MaxRows = 6
INVARIANTS
    OrderRight
    VarianceRight
    BuffersRight
    StringsRight
\* A group ends with its answer.
CHECK_DEADLOCK FALSE
