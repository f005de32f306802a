SPECIFICATION MCSpec
CONSTANTS
    l1 = l1
    l2 = l2
    l3 = l3
    MaxRows = 2
    MaxCalls = 2
    Texts <- ShortTexts
    N = 2
    IntBits = 3
    ByteBits = 3
    MaxGrows = 1
    Lists <- AllLists
INVARIANTS
    RunsTheText
    StackKept
    ReadsBack
PROPERTIES
    EndsAtFailure
    CallsEnd
    LoadsSettle
\* The program may stop using the wrapper.
CHECK_DEADLOCK FALSE
