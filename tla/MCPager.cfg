SPECIFICATION Spec
CONSTANTS
    Settings <- MCSettings
    MaxPages = 2
INVARIANTS
    CacheSound
    WriteAhead
    Durable
PROPERTIES
    AtomicSpec
    CommittedKept
CHECK_DEADLOCK FALSE
