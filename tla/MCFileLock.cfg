CONSTANTS
    a1 = a1
    a2 = a2
    b = b
    P = P
    Q = Q
    Handle = {a1, a2, b}
    Proc = {P, Q}
    ProcOf <- TwoProcesses
    MaxFaults = 1
SPECIFICATION FairSpec
INVARIANTS
    LocksRight
    OneWrites
PROPERTIES
    LevelsSpec
    PendingIsGranted
