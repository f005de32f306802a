CONSTANTS
    Db = {d1}
    Stmt = {s1, s2}
    Ptr = {p1, p2, p3}
    Conn = {c1, c2, c3}
    Null = Null
    MaxFrames = 1
    Content = {v1, v2}
SPECIFICATION TxSpec
SYMMETRY Symmetry
INVARIANTS
    WritersSound
    NoLeakNoBusy
PROPERTIES
    CommitAlone
    BlockedForGood
\* Every address can end up leaked: then no call is left that changes anything.
CHECK_DEADLOCK FALSE
