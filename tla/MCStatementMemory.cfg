CONSTANTS
    Db = {d1}
    Stmt = {s1, s2}
    Ptr = {p1, p2, p3}
    Conn = {c1, c2}
    Null = Null
    MaxFrames = 1
    Block = {b1, b2}
    MaxParams = 2
    MaxMem = 3
SPECIFICATION MemSpec
SYMMETRY Symmetry
INVARIANTS
    BlocksApart
    BindingsAlive
PROPERTIES
    LostByFailureOnly
\* Every address can end up leaked: then no call is left that changes anything.
CHECK_DEADLOCK FALSE
