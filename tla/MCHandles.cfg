CONSTANTS
    Db = {d1, d2}
    Stmt = {s1, s2, s3}
    Ptr = {p1, p2, p3, p4}
    Conn = {c1, c2, c3}
    Null = Null
    MaxFrames = 2
SPECIFICATION Spec
SYMMETRY Symmetry
INVARIANTS
    NoDanglingStatement
    RegistryExact
    ConnectionsAccounted
    CallbackMidRow
PROPERTIES
    NoCrossTalk
    ContractHolds
\* Every address can end up leaked: then no call is left that changes anything.
CHECK_DEADLOCK FALSE
