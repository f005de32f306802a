CONSTANTS
    Db = {d1}
    Stmt = {s1}
    Ptr = {p1, p2}
    Conn = {c1, c2}
    Null = Null
    MaxFrames = 1
    Content = {v1, v2}
SPECIFICATION TxSpec
PROPERTY
    ExportsWhatIsRead
CHECK_DEADLOCK FALSE
