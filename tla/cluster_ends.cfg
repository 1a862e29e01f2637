CONSTANTS
    Requests = {r1, r2, r3}
    Nodes = {n1, n2}
    Names = {ann}
    Keys <- MCKeys
    Wire <- MCWire
    Nil = Nil
    Empty = Empty
    None = None
    FnMayPanic = TRUE
    DbMayFail = FALSE
    MaxVersion = 1
    AtFirst = {1}
    NotFound = NotFound
    DbError = DbError
    KeyRequired = KeyRequired
    MayFail = {n2}
    Unused <- FirstOf
    Transports = {"grpc", "http"}
SPECIFICATION CFairSpec
INVARIANT NoDistributedDeadlock
PROPERTIES GetReturns KeepsGroup
\* Every request may be over, or blocked behind a panic.
CHECK_DEADLOCK FALSE
