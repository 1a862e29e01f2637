CONSTANTS
    Requests = {r1, r2}
    Nodes = {n1, n2}
    Names = {ann}
    Keys <- MCKeys
    Wire <- MCWire
    Nil = Nil
    Empty = Empty
    None = None
    FnMayPanic = FALSE
    DbMayFail = TRUE
    MaxVersion = 1
    AtFirst = {0}
    NotFound = NotFound
    DbError = DbError
    KeyRequired = KeyRequired
    MayFail = {}
    Unused <- AnyOf
    Transports = {"grpc"}
SPECIFICATION CSpec
INVARIANT FetchReachesOwner
\* Every request may be over.
CHECK_DEADLOCK FALSE
