CONSTANTS
    Requests = {r1, r2}
    Keys = {k1}
    Nil = Nil
    Empty = Empty
    None = None
    FnMayPanic = FALSE
SPECIFICATION Spec
INVARIANT AtMostOneFlight
CHECK_DEADLOCK FALSE
