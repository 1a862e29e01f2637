CONSTANTS
    Requests = {r1, r2, r3}
    Keys = {k1, k2}
    Nil = Nil
    Empty = Empty
    None = None
    FnMayPanic = TRUE
SPECIFICATION FairSpec
INVARIANTS TypeOK RegisteredCallIsUnretired WaitIsJustified ResultIsFresh
PROPERTIES KeepsContract DoReturns ExpiredIsSwept
\* Every call of Do may be over, or blocked behind a panic.
CHECK_DEADLOCK FALSE
