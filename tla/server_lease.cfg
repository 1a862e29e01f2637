CONSTANTS
    Callers = {}
    None = None
    MaxUpdates = 1
    MaxLives = 1
SPECIFICATION Spec
INVARIANT NeverPanics
CHECK_DEADLOCK FALSE
