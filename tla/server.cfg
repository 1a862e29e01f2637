CONSTANTS
    Callers = {c1, c2}
    None = None
    MaxUpdates = 1
    MaxLives = 2
SPECIFICATION FairSpec
INVARIANTS TypeOK RegistrationHolds
PROPERTIES StopReturns EndsUnregistered DeadEndpointGoes
\* The last life of the process may be over.
CHECK_DEADLOCK FALSE
