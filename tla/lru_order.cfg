CONSTANTS
    Keys <- MCKeys
    Values <- MCValues
    None = None
    KeyLen <- MCKeyLen
    ValueLen <- MCValueLen
    ListOverhead = 1
    LfuOverhead = 1
    MaxBytes = 9
    Ttl = 0
    MaxTime = 1
    MaxCount = 2
SPECIFICATION Spec
PROPERTY EvictsLeastRecentlyUsed
CHECK_DEADLOCK FALSE
