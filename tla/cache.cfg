CONSTANTS
    Keys <- MCKeys
    Values <- MCValues
    None = None
    KeyLen <- MCKeyLen
    ValueLen <- MCValueLen
    ListOverhead = 1
    LfuOverhead = 1
    MaxBytes = 9
    Ttl = 0
    MaxTime = 1
    MaxCount = 2
SPECIFICATION Spec
INVARIANTS TypeOK Coherent BytesAccounted HeapOrdered
PROPERTIES KeepsStrategy PutStays KeepsArrivalOrder EvictsLeastFrequent CleanUpSparesFresh
\* The process is down once CleanUp has panicked.
CHECK_DEADLOCK FALSE
