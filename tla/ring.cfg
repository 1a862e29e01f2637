CONSTANTS
    Nodes = {n1, n2, n3}
    Replicas = 2
    MaxHash = 6
    HashFunctions <- MCHashFunctions
    MaxRing = 6
    Nobody = Nobody
    Panic = Panic
SPECIFICATION Spec
SYMMETRY Symmetry
INVARIANTS TypeOK OwnersAgree
PROPERTY AddMovesOnlyToNew
\* RemovePeer may have panicked.
CHECK_DEADLOCK FALSE
