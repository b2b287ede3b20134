SPECIFICATION CacheSpec
CONSTANTS
    a1 = a1  a2 = a2  a3 = a3  a4 = a4  a5 = a5
    T <- FiveAddresses
    MAX_SIZE = 3
\* The object has been destroyed and the caller holds nothing any more.
CHECK_DEADLOCK FALSE
INVARIANTS
    TypeOK
    OneOwner
    NothingElseLeaks
PROPERTY ImplementsFifo
