\* Ids are unique, but a caller may fail or complete a task that still waits;
\* one thread makes all the calls, one after the other.
SPECIFICATION Spec
CONSTANTS
    t1 = t1  t2 = t2
    r1 = r1  r2 = r2  r3 = r3
    a1 = a1  a2 = a2  a3 = a3
    Threads = {t1}
    Ids <- ThreeIds
    Addrs <- ThreeAddrs
    nullptr = nullptr
    MAX_TASKS = 2
    MAX_PENDING_QUEUE = 2
    MAX_PROCESSING_QUEUE = 1
    UniqueIds = TRUE
    FinishDispatchedOnly = FALSE
SYMMETRY Symmetric
INVARIANT
    NoDanglingWrite
