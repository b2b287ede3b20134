\* Three slots, two places in either queue: each queue can be full while the
\* pool is not.
\* No symmetry: TLC's liveness checking does not allow for it.
SPECIFICATION LiveSpec
CONSTANTS
    t1 = t1  t2 = t2
    r1 = r1  r2 = r2  r3 = r3
    a1 = a1  a2 = a2  a3 = a3
    Threads <- TwoThreads
    Ids <- ThreeIds
    Addrs <- ThreeAddrs
    nullptr = nullptr
    MAX_TASKS = 3
    MAX_PENDING_QUEUE = 2
    MAX_PROCESSING_QUEUE = 2
    UniqueIds = TRUE
    FinishDispatchedOnly = TRUE
INVARIANTS
    TypeOK
    NoDanglingWrite
    FinishesWhatItFound
    PendingQueueMeansPending
    ProcessingQueueMeansProcessing
    ExactlyOnePlace
    Ownership
PROPERTIES
    NoOvertaking
    ImplementsLifecycle
    QueuedIsFinished
