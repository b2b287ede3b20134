SPECIFICATION LiveSpec
CONSTANTS
    MAX_TASKS = 2
    nullptr = nullptr
    MaxPushed = 3
INVARIANTS
    TypeOK
    ThreadsFollowRunning
    TakenInOrder
PROPERTY StopReturns
