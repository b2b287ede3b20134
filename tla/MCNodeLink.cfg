SPECIFICATION LinkSpec
CONSTANTS
    Fds <- ThreeFds
    MAX_NPU_NODES = 2
    MaxTexts = 3
    MaxHalves = 3
\* The program ends when it sends to a node that has reset the connection.
CHECK_DEADLOCK FALSE
INVARIANTS
    TypeOK
    ListIsSockets
    PushedInOrder
    RunsOnlyConfirmed
    NothingRunAfterPart
