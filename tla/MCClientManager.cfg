SPECIFICATION LiveSpec
CONSTANTS
    k1 = k1  k2 = k2  k3 = k3
    r1 = r1
    Conns <- ThreeConns
    Fds <- ThreeFds
    Ids <- OneId
    BufferedIds <- NoIds
    nullptr = nullptr
    MAX_CLIENTS = 2
    MAX_TASKS = 1
    MaxTokens = 0
    MaxUnread = 2
INVARIANTS
    TypeOK
    ListIsOpenSockets
    ReadyStaysReady
PROPERTIES
    QueuedIsAnswered
    HangUpIsNoticed
