SPECIFICATION Spec
CONSTANTS
    k1 = k1  k2 = k2  k3 = k3
    r1 = r1
    Conns <- TwoConns
    Fds <- TwoFds
    Ids <- OneId
    BufferedIds <- NoIds
    nullptr = nullptr
    MAX_CLIENTS = 2
    MAX_TASKS = 1
    MaxTokens = 1
    MaxUnread = 1
INVARIANT MappingsFollowClients
