SPECIFICATION LiveSpec
CONSTANTS
    r1 = r1  r2 = r2
    c1 = c1  c2 = c2
    Ids <- TwoIds
    Clients <- TwoClients
    nullptr = nullptr
    MAX_CLIENTS = 2
    MaxTokens = 2
    BufferedIds <- OneId
INVARIANTS
    TypeOK
    InOrderOnce
PROPERTIES
    BufferedIsSent
    FinishedIsDeleted
