SPECIFICATION LiveSpec
CONSTANTS
    MaxLives = 3
    MaxRequests = 3
\* The programs really end: the bridge stops with its server or is killed.
CHECK_DEADLOCK FALSE
INVARIANTS
    TypeOK
    AnswersInOrder
    EngineSurvives
PROPERTIES
    BridgeComesBack
    QueuedIsAccepted
