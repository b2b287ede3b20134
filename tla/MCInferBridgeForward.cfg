SPECIFICATION Spec
CONSTANTS
    MaxLives = 1
    MaxRequests = 2
\* The programs really end: the bridge stops with its server or is killed.
CHECK_DEADLOCK FALSE
PROPERTY ForwardReachesEngine
