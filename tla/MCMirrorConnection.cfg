CONSTANTS
    MaxLives = 3
    Careful = TRUE
SPECIFICATION Spec
INVARIANTS
    ThreadsJoined
    HasWSHonest
PROPERTIES
    StopReturns
    StreamingStarts
    DisconnectNotified
CHECK_DEADLOCK FALSE
