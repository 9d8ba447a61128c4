CONSTANTS
    ParamCount = 2
    MaxPush = 2
    MaxThrow = 2
    Duration = 2
SPECIFICATION Spec
INVARIANTS
    TypeOK
    NewestNotLost
PROPERTIES
    NeverOlder
    EventuallyForwarded
    RemovedIsForgotten
    DestructorReturns
    ImplementsChannel
CHECK_DEADLOCK FALSE
