CONSTANTS
    a = a
    Roots <- MCRoots
    IntMax = 4
    Wanted <- MCWanted
    Start <- MCStart
    MaxDepth = 2
    MaxInstance = 1
    MaxEvents = 3
    MaxUpdates = 2
    MaxCalls = 3
    ReuseNames = FALSE
SPECIFICATION Spec
INVARIANTS
    TypeOK
    EventsTellAll
    MirrorIsPast
    ParametersArrive
    UpToDate
    UpdateIsRecent
PROPERTIES
    Converges
CHECK_DEADLOCK FALSE
