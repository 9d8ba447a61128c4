CONSTANTS
    c1 = c1
    c2 = c2
    c3 = c3
    Clients <- MCClients
    NoClient = NoClient
    AnyPort = AnyPort
    MaxMessages = 2
SPECIFICATION Spec
INVARIANTS
    RecordsMatch
    NothingMissed
    EchoExact
    RequestsServed
SYMMETRY MCSymmetry
CHECK_DEADLOCK FALSE
