CONSTANTS
    a = a
    b = b
    d = d
    Params = {a, b, d}
    Links <- MCLinks
    Direct = {a, d}
    Observed = {a}
    Filtered = {b, d}
    Muted = {d}
    Values = {0, 1}
    InitValue = 0
    Queues = {q1, q2}
    Threads = {t1, t2}
    App = t1
    NoThread = NoThread
    MaxCalls = 2
    MaxRegs = 2
SPECIFICATION Spec
INVARIANTS
    ListenersAgree
    LinkedFollows
    RegistrationsMatch
PROPERTIES
    AllReturn
CHECK_DEADLOCK FALSE
