SPECIFICATION Spec
CONSTANTS
    Addresses = {a, b}
    a = a
    b = b
    MaxCalls = 3
    MaxChange = 1
    Async = TRUE
    Requests = TRUE
    Slow = {1, 2, 3}
    Failures = TRUE
    InOrder = FALSE
CHECK_DEADLOCK FALSE
INVARIANTS TypeOK PromiseKept
PROPERTY PullReturns
