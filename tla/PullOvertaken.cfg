SPECIFICATION Spec
CONSTANTS
    Addresses = {a, b}
    a = a
    b = b
    MaxCalls = 3
    MaxChange = 1
    Async = TRUE
    Requests = FALSE
    Slow = {}
    Failures = FALSE
    InOrder = FALSE
CHECK_DEADLOCK FALSE
INVARIANT PulledIsRetrieved
