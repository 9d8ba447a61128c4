SPECIFICATION Spec
CONSTANTS
    Addresses = {a, b}
    a = a
    b = b
    MaxCalls = 3
    MaxChange = 1
    Async = TRUE
    Requests = FALSE
    Slow = {1}
    Failures = FALSE
    InOrder = TRUE
CHECK_DEADLOCK FALSE
INVARIANTS PulledIsRetrieved QueueFollowsNetwork
PROPERTY PullSucceeds
