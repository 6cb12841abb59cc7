SPECIFICATION Spec
CONSTANTS
    s1 = s1
    Sockets = {s1}
    None = None
    Programs = {{"destroy"}}
    MaxCalls = 2
    InitRetryDelay = 500
    MaxRetryDelay = 1000
INVARIANTS
    NoAssertFailure
CHECK_DEADLOCK FALSE
