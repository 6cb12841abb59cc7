SPECIFICATION FairSpec
CONSTANTS
    s1 = s1
    s2 = s2
    Sockets = {s1, s2}
    None = None
    Programs = {{}, {"again", "stop", "closeAtOnce", "elsewhere", "destroy", "late"}}
    MaxCalls = 4
    InitRetryDelay = 500
    MaxRetryDelay = 700
INVARIANTS
    TypeOK
    HandlerIsAlive
    SocketsOwned
PROPERTIES
    OneConnection
    KeepsTrying
CHECK_DEADLOCK FALSE
