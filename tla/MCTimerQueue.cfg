SPECIFICATION FairSpec
CONSTANTS
    Addrs = {a1, a2}
    Delays = {0, 2}
    Intervals = {0, 1}
    MaxTimers = 2
    MaxPending = 1
    MaxLate = 1
    MaxJump = 2
    MaxJumps = 1
INVARIANTS
    TypeOK
    ArmedForEarliest
    TimersAreAlive
    NeverEarly
PROPERTIES
    TimersRun
