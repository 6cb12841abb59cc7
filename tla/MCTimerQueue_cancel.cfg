SPECIFICATION FairSpec
CONSTANTS
    Addrs = {a1}
    Delays = {0}
    Intervals = {0, 1}
    MaxTimers = 1
    MaxPending = 0
    MaxLate = 1
    MaxJump = 0
    MaxJumps = 0
PROPERTIES
    NoRunAfterCancel
