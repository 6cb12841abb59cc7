SPECIFICATION Spec
CONSTANTS
    MaxBytes = 1
    MaxMessages = 0
INVARIANTS
    NoAssertFailure
CHECK_DEADLOCK FALSE
