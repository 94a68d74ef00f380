SPECIFICATION Spec
CONSTANTS
    MaxAllocs = 2
    MaxFields = 1
    MaxRoot = 1
    MayPanic = FALSE
    MaxBarriers = 1
    MaxWeak = 0
INVARIANTS
    ReachableNeverDead
CHECK_DEADLOCK FALSE
