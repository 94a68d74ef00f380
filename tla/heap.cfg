SPECIFICATION Spec
CONSTANTS
    MaxAllocs = 2
    MaxFields = 1
    MaxRoot = 1
    MayPanic = TRUE
    MaxBarriers = 1
    MaxWeak = 1
INVARIANTS
    IndInv
    MarkedMeansReached
    NoDanglingPointers
    CondemnedOutOfReach
    ReachableUpgrades
    CycleDropsDoomed
    ResurrectedSurvive
    DroppedOnce
    ArenaDropFreesAll
CHECK_DEADLOCK FALSE
