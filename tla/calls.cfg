SPECIFICATION CollectionSpec
CONSTANTS
    MaxAllocs = 2
    MaxFields = 1
    MaxRoot = 1
    MayPanic = TRUE
    MaxBarriers = 0
    MaxWeak = 1
INVARIANTS
    CollectionTypeOK
PROPERTIES
    ImplementsHeap
    AtomicCycleExact
    StopsWhereAsked
    KeepsToItsPhases
    CallsEnd
    TurnsRunOut
CHECK_DEADLOCK FALSE
