SPECIFICATION MetricsSpec
CONSTANTS
    MaxAllocs = 2
    MaxFields = 1
    MaxRoot = 1
    MayPanic = TRUE
    MaxBarriers = 1
    MaxWeak = 0
    MaxWord = 7
    MinSleep = 0
INVARIANTS
    CountersMatchHeap
    WorkBelowAllocation
    CollectionKeepsPace
VIEW NoHistory
CHECK_DEADLOCK FALSE
