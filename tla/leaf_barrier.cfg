SPECIFICATION MetricsSpec
CONSTANTS
    MaxAllocs = 1
    MaxFields = 1
    MaxRoot = 1
    MayPanic = FALSE
    MaxBarriers = 1
    MaxWeak = 0
    MaxWord = 7
    MinSleep = 1
PROPERTIES
    BarriersNotHarmful
CHECK_DEADLOCK FALSE
