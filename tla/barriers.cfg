SPECIFICATION MetricsSpec
CONSTANTS
    MaxAllocs = 2
    MaxFields = 0
    MaxRoot = 1
    MayPanic = TRUE
    MaxBarriers = 2
    MaxWeak = 1
    MaxWord = 7
    MinSleep = 0
INVARIANTS
    BarrierStaysGood
    PacingInv
VIEW NoHistory
CHECK_DEADLOCK FALSE
