SPECIFICATION RootedSpec
CONSTANTS
    MaxAllocs = 3
    MaxFields = 0
    MaxRoot = 1
    MayPanic = FALSE
    MaxBarriers = 0
    MaxWeak = 0
    Handles = {h1, h2}
    None = None
    MaxCount = 1
SYMMETRY Alike
VIEW NoHistory
INVARIANTS
    ListIntact
    HandlesFetchLive
    SetsHoldWhatHandlesMean
CHECK_DEADLOCK FALSE
