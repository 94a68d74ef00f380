SPECIFICATION ExternalSpec
CONSTANTS
    Blocks = {b1}
    RootSets = {s1}
    NULL = NULL
    MaxWord = 3
    Sizes = {1, 2}
    Capacities = {1, 2}
    Excess = 1
    Byte = 2
    Pacings <- BothPacings
    MaxBoxes = 2
    MaxWork = 1
    MaxIncurred = 3
    MinSleep = 1
INVARIANTS
    TotalMatches
    NoPhantomDebt
    HeapDebtStays
PROPERTIES
    DebtCarriedOnce
