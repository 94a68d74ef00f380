SPECIFICATION TracingSpec
CONSTANTS
    Types <- TestedTypes
    Arena = "gc"
    Depth <- Nesting
INVARIANTS
    TraceExact
    NeedsTraceExact
    NoPointersInDrop
CHECK_DEADLOCK FALSE
