SPECIFICATION RootsSpec
CONSTANTS
    Sets = {s1, s2}
    Handles = {h1, h2, h3, h4}
    Roots = {o1, o2}
    None = None
    MaxCount = 2
SYMMETRY Alike
INVARIANTS
    HandlesKeepRoots
    FreeListExact
PROPERTIES
    SlotsReused
    ImplementsRegistry
