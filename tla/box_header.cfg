SPECIFICATION HeaderSpec
CONSTANTS
    wide = wide
    unit = unit
    Boxes = {b1, b2}
    Types = {wide, unit}
    NULL = NULL
    Vtable <- Vtables
    Size <- Sizes
    Align <- Alignments
    Casts <- Erasures
SYMMETRY Alike
INVARIANTS
    DeallocFits
    HandleAtHeader
PROPERTIES
    ImplementsHeader
