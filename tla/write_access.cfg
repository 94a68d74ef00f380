SPECIFICATION AccessSpec
CONSTANTS
    a = a
    b = b
    Boxes = {a, b}
    Root = Root
    record = record
    cell = cell
    option = option
    reflock = reflock
    inner = inner
    gc = gc
    plain = plain
    alone = alone
    Nodes = {record, cell, option, reflock, inner, gc, plain, alone}
    Kind <- TestKind
    Parts <- TestParts
    Tops <- TestTops
    Static = {plain}
    p = p
    Pointers = {p}
    MaxRefs = 2
    MaxReaders = 1
INVARIANTS
    WritesCovered
    TracedIsSeen
