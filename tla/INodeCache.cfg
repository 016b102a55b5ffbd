CONSTANTS
    Buffers = {b1, b2}
    Handles = {h1, h2, h3}
    INodes = {0, 1, 17}
    wideShift <- OtherQueue
    MaxVersion = 1
    None = None
SPECIFICATION Spec
SYMMETRY Interchangeable
INVARIANTS
    TypeOK FreeListExact OneCopy HoldersSeeLatest WrittenBack FreedWhenUnreachable
