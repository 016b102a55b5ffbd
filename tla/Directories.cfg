CONSTANTS
    Names = {a, b}
    Dot = Dot
    DotDot = DotDot
    INodes = {root, i1, i2, i3, i4}
    ROOT = root
    MaxDepth = 3
    EntrySizes = {1, 2}
    EntriesInBlock = 2
    None = None
SPECIFICATION Spec
INVARIANTS TypeOK DotsInPlace LinksCountNames UsedIffReachable ListsEveryName
PROPERTY RefinesTree
SYMMETRY Interchangeable
