CONSTANTS
    Names = {a, b}
    Dot = Dot
    DotDot = DotDot
    INodes = {root, i1, i2}
    ROOT = root
    MaxDepth = 2
    EntrySizes = {2}
    EntriesInBlock = 2
    None = None
SPECIFICATION Spec
INVARIANT NullIfDirectoryMissing
