CONSTANTS
    StartPos = 4
    ListSize = 3
    NumLists = 2
    TailSize = 0
    BackedBlocks = 8
    Data = Data
SPECIFICATION Spec
INVARIANT HandsOutBackedBlocks
