CONSTANTS
    StartPos = 4
    ListSize = 3
    NumLists = 2
    TailSize = 0
    BackedBlocks = 10
    Data = Data
SPECIFICATION Spec
ACTION_CONSTRAINT WrittenBeforeFreed
INVARIANTS TypeOK Represents Conserved SpillSafe ListedOnce
PROPERTY RefinesStack
CONSTRAINT FewMisfiled
