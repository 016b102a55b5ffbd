CONSTANTS
    Large = Large
    Small = Small
    LargeSize = 29
    SmallSize = 1
    Files = {Large, Small}
    MaxSize <- Sizes
    NumBlocks = 26
    BLOCK_SIZE = 2
    DIRECT_BLOCK_LIMIT = 0
    BLOCK_ADDRESSES_PER_BLOCK = 3
SPECIFICATION Spec
INVARIANTS TypeOK MapsWhatWasAppended NoLeakNoSharing
CONSTRAINT NotAstray
ACTION_CONSTRAINT SmallSeldomMoves
