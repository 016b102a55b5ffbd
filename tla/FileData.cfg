CONSTANTS
    Large = Large
    Small = Small
    LargeSize = 4
    SmallSize = 1
    Files = {Large, Small}
    MaxSize <- Sizes
    NumBlocks = 2
    TailSize = 0
    BLOCK_SIZE = 2
    Junk = Junk
    NoRequest = NoRequest
    Unknown = Unknown
SPECIFICATION Spec
INVARIANTS TypeOK BlocksAccounted
PROPERTIES RefinesByteFile CallsReturn
