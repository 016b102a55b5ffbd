SPECIFICATION ThreadsSpec
CONSTANTS
    StartPos = 4
    ListSize = 2
    NumLists = 2
    TailSize = 1
    BackedBlocks = 9
    Data = Data
    Threads = {t1, t2, t3}
SYMMETRY ThreadsSymmetry
INVARIANTS ListSurvivesThreads ChosenStaysFree
CONSTRAINT NotDisturbed
ACTION_CONSTRAINT WrittenBeforeFreed
