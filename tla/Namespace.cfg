CONSTANTS
    Names = {n1, n2}
    INodes = {i1, i2, i3}
    DIRECTORY_ENTRIES_IN_BLOCK = 2
    MaxFds = 2
    MaxLeaks = 1
    MaxCrashes = 0
    None = None
SPECIFICATION FairSpec
INVARIANT InUseIfReachable
PROPERTY UnlinkedGoes
