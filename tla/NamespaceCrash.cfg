CONSTANTS
    Names = {n1, n2, n3}
    INodes = {i1, i2, i3}
    DIRECTORY_ENTRIES_IN_BLOCK = 2
    MaxFds = 1
    MaxLeaks = 0
    MaxCrashes = 1
    None = None
SPECIFICATION Spec
CONSTRAINT NotRuined
SYMMETRY Interchangeable
INVARIANTS TypeOK LookupExact CrashSparesOthers InUseIfReachable
CHECK_DEADLOCK FALSE
