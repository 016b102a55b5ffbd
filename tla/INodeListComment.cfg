CONSTANTS
    ListSize = 5
    NUM_OF_INODES = 7
SPECIFICATION Spec
INVARIANT FailsOnlyWhenEmpty
