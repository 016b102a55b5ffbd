CONSTANTS
    ListSize = 5
    NUM_OF_INODES = 7
SPECIFICATION Spec
INVARIANTS TypeOK Represents Conserved SaveNeverFails TypesAgree
