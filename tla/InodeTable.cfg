SPECIFICATION Spec
CONSTANTS
    InodesPerBlock = 2
    InodeBlocks = 4
    MaxFreeInode = 3
    MaxWord = 15
    MaxAbandoned = 8
    FaultyDisk = TRUE
INVARIANTS
    TypeOK
    IssuesFreeInodes
    CountShortByFailures
