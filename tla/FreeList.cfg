SPECIFICATION Spec
CONSTANTS
    DataBlockStart = 2
    VolumeSize = 11
    MaxFreeBlock = 2
    Payloads <- TextOrDirectory
    MaxWord = 15
    FaultyDisk = TRUE
INVARIANTS
    TypeOK
    ListsHoldFreeBlocks
    CountBracket
    NoFalseExhaustion
PROPERTY
    ImplementsPool
