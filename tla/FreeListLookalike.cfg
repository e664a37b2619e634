SPECIFICATION Spec
CONSTANTS
    DataBlockStart = 2
    VolumeSize = 8
    MaxFreeBlock = 3
    Payloads <- TextOrDirectory
    MaxWord = 15
    FaultyDisk = FALSE
INVARIANT AllocatesDataBlocks
