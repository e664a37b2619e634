SPECIFICATION Spec
CONSTANTS
    DataBlockStart = 2
    VolumeSize = 7
    MaxFreeBlock = 5
    Payloads <- TextOrDirectory
    MaxWord = 15
    FaultyDisk = FALSE
PROPERTY SafeUntilFirstReload
