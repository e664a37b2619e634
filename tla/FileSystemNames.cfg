SPECIFICATION Spec
CONSTANTS
    DataBlockStart = 3
    VolumeSize = 9
    LastInode = 5
    MaxFreeBlock = 2
    MaxFreeInode = 2
    NAddrDirect = 1
    IndirectCap = 1
    DirSlots = 4
    Names = {"a", "a "}
    DotNames = {}
    Stored <- BlankTrimmed
    FileSizes = {2}
    MaxCrashes = 0
INVARIANTS
    NamesUnique
