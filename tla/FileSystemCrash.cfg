SPECIFICATION Spec
CONSTANTS
    DataBlockStart = 1
    VolumeSize = 7
    LastInode = 4
    MaxFreeBlock = 3
    MaxFreeInode = 1
    NAddrDirect = 2
    IndirectCap = 1
    DirSlots = 3
    Names = {n1, n2}
    n1 = n1
    n2 = n2
    DotNames = {}
    Stored <- Kept
    FileSizes = {3, 4}
    MaxCrashes = 1
INVARIANTS
    NothingSharedInMemory
    ContentsIntact
    CountCoversFreeList
    CrashSafeOutsideWindows
SYMMETRY NameSymmetry
