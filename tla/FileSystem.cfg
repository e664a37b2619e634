SPECIFICATION Spec
CONSTANTS
    DataBlockStart = 1
    VolumeSize = 8
    LastInode = 5
    MaxFreeBlock = 3
    MaxFreeInode = 3
    NAddrDirect = 2
    IndirectCap = 1
    DirSlots = 3
    Names = {n1, n2}
    n1 = n1
    n2 = n2
    DotNames = {}
    Stored <- Kept
    FileSizes = {3}
    MaxCrashes = 0
INVARIANTS
    TypeOK
    NothingSharedInMemory
    ContentsIntact
PROPERTY ImplementsTree
SYMMETRY NameSymmetry
