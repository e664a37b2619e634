SPECIFICATION Spec
CONSTANTS
    Programs = {p1, p2}
    NoProgram = nobody
    Sizes = {7, 9, 20, 40}
    Word = 32
    Percents = {50}
    Ipb = 4
    MaxFreeBlock = 3
    MaxFreeInode = 4
INVARIANTS
    TypeOK
    SuccessIsWhole
    FailureIsClean
PROPERTY
    OpenAcceptsWholeImages
CHECK_DEADLOCK FALSE
