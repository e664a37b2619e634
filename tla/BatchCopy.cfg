SPECIFICATION FairSpec
CONSTANTS
    HostNodes = {"src", "src/a", "src/b", "src/b/t", "src/b/t/c", "src/d"}
    HostKind <- Kinds
    HostParent <- Parents
    HostName <- Called
    Targets <- Destinations
    Names = {"a", "b", "c", "d", "t"}
    NameMaps <- Maps
    Images <- OldImages
    MaxFailures = 2
INVARIANTS
    TypeOK
    EveryFileAccounted
    EveryDirectoryAccounted
PROPERTIES
    GrowsTheTree
    CopyEnds
