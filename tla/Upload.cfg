SPECIFICATION FairSpec
CONSTANTS
    Clients = {small, large}
    Other = other
    small = small
    large = large
    other = other
    Tracks <- TwoImages
    MaxMeddling = 2
INVARIANTS
    TypeOK
    DoneMeansUploaded
    FailsForCause
    RaceLeavesWhole
PROPERTIES
    NoReplaceNoLoss
    EveryUploadEnds
