SPECIFICATION Spec
CONSTANTS
    Word32 = 64
    Signed64 = 2048
    BlkSize = 8
    NAddrDirect = 3
    IndirectCap = 2
    MaxLength = 140
    Thousand = 4
    Times <- SomeTimes
    MaxArgs = 5
    Numbers = {1, 2, 3, 7, 8, 9, 31, 32, 33, 47, 63, 64, 65, 96, 127}
    Units = {1, 4, 16, 64}
    Track = 20
    SampleBytes <- SomeBytes
    MaxName = 4
    NameSize = 4
INVARIANTS
    FilesReadBack
    TimesReadBack
    ArgumentsUnderstood
    SizesAsAsked
    BytesReadBack
    NamesReadBack
    CopiesReadBack
