SPECIFICATION FairSpec
CONSTANTS
    MaxSections = 2
    MaxLength = 5
    MaxShort = 2
    MaxSize = 4
    Window = 2
INVARIANTS
    TypeOK
    NoTextLost
    ChunksRespectMaximumSize
    IndicesAreConsecutive
PROPERTIES
    LoopAdvances
    Terminates
