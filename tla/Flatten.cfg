SPECIFICATION Spec
CONSTANTS
    SectorLen = 2
    BitsPerSector = 2
    ChunkBits = 4
    MaxNumber = 15
    BlockSecs = 2
    BatPerSector = 1
    BatMod = 64
    Sources <- MCSources
    OldFile <- MCOldFile
INVARIANTS
    ReadsExact
    FlattenExact
    NoForeignBytes
    FailureLeavesNothing
CHECK_DEADLOCK FALSE
