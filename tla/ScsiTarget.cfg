SPECIFICATION Spec
CONSTANTS
    U16 = 4
    U32 = 4
    U64 = 16
    Byte = 256
    LunByte = 3
    BlockSize = 2
    Clients <- MCClients
    IqnLen = 231
    Ranges <- MCRanges
    MaxWrites = 2
    MaxFailures = 1
    Unknown = Unknown
INVARIANTS
    DiscoveryExact
    ReadsAsWritten
    AnswersTruthful
PROPERTIES
    OnlyNamedBytes
