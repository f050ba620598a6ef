SPECIFICATION FairSessionSpec
CONSTANTS
    SnMod = 8
    QueueDepth = 1
    Names <- MCNames
    Registered <- MCNames
    Itts <- MCItts
    DiskSize = 3
    Val = {0, 1, 2}
    Master <- MCMaster
    Blank = Blank
    DefaultBurst = 3
    DefaultSegment = 3
    MinSegment = 1
    SockCap = 2
    Requests <- MCNoRequests
    None = None
    i1 = i1
    i2 = i2
    iqn = iqn
    Target = iqn
    FirstSn = 6
    OfferedBurst = 2
    OfferedSegment = 2
    Segments = {1, 2}
    Immediate = 1
    Ranges <- MCRanges
    NopImmediate = TRUE
    MaxIssued = 2
    MaxNops = 1
    MaxAborts = 1
    MaxConns = 2
INVARIANTS
    NothingForgotten
    StoredAsAcknowledged
    ReadsAsAcknowledged
    StatSnInOrder
    WindowOpenAtRest
PROPERTY
    CommandsEnd
CHECK_DEADLOCK FALSE
