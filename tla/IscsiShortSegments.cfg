SPECIFICATION SessionSpec
CONSTANTS
    SnMod = 8
    QueueDepth = 2
    Names <- MCNames
    Registered <- MCNames
    Itts <- MCItts
    DiskSize = 4
    Val = {0, 1, 2, 3}
    Master <- MCMaster
    Blank = Blank
    DefaultBurst = 4
    DefaultSegment = 3
    MinSegment = 1
    SockCap = 3
    Requests <- MCNoRequests
    None = None
    i1 = i1
    i2 = i2
    iqn = iqn
    Target = iqn
    FirstSn = 6
    OfferedBurst = 2
    OfferedSegment = 2
    Segments = {1}
    Immediate = 0
    Ranges <- MCWholeDisk
    NopImmediate = TRUE
    MaxIssued = 1
    MaxNops = 0
    MaxAborts = 0
    MaxConns = 1
INVARIANT
    WriteGathered
CHECK_DEADLOCK FALSE
