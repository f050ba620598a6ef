SPECIFICATION Spec
CONSTANTS
    SnMod = 4
    QueueDepth = 2
    Names <- MCNames
    Registered <- MCRegistered
    Itts <- MCItts
    DiskSize = 2
    Val = {0, 1}
    Master <- MCMaster
    Blank = Blank
    DefaultBurst = 2
    DefaultSegment = 1
    MinSegment = 1
    SockCap = 1
    Requests <- MCRequests
    None = None
    i1 = i1
    i2 = i2
    good = good
    bad = bad
INVARIANTS
    TypeOK
    TargetResolved
    R2tInBurst
