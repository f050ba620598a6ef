SPECIFICATION FairSpec
CONSTANTS
    t1 = t1
    t2 = t2
    None = None
    Lookup <- MCLookup
    FileLen = 8
    DefaultBlk = 2
    MinBlk = 2
    MaxBlk = 3
    BlockMod = 6
    MaxRetries = 3
    Tids <- MCTids
    Requests <- MCSome
    Prompt = TRUE
    MayPowerOff = TRUE
    MaxLoss = 2
    MaxDup = 1
    MaxFaults = 0
    MaxPatience = 2
PROPERTIES
    TransfersEnd
    FileArrives
CHECK_DEADLOCK FALSE
