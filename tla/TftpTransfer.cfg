SPECIFICATION Spec
CONSTANTS
    t1 = t1
    t2 = t2
    None = None
    Lookup <- MCLookup
    FileLen = 4
    DefaultBlk = 2
    MinBlk = 2
    MaxBlk = 3
    BlockMod = 4
    MaxRetries = 1
    Tids <- MCTids
    Requests <- MCAll
    Prompt = FALSE
    MayPowerOff = TRUE
    MaxLoss = 1
    MaxDup = 1
    MaxFaults = 1
    MaxPatience = 1
SYMMETRY Symmetry
INVARIANTS
    TypeOK
    FileExact
    SuccessMeansDelivered
    Lockstep
CHECK_DEADLOCK FALSE
