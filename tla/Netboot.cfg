SPECIFICATION Spec
CONSTANTS
    Files <- MCFiles
    None = None
    Byte = 256
    ServerHost = 10
    Silence = Silence
    Machines <- MCMachines
    Strays <- MCStrays
    MaxOwn = 2
    MaxXid = 2
INVARIANTS
    DisksOpen
    ChainloadEnds
    OthersLeftAlone
PROPERTIES
    NeverHalfServing
    BootReachesScript
CHECK_DEADLOCK FALSE
