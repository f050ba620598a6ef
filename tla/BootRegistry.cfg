SPECIFICATION Spec
CONSTANTS
    a = a
    b = b
    third = third
    fourth = fourth
    pc = pc
    win = win
    lin = lin
    game = game
    None = None
    NoMac = NoMac
    Macs <- MCMacs
    Names <- MCNames
    Stores <- MCStores
    Clients <- MCTwoClients
    Defaults <- MCDefaults
    MaxGets = 3
    MaxWrites = 2
SYMMETRY MCSymmetry
INVARIANTS
    SeesOwnWrites
    SeesOwnDisks
CHECK_DEADLOCK FALSE
