SPECIFICATION Spec
CONSTANTS
    Block = 2
    Size = 7
    Budget = 4
    t1 = t1
    t2 = t2
    None = None
    Threads <- MCThreads
    Val <- MCVal
    Master <- MCMaster
    Zeros <- MCZeros
    Reads <- MCReads
INVARIANTS
    TypeOK
    BytesExact
    BudgetHeld
    InsertedSurvives
PROPERTY TransparentSpec
