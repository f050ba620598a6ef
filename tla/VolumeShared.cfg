SPECIFICATION Spec
CONSTANTS
    Block = 2
    Size = 5
    t1 = t1
    t2 = t2
    None = None
    Threads <- MCThreads
    Val <- MCVal
    Master <- MCMaster
    Zeros <- MCZeros
    Payloads <- MCPayloads
    Reads <- MCReads
    Writes <- MCSharedWrites
PROPERTY UntouchedBytesPreserved
