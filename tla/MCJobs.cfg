CONSTANTS
    f1 = f1
    f2 = f2
    f3 = f3
    f4 = f4
    o1 = o1
    o2 = o2
    Owners = {o1}
    NoPeer = NoPeer
    Files = {f1, f4}
    ChunkSize = 3
    Data <- Bytes
    Desc <- Names
    Lists <- Chains
    Holds <- Stores
    Own = {f4}
    MaxRare = 3
SPECIFICATION JobsSpec
INVARIANTS CountersAgree DoneIsOnDisk FinalizedWhole
CHECK_DEADLOCK FALSE
