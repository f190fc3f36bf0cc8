CONSTANTS
    f1 = f1
    f2 = f2
    f3 = f3
    f4 = f4
    o1 = o1
    o2 = o2
    Owners = {o1, o2}
    NoPeer = NoPeer
    Files = {f2, f3}
    ChunkSize = 3
    Data <- Bytes
    Desc <- Names
    Lists <- Chains
    Holds <- Stores
    Own = {}
    MaxRare = 1
SPECIFICATION JobsFairSpec
PROPERTIES Downloads
CHECK_DEADLOCK FALSE
