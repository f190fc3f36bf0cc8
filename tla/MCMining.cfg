SPECIFICATION Spec
CONSTANTS
    t1 = t1
    t2 = t2
    p1 = p1
    p2 = p2
    m1 = m1
    m2 = m2
    Transactions <- MCTransactions
    Listed = {t2}
    Peers <- MCPeers
    Threads <- MCThreads
    MaxBlocks = 3
    MaxFaults = 3
INVARIANTS FlagIsMiner NothingLost FileIsChain NewsIsOffered
PROPERTIES ImplementsOwner
CHECK_DEADLOCK FALSE
