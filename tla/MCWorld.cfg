SPECIFICATION WorldFairSpec
CONSTANTS
    p1 = p1
    p2 = p2
    Tracker = Tracker
    Peers <- MCPeers
    Keys <- MCPeers
    MaxUnreachable = 2
    MaxRuns = 2
    MaxMishaps = 1
INVARIANTS AuthedByChallenge
PROPERTIES Meet GoneIsDropped
CHECK_DEADLOCK FALSE
