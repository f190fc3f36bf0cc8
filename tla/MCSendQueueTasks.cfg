CONSTANTS
    SendRetry = 2
    SendFactor = 2
    MaxSendQueue = 0
    PartPackets = 2
    UploadLimit = 1
    DownloadLimit = 1
    Hosts = {h1, h2}
    s1 = s1
    t1 = t1
    ShareFiles = {}
    TcpFiles = {t1}
    FilePackets <- MCFilePackets
    ForeignKeys <- MCForeignKeys
    MaxTasks = 2
    MaxDirect = 1
    MaxInstant = 2
    MaxRelay = 0
SPECIFICATION Spec
INVARIANTS IndexAgrees NoUseAfterFree BacklogBounded
PROPERTIES LeavesForCause ImplementsOutbox
