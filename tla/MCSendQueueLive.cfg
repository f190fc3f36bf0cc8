CONSTANTS
    SendRetry = 2
    SendFactor = 2
    MaxSendQueue = 1
    PartPackets = 2
    UploadLimit = 2
    DownloadLimit = 1
    Hosts = {h1}
    s1 = s1
    t1 = t1
    ShareFiles = {s1}
    TcpFiles = {t1}
    FilePackets <- MCFilePackets
    ForeignKeys <- MCForeignKeys
    MaxTasks = 1
    MaxDirect = 1
    MaxInstant = 0
    MaxRelay = 1
SPECIFICATION FairSpec
INVARIANTS ReadsAreFresh TasksAreFed
PROPERTIES Drains TasksFinish
