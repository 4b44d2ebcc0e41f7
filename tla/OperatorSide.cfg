SPECIFICATION OperatorSideSpec
CONSTANTS
    Targets = {1, 2}
    RepeatCount = 2
    TaskLimit = 3
    MaxLoad = 2
    MaxPrepared = 3
    Nodes = {s, r}
    SenderNode = s
    LastPreparation = 2
    MaxRoundStarts = 2
    MaxLosses = 1
    ChunkSize = 2
    MaxFileSize = 5
    MaxBacklog = 6
    EndReserve = 1
    OfflineTimeout = 2
    MaxLinks = 2
    MaxUploads = 2
    ResponseTimeout = 2
    MaxAbnormal = 2
    StoreLimit = 3
    BroadcastLimit = 1
    MaxConnects = 2
    MaxUnread = 1
    QueueLimit = 3
    SendBatch = 2
    RoundDatagrams = 4
    MaxRounds = 2
    PcMaxClients = 1
    PcConnections = {1, 2}
    MaxPcFrames = 7
INVARIANT ExecutionSafe
PROPERTY ExecutionEnds
PROPERTY PreparationServes
PROPERTY LinkServes
PROPERTY MonitorServes
PROPERTY QueueServes
PROPERTY ClientsServed
CHECK_DEADLOCK FALSE
