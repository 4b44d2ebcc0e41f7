SPECIFICATION NodeSideSpec
CONSTANTS
    EventLimit = 2
    MetricLimit = 3
    BatchSize = 2
    MaxProduced = 7
    MaxStarts = 2
    ChunkSize = 2
    MaxFileSize = 3
    MaxClients = 1
    MaxConnections = 2
    MaxFrames = 4
    Chains = {1}
    NodeChains = {1, 2}
    MaxCalls = 6
    StoreRounds = {1, 2, 3}
    EventIds = {1, 2, 3}
    PacketLimit = 1
    AbnormalLimit = 2
    GroupLimit = 1
    SnapshotBatch = 1
    MaxAppends = 4
    TotalPackets = 7
    PacketsPerInterval = 3
    GroupSize = 2
    LossRates = {30, 100}
    FaultTime = 3
    Prefix = 2
    TypeSize = 1
    MaxFrame = 3
    StreamFrames = 3
    MaxAgentStarts = 2
    MaxBatch = 2
INVARIANT BroadcastSafe
INVARIANT ServerSafe
INVARIANT NodeSafe
INVARIANT StoreSafe
INVARIANT FaultSafe
INVARIANT StreamSafe
INVARIANT MessagesSafe
PROPERTY ServerServes
PROPERTY AgentServes
CHECK_DEADLOCK FALSE
