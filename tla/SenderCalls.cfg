SPECIFICATION FairSpec
CONSTANTS
    TotalPackets = 1
    PacketsPerInterval = 1
    DisclosureDelay = 1
    IntervalLength = 2
    StartLead = 1
    FaultDelay = 1
    UIntModulus = 16
    CallTimes <- CallTimesValue
    MaxTime = 7
    MaxRounds = 2
    MaxCommands = 1
INVARIANT WorkerReportsOnce
PROPERTY SilentAfterResult
PROPERTY SenderServes
