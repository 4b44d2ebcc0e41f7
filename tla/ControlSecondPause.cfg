SPECIFICATION PromptSpec
CONSTANTS
    TotalPackets = 4
    PacketsPerInterval = 1
    DisclosureDelay = 1
    IntervalLength = 1
    StartLead = 0
    FaultDelay = 0
    UIntModulus = 16
    CallTimes = {}
    MaxTime = 9
    MaxRounds = 1
    MaxCommands = 4
    ManagerLead = 2
    MaxPauses = 2
PROPERTY SenderKeepsTimeline
CHECK_DEADLOCK FALSE
