SPECIFICATION Spec
CONSTANTS
    TotalPackets = 2
    PacketsPerInterval = 1
    DisclosureDelay = 1
    IntervalLength = 2
    StartLead = 1
    FaultDelay = 1
    UIntModulus = 16
    CallTimes <- CallTimesValue
    MaxTime = 8
    MaxRounds = 1
    MaxCommands = 1
PROPERTY PauseHonoured
