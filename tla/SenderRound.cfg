SPECIFICATION Spec
CONSTANTS
    TotalPackets = 3
    PacketsPerInterval = 2
    DisclosureDelay = 1
    IntervalLength = 2
    StartLead = 1
    FaultDelay = 1
    UIntModulus = 16
    CallTimes <- CallTimesValue
    MaxTime = 8
    MaxRounds = 1
    MaxCommands = 2
INVARIANT TypeOK
INVARIANT CompletedRoundIsWhole
INVARIANT StopIsPrompt
PROPERTY DataPrecedesKey
PROPERTY PromisedPauseHonoured
