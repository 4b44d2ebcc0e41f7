SPECIFICATION ProtocolSideSpec
CONSTANTS
    Peers = {1, 2, 3}
    Host <- HostValue
    Selections <- SelectionsValue
    Draws <- DrawsValue
    MaxPreparations = 2
    MaxStarted = 2
    MaxMail = 3
    MaxField = 13
    Shapes <- ShapesValue
    MaxTau = 20
    MessageSize = 2
    RoundSet <- RoundsValue
    MaxHarm = 2
    MaxVersions = 2
    TotalPackets = 4
    PacketsPerInterval = 1
    DisclosureDelay = 1
    IntervalLength = 1
    StartLead = 0
    FaultDelay = 0
    UIntModulus = 16
    CallTimes <- NoCallTimes
    MaxTime = 10
    MaxRounds = 1
    MaxCommands = 4
    ManagerLead = 2
    MaxPauses = 2
    DelayedTime = 6
    DelayedPauses = 1
INVARIANT KeysSafe
INVARIANT LocatesExactly
INVARIANT OnlyGenuinePasses
INVARIANT RoundsJudged
INVARIANT HarmReported
INVARIANT CompletionIsHonest
INVARIANT ControlInvariant
INVARIANT UnhurriedCommandsFit
PROPERTY UnhurriedTimeline
CHECK_DEADLOCK FALSE
