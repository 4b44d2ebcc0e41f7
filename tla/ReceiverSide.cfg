SPECIFICATION ReceiverSideSpec
CONSTANTS
    TotalPackets = 2
    PacketsPerInterval = 1
    DisclosureDelay = 1
    IntervalLength = 2
    Tolerance = 1
    Senders = {s1}
    Contents <- Altered
    QueueLimit = 2
    MaxVersions = 3
    StartLead = 1
    CallTimes <- CallTimesValue
    Expiries = {4}
    MaxTime = 9
    MaxRounds = 1
    MaxArrivals = 3
    MaxCommands = 2
    Receivers = {r1, r2}
    LastRound = 2
    MaxPlans = 2
    MaxDisturbances = 1
INVARIANT RecordsInOrder
PROPERTY CompletedIsAuthentic
PROPERTY FailureHasCause
INVARIANT ExperimentSafe
PROPERTY PlanDecided
CHECK_DEADLOCK FALSE
