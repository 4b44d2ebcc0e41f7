SPECIFICATION FairSpec
CONSTANTS
    TotalPackets = 1
    PacketsPerInterval = 1
    DisclosureDelay = 1
    IntervalLength = 1
    Tolerance = 1
    Senders = {s1, s2}
    Contents <- Intact
    QueueLimit = 2
    MaxVersions = 3
    StartLead = 1
    CallTimes <- CallTimesValue
    Expiries = {}
    MaxTime = 7
    MaxRounds = 2
    MaxArrivals = 1
    MaxCommands = 2
INVARIANT OneResultPerRound
PROPERTY RoundIsReported
