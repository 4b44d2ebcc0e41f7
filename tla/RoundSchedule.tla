---------------------------- MODULE RoundSchedule ----------------------------
(***************************************************************************)
(* The logical timetable of one authentication round, shared by the sender *)
(* and by every receiver: which packets are sent in which interval, and    *)
(* which key of the chain K0, K1, ... the first datagram of an interval    *)
(* discloses.  Data intervals are 1 .. DataIntervals; DisclosureDelay tail *)
(* intervals follow, each of one datagram that only discloses a key.       *)
(***************************************************************************)
EXTENDS Integers

CONSTANTS
    TotalPackets,        \* u32TotalPacketCount
    PacketsPerInterval,  \* u32PacketsPerInterval
    DisclosureDelay      \* u32DisclosureDelay, in intervals

\* What the constructor of AuthenticationRoundParameters enforces.
ASSUME RoundParameters ==
    /\ TotalPackets \in Nat \ {0}
    /\ PacketsPerInterval \in Nat \ {0}
    /\ DisclosureDelay \in Nat \ {0}

DataIntervals == ((TotalPackets - 1) \div PacketsPerInterval) + 1

LastInterval == DataIntervals + DisclosureDelay

Intervals == 1 .. LastInterval

ChainKeys == 1 .. DataIntervals  \* the data keys; K0 is the commitment

FirstPacket(i) == (i - 1) * PacketsPerInterval + 1

LastPacket(i) ==
    IF TotalPackets <= i * PacketsPerInterval THEN TotalPackets
                                              ELSE i * PacketsPerInterval

\* Packets of interval i; tail intervals have none.
PacketsOf(i) == FirstPacket(i) .. LastPacket(i)

DatagramCount(i) ==
    IF i <= DataIntervals THEN LastPacket(i) - FirstPacket(i) + 1 ELSE 1

NoKey == 0

\* Mutant: the delay is counted one interval short.
KeyInEarly(i, n) ==
    IF n = 1 /\ i >= DisclosureDelay THEN i - DisclosureDelay + 1 ELSE NoKey

\* The key that datagram n of interval i carries: only the first datagram of
\* an interval later than the disclosure delay carries one.
KeyIn(i, n) == IF n = 1 /\ i > DisclosureDelay THEN i - DisclosureDelay ELSE NoKey

IsData(i) == i <= DataIntervals

AllDatagrams == {x \in Intervals \X (1 .. TotalPackets) : x[2] <= DatagramCount(x[1])}

\* buildDatagrams asks the chain for the key of every tail interval.  When the
\* round has fewer data intervals than the delay, the unsigned difference is 0
\* or wraps, digDataKey throws, and the configuration is refused.
TailKeysExist ==
    \A i \in (DataIntervals + 1) .. LastInterval : i - DisclosureDelay \in ChainKeys
=============================================================================
