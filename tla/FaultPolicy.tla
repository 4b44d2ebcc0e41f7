------------------------------ MODULE FaultPolicy ------------------------------
(***************************************************************************)
(* The fault plans of a sender (AuthenticationFaultInjection) against the   *)
(* groups of the improved mode (buildImprovedInterval): a plan chooses the  *)
(* datagrams of a round that are dropped or delayed, and must spare the     *)
(* last packet of a group, which carries the tags of the whole group.       *)
(* Disclosure tails have no packet index and are never dropped.             *)
(***************************************************************************)
EXTENDS Integers, FiniteSets, FiniteSetsExt

CONSTANTS
    TotalPackets, PacketsPerInterval, GroupSize,  \* round parameters
    LossRates,     \* loss rates, percent
    FaultTime      \* bound of the model: milliseconds a plan's windows may last

ASSUME FaultParameters ==
    /\ TotalPackets \in Nat \ {0} /\ PacketsPerInterval \in Nat \ {0}
    /\ GroupSize \in 1 .. PacketsPerInterval
    /\ LossRates \subseteq 0 .. 100 /\ FaultTime \in Nat

Packets == 1 .. TotalPackets
NoWindow == -1

VARIABLES
    plan,          \* m_optFaultDetails and what its policy has chosen
    nextPacket,    \* data packet the worker decides about next
    planned,       \* its planned send time
    windowStart,   \* m_optWindowStartMilliseconds
    \* History: dropped packets with their planned times, and packets sent.
    dropped, sentPackets

faultVars == <<plan, nextPacket, planned, windowStart, dropped, sentPackets>>

-----------------------------------------------------------------------------
(* Groups.                                                                 *)

IntervalOf(i) == (i - 1) \div PacketsPerInterval + 1
FirstOf(i) == (IntervalOf(i) - 1) * PacketsPerInterval + 1
LastOf(i) == Min({TotalPackets, IntervalOf(i) * PacketsPerInterval})

\* bIsProtectedGroupEnd: groups begin anew with every interval, and the last one
\* of an interval may be short.
GroupEnd(i, size) ==
    LET offset == (i - FirstOf(i)) \div size
    IN  Min({LastOf(i), FirstOf(i) + (offset + 1) * size - 1})

Eligible(size) == {i \in Packets : i # GroupEnd(i, size)}

\* The packets that carry tags: buildImprovedInterval walks through the groups of
\* every interval.
TagCarriers ==
    {Min({LastOf(i), i + GroupSize - 1}) :
        i \in {j \in Packets : (j - FirstOf(j)) % GroupSize = 0}}

-----------------------------------------------------------------------------
(* The policies.                                                           *)

\* llround, of a rate that is not negative.
DropCount(rate, size) == (rate * Cardinality(Eligible(size)) + 50) \div 100

LossPlans ==
    {[kind |-> "loss", protect |-> size, rate |-> rate, drops |-> drops,
      start |-> 1, length |-> 0] :
        size \in 1 .. PacketsPerInterval, rate \in LossRates, drops \in SUBSET Packets}

DisconnectPlans ==
    [kind : {"disconnect"}, protect : 1 .. PacketsPerInterval, rate : {0}, drops : {{}},
     start : Packets, length : 1 .. FaultTime]

DelayPlans ==
    [kind : {"delay"}, protect : {1}, rate : {0}, drops : {{}}, start : {1},
     length : 0 .. FaultTime]

\* The shuffle of the seed's generator may pick any set of the right size.
ValidPlans ==
    {p \in LossPlans : /\ p.drops \subseteq Eligible(p.protect)
                       /\ Cardinality(p.drops) = DropCount(p.rate, p.protect)}
    \union DisconnectPlans \union DelayPlans

FaultInit ==
    /\ plan \in ValidPlans
    /\ nextPacket = 1 /\ planned = 0 /\ windowStart = NoWindow /\ dropped = {}
    /\ sentPackets = {}

\* Mutant: the window moves along with every packet.
WindowAfterAlways(i, t) ==
    IF plan.kind = "disconnect" /\ i >= plan.start THEN t ELSE windowStart

\* The window opens once, with the first packet the plan covers.
WindowAfter(i, t) ==
    IF plan.kind = "disconnect" /\ windowStart = NoWindow /\ i >= plan.start
    THEN t ELSE windowStart

Dropped(i, t) ==
    \/ plan.kind = "loss" /\ i \in plan.drops
    \/ /\ plan.kind = "disconnect" /\ windowStart' # NoWindow
       /\ t < windowStart' + plan.length
       /\ i # GroupEnd(i, plan.protect)

\* decDecide for the next packet, planned for `after' milliseconds later; a fixed
\* delay postpones the packet and no decision.
DecidePacket(after) ==
    LET i == nextPacket
        t == planned + after
    IN  /\ i \in Packets
        /\ windowStart' = WindowAfter(i, t)
        /\ IF Dropped(i, t)
           THEN dropped' = dropped \union {<<i, t>>} /\ UNCHANGED sentPackets
           ELSE sentPackets' = sentPackets \union {i} /\ UNCHANGED dropped
        /\ nextPacket' = i + 1 /\ planned' = t
        /\ UNCHANGED plan

FaultNext == \E after \in {0, 2} : DecidePacket(after)

FaultSpec == FaultInit /\ [][FaultNext]_faultVars

-----------------------------------------------------------------------------
(* Properties.                                                             *)

\* "Packet loss and logical disconnection always protect the packet at the end of
\* a group, which carries the tags", in short last groups and intervals too.  It
\* takes a protected group size that divides the size of the sender's groups,
\* which the manager leaves to its operator.
TagCarriersSurvive ==
    GroupSize % plan.protect = 0 =>
        \A x \in dropped : x[1] \notin TagCarriers

\* A disconnection is one outage: what it drops was planned within its duration,
\* and every packet that was not dropped has been sent.
OneOutage ==
    /\ plan.kind = "disconnect" => \A x, y \in dropped : x[2] - y[2] < plan.length
    /\ \A i \in 1 .. nextPacket - 1 : (i \in sentPackets) # (\E x \in dropped : x[1] = i)

\* A disturbance leaves alone what it promises to leave alone.
FaultSafe == TagCarriersSurvive /\ OneOutage
=============================================================================
