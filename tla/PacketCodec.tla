----------------------------- MODULE PacketCodec -----------------------------
(***************************************************************************)
(* The UDP authentication datagrams: which fields a packet of a round has, *)
(* and how sender and receiver agree on them without any field saying so.  *)
(* A packet is its interval, its index (0 for a disclosure tail) and its   *)
(* fields; a datagram is the two numbers and a sequence of 32-byte blocks. *)
(* Which blocks follow is computed from the round by either side, so a     *)
(* disagreement about a rule garbles or refuses every packet it touches.   *)
(***************************************************************************)
EXTENDS KsRsMatrix, Integers

CONSTANTS MaxTau        \* MAX_SAFE_TAU_COUNT, 2043 in the code

HeaderBytes == 16
BlockBytes == 32
MaxDatagramBytes == 65507   \* the largest UDP payload

ASSUME MaxTauAssumption == MaxTau \in Nat /\ MaxTau <= 2043

\* The trusted context of a round: a record with its mode, the number of its
\* packets, how many an interval has, the disclosure delay and the shape of
\* the groups (used in improved mode only).
ContextValid(rd) ==
  /\ rd.total > 0
  /\ rd.perInterval > 0
  /\ rd.delay > 0
  /\ rd.mode = "improved" =>
       /\ rd.perInterval % rd.shape.size = 0
       /\ TauCount(rd.shape) <= MaxTau

ExpectedInterval(rd, p) == ((p - 1) \div rd.perInterval) + 1

DataIntervalCount(rd) == ExpectedInterval(rd, rd.total)

FinalInterval(rd) == DataIntervalCount(rd) + rd.delay

CarriesKey(rd, i, p) == p > 0 /\ i > rd.delay /\ (p - 1) % rd.perInterval = 0

GroupEnd(rd, p) ==
  /\ rd.mode = "improved"
  /\ p > 0
  /\ p % rd.shape.size = 0 \/ p = rd.total

\* The number of blocks after the key: the MAC of a native packet, the tags
\* of a group on the group's last packet.
TagBlocks(rd, p) ==
  CASE rd.mode = "native" -> 1
    [] rd.mode = "improved" /\ GroupEnd(rd, p) -> TauCount(rd.shape) + 1
    [] OTHER -> 0

DisclosureIntervalValid(rd, i) == i > rd.delay /\ i <= FinalInterval(rd)

\* A packet: [interval, index, message, key, tags], where message and key are
\* sequences of at most one block. Its datagram: [interval, index, blocks].
EncodeValid(rd, packet) ==
  IF packet.index = 0
  THEN DisclosureIntervalValid(rd, packet.interval)
  ELSE /\ packet.index <= rd.total
       /\ packet.interval = ExpectedInterval(rd, packet.index)
       /\ (packet.key # <<>>) <=> CarriesKey(rd, packet.interval, packet.index)
       /\ Len(packet.tags) = TagBlocks(rd, packet.index)

Encode(packet) ==
  [interval |-> packet.interval, index |-> packet.index,
   blocks |-> packet.message \o packet.key \o packet.tags]

HeaderValid(datagram) == datagram.interval > 0

ExpectedBlocks(rd, datagram) ==
  IF datagram.index = 0
  THEN 1
  ELSE 1 + (IF CarriesKey(rd, datagram.interval, datagram.index) THEN 1 ELSE 0)
         + TagBlocks(rd, datagram.index)

DecodeValid(rd, datagram) ==
  /\ HeaderValid(datagram)
  /\ Len(datagram.blocks) = ExpectedBlocks(rd, datagram)
  /\ IF datagram.index = 0
     THEN DisclosureIntervalValid(rd, datagram.interval)
     ELSE /\ datagram.index <= rd.total
          /\ datagram.interval = ExpectedInterval(rd, datagram.index)

\* The fields are read in the order they were written.
Decode(rd, datagram) ==
  LET keyed == CarriesKey(rd, datagram.interval, datagram.index)
  IN IF datagram.index = 0
     THEN [interval |-> datagram.interval, index |-> 0, message |-> <<>>,
           key |-> datagram.blocks, tags |-> <<>>]
     ELSE [interval |-> datagram.interval, index |-> datagram.index,
           message |-> SubSeq(datagram.blocks, 1, 1),
           key |-> IF keyed THEN SubSeq(datagram.blocks, 2, 2) ELSE <<>>,
           tags |-> SubSeq(datagram.blocks, IF keyed THEN 3 ELSE 2, Len(datagram.blocks))]

Bytes(datagram) == HeaderBytes + BlockBytes * Len(datagram.blocks)
==============================================================================
