---------------------------- MODULE TeslaStrategy ----------------------------
(***************************************************************************)
(* What a round authenticates and how: the messages of a payload, the one  *)
(* way key chain, the tags of native and of improved TESLA, and their      *)
(* verification. Hashes and MACs are free constructors: a digest is the    *)
(* tuple of what went into it, so that equal digests have equal inputs.    *)
(***************************************************************************)
EXTENDS PacketCodec

CONSTANTS MessageSize       \* bytes of a message (MESSAGE_SIZE, 32 in the code)

ASSUME MessageSizeAssumption == MessageSize \in Nat \ {0}

\* A round carries a payload: [kind |-> "text" or "file", bytes]. A byte is a
\* number, 0 the padding.
Padded(bytes) == bytes \o [i \in 1 .. MessageSize - Len(bytes) |-> 0]

FilePackets(bytes) == (Len(bytes) + MessageSize - 1) \div MessageSize

MinOf2(a, b) == IF a < b THEN a ELSE b

\* The message of packet p: the whole text in every packet, or the file's
\* p-th slice.
Message(rd, p) ==
  IF rd.payload.kind = "text"
  THEN Padded(rd.payload.bytes)
  ELSE LET offset == (p - 1) * MessageSize
           bytes == rd.payload.bytes
       IN Padded(SubSeq(bytes, offset + 1, offset + MinOf2(MessageSize, Len(bytes) - offset)))

PayloadValid(rd) ==
  /\ rd.payload.bytes # <<>>
  /\ rd.payload.kind = "text" =>
       Len(rd.payload.bytes) <= MessageSize /\ \A k \in DOMAIN rd.payload.bytes : rd.payload.bytes[k] # 0
  /\ rd.payload.kind = "file" => rd.total = FilePackets(rd.payload.bytes)

RecoveredFile(rd, messages) ==
  IF Len(messages) = FilePackets(rd.payload.bytes)
  THEN SubSeq(FlattenSeq(messages), 1, Len(rd.payload.bytes))
  ELSE <<>>

\* A text without its trailing zeros.
Text(message) ==
  SubSeq(message, 1, Max({i \in DOMAIN message : message[i] # 0} \cup {0}))

\* The text all packets agree on, nothing when they do not.
RecoveredText(messages) ==
  LET texts == {Text(messages[i]) : i \in DOMAIN messages}
  IN IF Cardinality(texts) = 1 THEN CHOOSE t \in texts : TRUE ELSE <<>>
-----------------------------------------------------------------------------
\* Key i of the chain is the number i: key i - 1 is its hash, key 0 the
\* commitment. A value outside the chain hashes to no key of it.
Outside == -1

Hash(key) == IF key = Outside THEN Outside ELSE key - 1

DataKeyExists(rd, i) == i > 0 /\ i <= DataIntervalCount(rd)

KeyVerified(key, index) ==
  LET Hashed[n \in 0 .. index] == IF n = 0 THEN key ELSE Hash(Hashed[n - 1])
  IN Hashed[index] = 0

\* A MAC covers the interval, the index and the message. (Sender and chain are
\* fixed in a round; the key of the MAC is derived from the data key.)
PacketMac(key, interval, index, message) == <<key, interval, index, message>>

\* A group: its interval, number and first packet, and a slot for each packet,
\* <<message>> or <<>> for a missing one.
NothingMissing(group) == \A i \in DOMAIN group.slots : group.slots[i] # <<>>

PacketMacSlots(group, key) ==
  [i \in DOMAIN group.slots |->
     IF group.slots[i] = <<>>
     THEN NoMac
     ELSE PacketMac(key, group.interval, group.first + i - 1, group.slots[i][1])]

FastGroupTag(key, group, taus) == <<key, group, taus>>
-----------------------------------------------------------------------------
NativeMacs(group, key) == PacketMacSlots(group, key)

NativePassed(group, macs, key, i) ==
  group.slots[i] # <<>> /\ macs[i] # NoMac /\ PacketMacSlots(group, key)[i] = macs[i]

\* The tags of a complete group: a tau for each row of the matrix, and one
\* tag over all of it.
WithFastTag(key, group, taus) == Append(taus, FastGroupTag(key, group, taus))

ImprovedTags(rd, group, key) ==
  WithFastTag(key, group, Aggregate(Matrices[rd.shape], PacketMacSlots(group, key)))

\* Mutant: a group is passed by its tags although a packet is missing.
FastPathAnyway(group, taus, fast, key) == fast[1] = key

FastPath(group, taus, fast, key) ==
  NothingMissing(group) /\ FastGroupTag(key, group, taus) = fast

Fallback(location) ==
  [path |-> "fallback", good |-> location.good, bad |-> location.bad,
   exceeded |-> location.exceeded]

\* tags are those of the group's last packet, <<>> when they are missing.
ImprovedVerify(rd, group, tags, key) ==
  IF Len(tags) # TauCount(rd.shape) + 1
  THEN [path |-> "incomplete", good |-> {}, bad |-> {}, exceeded |-> FALSE]
  ELSE IF FastPath(group, Front(tags), Last(tags), key)
       THEN [path |-> "fast", good |-> 0 .. Len(group.slots) - 1, bad |-> {}, exceeded |-> FALSE]
       ELSE Fallback(Locate(Matrices[rd.shape], rd.shape.threshold,
                            PacketMacSlots(group, key), Front(tags)))
-----------------------------------------------------------------------------
FirstOf(rd, i) == (i - 1) * rd.perInterval + 1

LastOf(rd, i) == MinOf2(rd.total, i * rd.perInterval)

PacketsIn(rd, i) == FirstOf(rd, i) .. LastOf(rd, i)

\* The first packets of an interval's groups, in order (improved mode).
GroupStarts(rd, i) ==
  [n \in 1 .. ((LastOf(rd, i) - FirstOf(rd, i)) \div rd.shape.size) + 1 |->
     FirstOf(rd, i) + (n - 1) * rd.shape.size]

GroupNumber(rd, p) ==
  IF rd.mode = "native" THEN ExpectedInterval(rd, p) ELSE ((p - 1) \div rd.shape.size) + 1

GroupLast(rd, first) ==
  LET last == LastOf(rd, ExpectedInterval(rd, first))
  IN IF rd.mode = "native" THEN last ELSE MinOf2(last, first + rd.shape.size - 1)

\* The first packet of the group of packet p: one group in native mode.
GroupFirst(rd, p) ==
  LET first == FirstOf(rd, ExpectedInterval(rd, p))
  IN IF rd.mode = "native" THEN first ELSE p - ((p - first) % rd.shape.size)

\* A group with the given slots, a function of the packets.
GroupWith(rd, first, slot) ==
  [interval |-> ExpectedInterval(rd, first), number |-> GroupNumber(rd, first), first |-> first,
   slots |-> [i \in 1 .. GroupLast(rd, first) - first + 1 |-> slot[first + i - 1]]]

SentGroup(rd, first) == GroupWith(rd, first, [p \in 1 .. rd.total |-> <<Message(rd, p)>>])

Disclosure(rd, i, p) ==
  IF p = FirstOf(rd, i) /\ i > rd.delay THEN <<i - rd.delay>> ELSE <<>>

\* The tags sent with packet p.
Tags(rd, p) ==
  LET i == ExpectedInterval(rd, p)
      first == GroupFirst(rd, p)
      group == SentGroup(rd, first)
  IN IF rd.mode = "native"
     THEN <<NativeMacs(group, i)[p - first + 1]>>
     ELSE IF p = GroupLast(rd, first) THEN ImprovedTags(rd, group, i) ELSE <<>>

DataPacket(rd, p) ==
  LET i == ExpectedInterval(rd, p)
  IN [interval |-> i, index |-> p, message |-> <<Message(rd, p)>>,
      key |-> Disclosure(rd, i, p), tags |-> Tags(rd, p)]

TailPacket(rd, i) ==
  [interval |-> i, index |-> 0, message |-> <<>>, key |-> <<i - rd.delay>>, tags |-> <<>>]

\* What the sender puts on the air, an interval at a time.
IntervalPackets(rd, i) ==
  IF i <= DataIntervalCount(rd)
  THEN [n \in 1 .. LastOf(rd, i) - FirstOf(rd, i) + 1 |-> DataPacket(rd, FirstOf(rd, i) + n - 1)]
  ELSE <<TailPacket(rd, i)>>

\* The round can be built: its context and every packet are valid, and the
\* chain has every key that is to be disclosed.
Buildable(rd) ==
  /\ PayloadValid(rd)
  /\ ContextValid(rd)
  /\ \A i \in 1 .. FinalInterval(rd) :
       /\ \A n \in DOMAIN IntervalPackets(rd, i) : EncodeValid(rd, IntervalPackets(rd, i)[n])
       /\ i > DataIntervalCount(rd) => DataKeyExists(rd, i - rd.delay)

Datagrams(rd, i) == [n \in DOMAIN IntervalPackets(rd, i) |-> Encode(IntervalPackets(rd, i)[n])]

\* The blocks the sender counts as sent: messages, tags and keys.
BlocksOf(rd, i) == SumFunction([n \in DOMAIN Datagrams(rd, i) |-> Len(Datagrams(rd, i)[n].blocks)])

SentBlocks(rd) == SumFunction([i \in 1 .. FinalInterval(rd) |-> BlocksOf(rd, i)])
==============================================================================
