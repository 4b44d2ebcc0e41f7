--------------------------- MODULE ObservationStore ---------------------------
(***************************************************************************)
(* AuthenticationObservationStore: the bounded records of packets, failures *)
(* and improved groups that the monitors ask for.  Packets live in a ring;  *)
(* a failure shares its packet, so that the packet outlives the ring; the   *)
(* index by event ID holds weak references.  Every operation is one         *)
(* critical section of m_mtxStore; the snapshot a monitor asks for is two.  *)
(***************************************************************************)
EXTENDS Integers, Sequences, SequencesExt

CONSTANTS
    StoreRounds,    \* round IDs
    EventIds,       \* event IDs of packets and of failures
    PacketLimit,    \* m_nPacketLimit
    AbnormalLimit,  \* m_nAbnormalLimit
    GroupLimit,     \* m_nGroupLimit
    SnapshotBatch,  \* ABNORMAL_SNAPSHOT_BATCH_SIZE
    MaxAppends      \* bound of the model: failures appended, warnings aside

ASSUME StoreLimits ==
    /\ PacketLimit \in Nat \ {0} /\ GroupLimit \in Nat \ {0}
    /\ AbnormalLimit \in Nat \ {0, 1} /\ SnapshotBatch \in Nat \ {0}
    /\ EventIds \subseteq Nat \ {0} /\ StoreRounds \subseteq Nat \ {0}
    /\ MaxAppends \in Nat

\* A failure belongs to one round; two failures may name the same packet.
RoundOf(id) == 1 + (id % 2)
PacketOf(id) == 1 + (id - 1) \div 2

ASSUME StoreInputs ==
    \A id \in EventIds : RoundOf(id) \in StoreRounds /\ PacketOf(id) \in EventIds

NoRound == 0   \* the empty round ID
NoPacket == 0
Warning == 0   \* stands for the event ID of an AbnormalRecordLimitReached record

VARIABLES
    currentRound, previousRound,
    packetRing,     \* m_deqPackets, event IDs
    packetIndex,    \* keys of m_mapPacketByEventId
    failureRecords, \* m_deqFailures
    groupRounds,    \* m_deqGroups, the groups' round IDs
    limitReported,  \* m_bAbnormalLimitReported
    discarded,      \* m_u64DiscardedAbnormalCount
    counted,        \* sum of m_mapFailureCounts, warnings aside
    readFirst,      \* the list a snapshot under way has read: "none" if none is
    readList,       \* what it has read
    \* History: failures of the current round handed over since it began, and the
    \* failures that have been stored, and at one place, since the first reading.
    handedOver, stayed, unmoved

recordVars == <<currentRound, previousRound, packetRing, packetIndex,
                failureRecords, groupRounds, limitReported, discarded, counted,
                handedOver>>

storeVars == <<recordVars, readFirst, readList, stayed, unmoved>>

FailureRecord == [id : EventIds \union {Warning}, round : StoreRounds \union {NoRound},
                  packet : EventIds \union {NoPacket}]

RecordTypeOK ==
    /\ currentRound \in StoreRounds \union {NoRound}
    /\ previousRound \in StoreRounds \union {NoRound}
    /\ packetRing \in Seq(EventIds) /\ Len(packetRing) <= PacketLimit
    /\ packetIndex \subseteq EventIds
    /\ failureRecords \in Seq(FailureRecord) /\ Len(failureRecords) <= AbnormalLimit
    /\ groupRounds \in Seq(StoreRounds) /\ Len(groupRounds) <= GroupLimit
    /\ limitReported \in BOOLEAN
    /\ discarded \in Nat /\ counted \in Nat
    /\ handedOver \subseteq EventIds

StoreTypeOK ==
    /\ RecordTypeOK
    /\ readFirst \in {"none", "packets", "failures"}
    /\ readList \in CASE readFirst = "none" -> {<<>>}
                     [] readFirst = "packets" -> Seq(EventIds)
                     [] readFirst = "failures" -> Seq(FailureRecord)
    /\ stayed \subseteq EventIds /\ unmoved \subseteq EventIds

StoreInit ==
    /\ currentRound = NoRound /\ previousRound = NoRound
    /\ packetRing = <<>> /\ packetIndex = {} /\ failureRecords = <<>>
    /\ groupRounds = <<>> /\ limitReported = FALSE /\ discarded = 0 /\ counted = 0
    /\ handedOver = {}
    /\ readFirst = "none" /\ readList = <<>> /\ stayed = {} /\ unmoved = {}

-----------------------------------------------------------------------------

\* The packets somebody holds a shared_ptr to.
Held(ring, records) ==
    (ToSet(ring) \union {records[k].packet : k \in 1 .. Len(records)}) \ {NoPacket}

\* A bounded deque that drops its oldest members.
Newest(s, limit) == SubSeq(s, Len(s) - limit + 1, Len(s))
Bounded(s, limit) == IF Len(s) > limit THEN Newest(s, limit) ELSE s

\* The members of a sequence at some of its places, in their order.
Kept(s, places) ==
    FoldLeftDomain(LAMBDA r, k : IF k \in places THEN Append(r, s[k]) ELSE r, <<>>, s)

OfLastRounds(round) == round \in {currentRound', previousRound'}

\* Round IDs are not used again; the ID of the current round changes nothing.
BeginStoreRound(round) ==
    /\ round > currentRound
    /\ previousRound' = currentRound /\ currentRound' = round
    /\ limitReported' = FALSE /\ handedOver' = {}
    /\ failureRecords' = Kept(failureRecords,
           {k \in 1 .. Len(failureRecords) : OfLastRounds(failureRecords[k].round)})
    /\ groupRounds' = Kept(groupRounds,
           {k \in 1 .. Len(groupRounds) : OfLastRounds(groupRounds[k])})
    /\ packetIndex' = packetIndex \intersect Held(packetRing, failureRecords')
    /\ UNCHANGED <<packetRing, discarded, counted>>

\* A packet that is still held is updated in place, whoever holds it.
AppendPacket(id) ==
    /\ id \notin packetIndex \intersect Held(packetRing, failureRecords)
    /\ packetRing' = Bounded(Append(packetRing, id), PacketLimit)
    /\ packetIndex' = (packetIndex \union {id}) \intersect Held(packetRing', failureRecords)
    /\ UNCHANGED <<currentRound, previousRound, failureRecords, groupRounds,
                   limitReported, discarded, counted, handedOver>>

AppendGroup(round) ==
    /\ groupRounds' = Bounded(Append(groupRounds, round), GroupLimit)
    /\ UNCHANGED <<currentRound, previousRound, packetRing, packetIndex,
                   failureRecords, limitReported, discarded, counted, handedOver>>

Full(records) == Len(records) >= AbnormalLimit

\* Mutant: the failure that makes room is the oldest one of the current round.
MadeRoomOwn(round) ==
    IF Full(failureRecords) /\ currentRound # NoRound /\ round = currentRound
    THEN RemoveFirstMatch(failureRecords, LAMBDA f : f.round = currentRound)
    ELSE failureRecords

\* A full store gives up its oldest record of the previous round for a failure
\* of the current one.
MadeRoom(round) ==
    IF Full(failureRecords) /\ currentRound # NoRound /\ round = currentRound
    THEN RemoveFirstMatch(failureRecords, LAMBDA f : f.round = previousRound)
    ELSE failureRecords

\* The packet a new failure shares, if the index still leads to it.
SharedPacket(packet, records) ==
    IF packet \in packetIndex \intersect Held(packetRing, records)
    THEN packet ELSE NoPacket

\* The first failure that finds no room leaves a warning in the last record's
\* place.
RaiseWarning(records) ==
    /\ failureRecords' = [records EXCEPT ![Len(records)] =
                             [id |-> Warning, round |-> currentRound, packet |-> NoPacket]]
    /\ limitReported' = TRUE

AppendFailure(id, round, packet) ==
    LET records == MadeRoom(round)
    IN  /\ counted < MaxAppends
        /\ \A k \in 1 .. Len(failureRecords) : failureRecords[k].id # id
        /\ counted' = counted + 1
        /\ handedOver' = IF round = currentRound THEN handedOver \union {id}
                                                 ELSE handedOver
        /\ \/ /\ ~Full(records)
              /\ failureRecords' = Append(records, [id |-> id, round |-> round,
                                      packet |-> SharedPacket(packet, records)])
              /\ UNCHANGED <<limitReported, discarded>>
           \/ /\ Full(records) /\ discarded' = discarded + 1
              /\ IF limitReported THEN UNCHANGED <<failureRecords, limitReported>>
                                  ELSE RaiseWarning(records)
        /\ UNCHANGED <<currentRound, previousRound, packetRing, packetIndex, groupRounds>>

\* A failure that is stored is updated: its record keeps its place and packet.
UpdateFailure(id, round) ==
    /\ \E k \in 1 .. Len(failureRecords) :
          /\ failureRecords[k].id = id
          /\ failureRecords' = [failureRecords EXCEPT ![k].round = round]
    /\ UNCHANGED <<currentRound, previousRound, packetRing, packetIndex, groupRounds,
                   limitReported, discarded, counted, handedOver>>

\* Only a monitor clears its store, and nobody asks a monitor for a snapshot.
ClearStore ==
    /\ readFirst = "none"
    /\ currentRound' = NoRound /\ previousRound' = NoRound
    /\ packetRing' = <<>> /\ packetIndex' = {} /\ failureRecords' = <<>>
    /\ groupRounds' = <<>> /\ limitReported' = FALSE /\ discarded' = 0 /\ counted' = 0
    /\ handedOver' = {}

StoreOperation ==
    \/ \E round \in StoreRounds : BeginStoreRound(round) \/ AppendGroup(round)
    \/ \E id \in EventIds :
          \/ AppendPacket(PacketOf(id))
          \/ UpdateFailure(id, RoundOf(id))
          \/ \E packet \in {PacketOf(id), NoPacket} : AppendFailure(id, RoundOf(id), packet)
    \/ ClearStore

-----------------------------------------------------------------------------
(* The snapshot a monitor gets after it has connected again: make_pair has  *)
(* two arguments, read in either order, and the store may change in between.*)

Failures == [k \in 1 .. Len(failureRecords) |-> failureRecords[k].packet]

\* Mutant: only the packets that are still in the ring.
RingPackets ==
    Kept(Failures, {k \in 1 .. Len(Failures) :
        Failures[k] \in ToSet(packetRing) /\ \A m \in 1 .. k - 1 : Failures[m] # Failures[k]})

\* vecAbnormalPacketSnapshot: every packet once, in the order of the failures.
AbnormalPackets ==
    Kept(Failures, {k \in 1 .. Len(Failures) :
        Failures[k] # NoPacket /\ \A m \in 1 .. k - 1 : Failures[m] # Failures[k]})

StoredIds(records) == {records[k].id : k \in 1 .. Len(records)} \ {Warning}

ReadPacketsFirst ==
    /\ readFirst = "none" /\ readFirst' = "packets"
    /\ readList' = AbnormalPackets
    /\ stayed' = StoredIds(failureRecords) /\ unmoved' = StoredIds(failureRecords)

ReadFailuresFirst ==
    /\ readFirst = "none" /\ readFirst' = "failures"
    /\ readList' = failureRecords
    /\ stayed' = StoredIds(failureRecords) /\ unmoved' = {}

\* The two lists of the snapshot if the second one is read now.
HandedPackets == IF readFirst = "packets" THEN readList ELSE AbnormalPackets
HandedFailures == IF readFirst = "failures" THEN readList ELSE failureRecords

FinishSnapshot ==
    /\ readFirst # "none" /\ readFirst' = "none"
    /\ readList' = <<>> /\ stayed' = {} /\ unmoved' = {}

\* What an operation leaves of the failures since the first reading.
Witnessed ==
    /\ stayed' = stayed \intersect StoredIds(failureRecords')
    /\ unmoved' = {id \in unmoved :
          \E k \in DOMAIN failureRecords \intersect DOMAIN failureRecords' :
              failureRecords[k].id = id /\ failureRecords'[k].id = id}
    /\ UNCHANGED <<readFirst, readList>>

StoreNext ==
    \/ StoreOperation /\ Witnessed
    \/ (ReadPacketsFirst \/ ReadFailuresFirst \/ FinishSnapshot) /\ UNCHANGED recordVars

StoreSpec == StoreInit /\ [][StoreNext]_storeVars

\* The message that carries the k-th member of a list.
BatchOf(k) == 1 + (k - 1) \div SnapshotBatch

-----------------------------------------------------------------------------
(* Properties.                                                             *)

\* A failure of the current round whose details are gone, whether it found the
\* store full or had to give its place to the warning, is announced: the store
\* holds the warning of that round.
LossAnnounced ==
    \A id \in handedOver :
        \E k \in 1 .. Len(failureRecords) :
            \/ failureRecords[k].id = id
            \/ failureRecords[k].id = Warning /\ failureRecords[k].round = currentRound

\* "one ABNORMAL_RECORD_LIMIT_REACHED": a round never has two warnings.
WarnedOnce ==
    \A j, k \in 1 .. Len(failureRecords) :
        failureRecords[j].id = Warning /\ failureRecords[k].id = Warning
            /\ failureRecords[j].round = failureRecords[k].round => j = k

\* The packet of a stored failure can still be looked up after the ring has
\* dropped it, and the ring never holds two records of one packet.
AbnormalPacketsKept ==
    /\ \A k \in 1 .. Len(failureRecords) :
          failureRecords[k].packet \in packetIndex \union {NoPacket}
    /\ \A j, k \in 1 .. Len(packetRing) : packetRing[j] = packetRing[k] => j = k

\* The packet of a failure is handed out with it, no later than in the failure's
\* batch.  The failure has to be stored at both readings, and where the packets are
\* read first, an eviction must not have moved it to an earlier place.
SnapshotInOrder ==
    readFirst # "none" =>
        \A k \in 1 .. Len(HandedFailures) :
            LET failure == HandedFailures[k]
            IN  failure.packet # NoPacket /\ failure.id \in stayed =>
                    \E p \in 1 .. Len(HandedPackets) :
                        /\ HandedPackets[p] = failure.packet
                        /\ readFirst = "failures" \/ failure.id \in unmoved
                               => BatchOf(p) <= BatchOf(k)

\* What docs/stage8-observation-and-visualization.md says of the snapshot: it
\* returns the failures with the packets they refer to.
SnapshotComplete ==
    readFirst # "none" =>
        \A k \in 1 .. Len(HandedFailures) :
            HandedFailures[k].packet \in ToSet(HandedPackets) \union {NoPacket}

\* The store loses nothing in silence, keeps what is abnormal and hands it out in order.
StoreSafe ==
    /\ StoreTypeOK /\ LossAnnounced /\ WarnedOnce
    /\ AbnormalPacketsKept /\ SnapshotInOrder
=============================================================================
