----------------------------- MODULE MonitorLink -----------------------------
(***************************************************************************)
(* UavMonitorNetworkController, the monitor's connection to a NodeAgent,   *)
(* composed with what the agent does for a monitor: it stores an abnormal  *)
(* event, puts it into the bounded queue of the broadcast thread, which     *)
(* sends it to the clients that have said hello, and answers the snapshot   *)
(* request with what its bounded store has kept.  Abnormal events are       *)
(* numbered; ObservationStore has one record per event ID on either side,   *)
(* so records and nodeStore are sets.                                       *)
(***************************************************************************)
EXTENDS Integers, Sequences, SequencesExt, FiniteSets

CONSTANTS
    ResponseTimeout,   \* m_durResponseTimeout, in periods of the poll timer
    StoreLimit,        \* m_nAbnormalLimit, the same on both sides
    BroadcastLimit,    \* MAX_MONITOR_EVENT_QUEUE
    MaxAbnormal,       \* bound of the model: abnormal events of the node
    MaxUnread,         \* answers the monitor has not read before a send blocks
    MaxConnects        \* bound of the model: calls of connectToNode

ASSUME MonitorParameters ==
    /\ ResponseTimeout \in Nat \ {0} /\ MaxAbnormal \in Nat /\ MaxConnects \in Nat
    /\ MaxUnread \in Nat /\ StoreLimit \in Nat /\ BroadcastLimit \in Nat

VARIABLES
    mState,        \* m_stateConnection
    mSocket,       \* state of m_pSocket
    polling,       \* m_pPollTimer is active
    noResponse,    \* periods since m_nLastResponseMilliseconds
    records,       \* failures of the monitor's m_stoObservations
    happened,      \* node: abnormal events so far, 1 .. happened
    nodeStore,     \* node: failures of m_stoObservations
    unqueued,      \* node: events stored by threads that have not yet queued them
    toBroadcast,   \* node: m_deqMonitorQueue
    inHand,        \* node: what the message brings that the broadcast thread has
    subscribed,    \* node: CLIENT_HELLO was handled on this connection
    requests,      \* messages under way to the node
    responses,     \* messages under way to the monitor
    connects,      \* bound: connections asked for
    lostEvents     \* history: events that went, since the snapshot, where the code
                   \* has a limit, and before it from the node's store

monitorEnd == <<mState, mSocket, polling, noResponse>>
broadcastEnd == <<unqueued, toBroadcast, inHand>>
monitorVars == <<monitorEnd, broadcastEnd, records, happened, nodeStore, subscribed,
                 requests, responses, connects, lostEvents>>

Events == 1 .. MaxAbnormal
ObservedPacket == 0   \* a PACKET_OBSERVATION_EVENT, which gives way to a failure
ObservedGroup == -1   \* a group or a DoS summary, which does not
Observations == Events \union {ObservedPacket, ObservedGroup}

Asked == {"hello", "snapshot", "status"}

\* Of a message to the monitor: the abnormal events it brings.
Replies == SUBSET Events

MonitorTypeOK ==
    /\ mState \in {"Disconnected", "Connecting", "Connected"}
    /\ mSocket \in {"unconnected", "connecting", "connected"}
    /\ polling \in BOOLEAN /\ noResponse \in 0 .. ResponseTimeout
    /\ records \subseteq Events /\ happened \in 0 .. MaxAbnormal
    /\ nodeStore \subseteq Events /\ unqueued \subseteq Events
    /\ toBroadcast \in Seq(Observations) /\ inHand \in Seq(Replies)
    /\ subscribed \in BOOLEAN /\ requests \in Seq(Asked) /\ responses \in Seq(Replies)
    /\ connects \in 0 .. MaxConnects /\ lostEvents \subseteq Events

MonitorInit ==
    /\ mState = "Disconnected" /\ mSocket = "unconnected" /\ polling = FALSE
    /\ noResponse = 0 /\ records = {} /\ happened = 0 /\ nodeStore = {}
    /\ unqueued = {} /\ toBroadcast = <<>> /\ inHand = <<>>
    /\ subscribed = FALSE /\ requests = <<>> /\ responses = <<>> /\ connects = 0
    /\ lostEvents = {}

NodeEnd == <<subscribed, requests, responses>>

ConnectionGone ==
    /\ subscribed' = FALSE /\ requests' = <<>> /\ responses' = <<>> /\ lostEvents' = {}

-----------------------------------------------------------------------------
(* The monitor.                                                            *)

\* abort() of what there was, with its disconnected signal; both stores cleared.
ConnectToNode ==
    /\ connects < MaxConnects /\ connects' = connects + 1
    /\ mState' = "Connecting" /\ mSocket' = "connecting" /\ records' = {}
    /\ polling' = (polling /\ mSocket # "connected") /\ noResponse' = 0
    /\ ConnectionGone /\ UNCHANGED <<happened, nodeStore, broadcastEnd>>

\* Mutant: the snapshot is asked for before the node sends events.
AsksBeforeHello == <<"snapshot", "hello", "status">>

AsksForSnapshot == <<"hello", "snapshot", "status">>

MonitorConnected ==
    /\ mSocket = "connecting" /\ mSocket' = "connected" /\ mState' = "Connected"
    /\ noResponse' = 0 /\ polling' = TRUE /\ requests' = AsksForSnapshot
    /\ UNCHANGED <<records, happened, nodeStore, broadcastEnd, subscribed, responses, connects,
                   lostEvents>>

StateAfterRefusal == "Disconnected"

\* errorOccurred without a connection: no disconnected signal follows.
ConnectFails ==
    /\ mSocket = "connecting" /\ mSocket' = "unconnected" /\ mState' = StateAfterRefusal
    /\ polling' = FALSE /\ noResponse' = 0
    /\ ConnectionGone
    /\ UNCHANGED <<records, happened, nodeStore, broadcastEnd, connects>>

\* disconnected: by the node, by disconnectFromNode, or after a frame that is
\* malformed or not JSON.  disconnectFromNode also ends an attempt.
MonitorDisconnected ==
    /\ mSocket # "unconnected" /\ mSocket' = "unconnected" /\ mState' = "Disconnected"
    /\ polling' = FALSE /\ noResponse' = 0
    /\ ConnectionGone
    /\ UNCHANGED <<records, happened, nodeStore, broadcastEnd, connects>>

\* Until the snapshot is answered, what is lost may still come with it.
LosesForGood(events) ==
    lostEvents' = IF subscribed /\ \A i \in 1 .. Len(requests) : requests[i] # "snapshot"
                  THEN lostEvents \union events ELSE lostEvents

\* The warning of a full store takes the place of a record, so that a store may be
\* full of fewer events: the node's warnings, of two rounds at most, come to the
\* monitor as well.
MayBeFull(store) == Cardinality(store) + 2 >= StoreLimit

\* The monitor has no rounds: what finds its store full is not kept, and one of the
\* records it had may go too.
Recorded(told) ==
    \/ /\ Cardinality(records \union told) <= StoreLimit
       /\ records' = records \union told /\ UNCHANGED lostEvents
    \/ /\ ~(told \subseteq records) /\ MayBeFull(records \union told)
       /\ \E kept \in SUBSET (records \union told) :
             /\ records' = kept /\ LosesForGood((records \union told) \ kept)

\* processTcpData: any message counts as a response.
MonitorReceives ==
    /\ mSocket = "connected" /\ responses # <<>>
    /\ Recorded(Head(responses))
    /\ responses' = Tail(responses) /\ noResponse' = 0
    /\ UNCHANGED <<mState, mSocket, polling, happened, nodeStore, broadcastEnd, subscribed,
                   requests, connects>>

ResponseTimedOut == noResponse >= ResponseTimeout

\* Mutant: a node that does not answer is asked again.
NeverGivesUp == FALSE

GivesUp == ResponseTimedOut

\* checkConnection: PING and STATUS_REQUEST, or the end of the connection.
Poll ==
    /\ polling /\ mState = "Connected"
    /\ IF GivesUp
       THEN /\ mSocket' = "unconnected" /\ mState' = "Disconnected" /\ polling' = FALSE
            /\ noResponse' = 0 /\ ConnectionGone
       ELSE /\ noResponse' = IF ResponseTimedOut THEN noResponse ELSE noResponse + 1
            /\ requests' = IF \E i \in 1 .. Len(requests) : requests[i] = "status"
                           THEN requests ELSE Append(requests, "status")
            /\ UNCHANGED <<mSocket, mState, polling, subscribed, responses, lostEvents>>
    /\ UNCHANGED <<records, happened, nodeStore, broadcastEnd, connects>>

-----------------------------------------------------------------------------
(* The node.                                                               *)

\* A full store gives up a record of the round before, or does not take the new one;
\* the first time it also gives a record's place to the warning.
StoreAbnormal ==
    LET new == happened + 1
    IN  /\ happened < MaxAbnormal /\ happened' = new /\ unqueued' = unqueued \union {new}
        /\ \/ Cardinality(nodeStore) < StoreLimit /\ nodeStore' = nodeStore \union {new}
           \/ /\ MayBeFull(nodeStore)
              /\ \/ \E old \in nodeStore :
                       nodeStore' \in {(nodeStore \ {old}) \union {new}, nodeStore \ {old}}
                 \/ UNCHANGED nodeStore
        /\ UNCHANGED <<monitorEnd, records, toBroadcast, inHand, NodeEnd, connects, lostEvents>>

\* beginRound at the node: the records of older rounds go.
ForgetOldRounds ==
    /\ nodeStore' \in SUBSET nodeStore
    /\ UNCHANGED <<monitorEnd, broadcastEnd, records, happened, NodeEnd, connects, lostEvents>>

\* What the monitor knows or is being told.
KnownEvents == records \union UNION ToSet(responses)

\* enqueueMonitorObservation: at its limit the queue gives up its first packet for a
\* failure; a failure that finds none is dropped.
Evicts(event) ==
    \E i \in 1 .. Len(toBroadcast) :
        /\ toBroadcast[i] = ObservedPacket
        /\ \A j \in 1 .. i - 1 : toBroadcast[j] # ObservedPacket
        /\ toBroadcast' = Append(RemoveAt(toBroadcast, i), event)

EnqueueAbnormal ==
    /\ \E event \in unqueued :
          /\ unqueued' = unqueued \ {event}
          /\ \/ /\ Len(toBroadcast) < BroadcastLimit
                /\ toBroadcast' = Append(toBroadcast, event) /\ UNCHANGED lostEvents
             \/ /\ Len(toBroadcast) >= BroadcastLimit
                /\ Evicts(event) /\ UNCHANGED lostEvents
             \/ /\ Len(toBroadcast) >= BroadcastLimit
                /\ \A i \in 1 .. Len(toBroadcast) : toBroadcast[i] # ObservedPacket
                /\ LosesForGood({event} \ KnownEvents) /\ UNCHANGED toBroadcast
    /\ UNCHANGED <<monitorEnd, records, happened, nodeStore, inHand, NodeEnd, connects>>

\* What is not a failure; it is dropped if the queue is full.
EnqueueOrdinary ==
    /\ Len(toBroadcast) < BroadcastLimit
    /\ \E kind \in {ObservedPacket, ObservedGroup} : toBroadcast' = Append(toBroadcast, kind)
    /\ UNCHANGED <<monitorEnd, records, happened, nodeStore, unqueued, inHand, NodeEnd, connects,
                   lostEvents>>

\* The broadcast thread takes a message under the queue's lock ...
TakeForBroadcast ==
    /\ inHand = <<>> /\ toBroadcast # <<>>
    /\ inHand' = <<{Head(toBroadcast)} \intersect Events>> /\ toBroadcast' = Tail(toBroadcast)
    /\ UNCHANGED <<monitorEnd, records, happened, nodeStore, unqueued, NodeEnd, connects,
                   lostEvents>>

\* ... and sends it without, to the clients that have said hello.
BroadcastEvent ==
    /\ inHand # <<>> /\ inHand' = <<>> /\ Len(responses) < MaxUnread
    /\ responses' = IF subscribed THEN responses \o inHand ELSE responses
    /\ UNCHANGED <<monitorEnd, records, happened, nodeStore, unqueued, toBroadcast, subscribed,
                   requests, connects, lostEvents>>

\* An event that neither the monitor nor the broadcast has and the store has not kept.
GoneBefore ==
    (1 .. happened)
        \ (nodeStore \union KnownEvents \union unqueued \union ToSet(toBroadcast)
           \union UNION ToSet(inHand))

\* The client's thread at the node, one message after the other.
NodeServes ==
    /\ mSocket = "connected" /\ requests # <<>> /\ requests' = Tail(requests)
    /\ Len(responses) < MaxUnread
    /\ CASE Head(requests) = "hello" -> subscribed' = TRUE /\ UNCHANGED <<responses, lostEvents>>
         [] Head(requests) = "snapshot" ->
               /\ responses' = Append(responses, nodeStore)
               /\ lostEvents' = GoneBefore /\ UNCHANGED subscribed
         [] Head(requests) = "status" ->
               /\ responses' = Append(responses, {})
               /\ UNCHANGED <<subscribed, lostEvents>>
    /\ UNCHANGED <<monitorEnd, broadcastEnd, records, happened, nodeStore, connects>>

MonitorNext ==
    \/ ConnectToNode \/ MonitorConnected \/ ConnectFails \/ MonitorDisconnected
    \/ MonitorReceives \/ Poll \/ NodeServes
    \/ StoreAbnormal \/ ForgetOldRounds \/ EnqueueAbnormal \/ EnqueueOrdinary
    \/ TakeForBroadcast \/ BroadcastEvent

\* The poll timer runs; the node may be as slow as it likes.
MonitorFairness == WF_monitorVars(Poll)

MonitorSpec == MonitorInit /\ [][MonitorNext]_monitorVars /\ MonitorFairness

-----------------------------------------------------------------------------
(* Properties.                                                             *)

\* Once the node has answered what the monitor asked, and nothing is under way, an
\* abnormal event of the node, from before the connection or since, is with the
\* monitor unless a limit of the code has cost it: the node's store no longer had it
\* at the snapshot, the broadcast queue was full, or the monitor's own store was.
NoAbnormalMissed ==
    (/\ mSocket = "connected" /\ subscribed /\ responses = <<>>
     /\ unqueued = {} /\ toBroadcast = <<>> /\ inHand = <<>>
     /\ \A i \in 1 .. Len(requests) : requests[i] = "status")
        => /\ records \subseteq 1 .. happened
           /\ (1 .. happened) \ records \subseteq lostEvents

\* The connection state shown is the socket's, and only a connection is polled: as
\* the comment at errorOccurred wants it, the window does not stay at "connecting".
ShownStateIsSocket ==
    /\ (mState = "Connected") = (mSocket = "connected") /\ polling = (mState = "Connected")
    /\ mState = "Connecting" <=> mSocket = "connecting"

\* A node that stops answering is given up.
SilentNodeGivenUp ==
    (mState = "Connected" /\ noResponse = ResponseTimeout)
        ~> (mState # "Connected" \/ noResponse < ResponseTimeout)

\* A connection of the monitor: shown as it is, nothing missed in silence, never held in vain.
MonitorServes ==
    /\ [](MonitorTypeOK /\ NoAbnormalMissed /\ ShownStateIsSocket)
    /\ SilentNodeGivenUp
=============================================================================
