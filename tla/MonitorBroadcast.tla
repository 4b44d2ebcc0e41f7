--------------------------- MODULE MonitorBroadcast ---------------------------
(***************************************************************************)
(* TcpManagementServer's way to the monitors: the runtimes' threads put     *)
(* observations and metric records into two bounded queues, one broadcast  *)
(* thread sends them, metric records in batches, and start and stop create *)
(* and reclaim that thread.  The queues are guarded by m_mtxMonitorQueue;  *)
(* m_bRunning is atomic.  One action is one critical section or one step   *)
(* between two of them.                                                    *)
(***************************************************************************)
EXTENDS Integers, Sequences

CONSTANTS
    EventLimit,   \* MAX_MONITOR_EVENT_QUEUE
    MetricLimit,  \* MAX_METRIC_EVENT_QUEUE
    BatchSize,    \* METRIC_BATCH_SIZE
    MaxProduced,  \* bound of the model: observations and metric records
    MaxStarts     \* bound of the model: starts of the server

ASSUME BroadcastParameters ==
    /\ EventLimit \in Nat \ {0} /\ MetricLimit \in Nat \ {0}
    /\ BatchSize \in Nat \ {0}
    /\ MaxProduced \in Nat /\ MaxStarts \in Nat

\* PacketObservationEvent, PacketFailureEvent, and the two other kinds.
Kinds == {"packet", "failure", "other"}

VARIABLES
    running,       \* m_bRunning
    events,        \* m_deqMonitorQueue
    metrics,       \* length of m_deqMetricQueue
    droppedCount,  \* m_nDroppedMonitorEventCount
    prefer,        \* bPreferMetricBatch of the broadcast thread
    bpc,           \* where the broadcast thread is
    spc,           \* where the thread that starts and stops the server is
    \* History.
    starts, produced, taken, cleared,
    batchesWaited, \* metric batches taken while an observation waits
    eventsWaited   \* observations taken while a metric record waits

vars == <<running, events, metrics, droppedCount, prefer, bpc, spc, starts,
          produced, taken, cleared, batchesWaited, eventsWaited>>

TypeOK ==
    /\ running \in BOOLEAN /\ prefer \in BOOLEAN
    /\ events \in Seq(Kinds) /\ Len(events) <= EventLimit
    /\ metrics \in 0 .. MetricLimit
    /\ droppedCount \in Nat
    /\ bpc \in {"none", "take", "batchWait", "send", "terminated"}
    /\ spc \in {"idle", "clear", "join", "clients"}
    /\ starts \in Nat /\ produced \in Nat /\ taken \in Nat /\ cleared \in Nat
    /\ batchesWaited \in Nat /\ eventsWaited \in Nat

Init ==
    /\ running = FALSE /\ events = <<>> /\ metrics = 0 /\ droppedCount = 0
    /\ prefer = TRUE /\ bpc = "none" /\ spc = "idle"
    /\ starts = 0 /\ produced = 0 /\ taken = 0 /\ cleared = 0
    /\ batchesWaited = 0 /\ eventsWaited = 0

-----------------------------------------------------------------------------
(* The producers: any thread of the runtimes, the server running or not.   *)

FirstPackets ==
    {k \in 1 .. Len(events) : events[k] = "packet" /\
                              \A m \in 1 .. k - 1 : events[m] # "packet"}

Without(k) == SubSeq(events, 1, k - 1) \o SubSeq(events, k + 1, Len(events))

Produce == bpc # "terminated" /\ produced < MaxProduced /\ produced' = produced + 1

\* Mutant: the packet that makes room for a failure is not counted as dropped.
EvictUncounted ==
    /\ \E k \in FirstPackets : events' = Append(Without(k), "failure")
    /\ UNCHANGED droppedCount

\* A failure that finds the queue full takes the place of a normal packet.
Evict ==
    /\ \E k \in FirstPackets : events' = Append(Without(k), "failure")
    /\ droppedCount' = droppedCount + 1

EventRoom == Len(events) < EventLimit

EnqueueObservation(kind) ==
    /\ Produce
    /\ \/ EventRoom /\ events' = Append(events, kind) /\ UNCHANGED droppedCount
       \/ ~EventRoom /\ kind = "failure" /\ Evict
       \/ /\ ~EventRoom
          /\ kind = "failure" => FirstPackets = {}
          /\ droppedCount' = droppedCount + 1 /\ UNCHANGED events
    /\ UNCHANGED <<running, metrics, prefer, bpc, spc, starts, taken, cleared,
                   batchesWaited, eventsWaited>>

EnqueueMetric ==
    /\ Produce
    /\ IF metrics >= MetricLimit
       THEN droppedCount' = droppedCount + 1 /\ UNCHANGED metrics
       ELSE metrics' = metrics + 1 /\ UNCHANGED droppedCount
    /\ UNCHANGED <<running, events, prefer, bpc, spc, starts, taken, cleared,
                   batchesWaited, eventsWaited>>

Producer == EnqueueMetric \/ \E kind \in Kinds : EnqueueObservation(kind)

-----------------------------------------------------------------------------
(* The broadcast thread, monitorBroadcastLoop().                           *)

HasMetrics == metrics > 0
HasEvents == events # <<>>

\* Mutant: the wait overlooks the observations.
WokenUpByMetrics == ~running \/ HasMetrics

WokenUp == ~running \/ HasMetrics \/ HasEvents

SendsBatch == HasMetrics /\ (~HasEvents \/ prefer)

Alternate == prefer' = IF HasMetrics /\ HasEvents THEN ~prefer ELSE prefer

\* With both queues empty the thread waits, and a stopped server lets it end.
EndBroadcast ==
    /\ bpc = "take" /\ WokenUp /\ ~running /\ ~HasMetrics /\ ~HasEvents
    /\ bpc' = "none"
    /\ UNCHANGED <<running, events, metrics, droppedCount, prefer, spc, starts,
                   produced, taken, cleared, batchesWaited, eventsWaited>>

TakeEvent ==
    /\ bpc = "take" /\ WokenUp /\ HasEvents /\ ~SendsBatch
    /\ events' = Tail(events) /\ taken' = taken + 1
    /\ Alternate
    /\ bpc' = "send"
    /\ batchesWaited' = 0
    /\ eventsWaited' = IF HasMetrics THEN eventsWaited + 1 ELSE 0
    /\ UNCHANGED <<running, metrics, droppedCount, spc, starts, produced, cleared>>

\* A batch of what is there now; MetricEventControlDetails refuses an empty one,
\* and an exception that leaves the thread function ends the process.
TakeBatch ==
    LET size == IF metrics < BatchSize THEN metrics ELSE BatchSize
    IN  /\ metrics' = metrics - size /\ taken' = taken + size
        /\ bpc' = IF size = 0 THEN "terminated" ELSE "send"
        /\ batchesWaited' = IF HasEvents THEN batchesWaited + 1 ELSE 0
        /\ eventsWaited' = 0
        /\ UNCHANGED <<running, events, droppedCount, spc, starts, produced, cleared>>

\* A full batch, a waiting observation or a stop: the batch is taken at once.
BatchAtOnce == metrics >= BatchSize \/ HasEvents \/ ~running

TakeBatchAtOnce ==
    /\ bpc = "take" /\ WokenUp /\ SendsBatch /\ BatchAtOnce
    /\ Alternate /\ TakeBatch

\* Otherwise the lock is given up for at most 25 ms to let the batch grow.
AwaitBatch ==
    /\ bpc = "take" /\ WokenUp /\ SendsBatch /\ ~BatchAtOnce
    /\ bpc' = "batchWait"
    /\ UNCHANGED <<running, events, metrics, droppedCount, prefer, spc, starts,
                   produced, taken, cleared, batchesWaited, eventsWaited>>

\* The wait ends by its predicate or by its timeout, so at any time.
EndBatchWait ==
    /\ bpc = "batchWait"
    /\ prefer' = IF HasEvents THEN FALSE ELSE prefer
    /\ TakeBatch

\* To every monitor, without the lock; a client that fails is disconnected.
SendMessage ==
    /\ bpc = "send" /\ bpc' = "take"
    /\ UNCHANGED <<running, events, metrics, droppedCount, prefer, spc, starts,
                   produced, taken, cleared, batchesWaited, eventsWaited>>

Broadcast ==
    \/ EndBroadcast \/ TakeEvent \/ TakeBatchAtOnce \/ AwaitBatch
    \/ EndBatchWait \/ SendMessage

-----------------------------------------------------------------------------
(* The thread that starts and stops the server.                            *)

ClearQueues ==
    /\ events' = <<>> /\ metrics' = 0
    /\ cleared' = cleared + Len(events) + metrics
    /\ batchesWaited' = 0 /\ eventsWaited' = 0

\* start(): a server that runs is left alone; when the socket or a thread cannot
\* be had, no broadcast thread exists and stop() follows.
StartServer ==
    /\ spc = "idle" /\ ~running /\ starts < MaxStarts /\ bpc = "none"
    /\ starts' = starts + 1
    /\ \/ running' = TRUE /\ bpc' = "take" /\ prefer' = TRUE /\ UNCHANGED spc
       \/ spc' = "clear" /\ UNCHANGED <<running, bpc, prefer>>
    /\ UNCHANGED <<events, metrics, droppedCount, produced, taken, cleared,
                   batchesWaited, eventsWaited>>

BeginStop ==
    /\ spc = "idle" /\ bpc # "terminated"
    /\ running' = FALSE /\ spc' = "clear"
    /\ UNCHANGED <<events, metrics, droppedCount, prefer, bpc, starts, produced,
                   taken, cleared, batchesWaited, eventsWaited>>

\* The queues are emptied, then the threads are woken up.
ClearForStop ==
    /\ spc = "clear" /\ spc' = "join" /\ bpc # "terminated"
    /\ ClearQueues
    /\ UNCHANGED <<running, droppedCount, prefer, bpc, starts, produced, taken>>

JoinBroadcast ==
    /\ spc = "join" /\ bpc = "none" /\ spc' = "clients"
    /\ UNCHANGED <<running, events, metrics, droppedCount, prefer, bpc, starts,
                   produced, taken, cleared, batchesWaited, eventsWaited>>

\* The clients' threads are gone too; what has come meanwhile is thrown away.
EndStop ==
    /\ spc = "clients" /\ spc' = "idle" /\ ClearQueues
    /\ UNCHANGED <<running, droppedCount, prefer, bpc, starts, produced, taken>>

Stopping == ClearForStop \/ JoinBroadcast \/ EndStop

Next == Producer \/ Broadcast \/ StartServer \/ BeginStop \/ Stopping

Spec == Init /\ [][Next]_vars

\* Both threads are scheduled, and a send to a monitor ends (SO_SNDTIMEO).
FairSpec == Spec /\ WF_vars(Broadcast) /\ WF_vars(Stopping)

-----------------------------------------------------------------------------
(* Properties.                                                             *)

\* Nothing is lost without a trace: whatever the runtimes handed over is still
\* queued, went to the sockets, was thrown away by a stop, or is counted as
\* dropped, also when a failure displaces a packet in a full queue.
EverythingAccounted ==
    produced = Len(events) + metrics + taken + cleared + droppedCount

\* "alternate when both queues have data so that neither starves" (438): while an
\* observation waits at most one metric batch overtakes it, and while a metric
\* record waits at most one observation does.
BoundedOvertaking == batchesWaited <= 1 /\ eventsWaited <= 1

\* "sent at once when the batch is full, on a stop, or with an observation" (444):
\* the broadcast thread survives a stop, whatever it was waiting for.
BroadcastSurvives == bpc # "terminated"

\* stop() gets its thread back, if the runtimes have stopped observing by then.
StopReturns == spc = "join" ~> spc # "join" \/ bpc = "terminated"

\* An observation that has been queued is sent, or the server is stopped.
EventsLeave == HasEvents /\ running ~> ~HasEvents \/ ~running

\* The queues are bounded, what they lose is counted, and neither holds up the other.
BroadcastSafe == TypeOK /\ EverythingAccounted /\ BoundedOvertaking
=============================================================================
