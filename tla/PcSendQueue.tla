----------------------------- MODULE PcSendQueue -----------------------------
(***************************************************************************)
(* How the PC node sends: the sender's worker hands each datagram to       *)
(* bQueueAuthenticationDatagram, the Qt thread drains the queue in batches *)
(* from posted events, and the round's result reaches the clients through  *)
(* the same event queue, behind the datagrams.  The worker is              *)
(* AuthenticationSenderRuntime seen from here: it queues the datagrams of  *)
(* a round in order and reports Completed when all were accepted.          *)
(***************************************************************************)
EXTENDS Integers, Sequences

CONSTANTS
    QueueLimit,       \* MAX_AUTHENTICATION_SEND_QUEUE_SIZE
    SendBatch,        \* MAX_AUTHENTICATION_SEND_BATCH_SIZE
    RoundDatagrams,   \* datagrams of a round
    MaxRounds         \* bound of the model: rounds started

ASSUME QueueParameters ==
    /\ QueueLimit \in Nat \ {0} /\ SendBatch \in Nat \ {0}
    /\ RoundDatagrams \in Nat \ {0} /\ MaxRounds \in Nat

VARIABLES
    nodeOn,           \* m_bRunning
    sendQueue,        \* m_deqAuthenticationSendQueue
    drainScheduled,   \* m_bAuthenticationSendDrainScheduled
    sendFault,        \* m_bAuthenticationSendFault
    posted,           \* events posted to the Qt thread
    batch, more,      \* vecBatch and bHasMore of the drain under way
    drainPc,          \* where the Qt thread is: "loop" or "write"
    sender, toQueue,  \* the worker: where it is, and the datagram it queues next
    round,            \* rounds started
    \* History: datagrams written to the socket, and results broadcast.
    written, reported

queueVars == <<nodeOn, sendQueue, drainScheduled, sendFault, posted, batch, more,
               drainPc, sender, toQueue, round, written, reported>>

Datagrams == [round : 1 .. MaxRounds, index : 1 .. RoundDatagrams]
Outcomes == {"Completed", "Failed", "Overrun"}
PostedEvents == [kind : {"drain"}, round : {0}, outcome : {"none"}]
                \union [kind : {"result"}, round : 1 .. MaxRounds, outcome : Outcomes]
Drain == [kind |-> "drain", round |-> 0, outcome |-> "none"]
ResultMark(r, outcome) == [kind |-> "result", round |-> r, outcome |-> outcome]

QueueTypeOK ==
    /\ nodeOn \in BOOLEAN /\ drainScheduled \in BOOLEAN /\ sendFault \in BOOLEAN
    /\ sendQueue \in Seq(Datagrams) /\ Len(sendQueue) <= QueueLimit
    /\ posted \in Seq(PostedEvents)
    /\ batch \in Seq(Datagrams) /\ Len(batch) <= SendBatch /\ more \in BOOLEAN
    /\ drainPc \in {"loop", "write"}
    /\ sender \in {"idle", "send", "post", "end"} /\ toQueue \in 1 .. RoundDatagrams + 1
    /\ round \in 0 .. MaxRounds /\ written \in Seq(Datagrams)
    /\ reported \subseteq [round : 1 .. MaxRounds, outcome : Outcomes]

QueueInit ==
    /\ nodeOn = TRUE /\ sendQueue = <<>> /\ drainScheduled = FALSE /\ sendFault = FALSE
    /\ posted = <<>> /\ batch = <<>> /\ more = FALSE /\ drainPc = "loop"
    /\ sender = "idle" /\ toQueue = 1 /\ round = 0 /\ written = <<>> /\ reported = {}

-----------------------------------------------------------------------------
(* The worker.                                                             *)

QueueFull == Len(sendQueue) >= QueueLimit

\* A datagram that is refused ends the round: the sender reports an overrun.
RefuseDatagram ==
    /\ sender = "send" /\ toQueue <= RoundDatagrams
    /\ ~nodeOn \/ sendFault \/ QueueFull
    /\ sendFault' = (sendFault \/ QueueFull)
    /\ posted' = Append(posted, ResultMark(round, "Failed")) /\ sender' = "idle"
    /\ UNCHANGED <<nodeOn, sendQueue, drainScheduled, batch, more, drainPc, toQueue,
                   round, written, reported>>

\* The drain is posted after the lock has been released.
QueueDatagram ==
    /\ sender = "send" /\ toQueue <= RoundDatagrams /\ nodeOn /\ ~sendFault /\ ~QueueFull
    /\ sendQueue' = Append(sendQueue, [round |-> round, index |-> toQueue])
    /\ drainScheduled' = TRUE /\ toQueue' = toQueue + 1
    /\ sender' = IF drainScheduled THEN "send" ELSE "post"
    /\ UNCHANGED <<nodeOn, sendFault, posted, batch, more, drainPc, round, written, reported>>

PostDrain ==
    /\ sender = "post" /\ sender' = "send" /\ posted' = Append(posted, Drain)
    /\ UNCHANGED <<nodeOn, sendQueue, drainScheduled, sendFault, batch, more, drainPc,
                   toQueue, round, written, reported>>

CompleteRound ==
    /\ sender = "send" /\ toQueue > RoundDatagrams
    /\ posted' = Append(posted, ResultMark(round, "Completed")) /\ sender' = "idle"
    /\ UNCHANGED <<nodeOn, sendQueue, drainScheduled, sendFault, batch, more, drainPc,
                   toQueue, round, written, reported>>

-----------------------------------------------------------------------------
(* The Qt thread.                                                          *)

FirstIs(kind) == drainPc = "loop" /\ posted # <<>> /\ Head(posted).kind = kind

ScheduledAfter(left) == IF left = <<>> THEN FALSE ELSE drainScheduled

LeftAfter(n) == SubSeq(sendQueue, n + 1, Len(sendQueue))

\* A batch is taken under the lock and written without it.
TakeSendBatch ==
    /\ FirstIs("drain")
    /\ LET n == IF Len(sendQueue) < SendBatch THEN Len(sendQueue) ELSE SendBatch
           left == LeftAfter(n)
       IN  /\ batch' = SubSeq(sendQueue, 1, n) /\ sendQueue' = left
           /\ more' = (left # <<>>) /\ drainScheduled' = ScheduledAfter(left)
    /\ posted' = Tail(posted) /\ drainPc' = "write"
    /\ UNCHANGED <<nodeOn, sendFault, sender, toQueue, round, written, reported>>

WriteDatagram ==
    /\ drainPc = "write" /\ batch # <<>>
    /\ written' = Append(written, Head(batch)) /\ batch' = Tail(batch)
    /\ UNCHANGED <<nodeOn, sendQueue, drainScheduled, sendFault, posted, more, drainPc,
                   sender, toQueue, round, reported>>

\* The socket refuses: the rest of the batch and of the queue is given up.
WriteFails ==
    /\ drainPc = "write" /\ batch # <<>>
    /\ sendFault' = TRUE /\ sendQueue' = <<>> /\ drainScheduled' = FALSE
    /\ batch' = <<>> /\ drainPc' = "loop" /\ more' = FALSE
    /\ UNCHANGED <<nodeOn, posted, sender, toQueue, round, written, reported>>

PostedAfterBatch == IF more THEN Append(posted, Drain) ELSE posted

EndBatch ==
    /\ drainPc = "write" /\ batch = <<>>
    /\ posted' = PostedAfterBatch /\ more' = FALSE /\ drainPc' = "loop"
    /\ UNCHANGED <<nodeOn, sendQueue, drainScheduled, sendFault, batch, sender, toQueue,
                   round, written, reported>>

\* Mutant: nothing holds the result back.
NothingSendPending == FALSE

SendPending == drainScheduled \/ sendQueue # <<>>

ReportedOutcome(result) ==
    IF result.outcome = "Completed" /\ sendFault THEN "Overrun" ELSE result.outcome

Behind(result) == Append(Tail(posted), result)

\* A completed round waits behind its datagrams, posting itself again.
ProcessResult ==
    /\ FirstIs("result")
    /\ LET result == Head(posted)
       IN  IF result.outcome = "Completed" /\ SendPending
           THEN posted' = Behind(result) /\ UNCHANGED reported
           ELSE /\ posted' = Tail(posted)
                /\ reported' = reported \union
                     {[round |-> result.round, outcome |-> ReportedOutcome(result)]}
    /\ UNCHANGED <<nodeOn, sendQueue, drainScheduled, sendFault, batch, more, drainPc,
                   sender, toQueue, round, written>>

\* ROUND_START: an empty queue clears the fault of the last round.
StartSending ==
    /\ drainPc = "loop" /\ nodeOn /\ sender = "idle" /\ round < MaxRounds
    /\ sendFault' = (sendFault /\ sendQueue # <<>>)
    /\ round' = round + 1 /\ sender' = "send" /\ toQueue' = 1
    /\ UNCHANGED <<nodeOn, sendQueue, drainScheduled, posted, batch, more, drainPc,
                   written, reported>>

\* ROUND_STOP: the worker is joined; what it has queued is still sent.
StopSending ==
    /\ drainPc = "loop" /\ sender \in {"send", "post"}
    /\ posted' = (IF sender = "post" THEN Append(posted, Drain) ELSE posted)
                 \o <<ResultMark(round, "Failed")>>
    /\ sender' = "idle"
    /\ UNCHANGED <<nodeOn, sendQueue, drainScheduled, sendFault, batch, more, drainPc,
                   toQueue, round, written, reported>>

\* stop(), which the window's end calls: the flag is cleared before the queue.
NodeStops ==
    /\ drainPc = "loop" /\ nodeOn /\ nodeOn' = FALSE
    /\ sendQueue' = <<>> /\ drainScheduled' = FALSE /\ sendFault' = FALSE
    /\ posted' = IF sender = "post" THEN Append(posted, Drain) ELSE posted
    /\ sender' = "idle"
    /\ UNCHANGED <<batch, more, drainPc, toQueue, round, written, reported>>

Worker == RefuseDatagram \/ QueueDatagram \/ PostDrain \/ CompleteRound
QtThread == TakeSendBatch \/ WriteDatagram \/ WriteFails \/ EndBatch \/ ProcessResult

QueueNext == Worker \/ QtThread \/ StartSending \/ StopSending \/ NodeStops

\* A round is started once the result of the last one has been broadcast.
AllReported == \A i \in 1 .. Len(posted) : posted[i].kind # "result"
PatientQueueNext == QueueNext /\ (round' = round \/ AllReported)

QueueSpec == QueueInit /\ [][QueueNext]_queueVars
PatientQueueSpec == QueueInit /\ [][PatientQueueNext]_queueVars

QueueFairness == WF_queueVars(Worker) /\ WF_queueVars(QtThread)

-----------------------------------------------------------------------------
(* Properties.                                                             *)

Of(r) == {i \in 1 .. Len(written) : written[i].round = r}

\* The comment in processAuthenticationRuntimeEvent: a round is reported as
\* completed only once all its datagrams were written to the socket.
CompletedMeansWritten ==
    [][\A r \in 1 .. MaxRounds :
        (nodeOn /\ [round |-> r, outcome |-> "Completed"] \in reported' \ reported)
            => {written[i].index : i \in Of(r)} = 1 .. RoundDatagrams]_queueVars

\* Datagrams reach the socket in the order they were queued, each once, whatever
\* number of drains is posted.
WrittenInOrder ==
    \A i, j \in 1 .. Len(written) : i < j =>
        \/ written[i].round < written[j].round
        \/ written[i].round = written[j].round /\ written[i].index < written[j].index

\* Datagrams that wait always have a drain to come.
DrainToCome ==
    sendQueue # <<>> =>
        \/ \E i \in 1 .. Len(posted) : posted[i] = Drain
        \/ sender = "post" \/ (drainPc = "write" /\ more)

\* A result is broadcast in the end, however often it has to wait.
ResultReported ==
    \A r \in 1 .. MaxRounds :
        (\E i \in 1 .. Len(posted) : posted[i].round = r)
            ~> (\A i \in 1 .. Len(posted) : posted[i].round # r)

\* The safety of the queue in every state: types, a drain to come, order.
QueueSafe == QueueTypeOK /\ DrainToCome /\ WrittenInOrder

\* The queue between the worker and the socket: in order, drained, told the truth.
QueueServes ==
    /\ []QueueSafe
    /\ CompletedMeansWritten /\ ResultReported
=============================================================================
