------------------------- MODULE OperatorSideProofs -------------------------
(***************************************************************************)
(* Proofs about the operators' programs.  ExperimentExecution: the worker   *)
(* is at its tasks only in "Running", which is why nothing goes out after a *)
(* stop has returned; no packet is copied more often than the plan says,    *)
(* and the tasks that wait stay within the limit of their queue.            *)
(* PcSendQueue: datagrams reach the socket in the order they were queued,   *)
(* those that wait have a drain to come, and Completed means written.       *)
(* RoundPreparation: a round starts with all its nodes prepared, and a      *)
(* fault policy that was accepted is in force.  MonitorLink: a monitor      *)
(* misses no abnormal event but what a limit of the code has cost it.       *)
(***************************************************************************)
EXTENDS ExperimentExecution, PcSendQueue, RoundPreparation, MonitorLink, SequenceTheorems,
        DataInduction

\* What the variables of the task queue hold.
QueueTypes ==
    /\ tasks \in [Targets -> Nat] /\ copies \in [Targets -> Nat] /\ sending \in Targets

\* A plan that has not begun has no tasks and has captured nothing; a start that
\* waits for the last worker has its plan scheduled, and a worker keeps its plan.
NothingYet ==
    /\ xState \in {"PlanPending", "Ready", "Scheduled"} => tasks = None /\ captured = {}
    /\ xWorker = "wait" => xState = "Scheduled" /\ copies = None
    /\ xCall = "start" => xState = "Scheduled" /\ xWorker # "wait"
    /\ xWorker = "load" => xPlan = "load"

\* A packet that was not captured has neither waiting nor sent copies.
CapturedOnly ==
    xState = "Running" /\ xCall = "none" =>
        \A p \in Targets \ captured :
            /\ tasks[p] = 0 /\ copies[p] = 0
            /\ ~(xWorker = "send" /\ xPlan # "load" /\ sending = p)

\* The copy the worker has in hand counts as well.
InHandBounded ==
    xWorker = "send" /\ xPlan # "load" =>
        copies[sending] + tasks[sending] + 1 <= RepeatCount

CopiesInv ==
    /\ QueueTypes /\ OneExecution /\ NothingYet /\ CapturedOnly /\ InHandBounded
    /\ CopiesBounded

-----------------------------------------------------------------------------
(* One worker.                                                              *)

LEMMA OneExecutionStep ==
    OneExecution /\ [ExecutionNext]_executionVars => OneExecution'
<1> SUFFICES ASSUME OneExecution, [ExecutionNext]_executionVars PROVE OneExecution'  OBVIOUS
<1> USE DEF OneExecution
<1>1. CASE PreparePlan  BY <1>1 DEF PreparePlan, MayPrepare
<1>2. CASE AcceptPlan \/ ScheduleStart \/ RequestStop
  BY <1>2 DEF AcceptPlan, ScheduleStart, RequestStop
<1>3. CASE StartWorker \/ StopEnds  BY <1>3 DEF StartWorker, StopEnds, WorkerEnded
<1>4. ASSUME NEW p \in Targets, Capture(p) PROVE OneExecution'  BY <1>4 DEF Capture
<1>5. CASE WorkerStarts \/ Complete  BY <1>5 DEF WorkerStarts, Complete
<1>6. CASE NextTask \/ NextLoad \/ Send  BY <1>6 DEF NextTask, NextLoad, Send
<1>7. CASE UNCHANGED executionVars  BY <1>7 DEF executionVars
<1> QED  BY <1>1, <1>2, <1>3, <1>4, <1>5, <1>6, <1>7 DEF ExecutionNext, GuiWaits, ExecutionWorker

\* The worker is at its tasks only in "Running": a new plan is prepared and the
\* next start made only when the last worker has left (workerLoop, stopWorker).
THEOREM OneExecutionHolds == ExecutionSpec => []OneExecution
<1>1. ExecutionInit => OneExecution  BY DEF ExecutionInit, OneExecution
<1> QED  BY <1>1, OneExecutionStep, PTL DEF ExecutionSpec

\* Nothing goes out between the return of a stop and the next start.
THEOREM QuietAfterStopHolds == ExecutionSpec => QuietAfterStop
<1> DEFINE Quiet ==
        <<copies, load>>' # <<copies, load>> /\ xCall = "none" => xState = "Running"
<1>1. OneExecution /\ [ExecutionNext]_executionVars => [Quiet]_executionVars
 <2> SUFFICES ASSUME OneExecution, ExecutionNext PROVE Quiet  OBVIOUS
 <2>1. CASE Send  BY <2>1 DEF Send, OneExecution
 <2>2. CASE StartWorker  BY <2>2 DEF StartWorker
 <2>3. CASE PreparePlan \/ AcceptPlan \/ ScheduleStart \/ RequestStop \/ StopEnds
   BY <2>3 DEF PreparePlan, AcceptPlan, ScheduleStart, RequestStop, StopEnds
 <2>4. ASSUME NEW p \in Targets, Capture(p) PROVE Quiet  BY <2>4 DEF Capture
 <2>5. CASE WorkerStarts \/ NextTask \/ NextLoad \/ Complete
   BY <2>5 DEF WorkerStarts, NextTask, NextLoad, Complete
 <2> QED  BY <2>1, <2>2, <2>3, <2>4, <2>5 DEF ExecutionNext, GuiWaits, ExecutionWorker
<1> QED  BY <1>1, OneExecutionHolds, PTL DEF ExecutionSpec, QuietAfterStop

-----------------------------------------------------------------------------
(* The copies.                                                              *)

LEMMA GuiKeepsCopies ==
    ASSUME CopiesInv, PreparePlan \/ AcceptPlan \/ ScheduleStart \/ RequestStop \/ StopEnds
    PROVE  CopiesInv'
<1> USE ExecutionParameters DEF CopiesInv, QueueTypes, None
<1>1. CASE PreparePlan
  BY <1>1 DEF PreparePlan, MayPrepare, OneExecution, NothingYet, CapturedOnly,
     InHandBounded, CopiesBounded
<1>2. CASE AcceptPlan
  BY <1>2 DEF AcceptPlan, OneExecution, NothingYet, CapturedOnly, InHandBounded,
     CopiesBounded
<1>3. CASE ScheduleStart
  BY <1>3 DEF ScheduleStart, OneExecution, NothingYet, CapturedOnly, InHandBounded,
     CopiesBounded
<1>4. CASE RequestStop
  BY <1>4 DEF RequestStop, OneExecution, NothingYet, CapturedOnly, InHandBounded,
     CopiesBounded
<1>5. CASE StopEnds
  BY <1>5 DEF StopEnds, NoContext, WorkerEnded, OneExecution, NothingYet, CapturedOnly,
     InHandBounded, CopiesBounded
<1> QED  BY <1>1, <1>2, <1>3, <1>4, <1>5

LEMMA CaptureKeepsCopies ==
    ASSUME CopiesInv, NEW p \in Targets, Capture(p)
    PROVE  CopiesInv'
<1> USE ExecutionParameters DEF CopiesInv, QueueTypes, None
<1>1. tasks' \in [Targets -> Nat] /\ UNCHANGED <<copies, sending>>  BY DEF Capture
<1>2. tasks[p] = 0 /\ copies[p] = 0 /\ ~(xWorker = "send" /\ xPlan # "load" /\ sending = p)
  BY DEF Capture, Fresh, Gui, CapturedOnly
<1>3. \A q \in Targets : q # p => tasks'[q] = tasks[q]  BY DEF Capture
<1>4. tasks'[p] <= RepeatCount  BY <1>2 DEF Capture
<1>5. CopiesBounded'  BY <1>1, <1>2, <1>3, <1>4 DEF CopiesBounded
<1>6. CapturedOnly'  BY <1>1, <1>3 DEF Capture, Gui, CapturedOnly
<1>7. InHandBounded'  BY <1>1, <1>2, <1>3 DEF Capture, InHandBounded
<1>8. OneExecution' /\ NothingYet'  BY DEF Capture, OneExecution, NothingYet
<1> QED  BY <1>1, <1>5, <1>6, <1>7, <1>8

LEMMA WorkerKeepsCopies ==
    ASSUME CopiesInv, StartWorker \/ ExecutionWorker
    PROVE  CopiesInv'
<1> USE ExecutionParameters DEF CopiesInv, QueueTypes, None
<1>1. CASE StartWorker
  BY <1>1 DEF StartWorker, NothingYet, WorkerEnded, OneExecution, CapturedOnly, InHandBounded,
     CopiesBounded
<1>2. CASE WorkerStarts
  BY <1>2 DEF WorkerStarts, OneExecution, NothingYet, CapturedOnly, InHandBounded,
     CopiesBounded
<1>3. CASE NextTask
 <2>1. xState = "Running" /\ UNCHANGED <<xState, xPlan, captured, copies>>
   BY <1>3 DEF NextTask, OneExecution
 <2>2. CASE Woken /\ xWorker' = "done" /\ UNCHANGED <<tasks, sending>>
   BY <1>3, <2>1, <2>2 DEF NextTask, OneExecution, NothingYet, CapturedOnly,
      InHandBounded, CopiesBounded
 <2>3. CASE xWorker' = "send" /\ \E p \in Targets :
                tasks[p] > 0 /\ sending' = p /\ tasks' = [tasks EXCEPT ![p] = @ - 1]
  <3>1. PICK p \in Targets :
            tasks[p] > 0 /\ sending' = p /\ tasks' = [tasks EXCEPT ![p] = @ - 1]
    BY <2>3
  <3>2. QueueTypes' /\ CopiesBounded' /\ InHandBounded'
    BY <2>1, <3>1 DEF CopiesBounded, InHandBounded
  <3>3. CapturedOnly'  BY <1>3, <2>1, <3>1 DEF NextTask, CapturedOnly
  <3> QED  BY <1>3, <2>1, <2>3, <3>2, <3>3 DEF NextTask, OneExecution, NothingYet
 <2> QED  BY <1>3, <2>2, <2>3 DEF NextTask
<1>4. CASE NextLoad
  BY <1>4 DEF NextLoad, OneExecution, NothingYet, CapturedOnly, InHandBounded,
     CopiesBounded
<1>5. CASE Send
 <2> USE <1>5 DEF Send
 <2>1. CopiesBounded' /\ QueueTypes'  BY DEF InHandBounded, CopiesBounded
 <2>2. CapturedOnly'  BY DEF CapturedOnly
 <2> QED  BY <2>1, <2>2 DEF OneExecution, NothingYet, InHandBounded
<1>6. CASE Complete
  BY <1>6 DEF Complete, OneExecution, NothingYet, CapturedOnly, InHandBounded,
     CopiesBounded
<1> QED  BY <1>1, <1>2, <1>3, <1>4, <1>5, <1>6 DEF ExecutionWorker

LEMMA CopiesInit == ExecutionInit => CopiesInv
  BY ExecutionParameters DEF ExecutionInit, CopiesInv, QueueTypes, None, OneExecution,
     NothingYet, CapturedOnly, InHandBounded, CopiesBounded

LEMMA CopiesStep == CopiesInv /\ [ExecutionNext]_executionVars => CopiesInv'
<1> SUFFICES ASSUME CopiesInv, [ExecutionNext]_executionVars PROVE CopiesInv'  OBVIOUS
<1>1. CASE UNCHANGED executionVars
  BY <1>1 DEF executionVars, CopiesInv, QueueTypes, OneExecution, NothingYet,
     CapturedOnly, InHandBounded, CopiesBounded
<1> QED
  BY <1>1, GuiKeepsCopies, CaptureKeepsCopies, WorkerKeepsCopies
  DEF ExecutionNext, GuiWaits

\* No execution sends a captured packet more often than its plan says, whatever was
\* stopped, discarded or started before (bPreparePlan, processCapturedDatagram).
THEOREM CopiesBoundedHolds == ExecutionSpec => []CopiesBounded
<1>1. CopiesInv => CopiesBounded  BY DEF CopiesInv
<1> QED  BY <1>1, CopiesInit, CopiesStep, PTL DEF ExecutionSpec

-----------------------------------------------------------------------------
(* The task queue.                                                          *)

LEMMA WaitingIsSum == Waiting = SumOver(tasks, Targets)
  BY DEF Waiting, SumOver

LEMMA WaitingIsSumNext == Waiting' = SumOver(tasks', Targets)
<1>1. (Waiting = SumOver(tasks, Targets))'  BY WaitingIsSum, PTL
<1> QED  BY <1>1

\* MAX_PENDING_SEND_TASKS: processCapturedDatagram queues a packet's copies only when
\* there is room for all of them.
LEMMA WaitingStep ==
    ASSUME CopiesInv, ExecutionTypeOK, [ExecutionNext]_executionVars
    PROVE  /\ \A p \in Targets : tasks'[p] \in 0 .. TaskLimit
           /\ Waiting' <= TaskLimit
<1> USE ExecutionParameters DEF CopiesInv, QueueTypes
<1> DEFINE Sum == SumOver(tasks, Targets)
           SumNext == SumOver(tasks', Targets)
<1>0. tasks \in [Targets -> Int]  OBVIOUS
<1>1. Sum \in Nat /\ Sum <= TaskLimit /\ \A p \in Targets : tasks[p] \in 0 .. TaskLimit
  BY SumOverType, WaitingIsSum DEF ExecutionTypeOK
<1> HIDE DEF Sum, SumNext
<1> SUFFICES (\A p \in Targets : tasks'[p] \in 0 .. TaskLimit) /\ SumNext <= TaskLimit
  BY WaitingIsSumNext DEF SumNext
<1>2. CASE tasks' = tasks  BY <1>1, <1>2 DEF Sum, SumNext
<1>3. CASE tasks' = None  BY <1>3, SumOverZero DEF SumNext, None
<1>4. ASSUME NEW p \in Targets, Capture(p), tasks' # tasks
      PROVE  (\A q \in Targets : tasks'[q] \in 0 .. TaskLimit) /\ SumNext <= TaskLimit
 <2>1. tasks[p] = 0  BY <1>4 DEF Capture, Fresh, Gui, CapturedOnly
 <2>2. Sum + RepeatCount <= TaskLimit /\ tasks' = [tasks EXCEPT ![p] = RepeatCount]
   BY <1>4, <2>1, WaitingIsSum DEF Capture, RoomForAll, Sum
 <2>3. tasks' \in [Targets -> Int] /\ tasks'[p] = RepeatCount
       /\ \A q \in Targets \ {p} : tasks'[q] = tasks[q]
   BY <1>0, <2>2
 <2>4. SumNext = Sum + tasks'[p] - tasks[p]  BY <1>0, <2>3, SumOverUpdate DEF Sum, SumNext
 <2> QED  BY <1>1, <2>1, <2>2, <2>3, <2>4
<1>5. ASSUME NEW p \in Targets, tasks[p] > 0, tasks' = [tasks EXCEPT ![p] = @ - 1]
      PROVE  (\A q \in Targets : tasks'[q] \in 0 .. TaskLimit) /\ SumNext <= TaskLimit
 <2>1. tasks' \in [Targets -> Int] /\ tasks'[p] = tasks[p] - 1
       /\ \A q \in Targets \ {p} : tasks'[q] = tasks[q]
   BY <1>0, <1>5
 <2>2. SumNext = Sum + tasks'[p] - tasks[p]  BY <1>0, <2>1, SumOverUpdate DEF Sum, SumNext
 <2> QED  BY <1>1, <1>5, <2>1, <2>2
<1>6. \/ tasks' = tasks \/ tasks' = None
      \/ \E p \in Targets : Capture(p)
      \/ \E p \in Targets : tasks[p] > 0 /\ tasks' = [tasks EXCEPT ![p] = @ - 1]
  BY DEF ExecutionNext, executionVars, PreparePlan, AcceptPlan, ScheduleStart, RequestStop,
     GuiWaits, StartWorker, StopEnds, ExecutionWorker, WorkerStarts, NextTask, NextLoad,
     Send, Complete
<1> QED  BY <1>2, <1>3, <1>4, <1>5, <1>6

\* The states and the places of the two threads.
LEMMA PlacesStep ==
    ASSUME CopiesInv, ExecutionTypeOK, [ExecutionNext]_executionVars
    PROVE  /\ xState' \in {"Idle", "ContextReady", "PlanPending", "Ready", "Scheduled",
                            "Running", "Completed", "Stopped"}
           /\ xPlan' \in {"none", "copies", "load"}
           /\ xState' \in {"PlanPending", "Ready", "Scheduled"} => xPlan' # "none"
           /\ captured' \subseteq Targets /\ xStop' \in BOOLEAN
           /\ xWorker' \in {"none", "wait", "next", "send", "load", "complete", "done"}
           /\ xCall' \in {"none", "context", "discard", "stop", "start"}
<1> DEFINE Places ==
           /\ xState \in {"Idle", "ContextReady", "PlanPending", "Ready", "Scheduled",
                           "Running", "Completed", "Stopped"}
           /\ xPlan \in {"none", "copies", "load"}
           /\ xState \in {"PlanPending", "Ready", "Scheduled"} => xPlan # "none"
           /\ captured \subseteq Targets /\ xStop \in BOOLEAN
           /\ xWorker \in {"none", "wait", "next", "send", "load", "complete", "done"}
           /\ xCall \in {"none", "context", "discard", "stop", "start"}
<1> SUFFICES Places'  OBVIOUS
<1>0. Places  BY DEF ExecutionTypeOK
<1>1. CASE PreparePlan  BY <1>0, <1>1 DEF PreparePlan
<1>2. CASE AcceptPlan \/ ScheduleStart \/ RequestStop
  BY <1>0, <1>2 DEF AcceptPlan, ScheduleStart, RequestStop
<1>3. CASE StartWorker  BY <1>0, <1>3 DEF StartWorker
<1>4. CASE StopEnds  BY <1>0, <1>4 DEF StopEnds, NoContext
<1>5. ASSUME NEW p \in Targets, Capture(p) PROVE Places'  BY <1>0, <1>5 DEF Capture
<1>6. CASE WorkerStarts \/ Complete  BY <1>0, <1>6 DEF WorkerStarts, Complete
<1>7. CASE NextTask \/ NextLoad \/ Send  BY <1>0, <1>7 DEF NextTask, NextLoad, Send
<1>8. CASE UNCHANGED executionVars  BY <1>0, <1>8 DEF executionVars
<1> QED
  BY <1>1, <1>2, <1>3, <1>4, <1>5, <1>6, <1>7, <1>8
  DEF ExecutionNext, GuiWaits, ExecutionWorker

\* Whatever is captured and stopped: the copies of an attack are the ones the plan
\* asks for, and the tasks that wait are no more than their queue may hold.
THEOREM ExecutionSafeHolds == ExecutionSpec => []ExecutionSafe
<1> DEFINE Inv == CopiesInv /\ ExecutionTypeOK
<1>1. ExecutionInit => Inv
 <2> SUFFICES ASSUME ExecutionInit PROVE ExecutionTypeOK  BY CopiesInit
 <2>1. Waiting = 0  BY WaitingIsSum, SumOverZero, ExecutionParameters DEF ExecutionInit, None
 <2>2. \A p \in Targets : tasks[p] \in 0 .. TaskLimit
   BY ExecutionParameters DEF ExecutionInit, None
 <2>3. Waiting <= TaskLimit  BY <2>1, ExecutionParameters
 <2> QED  BY <2>2, <2>3 DEF ExecutionInit, ExecutionTypeOK
<1>2. Inv /\ [ExecutionNext]_executionVars => Inv'
  BY CopiesStep, WaitingStep, PlacesStep DEF ExecutionTypeOK
<1>3. Inv => ExecutionSafe  BY DEF ExecutionSafe, CopiesInv
<1> QED  BY <1>1, <1>2, <1>3, PTL DEF ExecutionSpec

-----------------------------------------------------------------------------
(* PcSendQueue: the queue of the PC node.                                   *)

Before(d, e) == d.round < e.round \/ (d.round = e.round /\ d.index < e.index)
Ordered(s) == \A i, j \in 1 .. Len(s) : i < j => Before(s[i], s[j])
Ahead(s, t) == \A i \in 1 .. Len(s), j \in 1 .. Len(t) : Before(s[i], t[j])
Upcoming == [round |-> round, index |-> toQueue]
Below(s, d) == \A i \in 1 .. Len(s) : Before(s[i], d)

\* What is written, the batch in hand and the queue are one ordered line, and the
\* worker's next datagram belongs behind it.
OneLine ==
    /\ Ordered(written) /\ Ordered(batch) /\ Ordered(sendQueue)
    /\ Ahead(written, batch) /\ Ahead(written, sendQueue) /\ Ahead(batch, sendQueue)
    /\ Below(written, Upcoming) /\ Below(batch, Upcoming) /\ Below(sendQueue, Upcoming)

\* A drain is scheduled while datagrams wait, and one that is scheduled is posted,
\* about to be posted by the worker, or posted again after the batch.
DrainKept ==
    /\ sendQueue # <<>> => drainScheduled
    /\ drainScheduled =>
          \/ \E i \in 1 .. Len(posted) : posted[i] = Drain
          \/ sender = "post" \/ (drainPc = "write" /\ more)

\* The worker runs in a round, and the Qt thread has a batch only while it writes.
ThreadsPlaced ==
    /\ sender # "idle" => round >= 1
    /\ drainPc = "loop" => batch = <<>>

QueueInv == QueueTypeOK /\ ThreadsPlaced /\ DrainKept /\ OneLine

\* t is s from place k + 1 on, or a part of that.
PartOf(t, s, k) ==
    /\ Len(t) \in Nat /\ Len(s) \in Nat /\ k \in Nat /\ Len(t) + k <= Len(s)
    /\ \A i \in 1 .. Len(t) : t[i] = s[i + k]

LEMMA PartsKeepPlaces ==
    ASSUME NEW s, NEW t, NEW k, PartOf(t, s, k), NEW u, NEW d
    PROVE  /\ Ordered(s) => Ordered(t)
           /\ Ahead(s, u) => Ahead(t, u)
           /\ Ahead(u, s) => Ahead(u, t)
           /\ Below(s, d) => Below(t, d)
<1>1. \A i \in 1 .. Len(t) : i + k \in 1 .. Len(s) /\ t[i] = s[i + k]  BY DEF PartOf
<1>2. \A i, j \in 1 .. Len(t) : i < j => i + k < j + k  BY DEF PartOf
<1>3. ASSUME Ordered(s), NEW i \in 1 .. Len(t), NEW j \in 1 .. Len(t), i < j
      PROVE  Before(t[i], t[j])
  BY <1>1, <1>2, <1>3, Zenon DEF Ordered
<1> QED  BY <1>1, <1>3, Zenon DEF Ordered, Ahead, Below

LEMMA SplitKeepsPlaces ==
    ASSUME NEW s, NEW t, NEW u, NEW k, Ordered(s), PartOf(t, s, 0), PartOf(u, s, k),
           Len(t) <= k
    PROVE  Ahead(t, u)
<1>1. ASSUME NEW i \in 1 .. Len(t), NEW j \in 1 .. Len(u)
      PROVE  /\ i \in 1 .. Len(s) /\ j + k \in 1 .. Len(s) /\ i < j + k
             /\ t[i] = s[i] /\ u[j] = s[j + k]
  BY DEF PartOf
<1> QED  BY <1>1, Zenon DEF Ordered, Ahead

\* t is s with e behind it.
Grown(t, s, e) ==
    /\ Len(s) \in Nat /\ Len(t) = Len(s) + 1 /\ t[Len(t)] = e
    /\ \A i \in 1 .. Len(s) : t[i] = s[i]

LEMMA GrowthKeepsPlaces ==
    ASSUME NEW s, NEW t, NEW e, Grown(t, s, e), NEW u, NEW d
    PROVE  /\ Ordered(s) /\ Below(s, e) => Ordered(t)
           /\ Ahead(s, u) /\ (\A j \in 1 .. Len(u) : Before(e, u[j])) => Ahead(t, u)
           /\ Ahead(u, s) /\ Below(u, e) => Ahead(u, t)
           /\ Below(s, d) /\ Before(e, d) => Below(t, d)
<1>1. \A i \in 1 .. Len(t) : (i \in 1 .. Len(s) /\ t[i] = s[i]) \/ t[i] = e  BY DEF Grown
<1>2. \A i, j \in 1 .. Len(t) : i < j => i \in 1 .. Len(s) /\ t[i] = s[i]  BY DEF Grown
<1>3. ASSUME Ordered(s), Below(s, e), NEW i \in 1 .. Len(t), NEW j \in 1 .. Len(t), i < j
      PROVE  Before(t[i], t[j])
  BY <1>1, <1>2, <1>3, Zenon DEF Ordered, Below
<1>4. Ahead(s, u) /\ (\A j \in 1 .. Len(u) : Before(e, u[j])) => Ahead(t, u)
  BY <1>1, Zenon DEF Ahead
<1>5. Ahead(u, s) /\ Below(u, e) => Ahead(u, t)  BY <1>1, Zenon DEF Ahead, Below
<1>6. Below(s, d) /\ Before(e, d) => Below(t, d)  BY <1>1, Zenon DEF Below
<1> QED  BY <1>3, <1>4, <1>5, <1>6, Zenon DEF Ordered

LEMMA QueueInitial == QueueInit => QueueInv
<1> SUFFICES ASSUME QueueInit PROVE QueueInv  OBVIOUS
<1>1. QueueTypeOK
 <2>1. /\ sendQueue \in Seq(Datagrams) /\ Len(sendQueue) <= QueueLimit
       /\ batch \in Seq(Datagrams) /\ Len(batch) <= SendBatch
       /\ posted \in Seq(PostedEvents) /\ written \in Seq(Datagrams)
   BY QueueParameters DEF QueueInit
 <2>2. toQueue \in 1 .. RoundDatagrams + 1 /\ round \in 0 .. MaxRounds
   BY QueueParameters DEF QueueInit
 <2> QED  BY <2>1, <2>2, Zenon DEF QueueInit, QueueTypeOK
<1>2. ThreadsPlaced /\ DrainKept  BY DEF QueueInit, ThreadsPlaced, DrainKept
<1>3. OneLine  BY DEF QueueInit, OneLine, Ordered, Ahead, Below
<1> QED  BY <1>1, <1>2, <1>3 DEF QueueInv

LEMMA EventTypes ==
    /\ Drain \in PostedEvents
    /\ \A r \in 1 .. MaxRounds : /\ ResultMark(r, "Completed") \in PostedEvents
                                /\ ResultMark(r, "Failed") \in PostedEvents
  BY DEF ResultMark, PostedEvents, Drain, Outcomes

\* A batch is the front of the queue, and what is left the rest of it.
LEMMA BatchTaken ==
    ASSUME QueueTypeOK, TakeSendBatch
    PROVE  \E n \in 0 .. Len(sendQueue) :
              /\ n <= SendBatch /\ (Len(sendQueue) # 0 => n # 0)
              /\ batch' \in Seq(Datagrams) /\ Len(batch') = n
              /\ \A i \in 1 .. n : batch'[i] = sendQueue[i]
              /\ sendQueue' \in Seq(Datagrams) /\ Len(sendQueue') = Len(sendQueue) - n
              /\ \A i \in 1 .. Len(sendQueue) - n : sendQueue'[i] = sendQueue[n + i]
              /\ more' = (sendQueue' # <<>>) /\ drainScheduled' = ScheduledAfter(sendQueue')
<1> DEFINE n == IF Len(sendQueue) < SendBatch THEN Len(sendQueue) ELSE SendBatch
<1>1. /\ sendQueue \in Seq(Datagrams) /\ Len(sendQueue) \in Nat
      /\ \A i \in 1 .. Len(sendQueue) : sendQueue[i] \in Datagrams
  BY DEF QueueTypeOK
<1>2. n \in 0 .. Len(sendQueue) /\ n <= SendBatch /\ (Len(sendQueue) # 0 => n # 0)
  BY <1>1, QueueParameters
<1>3. /\ batch' = SubSeq(sendQueue, 1, n)
      /\ sendQueue' = SubSeq(sendQueue, n + 1, Len(sendQueue))
      /\ more' = (sendQueue' # <<>>) /\ drainScheduled' = ScheduledAfter(sendQueue')
  BY DEF TakeSendBatch, LeftAfter
<1> HIDE DEF n
<1>4. /\ batch' \in Seq(Datagrams) /\ Len(batch') = n
      /\ \A i \in 1 .. n : batch'[i] = sendQueue[i]
  BY <1>1, <1>2, <1>3, SubSeqProperties
<1>5. /\ sendQueue' \in Seq(Datagrams) /\ Len(sendQueue') = Len(sendQueue) - n
      /\ \A i \in 1 .. Len(sendQueue) - n : sendQueue'[i] = sendQueue[n + i]
  BY <1>1, <1>2, <1>3, SubSeqProperties
<1> QED  BY <1>2, <1>3, <1>4, <1>5

\* What the Qt thread's event loop does with the events that are posted.
LEMMA PostedTaken ==
    ASSUME posted \in Seq(PostedEvents), posted # <<>>
    PROVE  /\ Head(posted) = posted[1] /\ posted[1] \in PostedEvents
           /\ Tail(posted) \in Seq(PostedEvents) /\ Len(Tail(posted)) = Len(posted) - 1
           /\ \A i \in 2 .. Len(posted) : i - 1 \in 1 .. Len(Tail(posted))
                                        /\ Tail(posted)[i - 1] = posted[i]
  OBVIOUS

LEMMA QueueFlagsStep ==
    ASSUME QueueTypeOK, [QueueNext]_queueVars
    PROVE  /\ nodeOn' \in BOOLEAN /\ drainScheduled' \in BOOLEAN /\ sendFault' \in BOOLEAN
           /\ more' \in BOOLEAN
<1> DEFINE Flags == /\ nodeOn \in BOOLEAN /\ drainScheduled \in BOOLEAN
                    /\ sendFault \in BOOLEAN /\ more \in BOOLEAN
<1> SUFFICES Flags'  BY Zenon
<1>0. Flags  BY DEF QueueTypeOK
<1>1. CASE RefuseDatagram  BY <1>0, <1>1, Zenon DEF RefuseDatagram
<1>2. CASE QueueDatagram \/ PostDrain \/ CompleteRound
  BY <1>0, <1>2, Zenon DEF QueueDatagram, PostDrain, CompleteRound
<1>3. CASE TakeSendBatch  BY <1>0, <1>3, BatchTaken DEF ScheduledAfter, TakeSendBatch
<1>4. CASE WriteDatagram \/ WriteFails \/ EndBatch
  BY <1>0, <1>4, Zenon DEF WriteDatagram, WriteFails, EndBatch
<1>5. CASE ProcessResult \/ StopSending  BY <1>0, <1>5, Zenon DEF ProcessResult, StopSending
<1>6. CASE StartSending \/ NodeStops  BY <1>0, <1>6, Zenon DEF StartSending, NodeStops
<1>7. CASE UNCHANGED queueVars  BY <1>0, <1>7, Zenon DEF queueVars
<1> QED  BY <1>1, <1>2, <1>3, <1>4, <1>5, <1>6, <1>7 DEF QueueNext, Worker, QtThread

LEMMA QueueTypeStep ==
    ASSUME QueueTypeOK, ThreadsPlaced, [QueueNext]_queueVars
    PROVE  QueueTypeOK' /\ ThreadsPlaced'
<1> DEFINE Lines ==
        /\ sendQueue \in Seq(Datagrams) /\ Len(sendQueue) <= QueueLimit
        /\ posted \in Seq(PostedEvents)
        /\ batch \in Seq(Datagrams) /\ Len(batch) <= SendBatch
        /\ drainPc \in {"loop", "write"}
        /\ sender \in {"idle", "send", "post", "end"} /\ toQueue \in 1 .. RoundDatagrams + 1
        /\ round \in 0 .. MaxRounds /\ written \in Seq(Datagrams)
        /\ reported \subseteq [round : 1 .. MaxRounds, outcome : Outcomes]
        /\ ThreadsPlaced
<1> USE QueueParameters, EventTypes DEF ThreadsPlaced
<1> SUFFICES Lines'  BY QueueFlagsStep DEF QueueTypeOK
<1>0. Lines  BY DEF QueueTypeOK
<1>1. CASE RefuseDatagram  BY <1>0, <1>1 DEF RefuseDatagram
<1>2. CASE QueueDatagram  BY <1>0, <1>2 DEF QueueDatagram, QueueFull, Datagrams
<1>3. CASE PostDrain  BY <1>0, <1>3 DEF PostDrain
<1>4. CASE CompleteRound  BY <1>0, <1>4 DEF CompleteRound
<1>5. CASE TakeSendBatch
 <2>1. PICK n \in 0 .. Len(sendQueue) :
             /\ n <= SendBatch /\ (Len(sendQueue) # 0 => n # 0)
             /\ batch' \in Seq(Datagrams) /\ Len(batch') = n
             /\ sendQueue' \in Seq(Datagrams) /\ Len(sendQueue') = Len(sendQueue) - n
   BY <1>5, BatchTaken
 <2>2. posted' \in Seq(PostedEvents)  BY <1>0, <1>5, PostedTaken DEF TakeSendBatch, FirstIs
 <2>3. drainPc' = "write" /\ UNCHANGED <<sender, toQueue, round, written, reported>>
   BY <1>5 DEF TakeSendBatch
 <2> QED  BY <1>0, <2>1, <2>2, <2>3
<1>6. CASE WriteDatagram  BY <1>0, <1>6 DEF WriteDatagram
<1>7. CASE WriteFails  BY <1>0, <1>7 DEF WriteFails
<1>8. CASE EndBatch  BY <1>0, <1>8 DEF EndBatch, PostedAfterBatch
<1>9. CASE ProcessResult
 <2>1. /\ UNCHANGED <<sendQueue, batch, drainPc, sender, toQueue, round, written>>
       /\ posted # <<>> /\ Head(posted).kind = "result"
   BY <1>9 DEF ProcessResult, FirstIs
 <2>2. Head(posted) \in PostedEvents /\ Tail(posted) \in Seq(PostedEvents)
   BY <1>0, <2>1, PostedTaken
 <2>3. Head(posted).round \in 1 .. MaxRounds /\ Head(posted).outcome \in Outcomes
   BY <2>1, <2>2 DEF PostedEvents
 <2>4. ReportedOutcome(Head(posted)) \in Outcomes  BY <2>3 DEF ReportedOutcome, Outcomes
 <2>5. \/ posted' = Append(Tail(posted), Head(posted)) /\ reported' = reported
       \/ /\ posted' = Tail(posted)
          /\ reported' = reported \union {[round |-> Head(posted).round,
                                           outcome |-> ReportedOutcome(Head(posted))]}
   BY <1>9, Zenon DEF ProcessResult, Behind
 <2>6. posted' \in Seq(PostedEvents)  BY <2>2, <2>5
 <2>7. reported' \subseteq [round : 1 .. MaxRounds, outcome : Outcomes]  BY <1>0, <2>3, <2>4, <2>5
 <2> QED  BY <1>0, <2>1, <2>6, <2>7
<1>10. CASE StartSending  BY <1>0, <1>10 DEF StartSending
<1>11. CASE StopSending  BY <1>0, <1>11 DEF StopSending
<1>12. CASE NodeStops  BY <1>0, <1>12 DEF NodeStops
<1>13. CASE UNCHANGED queueVars  BY <1>0, <1>13 DEF queueVars
<1> QED
  BY <1>1, <1>2, <1>3, <1>4, <1>5, <1>6, <1>7, <1>8, <1>9, <1>10, <1>11, <1>12, <1>13
  DEF QueueNext, Worker, QtThread

LEMMA DrainStep ==
    ASSUME QueueInv, [QueueNext]_queueVars
    PROVE  DrainKept'
<1> DEFINE DrainPosted == \E i \in 1 .. Len(posted) : posted[i] = Drain
<1>0. /\ posted \in Seq(PostedEvents) /\ sendQueue \in Seq(Datagrams)
      /\ drainPc = "loop" => batch = <<>>
  BY DEF QueueInv, QueueTypeOK, ThreadsPlaced
<1>a. \A e \in PostedEvents, s \in Seq(PostedEvents) :
        \A i \in 1 .. Len(s) : Append(s, e)[i] = s[i] /\ i \in 1 .. Len(Append(s, e))
  OBVIOUS
<1>l. \A e \in PostedEvents, s \in Seq(PostedEvents) :
        Append(s, e)[Len(s) + 1] = e /\ Len(s) + 1 \in 1 .. Len(Append(s, e))
  OBVIOUS
<1> USE EventTypes DEF DrainKept
<1>k. DrainKept  BY DEF QueueInv
<1>1. CASE RefuseDatagram \/ CompleteRound
 <2>1. \E e \in PostedEvents : posted' = Append(posted, e)
   BY <1>1 DEF RefuseDatagram, CompleteRound, QueueInv, QueueTypeOK, ThreadsPlaced
 <2>2. DrainPosted => DrainPosted'  BY <1>0, <1>a, <2>1
 <2> QED  BY <1>1, <1>k, <2>2 DEF RefuseDatagram, CompleteRound
<1>2. CASE QueueDatagram  BY <1>2, <1>k DEF QueueDatagram
<1>3. CASE PostDrain  BY <1>0, <1>3, <1>l, <1>k DEF PostDrain
<1>5. CASE TakeSendBatch
 <2>1. /\ drainPc' = "write" /\ more' = (sendQueue' # <<>>)
       /\ drainScheduled' = ScheduledAfter(sendQueue')
       /\ sendQueue' # <<>> => sendQueue # <<>>
   BY <1>0, <1>5, BatchTaken DEF TakeSendBatch, QueueInv
 <2> QED  BY <1>k, <2>1 DEF ScheduledAfter
<1>6. CASE WriteDatagram  BY <1>6, <1>k DEF WriteDatagram
<1>7. CASE WriteFails  BY <1>7 DEF WriteFails
<1>8. CASE EndBatch  BY <1>0, <1>8, <1>a, <1>l, <1>k DEF EndBatch, PostedAfterBatch
<1>9. CASE ProcessResult
 <2>1. /\ posted # <<>> /\ Head(posted).kind = "result"
       /\ posted' \in {Append(Tail(posted), Head(posted)), Tail(posted)}
       /\ UNCHANGED <<sendQueue, drainScheduled, more, drainPc, sender>>
   BY <1>9 DEF ProcessResult, FirstIs, Behind
 <2>2. /\ Tail(posted) \in Seq(PostedEvents) /\ Head(posted) \in PostedEvents
       /\ \A i \in 2 .. Len(posted) : i - 1 \in 1 .. Len(Tail(posted))
                                    /\ Tail(posted)[i - 1] = posted[i]
       /\ posted[1] # Drain
   BY <1>0, <2>1, PostedTaken DEF Drain
 <2>3. DrainPosted => \E i \in 1 .. Len(Tail(posted)) : Tail(posted)[i] = Drain
  <3> SUFFICES ASSUME DrainPosted
               PROVE  \E i \in 1 .. Len(Tail(posted)) : Tail(posted)[i] = Drain
    OBVIOUS
  <3>1. PICK i \in 1 .. Len(posted) : posted[i] = Drain  BY <1>a
  <3>2. Len(posted) \in Nat  BY <1>0
  <3>3. i \in 2 .. Len(posted)  BY <2>2, <3>1, <3>2
  <3>4. i - 1 \in 1 .. Len(Tail(posted)) /\ Tail(posted)[i - 1] = Drain  BY <2>2, <3>1, <3>3
  <3> QED  BY <3>4
 <2>4. DrainPosted => DrainPosted'  BY <1>a, <2>1, <2>2, <2>3
 <2> QED  BY <1>k, <2>1, <2>4
<1>10. CASE StartSending  BY <1>10, <1>k DEF StartSending
<1>11. CASE StopSending
 <2>1. \E e \in PostedEvents : posted' =
           (IF sender = "post" THEN Append(posted, Drain) ELSE posted) \o <<e>>
  <3>1. round \in 1 .. MaxRounds  BY <1>11 DEF StopSending, QueueInv, QueueTypeOK, ThreadsPlaced
  <3>2. posted' = (IF sender = "post" THEN Append(posted, Drain) ELSE posted)
                  \o <<ResultMark(round, "Failed")>>
    BY <1>11 DEF StopSending
  <3> QED  BY <3>1, <3>2
 <2>2. DrainPosted \/ sender = "post" => DrainPosted'
  <3> DEFINE p == IF sender = "post" THEN Append(posted, Drain) ELSE posted
  <3>1. p \in Seq(PostedEvents)  BY <1>0
  <3>2. DrainPosted \/ sender = "post" => \E i \in 1 .. Len(p) : p[i] = Drain  BY <1>0, <1>a, <1>l
  <3> HIDE DEF p
  <3>3. \A e \in PostedEvents : \A i \in 1 .. Len(p) :
            (p \o <<e>>)[i] = p[i] /\ i \in 1 .. Len(p \o <<e>>)
    BY <3>1
  <3>4. \E e \in PostedEvents : posted' = p \o <<e>>  BY <2>1 DEF p
  <3> QED  BY <3>2, <3>3, <3>4
 <2> QED  BY <1>11, <1>k, <2>2 DEF StopSending
<1>12. CASE NodeStops  BY <1>12 DEF NodeStops
<1>13. CASE UNCHANGED queueVars  BY <1>13, <1>k DEF queueVars
<1> QED
  BY <1>1, <1>2, <1>3, <1>5, <1>6, <1>7, <1>8, <1>9, <1>10, <1>11, <1>12, <1>13
  DEF QueueNext, Worker, QtThread

\* The datagrams keep their places in the line whatever thread has them.
LEMMA LineStep ==
    ASSUME QueueInv, [QueueNext]_queueVars
    PROVE  OneLine'
<1>o. /\ Ordered(written) /\ Ordered(batch) /\ Ordered(sendQueue)
      /\ Ahead(written, batch) /\ Ahead(written, sendQueue) /\ Ahead(batch, sendQueue)
      /\ Below(written, Upcoming) /\ Below(batch, Upcoming) /\ Below(sendQueue, Upcoming)
  BY DEF QueueInv, OneLine
<1>t. /\ sendQueue \in Seq(Datagrams) /\ batch \in Seq(Datagrams)
      /\ written \in Seq(Datagrams) /\ round \in Nat /\ toQueue \in Nat
  BY QueueParameters DEF QueueInv, QueueTypeOK
<1>d. \A d \in Datagrams : d.round \in Nat /\ d.index \in Nat  BY QueueParameters DEF Datagrams
<1>1. CASE UNCHANGED <<sendQueue, batch, written, round, toQueue>>
  BY <1>o, <1>1 DEF OneLine, Upcoming
<1>2. CASE QueueDatagram
 <2>1. /\ sendQueue' = Append(sendQueue, Upcoming) /\ toQueue' = toQueue + 1
       /\ UNCHANGED <<batch, written, round>>
   BY <1>2 DEF QueueDatagram, Upcoming
 <2>2. Upcoming \in Datagrams
   BY <1>2, QueueParameters DEF QueueInv, QueueTypeOK, ThreadsPlaced, QueueDatagram, Upcoming,
      Datagrams
 <2>3. Before(Upcoming, Upcoming') /\ \A d \in Datagrams :
           Before(d, Upcoming) => Before(d, Upcoming')
   BY <1>t, <1>d, <2>1 DEF Before, Upcoming
 <2> HIDE DEF Upcoming
 <2>4. Grown(sendQueue', sendQueue, Upcoming)  BY <1>t, <2>1, <2>2 DEF Grown
 <2>5. Ordered(sendQueue') /\ Ahead(batch, sendQueue') /\ Ahead(written, sendQueue')
   BY <1>o, <2>4, GrowthKeepsPlaces
 <2>6. Below(sendQueue, Upcoming') /\ Below(batch, Upcoming') /\ Below(written, Upcoming')
   BY <1>o, <1>t, <2>3 DEF Below
 <2>7. Below(sendQueue', Upcoming')  BY <2>3, <2>4, <2>6, GrowthKeepsPlaces
 <2> QED  BY <1>o, <2>1, <2>5, <2>6, <2>7 DEF OneLine
<1>3. CASE TakeSendBatch
 <2>1. PICK n \in 0 .. Len(sendQueue) :
             /\ batch' \in Seq(Datagrams) /\ Len(batch') = n
             /\ \A i \in 1 .. n : batch'[i] = sendQueue[i]
             /\ sendQueue' \in Seq(Datagrams) /\ Len(sendQueue') = Len(sendQueue) - n
             /\ \A i \in 1 .. Len(sendQueue) - n : sendQueue'[i] = sendQueue[n + i]
   BY <1>3, BatchTaken DEF QueueInv
 <2>2. UNCHANGED <<written, Upcoming>>  BY <1>3 DEF TakeSendBatch, Upcoming
 <2>3. PartOf(batch', sendQueue, 0) /\ PartOf(sendQueue', sendQueue, n) /\ Len(batch') <= n
   BY <1>t, <2>1 DEF PartOf
 <2>4. /\ Ordered(batch') /\ Ordered(sendQueue')
       /\ Ahead(written, batch') /\ Ahead(written, sendQueue')
       /\ Below(batch', Upcoming) /\ Below(sendQueue', Upcoming)
   BY <1>o, <2>3, PartsKeepPlaces
 <2>5. Ahead(batch', sendQueue')  BY <1>o, <2>3, SplitKeepsPlaces
 <2> QED  BY <1>o, <2>2, <2>4, <2>5 DEF OneLine
<1>4. CASE WriteDatagram
 <2>1. /\ batch # <<>> /\ written' = Append(written, batch[1]) /\ batch' = Tail(batch)
       /\ UNCHANGED <<sendQueue, Upcoming>>
   BY <1>t, <1>4 DEF WriteDatagram, Upcoming
 <2>2. PartOf(batch', batch, 1) /\ Grown(written', written, batch[1]) /\ 1 \in 1 .. Len(batch)
   BY <1>t, <2>1 DEF PartOf, Grown
 <2>3. Ordered(batch') /\ Ahead(written, batch') /\ Ahead(batch', sendQueue) /\ Below(batch', Upcoming)
   BY <1>o, <2>2, PartsKeepPlaces
 <2>4. /\ Below(written, batch[1]) /\ Before(batch[1], Upcoming)
       /\ \A j \in 1 .. Len(sendQueue) : Before(batch[1], sendQueue[j])
   BY <1>o, <2>2 DEF Ahead, Below
 <2>5. \A j \in 1 .. Len(batch') : Before(batch[1], batch'[j])
  <3> SUFFICES ASSUME NEW j \in 1 .. Len(batch') PROVE Before(batch[1], batch'[j])  OBVIOUS
  <3>1. j + 1 \in 1 .. Len(batch) /\ 1 < j + 1 /\ batch'[j] = batch[j + 1]  BY <2>2 DEF PartOf
  <3> QED  BY <1>o, <2>2, <3>1 DEF Ordered
 <2>6. Ordered(written') /\ Ahead(written', sendQueue) /\ Below(written', Upcoming)
   BY <1>o, <2>2, <2>4, GrowthKeepsPlaces
 <2>7. Ahead(written', batch')  BY <2>2, <2>3, <2>5, GrowthKeepsPlaces
 <2> QED  BY <1>o, <2>1, <2>3, <2>6, <2>7 DEF OneLine
<1>5. CASE WriteFails \/ NodeStops
  BY <1>5, <1>o DEF WriteFails, NodeStops, Upcoming, OneLine, Ordered, Ahead, Below
<1>6. CASE StartSending
 <2>1. /\ UNCHANGED <<sendQueue, batch, written>>
       /\ \A d \in Datagrams : Before(d, Upcoming) => Before(d, Upcoming')
   BY <1>t, <1>6, <1>d DEF StartSending, Before, Upcoming
 <2> QED  BY <1>o, <1>t, <2>1 DEF OneLine, Below
<1>7. CASE RefuseDatagram \/ PostDrain \/ CompleteRound \/ EndBatch \/ ProcessResult \/ StopSending
  BY <1>1, <1>7 DEF RefuseDatagram, PostDrain, CompleteRound, EndBatch, ProcessResult, StopSending
<1> QED  BY <1>1, <1>2, <1>3, <1>4, <1>5, <1>6, <1>7 DEF QueueNext, Worker, QtThread, queueVars

THEOREM QueueSafeHolds == QueueSpec => []QueueSafe
<1>1. QueueInv /\ [QueueNext]_queueVars => QueueInv'
  BY QueueTypeStep, DrainStep, LineStep DEF QueueInv
<1>2. QueueInv => QueueSafe
 <2> SUFFICES ASSUME QueueInv PROVE WrittenInOrder /\ DrainToCome  BY DEF QueueInv, QueueSafe
 <2>1. DrainToCome  BY DEF QueueInv, DrainKept, DrainToCome
 <2>2. WrittenInOrder  BY DEF QueueInv, OneLine, Ordered, Before, WrittenInOrder
 <2> QED  BY <2>1, <2>2
<1> QED  BY <1>1, <1>2, QueueInitial, PTL DEF QueueSpec

-----------------------------------------------------------------------------
(* What "Completed" means.                                                  *)

Has(s, r, k) == \E i \in 1 .. Len(s) : s[i].round = r /\ s[i].index = k
UnderWay(r, k) == Has(written, r, k) \/ Has(batch, r, k) \/ Has(sendQueue, r, k)

\* While nothing has failed, every datagram the worker has handed over is somewhere in
\* the line, and so is every one of a round whose Completed waits to be processed.
NothingMissing ==
    nodeOn /\ ~sendFault =>
        /\ sender # "idle" => \A k \in 1 .. toQueue - 1 : UnderWay(round, k)
        /\ \A i \in 1 .. Len(posted) : posted[i].outcome = "Completed" =>
              \A k \in 1 .. RoundDatagrams : UnderWay(posted[i].round, k)

LEMMA UnderWayStep ==
    ASSUME QueueInv, [QueueNext]_queueVars, ~WriteFails, ~NodeStops, NEW r, NEW k, UnderWay(r, k)
    PROVE  UnderWay(r, k)'
<1>t. /\ sendQueue \in Seq(Datagrams) /\ batch \in Seq(Datagrams)
      /\ written \in Seq(Datagrams)
  BY DEF QueueInv, QueueTypeOK
<1>1. CASE UNCHANGED <<sendQueue, batch, written>>  BY <1>1 DEF UnderWay, Has
<1>2. CASE QueueDatagram
 <2>1. \A i \in 1 .. Len(sendQueue) : i \in 1 .. Len(sendQueue') /\ sendQueue'[i] = sendQueue[i]
   BY <1>2, <1>t, QueueTypeStep, QueueParameters DEF QueueInv, QueueTypeOK, ThreadsPlaced,
      QueueDatagram, Datagrams
 <2>2. Has(sendQueue, r, k) => Has(sendQueue', r, k)  BY <2>1 DEF Has
 <2> QED  BY <1>2, <2>2 DEF QueueDatagram, UnderWay
<1>3. CASE TakeSendBatch
 <2>1. PICK n \in 0 .. Len(sendQueue) :
             /\ Len(batch') = n /\ \A i \in 1 .. n : batch'[i] = sendQueue[i]
             /\ Len(sendQueue') = Len(sendQueue) - n
             /\ \A i \in 1 .. Len(sendQueue) - n : sendQueue'[i] = sendQueue[n + i]
   BY <1>3, BatchTaken DEF QueueInv
 <2>2. Has(sendQueue, r, k) => Has(batch', r, k) \/ Has(sendQueue', r, k)
  <3> SUFFICES ASSUME NEW i \in 1 .. Len(sendQueue),
                      sendQueue[i].round = r, sendQueue[i].index = k
               PROVE  Has(batch', r, k) \/ Has(sendQueue', r, k)
    BY DEF Has
  <3>1. CASE i <= n  BY <1>t, <2>1, <3>1 DEF Has
  <3>2. CASE i > n
   <4>1. i - n \in 1 .. Len(sendQueue') /\ sendQueue'[i - n] = sendQueue[i]  BY <1>t, <2>1, <3>2
   <4> QED  BY <4>1 DEF Has
  <3> QED  BY <1>t, <3>1, <3>2
 <2>3. batch = <<>> /\ UNCHANGED written
   BY <1>3 DEF TakeSendBatch, FirstIs, QueueInv, ThreadsPlaced
 <2>4. ~Has(batch, r, k)  BY <2>3 DEF Has
 <2> QED  BY <2>2, <2>3, <2>4 DEF UnderWay
<1>4. CASE WriteDatagram
 <2>1. /\ batch # <<>> /\ written' = Append(written, batch[1]) /\ batch' = Tail(batch)
       /\ UNCHANGED sendQueue
   BY <1>t, <1>4 DEF WriteDatagram
 <2>2. /\ Len(written) + 1 \in 1 .. Len(written') /\ written'[Len(written) + 1] = batch[1]
       /\ \A i \in 1 .. Len(written) : i \in 1 .. Len(written') /\ written'[i] = written[i]
   BY <1>t, <2>1
 <2>3. \A i \in 1 .. Len(batch) :
           i = 1 \/ (i - 1 \in 1 .. Len(batch') /\ batch'[i - 1] = batch[i])
   BY <1>t, <2>1
 <2>4. Has(written, r, k) => Has(written', r, k)  BY <2>2 DEF Has
 <2>5. ASSUME Has(batch, r, k) PROVE Has(written', r, k) \/ Has(batch', r, k)
  <3>1. PICK i \in 1 .. Len(batch) : batch[i].round = r /\ batch[i].index = k  BY <2>5 DEF Has
  <3>2. CASE i = 1  BY <2>2, <3>1, <3>2 DEF Has
  <3>3. CASE i # 1  BY <2>3, <3>1, <3>3 DEF Has
  <3> QED  BY <3>2, <3>3
 <2> QED  BY <2>1, <2>4, <2>5 DEF UnderWay
<1>5. CASE RefuseDatagram \/ PostDrain \/ CompleteRound \/ EndBatch \/ ProcessResult
           \/ StartSending \/ StopSending
  BY <1>1, <1>5 DEF RefuseDatagram, PostDrain, CompleteRound, EndBatch, ProcessResult,
     StartSending, StopSending
<1> QED  BY <1>1, <1>2, <1>3, <1>4, <1>5 DEF QueueNext, Worker, QtThread, queueVars

\* An event that is posted after a step was posted before it, or it is a Completed only
\* when the worker has handed over its whole round.
LEMMA PostedStep ==
    ASSUME QueueInv, [QueueNext]_queueVars,
           NEW j \in 1 .. Len(posted'), posted'[j].outcome = "Completed"
    PROVE  \/ \E i \in 1 .. Len(posted) : posted[i] = posted'[j]
           \/ CompleteRound /\ posted'[j].round = round
<1>t. posted \in Seq(PostedEvents)  BY DEF QueueInv, QueueTypeOK
<1> DEFINE Old(e) == \E i \in 1 .. Len(posted) : posted[i] = e
<1>a. \A e \in PostedEvents, s \in Seq(PostedEvents) : \A i \in 1 .. Len(Append(s, e)) :
          (i \in 1 .. Len(s) /\ Append(s, e)[i] = s[i]) \/ Append(s, e)[i] = e
  OBVIOUS
<1>f. \A r : ResultMark(r, "Failed").outcome # "Completed"  BY DEF ResultMark
<1>g. Drain.outcome # "Completed" /\ ResultMark(round, "Completed").round = round
  BY DEF Drain, ResultMark
<1>r. sender # "idle" => round \in 1 .. MaxRounds  BY DEF QueueInv, QueueTypeOK, ThreadsPlaced
<1> USE EventTypes
<1>1. CASE UNCHANGED posted  BY <1>1
<1>2. CASE RefuseDatagram  BY <1>2, <1>t, <1>a, <1>f, <1>r DEF RefuseDatagram
<1>3. CASE PostDrain  BY <1>3, <1>t, <1>a, <1>g DEF PostDrain
<1>4. CASE CompleteRound  BY <1>4, <1>t, <1>a, <1>g, <1>r DEF CompleteRound
<1>5. CASE TakeSendBatch  BY <1>5, <1>t DEF TakeSendBatch, FirstIs
<1>6. CASE EndBatch  BY <1>6, <1>t, <1>a, <1>g DEF EndBatch, PostedAfterBatch
<1>7. CASE ProcessResult
 <2>1. posted # <<>> /\ posted' \in {Append(Tail(posted), Head(posted)), Tail(posted)}
   BY <1>7 DEF ProcessResult, FirstIs, Behind
 <2>2. \A i \in 1 .. Len(Tail(posted)) : Old(Tail(posted)[i])  BY <1>t, <2>1
 <2>3. Old(Head(posted))  BY <1>t, <2>1
 <2>4. Tail(posted) \in Seq(PostedEvents) /\ Head(posted) \in PostedEvents  BY <1>t, <2>1
 <2> HIDE DEF Old
 <2>5. Old(posted'[j])  BY <1>a, <2>1, <2>2, <2>3, <2>4
 <2> QED  BY <2>5 DEF Old
<1>8. CASE StopSending
 <2> DEFINE p == IF sender = "post" THEN Append(posted, Drain) ELSE posted
            e == ResultMark(round, "Failed")
 <2>1. posted' = p \o <<e>> /\ e \in PostedEvents  BY <1>8, <1>r DEF StopSending
 <2>2. p \in Seq(PostedEvents) /\ \A i \in 1 .. Len(p) : Old(p[i]) \/ p[i] = Drain  BY <1>t, <1>a
 <2>3. e.outcome # "Completed"  BY <1>f
 <2> HIDE DEF p, e, Old
 <2>4. posted'[j] = e \/ \E i \in 1 .. Len(p) : posted'[j] = p[i]  BY <2>1, <2>2
 <2>5. Old(posted'[j])  BY <1>g, <2>2, <2>3, <2>4
 <2> QED  BY <2>5 DEF Old
<1>9. CASE NodeStops  BY <1>9, <1>t, <1>a, <1>g DEF NodeStops
<1>10. CASE QueueDatagram \/ WriteDatagram \/ WriteFails \/ StartSending
  BY <1>1, <1>10 DEF QueueDatagram, WriteDatagram, WriteFails, StartSending
<1> QED
  BY <1>1, <1>2, <1>3, <1>4, <1>5, <1>6, <1>7, <1>8, <1>9, <1>10
  DEF QueueNext, Worker, QtThread, queueVars

LEMMA NothingMissingStep ==
    ASSUME QueueInv, NothingMissing, [PatientQueueNext]_queueVars
    PROVE  NothingMissing'
<1>n. [QueueNext]_queueVars  BY DEF PatientQueueNext
<1>t. posted \in Seq(PostedEvents) /\ toQueue \in 1 .. RoundDatagrams + 1
  BY DEF QueueInv, QueueTypeOK
<1> SUFFICES ASSUME nodeOn', ~sendFault'
             PROVE  /\ sender' # "idle" => \A k \in 1 .. toQueue' - 1 : UnderWay(round, k)'
                    /\ \A i \in 1 .. Len(posted') : posted'[i].outcome = "Completed" =>
                          \A k \in 1 .. RoundDatagrams : UnderWay(posted[i].round, k)'
  BY DEF NothingMissing
<1>1. ~WriteFails /\ ~NodeStops  BY DEF WriteFails, NodeStops
<1>2. nodeOn
  BY <1>n DEF QueueNext, Worker, QtThread, queueVars, RefuseDatagram, QueueDatagram, PostDrain,
     CompleteRound, TakeSendBatch, WriteDatagram, WriteFails, EndBatch, ProcessResult,
     StartSending, StopSending, NodeStops
<1>3. CASE StartSending
 <2>1. AllReported /\ sender' = "send" /\ toQueue' = 1 /\ posted' = posted
  <3>1. round \in Int /\ round' = round + 1  BY <1>3 DEF StartSending, QueueInv, QueueTypeOK
  <3>2. PatientQueueNext
   <4>1. UNCHANGED queueVars => round' = round  BY Zenon DEF queueVars
   <4>2. round' # round  BY <3>1
   <4> QED  BY <4>1, <4>2
  <3> QED  BY <1>3, <3>1, <3>2 DEF PatientQueueNext, StartSending
 <2>2. \A i \in 1 .. Len(posted) : posted[i].outcome # "Completed"
   BY <2>1, <1>t DEF AllReported, PostedEvents
 <2> QED  BY <2>1, <2>2
<1>4. CASE ~StartSending
 <2>1. ~sendFault /\ round' = round
  <3>1. CASE RefuseDatagram  BY <3>1, Zenon DEF RefuseDatagram
  <3>2. ~RefuseDatagram => sendFault' = sendFault /\ round' = round
    BY <1>n, <1>1, <1>4 DEF QueueNext, Worker, QtThread, QueueDatagram, PostDrain,
       CompleteRound, TakeSendBatch, WriteDatagram, EndBatch, ProcessResult, StopSending,
       queueVars
  <3>3. CASE ~RefuseDatagram  BY <3>2, <3>3
  <3> QED  BY <3>1, <3>3
 <2>2. /\ sender # "idle" => \A k \in 1 .. toQueue - 1 : UnderWay(round, k)
       /\ \A i \in 1 .. Len(posted) : posted[i].outcome = "Completed" =>
             \A k \in 1 .. RoundDatagrams : UnderWay(posted[i].round, k)
   BY <1>2, <2>1 DEF NothingMissing
 <2>3. \A r, k : UnderWay(r, k) => UnderWay(r, k)'  BY <1>n, <1>1, UnderWayStep
 <2>4. ASSUME sender' # "idle", NEW k \in 1 .. toQueue' - 1
       PROVE  UnderWay(round, k)'
  <3>1. CASE QueueDatagram
   <4>1. /\ sendQueue' = Append(sendQueue, [round |-> round, index |-> toQueue])
         /\ toQueue' = toQueue + 1 /\ sender # "idle"
     BY <3>1 DEF QueueDatagram
   <4>2. [round |-> round, index |-> toQueue] \in Datagrams /\ sendQueue \in Seq(Datagrams)
     BY <3>1, QueueParameters DEF QueueInv, QueueTypeOK, ThreadsPlaced, QueueDatagram,
        Datagrams
   <4>3. CASE k = toQueue  BY <2>1, <4>1, <4>2, <4>3 DEF UnderWay, Has
   <4>4. CASE k # toQueue  BY <2>1, <2>2, <2>3, <2>4, <4>1, <4>4, <1>t DEF UnderWay
   <4> QED  BY <4>3, <4>4
  <3>2. CASE ~QueueDatagram
   <4>1. sender # "idle" /\ toQueue' = toQueue
     BY <1>n, <1>1, <1>4, <2>4, <3>2 DEF QueueNext, Worker, QtThread, queueVars,
        RefuseDatagram, PostDrain, CompleteRound, TakeSendBatch, WriteDatagram, EndBatch,
        ProcessResult, StopSending
   <4>2. UnderWay(round, k)  BY <2>2, <2>4, <4>1
   <4> QED  BY <2>1, <2>3, <4>2 DEF UnderWay
  <3> QED  BY <3>1, <3>2
 <2>5. ASSUME NEW j \in 1 .. Len(posted'), posted'[j].outcome = "Completed",
              NEW k \in 1 .. RoundDatagrams
       PROVE  UnderWay(posted[j].round, k)'
  <3>1. CASE \E i \in 1 .. Len(posted) : posted[i] = posted'[j]
   <4>1. PICK i \in 1 .. Len(posted) : posted[i] = posted'[j]  BY <3>1
   <4>2. UnderWay(posted[i].round, k)  BY <2>2, <2>5, <4>1
   <4> QED  BY <2>3, <4>1, <4>2 DEF UnderWay
  <3>2. CASE CompleteRound /\ posted'[j].round = round
    BY <2>2, <2>3, <3>2, <1>t, QueueParameters DEF CompleteRound, UnderWay
  <3> QED  BY <1>n, <2>5, <3>1, <3>2, PostedStep
 <2> QED  BY <2>4, <2>5
<1> QED  BY <1>3, <1>4

\* processAuthenticationRuntimeEvent: a Completed that is broadcast while the node runs
\* is about a round of which every datagram was written to the socket.  The rounds follow
\* each other as the manager's do: the next starts when the last was reported.
THEOREM CompletedMeansWrittenHolds == PatientQueueSpec => CompletedMeansWritten
<1> DEFINE Told == \A r \in 1 .. MaxRounds :
               (nodeOn /\ [round |-> r, outcome |-> "Completed"] \in reported' \ reported)
                   => {written[i].index : i \in Of(r)} = 1 .. RoundDatagrams
           Inv == QueueInv /\ NothingMissing
<1>1. QueueInit => Inv  BY QueueInitial DEF QueueInit, NothingMissing
<1>2. Inv /\ [PatientQueueNext]_queueVars => Inv'
  BY QueueTypeStep, DrainStep, LineStep, NothingMissingStep DEF QueueInv, PatientQueueNext
<1>3. Inv /\ [PatientQueueNext]_queueVars => [Told]_queueVars
 <2> SUFFICES ASSUME Inv, QueueNext, NEW r \in 1 .. MaxRounds, nodeOn,
                     [round |-> r, outcome |-> "Completed"] \in reported' \ reported
              PROVE  {written[i].index : i \in Of(r)} = 1 .. RoundDatagrams
   BY DEF PatientQueueNext
 <2>1. ProcessResult
   BY DEF QueueNext, Worker, QtThread, RefuseDatagram, QueueDatagram, PostDrain,
      CompleteRound, TakeSendBatch, WriteDatagram, WriteFails, EndBatch, StartSending,
      StopSending, NodeStops
 <2>2. /\ Head(posted).round = r /\ ReportedOutcome(Head(posted)) = "Completed"
       /\ ~(Head(posted).outcome = "Completed" /\ SendPending)
       /\ posted # <<>> /\ drainPc = "loop"
   BY <2>1 DEF ProcessResult, FirstIs
 <2>3. Head(posted).outcome = "Completed" /\ ~sendFault /\ sendQueue = <<>> /\ batch = <<>>
   BY <2>2 DEF ReportedOutcome, SendPending, QueueInv, ThreadsPlaced
 <2>4. Head(posted) = posted[1] /\ 1 \in 1 .. Len(posted)
   BY <2>2, PostedTaken DEF QueueInv, QueueTypeOK
 <2>5. \A k \in 1 .. RoundDatagrams : UnderWay(r, k)  BY <2>2, <2>3, <2>4 DEF NothingMissing
 <2>6. \A k \in 1 .. RoundDatagrams : Has(written, r, k)  BY <2>3, <2>5 DEF UnderWay, Has
 <2>7. \A i \in 1 .. Len(written) : written[i].index \in 1 .. RoundDatagrams
  <3>1. written \in Seq(Datagrams)  BY DEF QueueInv, QueueTypeOK
  <3>2. \A i \in 1 .. Len(written) : written[i] \in Datagrams  BY <3>1, ElementOfSeq
  <3> QED  BY <3>2 DEF Datagrams
 <2> QED  BY <2>6, <2>7 DEF Has, Of
<1> QED  BY <1>1, <1>2, <1>3, PTL DEF PatientQueueSpec, CompletedMeansWritten

-----------------------------------------------------------------------------
(* RoundPreparation: the manager around a round.                             *)

ConfigOps == {"sender", "payload", "receiver"}
CommandMessages == [op : ConfigOps \union {"fault", "start", "stop"}, name : Nat]
AckNames == Nat \X ConfigOps \X Nodes
ReplyMessages == [type : {"config", "fault", "result"}, name : AckNames \union Nat, ok : BOOLEAN]

\* The request whose answer says that a node is prepared.
LastRequest(n) == IF n = SenderNode THEN "payload" ELSE "receiver"

\* What is not in a queue of commands; what has something later behind it; a
\* request that is the last one; and that there is one start at most.
Without(c, ops) == \A i \in 1 .. Len(c) : c[i].op \notin ops
FollowedBy(c, ops, later) ==
    \A i \in 1 .. Len(c) : c[i].op \in ops => \E j \in i + 1 .. Len(c) : c[j].op \in later
EndsWith(c, op, name) ==
    \A i \in 1 .. Len(c) : c[i].op = op /\ c[i].name = name =>
        \A j \in i + 1 .. Len(c) : c[j].op \notin ConfigOps
StartsOnce(c) ==
    \A i, j \in 1 .. Len(c) : c[i].op = "start" /\ c[j].op = "start" => i = j

-----------------------------------------------------------------------------
(* Queues.                                                                  *)

LEMMA TailOf ==
    ASSUME NEW S, NEW q \in Seq(S), q # <<>>
    PROVE  /\ Tail(q) \in Seq(S) /\ Len(q) \in Nat /\ Len(q) > 0
           /\ Len(Tail(q)) = Len(q) - 1 /\ Head(q) = q[1] /\ q[1] \in S
           /\ \A i \in 1 .. Len(Tail(q)) : i + 1 \in 1 .. Len(q) /\ Tail(q)[i] = q[i + 1]
  OBVIOUS

LEMMA JoinOf ==
    ASSUME NEW S, NEW q \in Seq(S), NEW m \in Seq(S)
    PROVE  /\ q \o m \in Seq(S) /\ Len(q) \in Nat /\ Len(m) \in Nat
           /\ Len(q \o m) = Len(q) + Len(m)
           /\ \A i \in 1 .. Len(q) : (q \o m)[i] = q[i]
           /\ \A i \in 1 .. Len(m) : (q \o m)[Len(q) + i] = m[i]
           /\ \A i \in 1 .. Len(q \o m) :
                 i \notin 1 .. Len(q) => i - Len(q) \in 1 .. Len(m) /\ (q \o m)[i] = m[i - Len(q)]
  OBVIOUS

LEMMA WithoutTail ==
    ASSUME NEW S, NEW q \in Seq(S), q # <<>>, NEW ops, Without(q, ops)
    PROVE  Without(Tail(q), ops)
  BY TailOf DEF Without

LEMMA FollowedTail ==
    ASSUME NEW S, NEW q \in Seq(S), q # <<>>, NEW ops, NEW later, FollowedBy(q, ops, later)
    PROVE  FollowedBy(Tail(q), ops, later)
<1> SUFFICES ASSUME NEW i \in 1 .. Len(Tail(q)), Tail(q)[i].op \in ops
             PROVE  \E j \in i + 1 .. Len(Tail(q)) : Tail(q)[j].op \in later
  BY DEF FollowedBy
<1>1. i + 1 \in 1 .. Len(q) /\ q[i + 1].op \in ops  BY TailOf
<1>2. PICK j \in (i + 1) + 1 .. Len(q) : q[j].op \in later  BY <1>1 DEF FollowedBy
<1>3. j - 1 \in i + 1 .. Len(Tail(q)) /\ j - 1 \in 1 .. Len(Tail(q)) /\ (j - 1) + 1 = j
  BY <1>1, <1>2, TailOf
<1>4. Tail(q)[j - 1] = q[j]  BY <1>3, TailOf
<1> QED  BY <1>2, <1>3, <1>4

LEMMA EndsTail ==
    ASSUME NEW S, NEW q \in Seq(S), q # <<>>, NEW op, NEW name, EndsWith(q, op, name)
    PROVE  EndsWith(Tail(q), op, name)
<1> SUFFICES ASSUME NEW i \in 1 .. Len(Tail(q)), Tail(q)[i].op = op, Tail(q)[i].name = name,
                    NEW j \in i + 1 .. Len(Tail(q))
             PROVE  Tail(q)[j].op \notin ConfigOps
  BY DEF EndsWith
<1>1. i + 1 \in 1 .. Len(q) /\ q[i + 1].op = op /\ q[i + 1].name = name  BY TailOf
<1>2. j + 1 \in (i + 1) + 1 .. Len(q) /\ Tail(q)[j] = q[j + 1]  BY TailOf
<1> QED  BY <1>1, <1>2 DEF EndsWith

\* Taking the first of two such requests leaves none behind it.
LEMMA HeadEnds ==
    ASSUME NEW S, NEW q \in Seq(S), q # <<>>, NEW op, NEW name, EndsWith(q, op, name),
           Head(q).op = op, Head(q).name = name
    PROVE  Without(Tail(q), ConfigOps)
<1> SUFFICES ASSUME NEW j \in 1 .. Len(Tail(q)) PROVE Tail(q)[j].op \notin ConfigOps  BY DEF Without
<1>1. 1 \in 1 .. Len(q) /\ j + 1 \in 1 + 1 .. Len(q) /\ Tail(q)[j] = q[j + 1]  BY TailOf
<1> QED  BY <1>1, TailOf DEF EndsWith

LEMMA StartsTail ==
    ASSUME NEW S, NEW q \in Seq(S), q # <<>>, StartsOnce(q)
    PROVE  /\ StartsOnce(Tail(q))
           /\ Head(q).op = "start" => Without(Tail(q), {"start"})
<1>1. StartsOnce(Tail(q))
 <2> SUFFICES ASSUME NEW i \in 1 .. Len(Tail(q)), NEW j \in 1 .. Len(Tail(q)),
                     Tail(q)[i].op = "start", Tail(q)[j].op = "start"
              PROVE  i = j
   BY DEF StartsOnce
 <2>1. i + 1 = j + 1  BY TailOf DEF StartsOnce
 <2> QED  BY <2>1
<1>2. ASSUME Head(q).op = "start", NEW j \in 1 .. Len(Tail(q)), Tail(q)[j].op = "start"
      PROVE  FALSE
  BY <1>2, TailOf DEF StartsOnce
<1> QED  BY <1>1, <1>2 DEF Without

LEMMA WithoutJoin ==
    ASSUME NEW S, NEW q \in Seq(S), NEW m \in Seq(S), NEW ops
    PROVE  Without(q \o m, ops) <=> Without(q, ops) /\ Without(m, ops)
<1>1. ASSUME Without(q \o m, ops), NEW i \in 1 .. Len(q) PROVE q[i].op \notin ops
  BY <1>1, JoinOf DEF Without
<1>2. ASSUME Without(q \o m, ops), NEW i \in 1 .. Len(m) PROVE m[i].op \notin ops
 <2>1. Len(q) + i \in 1 .. Len(q \o m) /\ (q \o m)[Len(q) + i] = m[i]  BY JoinOf
 <2> QED  BY <1>2, <2>1 DEF Without
<1>3. ASSUME Without(q, ops), Without(m, ops), NEW i \in 1 .. Len(q \o m)
      PROVE  (q \o m)[i].op \notin ops
  BY <1>3, JoinOf DEF Without
<1> QED  BY <1>1, <1>2, <1>3 DEF Without

LEMMA FollowedJoin ==
    ASSUME NEW S, NEW q \in Seq(S), NEW m \in Seq(S), NEW ops, NEW later,
           FollowedBy(m, ops, later), FollowedBy(q, ops, later) \/ ~Without(m, later)
    PROVE  FollowedBy(q \o m, ops, later)
<1> SUFFICES ASSUME NEW i \in 1 .. Len(q \o m), (q \o m)[i].op \in ops
             PROVE  \E j \in i + 1 .. Len(q \o m) : (q \o m)[j].op \in later
  BY DEF FollowedBy
<1>0. Len(q) \in Nat /\ Len(m) \in Nat /\ Len(q \o m) = Len(q) + Len(m)  BY JoinOf
<1>1. CASE i \notin 1 .. Len(q)
 <2>1. i - Len(q) \in 1 .. Len(m) /\ m[i - Len(q)].op \in ops  BY <1>1, JoinOf
 <2>2. PICK k \in (i - Len(q)) + 1 .. Len(m) : m[k].op \in later  BY <2>1 DEF FollowedBy
 <2>3. k \in 1 .. Len(m) /\ Len(q) + k \in i + 1 .. Len(q \o m)  BY <1>0, <2>1, <2>2
 <2> QED  BY <2>2, <2>3, JoinOf
<1>2. CASE i \in 1 .. Len(q) /\ ~Without(m, later)
 <2>1. PICK k \in 1 .. Len(m) : m[k].op \in later  BY <1>2 DEF Without
 <2>2. Len(q) + k \in i + 1 .. Len(q \o m)  BY <1>0, <1>2, <2>1
 <2> QED  BY <2>1, <2>2, JoinOf
<1>3. CASE i \in 1 .. Len(q) /\ FollowedBy(q, ops, later)
 <2>1. q[i].op \in ops  BY <1>3, JoinOf
 <2>2. PICK k \in i + 1 .. Len(q) : q[k].op \in later  BY <1>3, <2>1 DEF FollowedBy
 <2>3. k \in 1 .. Len(q) /\ k \in i + 1 .. Len(q \o m)  BY <1>0, <1>3, <2>2
 <2> QED  BY <2>2, <2>3, JoinOf
<1> QED  BY <1>1, <1>2, <1>3

LEMMA EndsJoin ==
    ASSUME NEW S, NEW q \in Seq(S), NEW m \in Seq(S), NEW op, NEW name,
           \/ EndsWith(q, op, name) /\ Without(m, ConfigOps)
           \/ EndsWith(m, op, name)
              /\ \A i \in 1 .. Len(q) : ~(q[i].op = op /\ q[i].name = name)
    PROVE  EndsWith(q \o m, op, name)
<1> SUFFICES ASSUME NEW i \in 1 .. Len(q \o m), (q \o m)[i].op = op, (q \o m)[i].name = name,
                    NEW j \in i + 1 .. Len(q \o m)
             PROVE  (q \o m)[j].op \notin ConfigOps
  BY DEF EndsWith
<1>0. Len(q) \in Nat /\ Len(m) \in Nat /\ Len(q \o m) = Len(q) + Len(m) /\ j \in 1 .. Len(q \o m)
  BY JoinOf
<1>1. CASE EndsWith(m, op, name) /\ \A k \in 1 .. Len(q) : ~(q[k].op = op /\ q[k].name = name)
 <2>1. i \notin 1 .. Len(q) /\ j \notin 1 .. Len(q)  BY <1>0, <1>1, JoinOf
 <2>2. /\ i - Len(q) \in 1 .. Len(m) /\ j - Len(q) \in i - Len(q) + 1 .. Len(m)
       /\ (q \o m)[i] = m[i - Len(q)] /\ (q \o m)[j] = m[j - Len(q)]
   BY <1>0, <2>1, JoinOf
 <2> QED  BY <1>1, <2>2 DEF EndsWith
<1>2. CASE EndsWith(q, op, name) /\ Without(m, ConfigOps)
 <2>1. CASE j \notin 1 .. Len(q)  BY <1>0, <1>2, <2>1, JoinOf DEF Without
 <2>2. CASE j \in 1 .. Len(q)  BY <1>0, <1>2, <2>2, JoinOf DEF EndsWith
 <2> QED  BY <2>1, <2>2
<1> QED  BY <1>1, <1>2

LEMMA StartsJoin ==
    ASSUME NEW S, NEW q \in Seq(S), NEW m \in Seq(S), StartsOnce(q), StartsOnce(m),
           Without(q, {"start"}) \/ Without(m, {"start"})
    PROVE  StartsOnce(q \o m)
<1> SUFFICES ASSUME NEW i \in 1 .. Len(q \o m), NEW j \in 1 .. Len(q \o m),
                    (q \o m)[i].op = "start", (q \o m)[j].op = "start"
             PROVE  i = j
  BY DEF StartsOnce
<1>0. Len(q) \in Nat /\ Len(m) \in Nat /\ Len(q \o m) = Len(q) + Len(m)  BY JoinOf
<1>1. CASE Without(q, {"start"})  BY <1>0, <1>1, JoinOf DEF Without, StartsOnce
<1>2. CASE Without(m, {"start"})  BY <1>2, JoinOf DEF Without, StartsOnce
<1> QED  BY <1>1, <1>2

\* What the variables hold.
PrepTypes ==
    /\ commands \in [Nodes -> Seq(CommandMessages)]
    /\ replies \in [Nodes -> Seq(ReplyMessages)]
    /\ roundId \in {0, preparations} /\ preparations \in Nat /\ preparations <= LastPreparation
    /\ roundStarts \in Nat /\ roundStarts <= MaxRoundStarts
    /\ pendingConfig \subseteq AckNames
    /\ prepared \in [Nodes -> Nat] /\ \A n \in Nodes : prepared[n] <= preparations
    /\ nodeRuns \in [Nodes -> Nat] /\ \A n \in Nodes : nodeRuns[n] <= roundStarts
    /\ online \in [Nodes -> BOOLEAN]
    /\ rejected \in BOOLEAN /\ configReady \in BOOLEAN /\ inRound \in BOOLEAN
    /\ faultConfigured \in BOOLEAN /\ faultPending \in BOOLEAN
    /\ faultRejected \in BOOLEAN /\ faultReady \in BOOLEAN
    /\ nodeFault \in BOOLEAN /\ stoppedOnce \in BOOLEAN

FlagsFit ==
    /\ participants \subseteq Nodes /\ received \subseteq participants
    /\ roundId = 0 => participants = {} /\ pendingConfig = {} /\ ~configReady /\ ~faultConfigured
    /\ roundId # 0 => SenderNode \in participants
    /\ configReady => pendingConfig = {} /\ ~rejected
    /\ faultReady => faultConfigured /\ ~faultPending /\ ~faultRejected
    /\ faultPending => faultConfigured /\ ~faultRejected
    /\ inRound => configReady /\ FaultSettled /\ roundStarts > 0

\* Whose and which round's a message is.
CommandFits(n, c, last, started) ==
    /\ c.op \in ConfigOps => c.name <= last
    /\ c.op \in {"sender", "payload"} => n = SenderNode
    /\ c.op = "receiver" => n # SenderNode
    /\ c.op = "fault" => n = SenderNode /\ c.name <= last
    /\ c.op = "start" => c.name <= started
ReplyFits(n, r, last) ==
    /\ r.type = "config" =>
          /\ r.name \in AckNames /\ r.name[1] <= last /\ r.name[3] = n
          /\ r.name[2] \in {"sender", "payload"} => n = SenderNode
          /\ r.name[2] = "receiver" => n # SenderNode
    /\ r.type = "fault" => n = SenderNode /\ r.name \in Nat /\ r.name <= last
MessagesFit ==
    \A n \in Nodes :
        /\ \A i \in 1 .. Len(commands[n]) :
              CommandFits(n, commands[n][i], preparations, roundStarts)
        /\ \A i \in 1 .. Len(replies[n]) : ReplyFits(n, replies[n][i], preparations)

\* The last request of the present preparation has no request behind it.
LastIsLast == \A n \in Nodes : EndsWith(commands[n], LastRequest(n), preparations)

\* A node that holds the round and is not asked for another.
HoldsRound(n) == prepared[n] = roundId /\ Without(commands[n], ConfigOps)

Confirms(n, r) ==
    r.type = "config" /\ r.ok /\ r.name = <<roundId, LastRequest(n), n>>

AnsweredHolds ==
    roundId # 0 => \A n \in participants :
        /\ ~rejected /\ <<roundId, LastRequest(n), n>> \notin pendingConfig => HoldsRound(n)
        /\ \A i \in 1 .. Len(replies[n]) : Confirms(n, replies[n][i]) => HoldsRound(n)

\* Until a stop was sent for this round, the stops on the way are older ones.
OldStopsFirst ==
    roundId # 0 /\ ~stoppedOnce =>
        \A n \in participants : FollowedBy(commands[n], {"stop"}, ConfigOps)

AcceptsFault(r) == r.type = "fault" /\ r.ok /\ r.name = roundId

\* Once a fault plan has been sent the sender holds the round; what it has
\* confirmed it keeps until it is stopped.
FaultHeld ==
    roundId # 0 =>
        /\ faultConfigured => HoldsRound(SenderNode)
        /\ \A i \in 1 .. Len(commands[SenderNode]) :
              commands[SenderNode][i].op = "fault" /\ commands[SenderNode][i].name = roundId
                  => HoldsRound(SenderNode)
        /\ \A i \in 1 .. Len(replies[SenderNode]) : AcceptsFault(replies[SenderNode][i]) =>
              HoldsRound(SenderNode) /\ (~stoppedOnce => nodeFault)
        /\ faultReady /\ ~stoppedOnce => nodeFault

\* Out of a round what runs, and what is told to start, is also told to stop.
StopsBehindStarts ==
    ~inRound => \A n \in Nodes \ unreachable :
        /\ FollowedBy(commands[n], {"start"}, {"stop"})
        /\ nodeRuns[n] # 0 => ~Without(commands[n], {"stop"})

HasResult(n) == \E i \in 1 .. Len(replies[n]) : replies[n][i].type = "result"
IsOver(n) == n \in received \/ n \notin participants \/ HasResult(n)

\* In a round a node starts once, and what has given a result is over.
OneStart ==
    inRound => \A n \in Nodes :
        /\ StartsOnce(commands[n])
        /\ nodeRuns[n] # 0 \/ IsOver(n) => Without(commands[n], {"start"})
        /\ IsOver(n) => nodeRuns[n] = 0

PrepInv ==
    /\ PrepTypes /\ FlagsFit /\ MessagesFit /\ LastIsLast /\ AnsweredHolds
    /\ OldStopsFirst /\ FaultHeld /\ StopsBehindStarts /\ OneStart

-----------------------------------------------------------------------------
(* Configuring.                                                             *)

Adds(added) ==
    /\ added \in [Nodes -> Seq(CommandMessages)]
    /\ commands' = [n \in Nodes |-> commands[n] \o added[n]]

LEMMA EmptyQueue ==
    ASSUME NEW S
    PROVE  /\ <<>> \in Seq(S) /\ Len(<<>>) = 0
           /\ \A ops : Without(<<>>, ops)
           /\ \A ops, later : FollowedBy(<<>>, ops, later)
           /\ \A op, name : EndsWith(<<>>, op, name)
           /\ StartsOnce(<<>>)
  BY DEF Without, FollowedBy, EndsWith, StartsOnce

LEMMA RequestParts ==
    ASSUME NEW n \in Nodes, NEW r \in Nat
    PROVE  LET c == ConfigRequests(n, r) IN
           /\ c \in Seq(CommandMessages)
           /\ Without(c, {"start", "stop", "fault"})
           /\ EndsWith(c, LastRequest(n), r) /\ ~Without(c, ConfigOps)
           /\ \A i \in 1 .. Len(c) : \A s \in Nat : CommandFits(n, c[i], r, s)
<1>1. CASE n = SenderNode
 <2> DEFINE c == ConfigRequests(n, r)
 <2>1. c = <<[op |-> "sender", name |-> r], [op |-> "payload", name |-> r]>>
   BY <1>1 DEF RequestsOf, ConfigRequests
 <2>2. c \in Seq(CommandMessages) /\ Len(c) = 2 /\ c[1].op = "sender" /\ c[2].op = "payload"
       /\ c[1].name = r /\ c[2].name = r
   BY <2>1 DEF CommandMessages, ConfigOps
 <2> HIDE DEF c
 <2>3. /\ Without(c, {"start", "stop", "fault"}) /\ ~Without(c, ConfigOps)
       /\ EndsWith(c, LastRequest(n), r)
   BY <1>1, <2>2 DEF Without, EndsWith, LastRequest, ConfigOps
 <2>4. \A i \in 1 .. Len(c) : \A s \in Nat : CommandFits(n, c[i], r, s)
   BY <1>1, <2>2 DEF CommandFits, ConfigOps
 <2> QED  BY <2>2, <2>3, <2>4 DEF c
<1>2. CASE n # SenderNode
 <2> DEFINE c == ConfigRequests(n, r)
 <2>1. c = <<[op |-> "receiver", name |-> r]>>  BY <1>2 DEF RequestsOf, ConfigRequests
 <2>2. c \in Seq(CommandMessages) /\ Len(c) = 1 /\ c[1].op = "receiver" /\ c[1].name = r
   BY <2>1 DEF CommandMessages, ConfigOps
 <2> HIDE DEF c
 <2>3. /\ Without(c, {"start", "stop", "fault"}) /\ ~Without(c, ConfigOps)
       /\ EndsWith(c, LastRequest(n), r)
   BY <1>2, <2>2 DEF Without, EndsWith, LastRequest, ConfigOps
 <2>4. \A i \in 1 .. Len(c) : \A s \in Nat : CommandFits(n, c[i], r, s)
   BY <1>2, <2>2 DEF CommandFits, ConfigOps
 <2> QED  BY <2>2, <2>3, <2>4 DEF c
<1> QED  BY <1>1, <1>2

\* Messages of the kinds a queue lacks stay lacking when only others are added.
LEMMA AddedQueue ==
    ASSUME PrepTypes, NEW added, Adds(added)
    PROVE  /\ commands' \in [Nodes -> Seq(CommandMessages)]
           /\ \A n \in Nodes : /\ commands'[n] = commands[n] \o added[n]
                               /\ commands[n] \in Seq(CommandMessages)
                               /\ added[n] \in Seq(CommandMessages)
  BY JoinOf DEF PrepTypes, Adds

LEMMA AddedFit ==
    ASSUME NEW n, NEW q \in Seq(CommandMessages), NEW m \in Seq(CommandMessages),
           NEW last \in Nat, NEW started \in Nat, NEW older \in Nat, NEW before \in Nat,
           older <= last, before <= started,
           \A i \in 1 .. Len(q) : CommandFits(n, q[i], older, before),
           \A i \in 1 .. Len(m) : CommandFits(n, m[i], last, started)
    PROVE  \A i \in 1 .. Len(q \o m) : CommandFits(n, (q \o m)[i], last, started)
<1> TAKE i \in 1 .. Len(q \o m)
<1>1. CASE i \in 1 .. Len(q)
 <2>1. q[i] \in CommandMessages  BY <1>1
 <2>2. CommandFits(n, q[i], last, started)  BY <1>1, <2>1 DEF CommandFits, CommandMessages
 <2> QED  BY <1>1, <2>2, JoinOf
<1>2. CASE i \notin 1 .. Len(q)  BY <1>2, JoinOf
<1> QED  BY <1>1, <1>2

\* What the two outcomes of a preparation have in common.
Configures(added) ==
    /\ Adds(added) /\ ~inRound /\ preparations' = preparations + 1 /\ preparations < LastPreparation
    /\ \A n \in Nodes : added[n] = <<>> \/ added[n] = ConfigRequests(n, preparations')
    /\ roundId' \in {0, preparations'} /\ participants' \subseteq Nodes /\ received' = {}
    /\ pendingConfig' \subseteq AckNames
    /\ roundId' = 0 => participants' = {} /\ pendingConfig' = {}
    /\ roundId' # 0 => SenderNode \in participants'
    /\ \A n \in participants' : /\ added[n] = ConfigRequests(n, preparations')
                                /\ <<roundId', LastRequest(n), n>> \in pendingConfig'
    /\ rejected' = FALSE /\ configReady' = FALSE /\ faultConfigured' = FALSE
    /\ faultPending' = FALSE /\ faultRejected' = FALSE /\ faultReady' = FALSE
    /\ stoppedOnce' = FALSE
    /\ UNCHANGED <<inRound, roundStarts, unreachable, nodeSide, online, replies, losses>>

LEMMA CommandOf ==
    ASSUME NEW q \in Seq(CommandMessages), NEW i \in 1 .. Len(q)
    PROVE  q[i].name \in Nat /\ q[i].op \in ConfigOps \union {"fault", "start", "stop"}
<1>1. q[i] \in CommandMessages  OBVIOUS
<1> QED  BY <1>1 DEF CommandMessages

LEMMA ConfiguresOK ==
    ASSUME PrepInv, NEW added, Configures(added)
    PROVE  PrepInv'
<1> USE DEF PrepInv
<1> DEFINE last == preparations + 1
<1>0. /\ preparations' = last /\ last \in Nat /\ last > preparations /\ preparations \in Nat
      /\ ~inRound /\ ~inRound' /\ Adds(added) /\ roundStarts' = roundStarts /\ replies' = replies
      /\ prepared' = prepared /\ nodeRuns' = nodeRuns /\ unreachable' = unreachable
      /\ roundStarts \in Nat
  BY DEF Configures, PrepTypes, nodeSide
<1>1. /\ commands' \in [Nodes -> Seq(CommandMessages)]
      /\ \A n \in Nodes : /\ commands'[n] = commands[n] \o added[n]
                          /\ commands[n] \in Seq(CommandMessages)
                          /\ added[n] \in Seq(CommandMessages)
  BY <1>0, AddedQueue
<1>2. \A n \in Nodes :
        /\ Without(added[n], {"start", "stop", "fault"})
        /\ EndsWith(added[n], LastRequest(n), last)
        /\ \A i \in 1 .. Len(added[n]) : CommandFits(n, added[n][i], last, roundStarts)
 <2> TAKE n \in Nodes
 <2>1. CASE added[n] = <<>>  BY <2>1, EmptyQueue
 <2>2. CASE added[n] = ConfigRequests(n, last)  BY <1>0, <2>2, RequestParts
 <2> QED  BY <1>0, <2>1, <2>2 DEF Configures
<1>3. \A n \in participants' : n \in Nodes /\ ~Without(added[n], ConfigOps)
  BY <1>0, RequestParts DEF Configures
<1> HIDE DEF last
<1>4. PrepTypes'
 <2>1. \A n \in Nodes : prepared'[n] <= preparations'  BY <1>0 DEF PrepTypes
 <2>2. /\ roundId' \in {0, preparations'} /\ preparations' \in Nat
       /\ preparations' <= LastPreparation
   BY <1>0, PreparationParameters DEF Configures, last
 <2>3. /\ rejected' = FALSE /\ configReady' = FALSE /\ inRound' = inRound
       /\ faultConfigured' = FALSE /\ faultPending' = FALSE
       /\ faultRejected' = FALSE /\ faultReady' = FALSE /\ stoppedOnce' = FALSE
       /\ nodeFault' = nodeFault /\ online' = online /\ pendingConfig' \subseteq AckNames
   BY DEF Configures, nodeSide
 <2>4. /\ commands' \in [Nodes -> Seq(CommandMessages)]
       /\ replies' \in [Nodes -> Seq(ReplyMessages)]
       /\ roundStarts' \in Nat /\ roundStarts' <= MaxRoundStarts
       /\ prepared' \in [Nodes -> Nat]
       /\ nodeRuns' \in [Nodes -> Nat] /\ \A n \in Nodes : nodeRuns'[n] <= roundStarts'
       /\ online \in [Nodes -> BOOLEAN] /\ inRound \in BOOLEAN /\ nodeFault \in BOOLEAN
   BY <1>0, <1>1 DEF PrepTypes
 <2> QED  BY <2>1, <2>2, <2>3, <2>4 DEF PrepTypes
<1>5. FlagsFit'  BY <1>0 DEF FlagsFit, Configures
<1>6. MessagesFit'
 <2> SUFFICES ASSUME NEW n \in Nodes
              PROVE  /\ \A i \in 1 .. Len(commands'[n]) :
                           CommandFits(n, commands'[n][i], last, roundStarts)
                     /\ \A i \in 1 .. Len(replies[n]) : ReplyFits(n, replies[n][i], last)
   BY <1>0 DEF MessagesFit
 <2>1. \A i \in 1 .. Len(commands[n]) : CommandFits(n, commands[n][i], preparations, roundStarts)
   BY DEF MessagesFit
 <2>2. \A i \in 1 .. Len(commands'[n]) : CommandFits(n, commands'[n][i], last, roundStarts)
  <3> DEFINE q == commands[n]
             m == added[n]
  <3>1. /\ q \in Seq(CommandMessages) /\ m \in Seq(CommandMessages) /\ commands'[n] = q \o m
        /\ \A i \in 1 .. Len(m) : CommandFits(n, m[i], last, roundStarts)
    BY <1>1, <1>2
  <3> HIDE DEF q, m
  <3>2. \A i \in 1 .. Len(q) : CommandFits(n, q[i], preparations, roundStarts)  BY <2>1 DEF q
  <3>3. preparations <= last /\ roundStarts <= roundStarts  BY <1>0
  <3>4. \A i \in 1 .. Len(q \o m) : CommandFits(n, (q \o m)[i], last, roundStarts)
    BY <1>0, <3>1, <3>2, <3>3, AddedFit
  <3> QED  BY <3>1, <3>4
 <2>3. ASSUME NEW i \in 1 .. Len(replies[n]) PROVE ReplyFits(n, replies[n][i], last)
   BY <1>0 DEF MessagesFit, ReplyFits, AckNames
 <2> QED  BY <2>2, <2>3
<1>7. LastIsLast'
 <2> SUFFICES ASSUME NEW n \in Nodes PROVE EndsWith(commands'[n], LastRequest(n), last)
   BY <1>0 DEF LastIsLast, LastRequest
 <2>1. \A i \in 1 .. Len(commands[n]) :
           ~(commands[n][i].op = LastRequest(n) /\ commands[n][i].name = last)
  <3> TAKE i \in 1 .. Len(commands[n])
  <3>1. CommandFits(n, commands[n][i], preparations, roundStarts) /\ LastRequest(n) \in ConfigOps
    BY DEF MessagesFit, LastRequest, ConfigOps
  <3>2. commands[n][i].name \in Nat  BY <1>1, CommandOf
  <3> QED  BY <1>0, <3>1, <3>2 DEF CommandFits
 <2> QED  BY <1>1, <1>2, <2>1, EndsJoin
<1>8. AnsweredHolds'
 <2> SUFFICES ASSUME roundId' # 0, NEW n \in participants', NEW i \in 1 .. Len(replies[n]),
                     Confirms(n, replies[n][i])'
              PROVE  FALSE
   BY <1>0 DEF AnsweredHolds, Configures, LastRequest
 <2>1. roundId' = last /\ n \in Nodes  BY <1>0 DEF Configures
 <2>2. ReplyFits(n, replies[n][i], preparations) /\ replies[n][i].type = "config"
       /\ replies[n][i].name[1] = last
   BY <1>0, <2>1 DEF MessagesFit, Confirms
 <2> QED  BY <1>0, <2>2 DEF ReplyFits
<1>9. OldStopsFirst'
 <2> SUFFICES ASSUME NEW n \in participants'
              PROVE  FollowedBy(commands'[n], {"stop"}, ConfigOps)
   BY DEF OldStopsFirst
 <2>1. n \in Nodes /\ ~Without(added[n], ConfigOps) /\ Without(added[n], {"start", "stop", "fault"})
   BY <1>2, <1>3
 <2>2. FollowedBy(added[n], {"stop"}, ConfigOps)  BY <2>1 DEF Without, FollowedBy
 <2> QED  BY <1>1, <2>1, <2>2, FollowedJoin
<1>10. FaultHeld'
 <2> SUFFICES ASSUME roundId' # 0
              PROVE  /\ \A i \in 1 .. Len(commands'[SenderNode]) :
                           ~(/\ commands'[SenderNode][i].op = "fault"
                             /\ commands'[SenderNode][i].name = last)
                     /\ \A i \in 1 .. Len(replies[SenderNode]) :
                           ~AcceptsFault(replies[SenderNode][i])'
   BY <1>0 DEF FaultHeld, Configures
 <2>0. SenderNode \in Nodes /\ roundId' = last  BY <1>0, PreparationParameters DEF Configures
 <2>1. ASSUME NEW i \in 1 .. Len(commands'[SenderNode]), commands'[SenderNode][i].op = "fault"
       PROVE  commands'[SenderNode][i].name # last
  <3> DEFINE q == commands[SenderNode]
             m == added[SenderNode]
  <3>1. q \in Seq(CommandMessages) /\ m \in Seq(CommandMessages) /\ commands'[SenderNode] = q \o m
    BY <1>1, <2>0
  <3>2. Without(m, {"start", "stop", "fault"})  BY <1>2, <2>0
  <3>3. \A k \in 1 .. Len(q) : CommandFits(SenderNode, q[k], preparations, roundStarts)
    BY <2>0 DEF MessagesFit
  <3> HIDE DEF q, m
  <3>4. i \in 1 .. Len(q) /\ q[i].op = "fault" /\ commands'[SenderNode][i] = q[i]
    BY <2>1, <3>1, <3>2, JoinOf DEF Without
  <3>5. q[i].name \in Nat /\ q[i].name <= preparations
    BY <3>1, <3>3, <3>4, CommandOf DEF CommandFits
  <3> QED  BY <1>0, <3>4, <3>5
 <2>2. ASSUME NEW i \in 1 .. Len(replies[SenderNode]), AcceptsFault(replies[SenderNode][i])'
       PROVE  FALSE
   BY <1>0, <2>0, <2>2 DEF MessagesFit, AcceptsFault, ReplyFits
 <2> QED  BY <2>1, <2>2
<1>11. StopsBehindStarts'
 <2> SUFFICES ASSUME NEW n \in Nodes \ unreachable
              PROVE  /\ FollowedBy(commands'[n], {"start"}, {"stop"})
                     /\ nodeRuns[n] # 0 => ~Without(commands'[n], {"stop"})
   BY <1>0 DEF StopsBehindStarts
 <2>1. /\ FollowedBy(commands[n], {"start"}, {"stop"})
       /\ nodeRuns[n] # 0 => ~Without(commands[n], {"stop"})
   BY <1>0 DEF StopsBehindStarts
 <2>2. FollowedBy(added[n], {"start"}, {"stop"})  BY <1>2 DEF Without, FollowedBy
 <2>3. FollowedBy(commands'[n], {"start"}, {"stop"})
  <3>1. FollowedBy(commands[n] \o added[n], {"start"}, {"stop"})  BY <1>1, <2>1, <2>2, FollowedJoin
  <3> QED  BY <1>1, <3>1
 <2>4. Without(commands'[n], {"stop"}) => Without(commands[n], {"stop"})  BY <1>1, WithoutJoin
 <2> QED  BY <2>1, <2>3, <2>4
<1>12. OneStart'  BY <1>0 DEF OneStart
<1> QED  BY <1>4, <1>5, <1>6, <1>7, <1>8, <1>9, <1>10, <1>11, <1>12

LEMMA PrepareNodesOK ==
    ASSUME PrepInv, PrepareNodes
    PROVE  PrepInv'
<1> DEFINE last == preparations + 1
           added == [n \in Nodes |-> IF online[n] THEN ConfigRequests(n, last) ELSE <<>>]
<1>0. last \in Nat \ {0} /\ preparations' = last /\ roundId' = last
  BY DEF PrepareNodes, PrepInv, PrepTypes
<1>1. added \in [Nodes -> Seq(CommandMessages)]  BY <1>0, RequestParts, EmptyQueue
<1>2. commands' = [n \in Nodes |-> commands[n] \o added[n]]
 <2>1. \A n \in Nodes : commands[n] \in Seq(CommandMessages)  BY DEF PrepInv, PrepTypes
 <2>2. \A n \in Nodes : commands[n] \o <<>> = commands[n]  BY <2>1
 <2>3. \A n \in Nodes : (IF online[n] THEN commands[n] \o ConfigRequests(n, last)
                         ELSE commands[n]) = commands[n] \o added[n]
   BY <2>2
 <2>4. commands' = [n \in Nodes |-> IF online[n] THEN commands[n] \o ConfigRequests(n, last)
                                    ELSE commands[n]]
   BY <1>0 DEF PrepareNodes
 <2> HIDE DEF added
 <2> QED  BY <2>3, <2>4
<1>3. \A n \in Nodes : \A i \in DOMAIN RequestsOf(n) : RequestsOf(n)[i] \in ConfigOps
  BY DEF RequestsOf, ConfigOps
<1>4. \A n \in Nodes : \E i \in DOMAIN RequestsOf(n) : RequestsOf(n)[i] = LastRequest(n)
 <2> TAKE n \in Nodes
 <2>1. CASE n = SenderNode  BY <2>1 DEF RequestsOf, LastRequest
 <2>2. CASE n # SenderNode  BY <2>2 DEF RequestsOf, LastRequest
 <2> QED  BY <2>1, <2>2
<1>5. Connected \subseteq Nodes /\ \A n \in Connected : added[n] = ConfigRequests(n, last)
  BY DEF Connected
<1>6. pendingConfig' = UNION {{<<last, RequestsOf(n)[i], n>> : i \in DOMAIN RequestsOf(n)}
                                : n \in Connected}
  BY <1>0 DEF PrepareNodes
<1>7. pendingConfig' \subseteq AckNames
 <2> SUFFICES ASSUME NEW x \in pendingConfig' PROVE x \in AckNames  OBVIOUS
 <2>1. PICK n \in Connected : x \in {<<last, RequestsOf(n)[i], n>> : i \in DOMAIN RequestsOf(n)}
   BY <1>6
 <2>2. PICK i \in DOMAIN RequestsOf(n) : x = <<last, RequestsOf(n)[i], n>>  BY <2>1
 <2> QED  BY <1>0, <1>3, <1>5, <2>2 DEF AckNames
<1>8. \A n \in Connected : <<last, LastRequest(n), n>> \in pendingConfig'
 <2> TAKE n \in Connected
 <2>1. PICK i \in DOMAIN RequestsOf(n) : RequestsOf(n)[i] = LastRequest(n)  BY <1>4, <1>5
 <2>2. <<last, LastRequest(n), n>> \in {<<last, RequestsOf(n)[k], n>> : k \in DOMAIN RequestsOf(n)}
   BY <2>1
 <2> QED  BY <1>6, <2>2
<1>9. \A n \in Nodes : added[n] = <<>> \/ added[n] = ConfigRequests(n, last)  OBVIOUS
<1> HIDE DEF added
<1>10. Configures(added)
  BY <1>0, <1>1, <1>2, <1>5, <1>7, <1>8, <1>9 DEF Configures, Adds, PrepareNodes
<1> QED  BY <1>10, ConfiguresOK

LEMMA PrepareFailsOK ==
    ASSUME PrepInv, PrepareFails
    PROVE  PrepInv'
<1> DEFINE last == preparations + 1
<1>0. last \in Nat \ {0} /\ preparations' = last /\ SenderNode \in Nodes
      /\ commands \in [Nodes -> Seq(CommandMessages)]
  BY PreparationParameters DEF PrepareFails, PrepInv, PrepTypes
<1>1. \A n \in Nodes : commands[n] \o <<>> = commands[n]  BY <1>0
<1>2. PICK added : /\ added \in [Nodes -> Seq(CommandMessages)]
                  /\ commands' = [n \in Nodes |-> commands[n] \o added[n]]
                  /\ \A n \in Nodes : added[n] = <<>> \/ added[n] = ConfigRequests(n, last)
 <2>1. CASE UNCHANGED commands
  <3> DEFINE added == [n \in Nodes |-> <<>>]
  <3>1. \A n \in Nodes : added[n] = <<>>  OBVIOUS
  <3>2. added \in [Nodes -> Seq(CommandMessages)]  OBVIOUS
  <3> HIDE DEF added
  <3>3. commands' = [n \in Nodes |-> commands[n] \o added[n]]  BY <1>0, <1>1, <2>1, <3>1
  <3> QED  BY <3>1, <3>2, <3>3
 <2>2. CASE commands' = SentTo({SenderNode}, ConfigRequests(SenderNode, last))
  <3> DEFINE added == [n \in Nodes |-> IF n \in {SenderNode} /\ online[n]
                                      THEN ConfigRequests(SenderNode, last) ELSE <<>>]
  <3>1. \A n \in Nodes : added[n] = <<>> \/ added[n] = ConfigRequests(n, last)  OBVIOUS
  <3>2. added \in [Nodes -> Seq(CommandMessages)]  BY <1>0, RequestParts
  <3>3. \A n \in Nodes : (IF n \in {SenderNode} /\ online[n]
                          THEN commands[n] \o ConfigRequests(SenderNode, last)
                          ELSE commands[n]) = commands[n] \o added[n]
    BY <1>1
  <3> HIDE DEF added
  <3>4. commands' = [n \in Nodes |-> commands[n] \o added[n]]  BY <2>2, <3>3 DEF SentTo
  <3> QED  BY <3>1, <3>2, <3>4
 <2> QED  BY <1>0, <2>1, <2>2 DEF PrepareFails
<1>3. Configures(added)  BY <1>0, <1>2 DEF Configures, Adds, PrepareFails, ResetPreparedRound
<1> QED  BY <1>3, ConfiguresOK

-----------------------------------------------------------------------------
(* Starting, stopping and the fault plan.                                   *)

\* What the manager says without asking for a configuration.
Instructs(added) ==
    /\ Adds(added)
    /\ \A n \in Nodes :
          /\ Without(added[n], ConfigOps)
          /\ \A i \in 1 .. Len(added[n]) : CommandFits(n, added[n][i], preparations, roundStarts')
          /\ stoppedOnce' \/ Without(added[n], {"stop"})
    /\ roundStarts' \in Nat /\ roundStarts' >= roundStarts /\ (stoppedOnce => stoppedOnce')
    /\ UNCHANGED <<roundId, preparations, participants, configVars, nodeSide, online, replies>>

LEMMA InstructsOK ==
    ASSUME PrepInv, NEW added, Instructs(added)
    PROVE  /\ commands' \in [Nodes -> Seq(CommandMessages)]
           /\ \A n \in Nodes : /\ commands'[n] = commands[n] \o added[n]
                               /\ commands[n] \in Seq(CommandMessages)
                               /\ added[n] \in Seq(CommandMessages)
           /\ \A n \in Nodes : HoldsRound(n)' = HoldsRound(n)
           /\ MessagesFit' /\ LastIsLast' /\ AnsweredHolds' /\ OldStopsFirst'
<1> USE DEF PrepInv
<1>0. /\ preparations' = preparations /\ roundId' = roundId /\ replies' = replies
      /\ participants' = participants /\ participants \subseteq Nodes /\ prepared' = prepared
      /\ pendingConfig' = pendingConfig /\ rejected' = rejected /\ Adds(added)
      /\ preparations \in Nat /\ roundStarts \in Nat /\ roundStarts' \in Nat
      /\ roundStarts <= roundStarts' /\ preparations <= preparations
  BY DEF Instructs, nodeSide, configVars, PrepTypes, FlagsFit
<1>1. /\ commands' \in [Nodes -> Seq(CommandMessages)]
      /\ \A n \in Nodes : /\ commands'[n] = commands[n] \o added[n]
                          /\ commands[n] \in Seq(CommandMessages)
                          /\ added[n] \in Seq(CommandMessages)
  BY <1>0, AddedQueue
<1>2. \A n \in Nodes :
          /\ Without(added[n], ConfigOps)
          /\ \A i \in 1 .. Len(added[n]) : CommandFits(n, added[n][i], preparations, roundStarts')
  BY DEF Instructs
<1>3. ASSUME NEW n \in Nodes PROVE HoldsRound(n)' = HoldsRound(n)
 <2>1. Without(commands[n] \o added[n], ConfigOps) <=>
           Without(commands[n], ConfigOps) /\ Without(added[n], ConfigOps)
   BY <1>1, WithoutJoin
 <2>2. Without(commands'[n], ConfigOps) <=> Without(commands[n], ConfigOps)  BY <1>1, <1>2, <2>1
 <2>3. HoldsRound(n)' <=> HoldsRound(n)  BY <1>0, <2>2 DEF HoldsRound
 <2>4. HoldsRound(n)' \in BOOLEAN /\ HoldsRound(n) \in BOOLEAN  BY DEF HoldsRound, Without
 <2> QED  BY <2>3, <2>4
<1>4. MessagesFit'
 <2> SUFFICES ASSUME NEW n \in Nodes
              PROVE  /\ \A i \in 1 .. Len(commands'[n]) :
                           CommandFits(n, commands'[n][i], preparations, roundStarts')
                     /\ \A i \in 1 .. Len(replies[n]) : ReplyFits(n, replies[n][i], preparations)
   BY <1>0 DEF MessagesFit
 <2>1. /\ \A i \in 1 .. Len(commands[n]) :
             CommandFits(n, commands[n][i], preparations, roundStarts)
       /\ \A i \in 1 .. Len(replies[n]) : ReplyFits(n, replies[n][i], preparations)
   BY DEF MessagesFit
 <2> DEFINE q == commands[n]
            m == added[n]
 <2>2. /\ q \in Seq(CommandMessages) /\ m \in Seq(CommandMessages) /\ commands'[n] = q \o m
       /\ \A i \in 1 .. Len(m) : CommandFits(n, m[i], preparations, roundStarts')
       /\ \A i \in 1 .. Len(q) : CommandFits(n, q[i], preparations, roundStarts)
   BY <1>1, <1>2, <2>1
 <2> HIDE DEF q, m
 <2>3. \A i \in 1 .. Len(q \o m) : CommandFits(n, (q \o m)[i], preparations, roundStarts')
   BY <1>0, <2>2, AddedFit
 <2> QED  BY <2>1, <2>2, <2>3
<1>5. LastIsLast'
 <2> SUFFICES ASSUME NEW n \in Nodes PROVE EndsWith(commands'[n], LastRequest(n), preparations)
   BY <1>0 DEF LastIsLast, LastRequest
 <2>1. EndsWith(commands[n] \o added[n], LastRequest(n), preparations)
   BY <1>1, <1>2, EndsJoin DEF LastIsLast
 <2> QED  BY <1>1, <2>1
<1>6. AnsweredHolds'
 <2> SUFFICES ASSUME roundId # 0, NEW n \in participants
              PROVE  /\ ~rejected /\ <<roundId, LastRequest(n), n>> \notin pendingConfig
                           => HoldsRound(n)
                     /\ \A i \in 1 .. Len(replies[n]) :
                           Confirms(n, replies[n][i]) => HoldsRound(n)
  <3>1. \A n \in participants : HoldsRound(n)' = HoldsRound(n)  BY <1>0, <1>3
  <3>2. \A n \in participants : \A i \in 1 .. Len(replies[n]) :
            Confirms(n, replies[n][i])' = Confirms(n, replies[n][i])
    BY <1>0 DEF Confirms, LastRequest
  <3>3. \A n : LastRequest(n)' = LastRequest(n)  BY DEF LastRequest
  <3> QED  BY <1>0, <3>1, <3>2, <3>3 DEF AnsweredHolds
 <2> QED  BY DEF AnsweredHolds
<1>7. OldStopsFirst'
 <2> SUFFICES ASSUME roundId # 0, ~stoppedOnce', NEW n \in participants
              PROVE  FollowedBy(commands'[n], {"stop"}, ConfigOps)
   BY <1>0 DEF OldStopsFirst
 <2>1. n \in Nodes /\ ~stoppedOnce /\ Without(added[n], {"stop"})  BY <1>0 DEF Instructs
 <2>2. FollowedBy(commands[n], {"stop"}, ConfigOps) /\ FollowedBy(added[n], {"stop"}, ConfigOps)
   BY <2>1 DEF OldStopsFirst, Without, FollowedBy
 <2>3. FollowedBy(commands[n] \o added[n], {"stop"}, ConfigOps)  BY <1>1, <2>1, <2>2, FollowedJoin
 <2> QED  BY <1>1, <2>1, <2>3
<1> QED  BY <1>1, <1>3, <1>4, <1>5, <1>6, <1>7

LEMMA SentIsAdded ==
    ASSUME PrepTypes, NEW who, NEW m \in Seq(CommandMessages), commands' = SentTo(who, m),
           NEW added, added = [n \in Nodes |-> IF n \in who /\ online[n] THEN m ELSE <<>>]
    PROVE  /\ Adds(added)
           /\ \A n \in Nodes : /\ added[n] = <<>> \/ (n \in who /\ online[n] /\ added[n] = m)
                               /\ (n \in who /\ online[n]) => added[n] = m
<1>0. \A n \in Nodes : commands[n] \in Seq(CommandMessages)  BY DEF PrepTypes
<1>1. \A n \in Nodes : commands[n] \o <<>> = commands[n]  BY <1>0
<1>2. \A n \in Nodes : (IF n \in who /\ online[n] THEN commands[n] \o m ELSE commands[n])
          = commands[n] \o added[n]
  BY <1>1
<1>3. added \in [Nodes -> Seq(CommandMessages)]  BY EmptyQueue
<1>4. \A n \in Nodes : /\ added[n] = <<>> \/ (n \in who /\ online[n] /\ added[n] = m)
                       /\ (n \in who /\ online[n]) => added[n] = m
  OBVIOUS
<1>5. commands' = [n \in Nodes |-> commands[n] \o added[n]]  BY <1>2 DEF SentTo
<1>6. Adds(added)  BY <1>3, <1>5 DEF Adds
<1> QED  BY <1>4, <1>6

LEMMA OneMessage ==
    ASSUME NEW op \in {"fault", "start", "stop"}, NEW name \in Nat
    PROVE  LET m == <<[op |-> op, name |-> name]>> IN
           m \in Seq(CommandMessages) /\ Len(m) = 1 /\ m[1].op = op /\ m[1].name = name
<1> DEFINE r == [op |-> op, name |-> name]
<1>1. r \in CommandMessages /\ r.op = op /\ r.name = name  BY DEF CommandMessages
<1> HIDE DEF r
<1>2. <<r>> \in Seq(CommandMessages) /\ Len(<<r>>) = 1 /\ <<r>>[1] = r  BY <1>1
<1> QED  BY <1>1, <1>2 DEF r

LEMMA NoFaultSent ==
    ASSUME PrepInv, NEW added, Instructs(added), Without(added[SenderNode], {"fault"}),
           UNCHANGED faultFlags
    PROVE  FaultHeld'
<1>0. /\ SenderNode \in Nodes /\ roundId' = roundId /\ faultConfigured' = faultConfigured
      /\ replies' = replies /\ (stoppedOnce => stoppedOnce') /\ faultReady' = faultReady
      /\ nodeFault' = nodeFault
  BY PreparationParameters DEF Instructs, faultFlags, nodeSide
<1>1. ASSUME NEW i \in 1 .. Len(commands'[SenderNode]), commands'[SenderNode][i].op = "fault"
      PROVE  /\ i \in 1 .. Len(commands[SenderNode])
             /\ commands'[SenderNode][i] = commands[SenderNode][i]
 <2> DEFINE q == commands[SenderNode]
            m == added[SenderNode]
 <2>1. /\ q \in Seq(CommandMessages) /\ m \in Seq(CommandMessages)
       /\ commands'[SenderNode] = q \o m /\ Without(m, {"fault"})
   BY <1>0, InstructsOK
 <2> HIDE DEF q, m
 <2>2. i \in 1 .. Len(q) /\ commands'[SenderNode][i] = q[i]  BY <1>1, <2>1, JoinOf DEF Without
 <2> QED  BY <2>2 DEF q
<1>2. \A i \in 1 .. Len(replies[SenderNode]) :
          AcceptsFault(replies[SenderNode][i])' <=> AcceptsFault(replies[SenderNode][i])
  BY <1>0 DEF AcceptsFault
<1>3. HoldsRound(SenderNode)' = HoldsRound(SenderNode)  BY <1>0, InstructsOK
<1>4. FaultHeld  BY DEF PrepInv
<1> QED  BY <1>0, <1>1, <1>2, <1>3, <1>4 DEF FaultHeld

LEMMA StopAllOK ==
    ASSUME PrepInv, StopAll
    PROVE  PrepInv'
<1> USE DEF PrepInv
<1> DEFINE stop == <<[op |-> "stop", name |-> 0]>>
           added == [n \in Nodes |-> IF n \in participants /\ online[n] THEN stop ELSE <<>>]
<1> HIDE DEF added
<1>0. /\ stop \in Seq(CommandMessages) /\ Len(stop) = 1 /\ stop[1].op = "stop"
      /\ stop[1].name = 0 /\ commands' = SentTo(participants, stop)
  BY OneMessage DEF StopAll
<1>1. /\ Adds(added)
      /\ \A n \in Nodes : /\ added[n] = <<>> \/ (n \in participants /\ online[n] /\ added[n] = stop)
                          /\ (n \in participants /\ online[n]) => added[n] = stop
 <2> HIDE DEF stop
 <2>1. added = [n \in Nodes |-> IF n \in participants /\ online[n] THEN stop ELSE <<>>]
   BY DEF added
 <2> QED  BY <1>0, <2>1, SentIsAdded
<1> HIDE DEF stop
<1>2. /\ Without(stop, ConfigOps \union {"start", "fault"}) /\ ~Without(stop, {"stop"})
      /\ \A n \in Nodes : CommandFits(n, stop[1], preparations, roundStarts')
  BY <1>0 DEF Without, ConfigOps, CommandFits
<1>3. \A n \in Nodes : /\ Without(added[n], ConfigOps \union {"start", "fault"})
                       /\ \A i \in 1 .. Len(added[n]) :
                             CommandFits(n, added[n][i], preparations, roundStarts')
 <2> TAKE n \in Nodes
 <2>1. CASE added[n] = <<>>  BY <2>1, EmptyQueue
 <2>2. CASE added[n] = stop
  <3>1. ASSUME NEW i \in 1 .. Len(added[n])
        PROVE  CommandFits(n, added[n][i], preparations, roundStarts')
   <4>1. added[n][i] = stop[1]
    <5>1. Len(added[n]) = 1  BY <1>0, <2>2
    <5>2. i = 1  BY <5>1
    <5> QED  BY <2>2, <5>2
   <4> QED  BY <1>2, <4>1
  <3> QED  BY <1>2, <2>2, <3>1
 <2> QED  BY <1>1, <2>1, <2>2
<1>4. Instructs(added)  BY <1>1, <1>3 DEF StopAll, PrepTypes, Without, Instructs
<1>5. /\ commands' \in [Nodes -> Seq(CommandMessages)]
      /\ \A n \in Nodes : /\ commands'[n] = commands[n] \o added[n]
                          /\ commands[n] \in Seq(CommandMessages)
                          /\ added[n] \in Seq(CommandMessages)
      /\ \A n \in Nodes : HoldsRound(n)' = HoldsRound(n)
      /\ MessagesFit' /\ LastIsLast' /\ AnsweredHolds' /\ OldStopsFirst'
  BY <1>4, InstructsOK
<1>6. PrepTypes'  BY <1>5 DEF StopAll, PrepTypes, nodeSide, configVars, faultFlags
<1>7. FlagsFit'  BY DEF FlagsFit, StopAll, configVars, faultFlags, FaultSettled
<1>8. FaultHeld'  BY <1>3, <1>4, PreparationParameters, NoFaultSent DEF Without, StopAll
<1>9. StopsBehindStarts'
 <2> SUFFICES ASSUME ~inRound', NEW n \in Nodes \ unreachable'
              PROVE  /\ FollowedBy(commands'[n], {"start"}, {"stop"})
                     /\ nodeRuns'[n] # 0 => ~Without(commands'[n], {"stop"})
   BY DEF StopsBehindStarts
 <2>0. inRound /\ participants \subseteq Connected /\ nodeRuns' = nodeRuns  BY DEF StopAll, nodeSide
 <2>1. FollowedBy(added[n], {"start"}, {"stop"})  BY <1>3 DEF FollowedBy, Without
 <2>2. CASE n \in participants
  <3>1. added[n] = stop  BY <1>1, <2>0, <2>2 DEF Connected
  <3>2. FollowedBy(commands[n] \o added[n], {"start"}, {"stop"})
    BY <1>2, <1>5, <2>1, <3>1, FollowedJoin
  <3>3. Without(commands[n] \o added[n], {"stop"}) <=>
            Without(commands[n], {"stop"}) /\ Without(added[n], {"stop"})
    BY <1>5, WithoutJoin
  <3> QED  BY <1>2, <1>5, <3>1, <3>2, <3>3
 <2>3. CASE n \notin participants
  <3>1. IsOver(n)  BY <2>3 DEF IsOver
  <3>2. Without(commands[n], {"start"}) /\ nodeRuns[n] = 0  BY <2>0, <3>1 DEF OneStart
  <3>3. FollowedBy(commands[n], {"start"}, {"stop"})  BY <3>2 DEF FollowedBy, Without
  <3>4. FollowedBy(commands[n] \o added[n], {"start"}, {"stop"})  BY <1>5, <2>1, <3>3, FollowedJoin
  <3> QED  BY <1>5, <2>0, <3>2, <3>4
 <2> QED  BY <2>2, <2>3
<1>10. OneStart'
 <2> SUFFICES ASSUME inRound', NEW n \in Nodes
              PROVE  /\ StartsOnce(commands'[n])
                     /\ nodeRuns'[n] # 0 \/ IsOver(n)' => Without(commands'[n], {"start"})
                     /\ IsOver(n)' => nodeRuns'[n] = 0
   BY DEF OneStart
 <2>0. inRound /\ nodeRuns' = nodeRuns /\ (IsOver(n)' <=> IsOver(n))
   BY DEF StopAll, nodeSide, IsOver, HasResult
 <2>1. /\ StartsOnce(commands[n])
       /\ nodeRuns[n] # 0 \/ IsOver(n) => Without(commands[n], {"start"})
       /\ IsOver(n) => nodeRuns[n] = 0
   BY <2>0 DEF OneStart
 <2>2. Without(added[n], {"start"}) /\ StartsOnce(added[n])  BY <1>3 DEF Without, StartsOnce
 <2>3. StartsOnce(commands[n] \o added[n])  BY <1>5, <2>1, <2>2, StartsJoin
 <2>4. Without(commands[n] \o added[n], {"start"}) <=>
           Without(commands[n], {"start"}) /\ Without(added[n], {"start"})
   BY <1>5, WithoutJoin
 <2> QED  BY <1>5, <2>0, <2>1, <2>2, <2>3, <2>4
<1> QED  BY <1>5, <1>6, <1>7, <1>8, <1>9, <1>10

LEMMA ConfigureFaultPlanOK ==
    ASSUME PrepInv, ConfigureFaultPlan
    PROVE  PrepInv'
<1> DEFINE fault == <<[op |-> "fault", name |-> roundId]>>
           added == [n \in Nodes |-> IF n \in {SenderNode} /\ online[n] THEN fault ELSE <<>>]
<1> HIDE DEF added
<1>a. /\ PrepTypes /\ FlagsFit /\ AnsweredHolds /\ FaultHeld /\ StopsBehindStarts /\ OneStart
  BY DEF PrepInv
<1>0. /\ fault \in Seq(CommandMessages) /\ Len(fault) = 1 /\ fault[1].op = "fault"
      /\ fault[1].name = roundId /\ commands' = SentTo({SenderNode}, fault)
      /\ SenderNode \in Nodes /\ roundId \in Nat /\ roundId <= preparations
  BY <1>a, OneMessage, PreparationParameters DEF PrepTypes, ConfigureFaultPlan
<1> HIDE DEF fault
<1>1. /\ Adds(added)
      /\ \A n \in Nodes : /\ added[n] = <<>> \/ (n \in {SenderNode} /\ online[n] /\ added[n] = fault)
                          /\ (n \in {SenderNode} /\ online[n]) => added[n] = fault
  BY <1>0, <1>a, SentIsAdded DEF added
<1>2. /\ Without(fault, ConfigOps \union {"start", "stop"})
      /\ CommandFits(SenderNode, fault[1], preparations, roundStarts)
  BY <1>0 DEF Without, ConfigOps, CommandFits
<1>3. \A n \in Nodes : /\ Without(added[n], ConfigOps \union {"start", "stop"})
                       /\ \A i \in 1 .. Len(added[n]) :
                             CommandFits(n, added[n][i], preparations, roundStarts)
 <2> TAKE n \in Nodes
 <2>1. CASE added[n] = <<>>  BY <2>1, EmptyQueue
 <2>2. CASE added[n] = fault /\ n = SenderNode
  <3>1. ASSUME NEW i \in 1 .. Len(added[n])
        PROVE  CommandFits(n, added[n][i], preparations, roundStarts)
   <4>1. added[n][i] = fault[1]
    <5>1. Len(added[n]) = 1  BY <1>0, <2>2
    <5>2. i = 1  BY <5>1
    <5> QED  BY <2>2, <5>2
   <4> QED  BY <1>2, <2>2, <4>1
  <3> QED  BY <1>2, <2>2, <3>1
 <2> QED  BY <1>1, <2>1, <2>2
<1>4. Instructs(added)
  BY <1>1, <1>3, <1>a DEF ConfigureFaultPlan, PrepTypes, roundVars, Without, Instructs
<1>5. /\ commands' \in [Nodes -> Seq(CommandMessages)]
      /\ \A n \in Nodes : /\ commands'[n] = commands[n] \o added[n]
                          /\ commands[n] \in Seq(CommandMessages)
                          /\ added[n] \in Seq(CommandMessages)
      /\ \A n \in Nodes : HoldsRound(n)' = HoldsRound(n)
      /\ MessagesFit' /\ LastIsLast' /\ AnsweredHolds' /\ OldStopsFirst'
  BY <1>4, InstructsOK
<1>6. PrepTypes'
  BY <1>0, <1>5, <1>a DEF ConfigureFaultPlan, PrepTypes, nodeSide, configVars, roundVars
<1>7. FlagsFit'  BY <1>a DEF ConfigureFaultPlan, configVars, roundVars, FlagsFit
<1>8. FaultHeld'
  BY <1>0, <1>5, <1>a DEF ConfigureFaultPlan, FlagsFit, roundVars, nodeSide, AnsweredHolds,
     AcceptsFault, FaultHeld
<1>9. StopsBehindStarts'
 <2> SUFFICES ASSUME NEW n \in Nodes \ unreachable
              PROVE  /\ FollowedBy(commands'[n], {"start"}, {"stop"})
                     /\ nodeRuns[n] # 0 => ~Without(commands'[n], {"stop"})
   BY DEF StopsBehindStarts, ConfigureFaultPlan, roundVars, nodeSide
 <2>1. /\ FollowedBy(commands[n], {"start"}, {"stop"})
       /\ nodeRuns[n] # 0 => ~Without(commands[n], {"stop"})
   BY <1>a DEF StopsBehindStarts, ConfigureFaultPlan
 <2>2. FollowedBy(added[n], {"start"}, {"stop"})  BY <1>3 DEF Without, FollowedBy
 <2>3. FollowedBy(commands[n] \o added[n], {"start"}, {"stop"})  BY <1>5, <2>1, <2>2, FollowedJoin
 <2>4. Without(commands[n] \o added[n], {"stop"}) <=>
           Without(commands[n], {"stop"}) /\ Without(added[n], {"stop"})
   BY <1>5, WithoutJoin
 <2> QED  BY <1>5, <2>1, <2>3, <2>4
<1>10. OneStart'  BY DEF OneStart, ConfigureFaultPlan, roundVars
<1> QED  BY <1>5, <1>6, <1>7, <1>8, <1>9, <1>10 DEF PrepInv

\* A start, and a start that is taken back, with nothing on the way before it.
LEMMA StartParts ==
    ASSUME NEW s \in Nat, NEW r \in Nat, NEW last \in Nat
    PROVE  LET start == <<[op |-> "start", name |-> s]>>
               back == start \o RollBack
           IN /\ start \in Seq(CommandMessages) /\ back \in Seq(CommandMessages)
              /\ Without(start, ConfigOps \union {"fault", "stop"})
              /\ Without(back, ConfigOps \union {"fault"})
              /\ StartsOnce(start) /\ FollowedBy(back, {"start"}, {"stop"})
              /\ \A n \in Nodes : \A i \in 1 .. Len(start) : CommandFits(n, start[i], last, s)
              /\ \A n \in Nodes : \A i \in 1 .. Len(back) : CommandFits(n, back[i], last, s)
<1> DEFINE start == <<[op |-> "start", name |-> s]>>
           back == start \o RollBack
<1>1. /\ start \in Seq(CommandMessages) /\ Len(start) = 1
      /\ start[1].op = "start" /\ start[1].name = s
  BY OneMessage
<1>2. /\ RollBack \in Seq(CommandMessages) /\ Len(RollBack) = 1
      /\ RollBack[1].op = "stop" /\ RollBack[1].name = 0
  BY OneMessage DEF RollBack
<1> HIDE DEF start
<1>3. /\ back \in Seq(CommandMessages) /\ Len(back) = 2
      /\ back[1].op = "start" /\ back[1].name = s /\ back[2].op = "stop" /\ back[2].name = 0
  BY <1>1, <1>2, JoinOf
<1> HIDE DEF back
<1>4. Without(start, ConfigOps \union {"fault", "stop"}) /\ StartsOnce(start)
  BY <1>1 DEF Without, ConfigOps, StartsOnce
<1>5. Without(back, ConfigOps \union {"fault"})  BY <1>3 DEF Without, ConfigOps
<1>6. FollowedBy(back, {"start"}, {"stop"})
 <2> SUFFICES ASSUME NEW i \in 1 .. Len(back), back[i].op = "start"
              PROVE  \E j \in i + 1 .. Len(back) : back[j].op = "stop"
   BY DEF FollowedBy
 <2>1. i = 1 /\ 2 \in i + 1 .. Len(back)  BY <1>3
 <2> QED  BY <1>3, <2>1
<1>7. \A n \in Nodes : \A i \in 1 .. Len(start) : CommandFits(n, start[i], last, s)
  BY <1>1 DEF CommandFits, ConfigOps
<1>8. \A n \in Nodes : \A i \in 1 .. Len(back) : CommandFits(n, back[i], last, s)
  BY <1>3 DEF CommandFits, ConfigOps
<1> QED  BY <1>1, <1>3, <1>4, <1>5, <1>6, <1>7, <1>8 DEF start, back

LEMMA StartAllOK ==
    ASSUME PrepInv, StartAll, Silent, \A n \in Nodes : nodeRuns[n] = 0
    PROVE  PrepInv'
<1> DEFINE start == <<[op |-> "start", name |-> roundStarts']>>
           back == start \o RollBack
           all == participants \subseteq Connected
           sent == IF all THEN start ELSE back
           added == [n \in Nodes |-> IF n \in participants /\ online[n] THEN sent ELSE <<>>]
<1> HIDE DEF added
<1>a. PrepTypes /\ FlagsFit  BY DEF PrepInv
<1>b. /\ roundStarts' = roundStarts + 1 /\ roundStarts \in Nat /\ roundStarts' \in Nat
      /\ roundStarts' <= MaxRoundStarts /\ roundStarts' >= roundStarts /\ roundStarts' > 0
      /\ preparations \in Nat /\ roundId \in Nat /\ SenderNode \in Nodes
      /\ participants \subseteq Nodes
  BY <1>a, PreparationParameters DEF PrepTypes, FlagsFit, StartAll
<1>c. /\ start \in Seq(CommandMessages) /\ back \in Seq(CommandMessages)
      /\ Without(start, ConfigOps \union {"fault", "stop"})
      /\ Without(back, ConfigOps \union {"fault"})
      /\ StartsOnce(start) /\ FollowedBy(back, {"start"}, {"stop"})
      /\ \A n \in Nodes : \A i \in 1 .. Len(start) :
            CommandFits(n, start[i], preparations, roundStarts')
      /\ \A n \in Nodes : \A i \in 1 .. Len(back) :
            CommandFits(n, back[i], preparations, roundStarts')
  BY <1>b, StartParts
<1>d. /\ commands' = SentTo(participants, sent)
      /\ all => inRound' = TRUE /\ stoppedOnce' = stoppedOnce
      /\ ~all => inRound' = inRound /\ stoppedOnce' = TRUE
  BY DEF StartAll
<1>e. ~inRound /\ configReady /\ FaultSettled /\ received' = {} /\ unreachable' = Nodes \ Connected
      /\ UNCHANGED <<roundId, preparations, participants, configVars, faultFlags, nodeSide,
                     online, replies>>
  BY DEF StartAll, ResultsAtStart
<1>f. \A n \in Nodes : commands[n] = <<>> /\ replies[n] = <<>> /\ nodeRuns'[n] = 0
  BY <1>e DEF Silent, nodeSide
<1> HIDE DEF start, back, all
<1>1. /\ Adds(added)
      /\ \A n \in Nodes : /\ added[n] = <<>> \/ (n \in participants /\ online[n] /\ added[n] = sent)
                          /\ (n \in participants /\ online[n]) => added[n] = sent
 <2>1. added = [n \in Nodes |-> IF n \in participants /\ online[n] THEN sent ELSE <<>>]
   BY DEF added
 <2>2. sent \in Seq(CommandMessages)  BY <1>c
 <2> HIDE DEF sent
 <2> QED  BY <1>a, <1>d, <2>1, <2>2, SentIsAdded
<1>2. /\ Without(sent, ConfigOps \union {"fault"})
      /\ all => Without(sent, {"stop"}) /\ StartsOnce(sent)
      /\ ~all => FollowedBy(sent, {"start"}, {"stop"})
      /\ \A n \in Nodes : \A i \in 1 .. Len(sent) :
            CommandFits(n, sent[i], preparations, roundStarts')
  BY <1>c DEF Without
<1> HIDE DEF sent
<1>3. ASSUME NEW n \in Nodes
      PROVE  /\ Without(added[n], ConfigOps \union {"fault"})
             /\ all => Without(added[n], {"stop"}) /\ StartsOnce(added[n])
             /\ ~all => FollowedBy(added[n], {"start"}, {"stop"})
             /\ \A i \in 1 .. Len(added[n]) : CommandFits(n, added[n][i], preparations, roundStarts')
 <2>1. CASE added[n] = <<>>  BY <2>1, EmptyQueue
 <2>2. CASE added[n] = sent  BY <1>2, <2>2
 <2> QED  BY <1>1, <2>1, <2>2
<1>4. Instructs(added)  BY <1>1, <1>3, <1>d, <1>b, <1>e DEF Without, Instructs
<1>5. /\ commands' \in [Nodes -> Seq(CommandMessages)]
      /\ \A n \in Nodes : /\ commands'[n] = commands[n] \o added[n]
                          /\ commands[n] \in Seq(CommandMessages)
                          /\ added[n] \in Seq(CommandMessages)
      /\ \A n \in Nodes : HoldsRound(n)' = HoldsRound(n)
      /\ MessagesFit' /\ LastIsLast' /\ AnsweredHolds' /\ OldStopsFirst'
  BY <1>4, InstructsOK
<1>6. \A n \in Nodes : commands'[n] = added[n]
 <2> TAKE n \in Nodes
 <2>1. added[n] \in Seq(CommandMessages) /\ commands'[n] = <<>> \o added[n]  BY <1>5, <1>f
 <2> QED  BY <2>1
<1>7. PrepTypes'
 <2>1. inRound' \in BOOLEAN /\ stoppedOnce' \in BOOLEAN  BY <1>a, <1>d DEF PrepTypes
 <2>2. \A n \in Nodes : nodeRuns'[n] <= roundStarts'  BY <1>b, <1>f
 <2> QED  BY <1>5, <1>a, <1>b, <1>e, <2>1, <2>2 DEF PrepTypes, nodeSide, configVars, faultFlags
<1>8. FlagsFit'  BY <1>a, <1>b, <1>e DEF FlagsFit, configVars, faultFlags, FaultSettled
<1>9. FaultHeld'  BY <1>3, <1>4, <1>b, <1>e, NoFaultSent DEF Without
<1>10. StopsBehindStarts'
 <2> SUFFICES ASSUME ~inRound', NEW n \in Nodes
              PROVE  FollowedBy(commands'[n], {"start"}, {"stop"})
   BY <1>f DEF StopsBehindStarts
 <2>1. ~all  BY <1>d
 <2> QED  BY <1>3, <1>6, <2>1
<1>11. OneStart'
 <2> SUFFICES ASSUME inRound', NEW n \in Nodes
              PROVE  /\ StartsOnce(commands'[n])
                     /\ IsOver(n)' => Without(commands'[n], {"start"})
   BY <1>f DEF OneStart
 <2>1. all  BY <1>d, <1>e
 <2>2. ASSUME IsOver(n)' PROVE Without(commands'[n], {"start"})
   BY <1>1, <1>6, <2>2, <1>e, <1>f, EmptyQueue DEF IsOver, HasResult
 <2> QED  BY <1>3, <1>6, <2>1, <2>2
<1> QED  BY <1>5, <1>7, <1>8, <1>9, <1>10, <1>11 DEF PrepInv

-----------------------------------------------------------------------------
(* What the manager receives.                                               *)

LEMMA ReplyOf ==
    ASSUME PrepTypes, NEW n \in Nodes, NEW i \in 1 .. Len(replies[n])
    PROVE  /\ replies[n][i] \in ReplyMessages /\ replies[n][i].ok \in BOOLEAN
           /\ replies[n][i].type \in {"config", "fault", "result"}
<1>1. replies[n] \in Seq(ReplyMessages)  BY DEF PrepTypes
<1>2. replies[n][i] \in ReplyMessages  BY <1>1
<1> QED  BY <1>2 DEF ReplyMessages

LEMMA ReplyTaken ==
    ASSUME PrepInv, NEW n \in Nodes, NEW t, Reply(n, t)
    PROVE  /\ replies' \in [Nodes -> Seq(ReplyMessages)]
           /\ \A m \in Nodes : \A i \in 1 .. Len(replies'[m]) :
                  \E k \in 1 .. Len(replies[m]) : replies'[m][i] = replies[m][k]
           /\ 1 \in 1 .. Len(replies[n]) /\ Head(replies[n]) = replies[n][1]
           /\ replies[n][1].type = t
           /\ ReplyFits(n, replies[n][1], preparations)
           /\ MessagesFit' \/ roundStarts' # roundStarts
           /\ UNCHANGED <<roundId, preparations, participants, nodeSide, online, commands>>
<1> DEFINE q == replies[n]
<1>0. q \in Seq(ReplyMessages) /\ q # <<>> /\ replies \in [Nodes -> Seq(ReplyMessages)]
  BY DEF Reply, PrepInv, PrepTypes
<1>1. /\ Tail(q) \in Seq(ReplyMessages) /\ Len(q) \in Nat /\ Len(q) > 0 /\ Head(q) = q[1]
      /\ \A i \in 1 .. Len(Tail(q)) : i + 1 \in 1 .. Len(q) /\ Tail(q)[i] = q[i + 1]
 <2> HIDE DEF q
 <2> QED  BY <1>0, TailOf
<1>2. replies' = [replies EXCEPT ![n] = Tail(q)]  BY DEF Reply
<1>3. /\ replies'[n] = Tail(q) /\ \A m \in Nodes \ {n} : replies'[m] = replies[m]
      /\ replies' \in [Nodes -> Seq(ReplyMessages)]
 <2> DEFINE t2 == Tail(q)
 <2>1. replies' = [replies EXCEPT ![n] = t2] /\ t2 \in Seq(ReplyMessages)  BY <1>1, <1>2
 <2> HIDE DEF t2, q
 <2>2. replies'[n] = t2 /\ \A m \in Nodes \ {n} : replies'[m] = replies[m]  BY <1>0, <2>1
 <2>3. replies' \in [Nodes -> Seq(ReplyMessages)]  BY <1>0, <2>1
 <2> QED  BY <2>2, <2>3 DEF t2
<1> HIDE DEF q
<1>4. ASSUME NEW m \in Nodes, NEW i \in 1 .. Len(replies'[m])
      PROVE  \E k \in 1 .. Len(replies[m]) : replies'[m][i] = replies[m][k]
 <2>1. CASE m = n  BY <1>1, <1>3, <2>1 DEF q
 <2>2. CASE m # n  BY <1>3, <2>2
 <2> QED  BY <2>1, <2>2
<1>5. 1 \in 1 .. Len(replies[n]) /\ Head(replies[n]) = replies[n][1] /\ replies[n][1].type = t
  BY <1>1 DEF Reply, q
<1>6. UNCHANGED <<roundId, preparations, participants, nodeSide, online, commands>>  BY DEF Reply
<1>7. MessagesFit  BY DEF PrepInv
<1>8. ASSUME roundStarts' = roundStarts PROVE MessagesFit'
 <2>1. ASSUME NEW m \in Nodes, NEW i \in 1 .. Len(replies'[m])
       PROVE  ReplyFits(m, replies'[m][i], preparations)
  <3>1. PICK k \in 1 .. Len(replies[m]) : replies'[m][i] = replies[m][k]  BY <1>4
  <3>2. ReplyFits(m, replies[m][k], preparations)  BY <1>7 DEF MessagesFit
  <3> QED  BY <3>1, <3>2
 <2>2. commands' = commands /\ preparations' = preparations  BY <1>6
 <2> QED  BY <1>7, <1>8, <2>1, <2>2 DEF MessagesFit
<1>9. ReplyFits(n, replies[n][1], preparations)  BY <1>5, <1>7 DEF MessagesFit
<1> QED  BY <1>3, <1>4, <1>5, <1>6, <1>8, <1>9

\* What a reply leaves alone.
LEMMA ReplyKeeps ==
    ASSUME PrepInv, NEW n \in Nodes, NEW t, Reply(n, t), stoppedOnce' = stoppedOnce
    PROVE  /\ LastIsLast' /\ OldStopsFirst'
           /\ \A m \in Nodes : HoldsRound(m)' <=> HoldsRound(m)
           /\ \A m \in Nodes : HasResult(m)' => HasResult(m)
           /\ roundId # 0 => \A m \in participants : \A i \in 1 .. Len(replies'[m]) :
                 Confirms(m, replies'[m][i]) => HoldsRound(m)
           /\ roundId # 0 => \A i \in 1 .. Len(replies'[SenderNode]) :
                 AcceptsFault(replies'[SenderNode][i]) =>
                     HoldsRound(SenderNode) /\ (~stoppedOnce => nodeFault)
<1>0. /\ \A m \in Nodes : \A i \in 1 .. Len(replies'[m]) :
             \E k \in 1 .. Len(replies[m]) : replies'[m][i] = replies[m][k]
      /\ UNCHANGED <<roundId, preparations, participants, nodeSide, online, commands>>
  BY ReplyTaken
<1>a. /\ LastIsLast /\ OldStopsFirst /\ AnsweredHolds /\ FaultHeld
      /\ participants \subseteq Nodes /\ SenderNode \in Nodes
  BY PreparationParameters DEF PrepInv, FlagsFit
<1>b. UNCHANGED <<roundId, preparations, participants, prepared, nodeFault, commands, stoppedOnce>>
  BY <1>0 DEF nodeSide
<1>1. LastIsLast' /\ OldStopsFirst'  BY <1>a, <1>b DEF LastIsLast, OldStopsFirst, LastRequest
<1>2. \A m \in Nodes : HoldsRound(m)' <=> HoldsRound(m)  BY <1>b DEF HoldsRound
<1>3. \A m \in Nodes : HasResult(m)' => HasResult(m)  BY <1>0 DEF HasResult
<1>4. ASSUME roundId # 0, NEW m \in participants, NEW i \in 1 .. Len(replies'[m]),
             Confirms(m, replies'[m][i])
      PROVE  HoldsRound(m)
 <2>1. PICK k \in 1 .. Len(replies[m]) : replies'[m][i] = replies[m][k]  BY <1>0, <1>a
 <2> QED  BY <1>4, <1>a, <2>1 DEF AnsweredHolds
<1>5. ASSUME roundId # 0, NEW i \in 1 .. Len(replies'[SenderNode]),
             AcceptsFault(replies'[SenderNode][i])
      PROVE  HoldsRound(SenderNode) /\ (~stoppedOnce => nodeFault)
 <2>1. PICK k \in 1 .. Len(replies[SenderNode]) :
                replies'[SenderNode][i] = replies[SenderNode][k]
   BY <1>0, <1>a
 <2> QED  BY <1>5, <1>a, <2>1 DEF FaultHeld
<1> QED  BY <1>1, <1>2, <1>3, <1>4, <1>5

LEMMA HandleConfigAckOK ==
    ASSUME PrepInv, NEW n \in Nodes, HandleConfigAck(n)
    PROVE  PrepInv'
<1> DEFINE ack == replies[n][1]
           left == pendingConfig \ {ack.name}
<1>0. Reply(n, "config") /\ UNCHANGED <<faultFlags, roundVars>>  BY DEF HandleConfigAck
<1>1. /\ UNCHANGED <<faultConfigured, faultPending, faultRejected, faultReady, inRound, received,
                     roundStarts, unreachable, stoppedOnce>>
  BY <1>0 DEF faultFlags, roundVars
<1>2. /\ replies' \in [Nodes -> Seq(ReplyMessages)]
      /\ 1 \in 1 .. Len(replies[n]) /\ Head(replies[n]) = ack /\ ack.type = "config"
      /\ ReplyFits(n, ack, preparations) /\ MessagesFit'
      /\ UNCHANGED <<roundId, preparations, participants, nodeSide, online, commands>>
  BY <1>0, <1>1, ReplyTaken
<1>a. PrepTypes /\ FlagsFit /\ AnsweredHolds /\ FaultHeld /\ StopsBehindStarts /\ OneStart
  BY DEF PrepInv
<1>3. ack.ok \in BOOLEAN  BY <1>2, <1>a, ReplyOf
<1>4. /\ pendingConfig' = left
      /\ rejected' = (rejected \/ (ack.name \in pendingConfig /\ ~ack.ok))
      /\ configReady' = (configReady
             \/ (ack.name \in pendingConfig /\ ack.ok /\ AllAccepted(left)))
  BY <1>2 DEF HandleConfigAck
<1>5. /\ LastIsLast' /\ OldStopsFirst'
      /\ \A m \in Nodes : HoldsRound(m)' <=> HoldsRound(m)
      /\ \A m \in Nodes : HasResult(m)' => HasResult(m)
      /\ roundId # 0 => \A m \in participants : \A i \in 1 .. Len(replies'[m]) :
            Confirms(m, replies'[m][i]) => HoldsRound(m)
      /\ roundId # 0 => \A i \in 1 .. Len(replies'[SenderNode]) :
            AcceptsFault(replies'[SenderNode][i]) =>
                HoldsRound(SenderNode) /\ (~stoppedOnce => nodeFault)
  BY <1>0, <1>1, ReplyKeeps
<1>6. PrepTypes'  BY <1>1, <1>2, <1>3, <1>4, <1>a DEF PrepTypes, nodeSide
<1>7. FlagsFit'
 <2>1. ack.name \in pendingConfig => roundId # 0  BY <1>a DEF FlagsFit
 <2>2. configReady' => pendingConfig' = {} /\ ~rejected'
   BY <1>3, <1>4, <1>a DEF FlagsFit, AllAccepted
 <2>3. roundId = 0 => pendingConfig' = {} /\ ~configReady'  BY <1>4, <1>a, <2>1 DEF FlagsFit
 <2>4. inRound => configReady'  BY <1>4, <1>a DEF FlagsFit
 <2>5. /\ UNCHANGED <<participants, received, roundId, inRound, roundStarts, faultConfigured,
                      faultPending, faultRejected, faultReady>>
   BY <1>1, <1>2
 <2> QED  BY <1>a, <2>2, <2>3, <2>4, <2>5 DEF FlagsFit, FaultSettled
<1>8. AnsweredHolds'
 <2> SUFFICES ASSUME roundId # 0, NEW m \in participants
              PROVE  /\ ~rejected' /\ <<roundId, LastRequest(m), m>> \notin pendingConfig'
                           => HoldsRound(m)
                     /\ \A i \in 1 .. Len(replies'[m]) : Confirms(m, replies'[m][i]) => HoldsRound(m)
  <3>1. roundId' = roundId /\ participants' = participants /\ participants \subseteq Nodes
    BY <1>2, <1>a DEF FlagsFit
  <3>2. \A m, r : Confirms(m, r)' <=> Confirms(m, r)  BY <3>1 DEF Confirms, LastRequest
  <3> QED  BY <1>5, <3>1, <3>2 DEF AnsweredHolds, Confirms, LastRequest
 <2>1. ASSUME ~rejected', <<roundId, LastRequest(m), m>> \notin pendingConfig'
       PROVE  HoldsRound(m)
  <3> DEFINE name == <<roundId, LastRequest(m), m>>
  <3>1. ~rejected /\ ~(ack.name \in pendingConfig /\ ~ack.ok)  BY <1>4, <2>1
  <3>2. CASE name \notin pendingConfig  BY <1>a, <3>1, <3>2 DEF AnsweredHolds
  <3>3. CASE name \in pendingConfig
   <4>1. ack.name = name  BY <1>4, <2>1, <3>3
   <4>2. ack.ok  BY <1>3, <3>1, <3>3, <4>1
   <4>3. ack.name[3] = n /\ name[3] = m  BY <1>2 DEF ReplyFits
   <4>4. m = n  BY <4>1, <4>3
   <4>5. Confirms(n, ack)  BY <1>2, <4>1, <4>2, <4>4 DEF Confirms
   <4> QED  BY <1>2, <1>a, <4>4, <4>5 DEF AnsweredHolds
  <3> QED  BY <3>2, <3>3
 <2> QED  BY <1>5, <2>1
<1>9. FaultHeld'
  BY <1>1, <1>2, <1>5, <1>a, PreparationParameters DEF nodeSide, AcceptsFault, FaultHeld
<1>10. StopsBehindStarts'  BY <1>1, <1>2, <1>a DEF StopsBehindStarts, nodeSide
<1>11. OneStart'  BY <1>1, <1>2, <1>5, <1>a DEF IsOver, OneStart, nodeSide
<1> QED  BY <1>2, <1>5, <1>6, <1>7, <1>8, <1>9, <1>10, <1>11 DEF PrepInv

\* The answers still there are as good as before.
LEMMA AnswersKept ==
    ASSUME PrepInv, NEW n \in Nodes, NEW t, Reply(n, t), stoppedOnce' = stoppedOnce,
           pendingConfig' = pendingConfig, rejected' = rejected
    PROVE  AnsweredHolds'
<1>0. roundId' = roundId /\ participants' = participants /\ participants \subseteq Nodes
  BY DEF Reply, PrepInv, FlagsFit
<1>1. /\ \A m \in Nodes : HoldsRound(m)' <=> HoldsRound(m)
      /\ roundId # 0 => \A m \in participants : \A i \in 1 .. Len(replies'[m]) :
            Confirms(m, replies'[m][i]) => HoldsRound(m)
  BY ReplyKeeps
<1>2. \A m, r : Confirms(m, r)' <=> Confirms(m, r)  BY <1>0 DEF Confirms, LastRequest
<1>3. AnsweredHolds  BY DEF PrepInv
<1> QED  BY <1>0, <1>1, <1>2, <1>3 DEF AnsweredHolds, Confirms, LastRequest

LEMMA HandleFaultAckOK ==
    ASSUME PrepInv, NEW n \in Nodes, HandleFaultAck(n)
    PROVE  PrepInv'
<1> DEFINE ack == replies[n][1]
<1>0. Reply(n, "fault") /\ UNCHANGED <<configVars, faultConfigured, roundVars>>
  BY DEF HandleFaultAck
<1>1. /\ UNCHANGED <<pendingConfig, rejected, configReady, faultConfigured, inRound, received,
                     roundStarts, unreachable, stoppedOnce>>
  BY <1>0 DEF configVars, roundVars
<1>2. /\ replies' \in [Nodes -> Seq(ReplyMessages)]
      /\ 1 \in 1 .. Len(replies[n]) /\ Head(replies[n]) = ack /\ ack.type = "fault"
      /\ ReplyFits(n, ack, preparations) /\ MessagesFit'
      /\ UNCHANGED <<roundId, preparations, participants, nodeSide, online, commands>>
  BY <1>0, <1>1, ReplyTaken
<1>a. PrepTypes /\ FlagsFit /\ FaultHeld /\ StopsBehindStarts /\ OneStart  BY DEF PrepInv
<1>3. ack.ok \in BOOLEAN  BY <1>2, <1>a, ReplyOf
<1>4. \/ /\ faultPending /\ ack.name = roundId /\ faultPending' = FALSE
         /\ faultRejected' = (faultRejected \/ ~ack.ok) /\ faultReady' = ack.ok
      \/ UNCHANGED <<faultPending, faultRejected, faultReady>>
  BY <1>2 DEF HandleFaultAck
<1>5. /\ LastIsLast' /\ OldStopsFirst' /\ AnsweredHolds'
      /\ \A m \in Nodes : HoldsRound(m)' <=> HoldsRound(m)
      /\ \A m \in Nodes : HasResult(m)' => HasResult(m)
      /\ roundId # 0 => \A i \in 1 .. Len(replies'[SenderNode]) :
            AcceptsFault(replies'[SenderNode][i]) =>
                HoldsRound(SenderNode) /\ (~stoppedOnce => nodeFault)
  BY <1>0, <1>1, ReplyKeeps, AnswersKept
<1>6. PrepTypes'  BY <1>1, <1>2, <1>3, <1>4, <1>a DEF PrepTypes, nodeSide
<1>7. FlagsFit'
 <2>1. /\ faultReady' => faultConfigured /\ ~faultPending' /\ ~faultRejected'
       /\ faultPending' => faultConfigured /\ ~faultRejected'
  <3>1. CASE UNCHANGED <<faultPending, faultRejected, faultReady>>  BY <1>a, <3>1 DEF FlagsFit
  <3>2. CASE /\ faultPending /\ faultPending' = FALSE
             /\ faultRejected' = (faultRejected \/ ~ack.ok) /\ faultReady' = ack.ok
    BY <1>3, <3>2, <1>a DEF FlagsFit
  <3> QED  BY <1>4, <3>1, <3>2
 <2>2. inRound => UNCHANGED <<faultPending, faultRejected, faultReady>>
   BY <1>4, <1>a DEF FlagsFit, FaultSettled
 <2> QED  BY <1>1, <1>2, <1>a, <2>1, <2>2 DEF FlagsFit, FaultSettled
<1>8. FaultHeld'
 <2>1. /\ roundId' = roundId /\ commands' = commands /\ nodeFault' = nodeFault
       /\ SenderNode \in Nodes
   BY <1>2, PreparationParameters DEF nodeSide
 <2>2. \A i : AcceptsFault(replies[SenderNode][i])' <=> AcceptsFault(replies'[SenderNode][i])
   BY <2>1 DEF AcceptsFault
 <2>3. ASSUME roundId # 0, faultReady', ~stoppedOnce PROVE nodeFault
  <3>1. CASE faultReady' = faultReady  BY <1>a, <2>3, <3>1 DEF FaultHeld
  <3>2. CASE ack.name = roundId /\ faultReady' = ack.ok
    BY <1>2, <2>3, <3>2, <1>a DEF ReplyFits, AcceptsFault, FaultHeld
  <3> QED  BY <1>4, <3>1, <3>2
 <2> QED  BY <1>1, <1>5, <1>a, <2>1, <2>2, <2>3 DEF FaultHeld
<1>9. StopsBehindStarts'  BY <1>1, <1>2, <1>a DEF StopsBehindStarts, nodeSide
<1>10. OneStart'  BY <1>1, <1>2, <1>5, <1>a DEF IsOver, OneStart, nodeSide
<1> QED  BY <1>2, <1>5, <1>6, <1>7, <1>8, <1>9, <1>10 DEF PrepInv

\* A round that ends by its results has ended on every node.
LEMMA ResultEnds ==
    ASSUME PrepInv, NEW n \in Nodes, HandleResult(n), inRound, ~inRound'
    PROVE  \A m \in Nodes : Without(commands[m], {"start"}) /\ nodeRuns[m] = 0
<1>0. Reply(n, "result")  BY DEF HandleResult
<1>1. 1 \in 1 .. Len(replies[n]) /\ replies[n][1].type = "result"  BY <1>0, ReplyTaken
<1>2. HasResult(n)  BY <1>1 DEF HasResult
<1>3. received' = received \union {n} /\ received' = participants  BY DEF HandleResult
<1>4. \A m \in Nodes : IsOver(m)  BY <1>2, <1>3 DEF IsOver
<1> QED  BY <1>4 DEF PrepInv, OneStart

LEMMA HandleResultOK ==
    ASSUME PrepInv, NEW n \in Nodes, HandleResult(n)
    PROVE  PrepInv'
<1>0. Reply(n, "result") /\ UNCHANGED <<configVars, faultFlags, roundStarts, unreachable, stoppedOnce>>
  BY DEF HandleResult
<1>1. UNCHANGED <<pendingConfig, rejected, configReady, faultConfigured, faultPending,
                  faultRejected, faultReady, roundStarts, unreachable, stoppedOnce>>
  BY <1>0 DEF configVars, faultFlags
<1>2. /\ replies' \in [Nodes -> Seq(ReplyMessages)] /\ MessagesFit'
      /\ 1 \in 1 .. Len(replies[n]) /\ replies[n][1].type = "result"
      /\ UNCHANGED <<roundId, preparations, participants, nodeSide, online, commands>>
  BY <1>0, <1>1, ReplyTaken
<1>a. PrepTypes /\ FlagsFit /\ FaultHeld /\ StopsBehindStarts /\ OneStart  BY DEF PrepInv
<1>3. HasResult(n)  BY <1>2 DEF HasResult
<1>4. /\ received' \subseteq participants /\ received' \subseteq received \union {n}
      /\ inRound' \in BOOLEAN /\ (inRound' => inRound)
 <2>1. CASE /\ n \in participants /\ received' = received \union {n}
            /\ inRound' = (inRound /\ received' # participants)
   BY <1>a, <2>1 DEF PrepTypes, FlagsFit
 <2>2. CASE UNCHANGED <<received, inRound>>  BY <1>a, <2>2 DEF PrepTypes, FlagsFit
 <2> QED  BY <2>1, <2>2 DEF HandleResult
<1>5. /\ LastIsLast' /\ OldStopsFirst' /\ AnsweredHolds'
      /\ \A m \in Nodes : HoldsRound(m)' <=> HoldsRound(m)
      /\ \A m \in Nodes : HasResult(m)' => HasResult(m)
      /\ roundId # 0 => \A i \in 1 .. Len(replies'[SenderNode]) :
            AcceptsFault(replies'[SenderNode][i]) =>
                HoldsRound(SenderNode) /\ (~stoppedOnce => nodeFault)
  BY <1>0, <1>1, ReplyKeeps, AnswersKept
<1>6. PrepTypes'  BY <1>1, <1>2, <1>4, <1>a DEF PrepTypes, nodeSide
<1>7. FlagsFit'  BY <1>1, <1>2, <1>4, <1>a DEF FlagsFit, FaultSettled
<1>8. FaultHeld'
  BY <1>1, <1>2, <1>5, <1>a, PreparationParameters DEF nodeSide, AcceptsFault, FaultHeld
<1>9. StopsBehindStarts'
 <2>1. CASE inRound' = inRound  BY <1>1, <1>2, <1>a, <2>1 DEF StopsBehindStarts, nodeSide
 <2>2. CASE inRound /\ ~inRound'
   BY <1>2, <2>2, ResultEnds DEF StopsBehindStarts, FollowedBy, Without, nodeSide
 <2> QED  BY <1>4, <1>a, <2>1, <2>2 DEF PrepTypes
<1>10. OneStart'  BY <1>1, <1>2, <1>3, <1>4, <1>5, <1>a DEF IsOver, OneStart, nodeSide
<1> QED  BY <1>2, <1>5, <1>6, <1>7, <1>8, <1>9, <1>10 DEF PrepInv

-----------------------------------------------------------------------------
(* The nodes.                                                               *)

\* Every reply on the way is an old one, or one of n's in R.
Answered(n, R) ==
    /\ replies' \in [Nodes -> Seq(ReplyMessages)]
    /\ \A k \in Nodes : \A i \in 1 .. Len(replies'[k]) :
          \/ \E j \in 1 .. Len(replies[k]) : replies'[k][i] = replies[k][j]
          \/ k = n /\ replies'[k][i] \in R

LEMMA NothingSaid ==
    ASSUME PrepTypes, NEW n \in Nodes, UNCHANGED replies \/ Says(n, <<>>)
    PROVE  Answered(n, {})
<1>1. \A k \in Nodes : replies[k] \in Seq(ReplyMessages)  BY DEF PrepTypes
<1>2. replies[n] \o <<>> = replies[n]  BY <1>1
<1>3. replies' = replies  BY <1>2 DEF Says, PrepTypes
<1> QED  BY <1>3 DEF Answered, PrepTypes

LEMMA ReplySaid ==
    ASSUME PrepTypes, NEW n \in Nodes, NEW r \in ReplyMessages, Says(n, <<r>>)
    PROVE  Answered(n, {r})
<1>0. replies \in [Nodes -> Seq(ReplyMessages)]  BY DEF PrepTypes
<1>1. CASE ~online[n]  BY <1>0, <1>1 DEF Says, Answered
<1>2. CASE online[n]
 <2> DEFINE m == <<r>>
            q == replies[n]
            t == q \o m
 <2>1. m \in Seq(ReplyMessages) /\ Len(m) = 1 /\ m[1] = r /\ q \in Seq(ReplyMessages)  BY <1>0
 <2> HIDE DEF m, q
 <2>2. /\ t \in Seq(ReplyMessages)
       /\ \A i \in 1 .. Len(q) : t[i] = q[i]
       /\ \A i \in 1 .. Len(t) : i \notin 1 .. Len(q) => i - Len(q) \in 1 .. Len(m) /\ t[i] = m[i - Len(q)]
   BY <2>1, JoinOf
 <2>3. replies' = [replies EXCEPT ![n] = t]  BY <1>2 DEF Says, m, q
 <2> HIDE DEF t
 <2>4. replies'[n] = t /\ \A k \in Nodes \ {n} : replies'[k] = replies[k]  BY <1>0, <2>3
 <2>5. replies' \in [Nodes -> Seq(ReplyMessages)]  BY <1>0, <2>2, <2>3
 <2>6. ASSUME NEW k \in Nodes, NEW i \in 1 .. Len(replies'[k])
       PROVE  \/ \E j \in 1 .. Len(replies[k]) : replies'[k][i] = replies[k][j]
              \/ k = n /\ replies'[k][i] \in {r}
  <3>1. CASE k # n  BY <2>4, <3>1
  <3>2. CASE k = n /\ i \in 1 .. Len(q)  BY <2>2, <2>4, <3>2 DEF q
  <3>3. CASE k = n /\ i \notin 1 .. Len(q)  BY <2>1, <2>2, <2>4, <3>3
  <3> QED  BY <3>1, <3>2, <3>3
 <2> QED  BY <2>5, <2>6 DEF Answered
<1> QED  BY <1>1, <1>2

\* A node takes the first of its messages.
Takes(n) ==
    /\ n \in Nodes /\ commands[n] # <<>> /\ commands' = [commands EXCEPT ![n] = Tail(@)]
    /\ UNCHANGED <<roundId, preparations, participants, configVars, faultFlags, roundVars,
                   online, losses>>

LEMMA CommandTaken ==
    ASSUME PrepInv, NEW n \in Nodes, Takes(n)
    PROVE  LET first == commands[n][1] IN
           /\ commands' \in [Nodes -> Seq(CommandMessages)]
           /\ commands'[n] = Tail(commands[n]) /\ commands[n] \in Seq(CommandMessages)
           /\ \A k \in Nodes \ {n} : commands'[k] = commands[k]
           /\ 1 \in 1 .. Len(commands[n]) /\ Head(commands[n]) = first
           /\ first.name \in Nat /\ CommandFits(n, first, preparations, roundStarts)
           /\ \A k \in Nodes : \A i \in 1 .. Len(commands'[k]) :
                 \E j \in 1 .. Len(commands[k]) : commands'[k][i] = commands[k][j]
<1> DEFINE q == commands[n]
           t == Tail(q)
           first == commands[n][1]
<1>0. q \in Seq(CommandMessages) /\ q # <<>> /\ commands \in [Nodes -> Seq(CommandMessages)]
  BY DEF Takes, PrepInv, PrepTypes
<1>1. /\ t \in Seq(CommandMessages) /\ Len(q) \in Nat /\ Len(q) > 0 /\ Head(q) = q[1]
      /\ \A i \in 1 .. Len(t) : i + 1 \in 1 .. Len(q) /\ t[i] = q[i + 1]
 <2> HIDE DEF q
 <2> QED  BY <1>0, TailOf
<1>2. commands' = [commands EXCEPT ![n] = t]  BY DEF Takes
<1> HIDE DEF t, q
<1>3. /\ commands'[n] = t /\ \A m \in Nodes \ {n} : commands'[m] = commands[m]
      /\ commands' \in [Nodes -> Seq(CommandMessages)]
  BY <1>0, <1>1, <1>2
<1>4. ASSUME NEW m \in Nodes, NEW i \in 1 .. Len(commands'[m])
      PROVE  \E j \in 1 .. Len(commands[m]) : commands'[m][i] = commands[m][j]
 <2>1. CASE m = n  BY <1>1, <1>3, <2>1 DEF q
 <2>2. CASE m # n  BY <1>3, <2>2
 <2> QED  BY <2>1, <2>2
<1>5. 1 \in 1 .. Len(commands[n]) /\ Head(commands[n]) = first  BY <1>1 DEF q
<1>6. first.name \in Nat  BY <1>0, <1>5, CommandOf DEF q
<1>7. CommandFits(n, first, preparations, roundStarts)  BY <1>5 DEF PrepInv, MessagesFit
<1> QED  BY <1>0, <1>1, <1>3, <1>4, <1>5, <1>6, <1>7 DEF q, t

\* What is true of a queue is true of what is left of it.
LEMMA TakenQueues ==
    ASSUME PrepInv, NEW n \in Nodes, Takes(n), NEW k \in Nodes
    PROVE  /\ \A ops : Without(commands[k], ops) => Without(commands'[k], ops)
           /\ \A ops, later : FollowedBy(commands[k], ops, later)
                                  => FollowedBy(commands'[k], ops, later)
           /\ \A op, name : EndsWith(commands[k], op, name) => EndsWith(commands'[k], op, name)
           /\ StartsOnce(commands[k]) => StartsOnce(commands'[k])
           /\ \A ops : commands[n][1].op \notin ops /\ Without(commands'[k], ops)
                           => Without(commands[k], ops)
<1>0. /\ commands'[n] = Tail(commands[n]) /\ commands[n] \in Seq(CommandMessages)
      /\ \A m \in Nodes \ {n} : commands'[m] = commands[m]
      /\ commands[n] # <<>>
  BY CommandTaken DEF Takes
<1>1. CASE k # n  BY <1>0, <1>1
<1>2. CASE k = n
 <2> DEFINE q == commands[n]
 <2>0. q \in Seq(CommandMessages) /\ q # <<>> /\ commands'[k] = Tail(q) /\ commands[k] = q
   BY <1>0, <1>2
 <2>5. ASSUME NEW ops, q[1].op \notin ops, Without(Tail(q), ops), NEW i \in 1 .. Len(q)
       PROVE  q[i].op \notin ops
  <3> HIDE DEF q
  <3>1. CASE i = 1  BY <2>5, <3>1
  <3>2. CASE i # 1  BY <2>0, <2>5, <3>2, TailOf DEF Without
  <3> QED  BY <3>1, <3>2
 <2> HIDE DEF q
 <2>1. \A ops : Without(q, ops) => Without(Tail(q), ops)  BY <2>0, WithoutTail
 <2>2. \A ops, later : FollowedBy(q, ops, later) => FollowedBy(Tail(q), ops, later)
   BY <2>0, FollowedTail
 <2>3. \A op, name : EndsWith(q, op, name) => EndsWith(Tail(q), op, name)  BY <2>0, EndsTail
 <2>4. StartsOnce(q) => StartsOnce(Tail(q))  BY <2>0, StartsTail
 <2>6. \A ops : q[1].op \notin ops /\ Without(Tail(q), ops) => Without(q, ops)  BY <2>5 DEF Without
 <2>7. q[1] = commands[n][1]  BY DEF q
 <2> QED  BY <2>0, <2>1, <2>2, <2>3, <2>4, <2>6, <2>7
<1> QED  BY <1>1, <1>2

\* What every message taken leaves true.
LEMMA TakingKeeps ==
    ASSUME PrepInv, NEW n \in Nodes, Takes(n), NEW R, Answered(n, R),
           \A r \in R : ReplyFits(n, r, preparations)
    PROVE  MessagesFit' /\ LastIsLast' /\ OldStopsFirst'
<1>0. UNCHANGED <<roundId, preparations, participants, roundStarts, stoppedOnce>>
  BY DEF Takes, roundVars
<1>a. MessagesFit /\ LastIsLast /\ OldStopsFirst /\ participants \subseteq Nodes
  BY DEF PrepInv, FlagsFit
<1>1. ASSUME NEW k \in Nodes, NEW i \in 1 .. Len(commands'[k])
      PROVE  CommandFits(k, commands'[k][i], preparations, roundStarts)
 <2>1. PICK j \in 1 .. Len(commands[k]) : commands'[k][i] = commands[k][j]  BY CommandTaken
 <2> QED  BY <1>a, <2>1 DEF MessagesFit
<1>2. ASSUME NEW k \in Nodes, NEW i \in 1 .. Len(replies'[k])
      PROVE  ReplyFits(k, replies'[k][i], preparations)
 <2>1. CASE \E j \in 1 .. Len(replies[k]) : replies'[k][i] = replies[k][j]
   BY <1>a, <2>1 DEF MessagesFit
 <2>2. CASE k = n /\ replies'[k][i] \in R  BY <2>2
 <2> QED  BY <2>1, <2>2 DEF Answered
<1>3. MessagesFit'  BY <1>0, <1>1, <1>2 DEF MessagesFit
<1>4. LastIsLast'  BY <1>0, <1>a, TakenQueues DEF LastIsLast, LastRequest
<1>5. OldStopsFirst'  BY <1>0, <1>a, TakenQueues DEF OldStopsFirst
<1> QED  BY <1>3, <1>4, <1>5

LEMMA NodeConfiguresOK ==
    ASSUME PrepInv, NEW n \in Nodes, Takes(n), NodeConfigures(n)
    PROVE  PrepInv'
<1> DEFINE first == commands[n][1]
           op == first.op
           named == first.name
           ack(ok) == [type |-> "config", name |-> <<named, op, n>>, ok |-> ok]
<1>a. /\ PrepTypes /\ FlagsFit /\ AnsweredHolds /\ FaultHeld /\ StopsBehindStarts /\ OneStart
      /\ LastIsLast /\ SenderNode \in Nodes
  BY PreparationParameters DEF PrepInv
<1>1. /\ commands' \in [Nodes -> Seq(CommandMessages)]
      /\ commands'[n] = Tail(commands[n]) /\ commands[n] \in Seq(CommandMessages)
      /\ \A k \in Nodes \ {n} : commands'[k] = commands[k]
      /\ 1 \in 1 .. Len(commands[n]) /\ Head(commands[n]) = first /\ commands[n] # <<>>
      /\ named \in Nat /\ CommandFits(n, first, preparations, roundStarts)
      /\ \A k \in Nodes : \A i \in 1 .. Len(commands'[k]) :
            \E j \in 1 .. Len(commands[k]) : commands'[k][i] = commands[k][j]
  BY CommandTaken DEF Takes
<1>2. op \in ConfigOps /\ nodeRuns' = nodeRuns  BY <1>1 DEF NodeConfigures, ConfigOps
<1>3. UNCHANGED <<roundId, preparations, participants, pendingConfig, rejected, configReady,
                  faultConfigured, faultPending, faultRejected, faultReady, inRound, received,
                  roundStarts, unreachable, stoppedOnce, online>>
  BY DEF Takes, configVars, faultFlags, roundVars
<1>4. PICK ok \in BOOLEAN :
          /\ Says(n, <<ack(ok)>>)
          /\ \/ /\ ok /\ nodeRuns[n] = 0
                /\ prepared' = [prepared EXCEPT ![n] = IF op = "sender" THEN 0 ELSE named]
                /\ nodeFault' = IF op = "receiver" THEN nodeFault ELSE FALSE
             \/ ~ok /\ UNCHANGED <<prepared, nodeFault>>
  BY <1>1 DEF NodeConfigures
<1> HIDE DEF first
<1> DEFINE r == ack(ok)
<1>5. /\ r \in ReplyMessages /\ r.type = "config" /\ r.name = <<named, op, n>> /\ r.ok = ok
      /\ ReplyFits(n, r, preparations)
 <2>1. <<named, op, n>> \in AckNames  BY <1>1, <1>2 DEF AckNames
 <2>2. r \in ReplyMessages /\ r.type = "config" /\ r.name = <<named, op, n>> /\ r.ok = ok
   BY <2>1 DEF ReplyMessages
 <2> HIDE DEF r
 <2> QED  BY <1>1, <1>2, <2>1, <2>2 DEF ReplyFits, CommandFits
<1>6. Answered(n, {r})
 <2>1. Says(n, <<r>>)  BY <1>4
 <2> HIDE DEF r
 <2> QED  BY <1>5, <1>a, <2>1, ReplySaid
<1> HIDE DEF r
<1>7. MessagesFit' /\ LastIsLast' /\ OldStopsFirst'  BY <1>5, <1>6, TakingKeeps
<1>8. ~Without(commands[n], ConfigOps) /\ ~HoldsRound(n)
  BY <1>1, <1>2 DEF Without, HoldsRound, first
<1>9. \A k \in Nodes \ {n} : (HoldsRound(k)' <=> HoldsRound(k))
  BY <1>1, <1>3, <1>4, <1>a DEF PrepTypes, HoldsRound
<1>10. PrepTypes'
 <2>1. prepared' \in [Nodes -> Nat] /\ \A k \in Nodes : prepared'[k] <= preparations
  <3>1. CASE UNCHANGED prepared  BY <1>a, <3>1 DEF PrepTypes
  <3>2. CASE prepared' = [prepared EXCEPT ![n] = IF op = "sender" THEN 0 ELSE named]
   <4> DEFINE v == IF op = "sender" THEN 0 ELSE named
   <4>1. v \in Nat /\ v <= preparations /\ preparations \in Nat
     BY <1>1, <1>2, <1>a DEF PrepTypes, CommandFits
   <4>2. prepared' = [prepared EXCEPT ![n] = v]  BY <3>2
   <4> HIDE DEF v
   <4> QED  BY <1>a, <4>1, <4>2 DEF PrepTypes
  <3> QED  BY <1>4, <3>1, <3>2
 <2>2. nodeFault' \in BOOLEAN
  <3>1. CASE nodeFault' = nodeFault  BY <1>a, <3>1 DEF PrepTypes
  <3>2. CASE nodeFault' = FALSE  BY <3>2
  <3> QED  BY <1>4, <3>1, <3>2
 <2>3. replies' \in [Nodes -> Seq(ReplyMessages)]  BY <1>6 DEF Answered
 <2> QED  BY <1>1, <1>2, <1>3, <1>a, <2>1, <2>2, <2>3 DEF PrepTypes
<1>11. FlagsFit'  BY <1>3, <1>a DEF FlagsFit, FaultSettled
<1>12. AnsweredHolds'
 <2> SUFFICES ASSUME roundId # 0, NEW k \in participants
              PROVE  /\ ~rejected /\ <<roundId, LastRequest(k), k>> \notin pendingConfig
                           => HoldsRound(k)'
                     /\ \A i \in 1 .. Len(replies'[k]) : Confirms(k, replies'[k][i]) => HoldsRound(k)'
  <3>1. \A m, s : Confirms(m, s)' <=> Confirms(m, s)  BY <1>3 DEF Confirms, LastRequest
  <3> QED  BY <1>3, <3>1 DEF AnsweredHolds, Confirms, LastRequest
 <2>0. k \in Nodes /\ AnsweredHolds  BY <1>a DEF FlagsFit
 <2>1. CASE k # n  BY <1>6, <1>9, <2>0, <2>1 DEF AnsweredHolds, Answered
 <2>2. CASE k = n
  <3>1. ~(~rejected /\ <<roundId, LastRequest(k), k>> \notin pendingConfig)
    BY <1>8, <2>0, <2>2 DEF AnsweredHolds
  <3>2. ASSUME NEW i \in 1 .. Len(replies'[k]), Confirms(k, replies'[k][i])
        PROVE  HoldsRound(k)'
   <4>1. replies'[k][i] = r
    <5>1. ASSUME NEW j \in 1 .. Len(replies[k]), replies'[k][i] = replies[k][j] PROVE FALSE
      BY <1>8, <2>0, <2>2, <3>2, <5>1 DEF AnsweredHolds
    <5> QED  BY <1>6, <2>0, <5>1 DEF Answered
   <4>2. ok /\ <<named, op, n>> = <<roundId, LastRequest(k), k>>  BY <1>5, <3>2, <4>1 DEF Confirms
   <4>3. ok /\ op = LastRequest(n) /\ named = roundId  BY <2>2, <4>2
   <4>4. named = preparations /\ op # "sender"  BY <1>a, <4>3 DEF PrepTypes, LastRequest
   <4>5. Without(Tail(commands[n]), ConfigOps)
    <5>1. EndsWith(commands[n], op, named)  BY <1>a, <4>3, <4>4 DEF LastIsLast
    <5>2. Head(commands[n]).op = op /\ Head(commands[n]).name = named  BY <1>1
    <5> HIDE DEF op, named
    <5> QED  BY <1>1, <5>1, <5>2, HeadEnds
   <4>6. prepared'[n] = named  BY <1>4, <1>a, <4>3, <4>4 DEF PrepTypes
   <4> QED  BY <1>1, <1>3, <2>2, <4>3, <4>5, <4>6 DEF HoldsRound
  <3> QED  BY <3>1, <3>2
 <2> QED  BY <2>1, <2>2
<1>13. FaultHeld'
 <2> SUFFICES ASSUME roundId # 0
              PROVE  /\ faultConfigured => HoldsRound(SenderNode)'
                     /\ \A i \in 1 .. Len(commands'[SenderNode]) :
                           /\ commands'[SenderNode][i].op = "fault"
                           /\ commands'[SenderNode][i].name = roundId
                           => HoldsRound(SenderNode)'
                     /\ \A i \in 1 .. Len(replies'[SenderNode]) :
                           AcceptsFault(replies'[SenderNode][i]) =>
                               HoldsRound(SenderNode)' /\ (~stoppedOnce => nodeFault')
                     /\ faultReady /\ ~stoppedOnce => nodeFault'
  <3>1. \A s : AcceptsFault(s)' <=> AcceptsFault(s)  BY <1>3 DEF AcceptsFault
  <3> QED  BY <1>3, <3>1 DEF FaultHeld, AcceptsFault
 <2>1. \A i \in 1 .. Len(commands'[SenderNode]) : \E j \in 1 .. Len(commands[SenderNode]) :
           commands'[SenderNode][i] = commands[SenderNode][j]
   BY <1>1, <1>a
 <2>2. ASSUME NEW i \in 1 .. Len(replies'[SenderNode]), AcceptsFault(replies'[SenderNode][i])
       PROVE  \E j \in 1 .. Len(replies[SenderNode]) : AcceptsFault(replies[SenderNode][j])
  <3>1. replies'[SenderNode][i] # r  BY <1>5, <2>2 DEF AcceptsFault
  <3>2. PICK j \in 1 .. Len(replies[SenderNode]) :
                 replies'[SenderNode][i] = replies[SenderNode][j]
    BY <1>6, <1>a, <3>1 DEF Answered
  <3> QED  BY <2>2, <3>2
 <2>3. CASE n = SenderNode  BY <1>8, <1>a, <2>1, <2>2, <2>3 DEF FaultHeld, FlagsFit
 <2>4. CASE n # SenderNode
  <3>1. nodeFault' = nodeFault  BY <1>1, <1>2, <1>4, <2>4 DEF CommandFits, ConfigOps
  <3> QED  BY <1>9, <1>a, <2>1, <2>2, <2>4, <3>1 DEF FaultHeld
 <2> QED  BY <2>3, <2>4
<1>14. StopsBehindStarts'  BY <1>2, <1>3, <1>a, TakenQueues DEF ConfigOps, first, StopsBehindStarts
<1>15. OneStart'
 <2>1. \A k \in Nodes : IsOver(k)' => IsOver(k)  BY <1>3, <1>5, <1>6 DEF Answered, HasResult, IsOver
 <2> QED  BY <1>2, <1>3, <1>a, <2>1, TakenQueues DEF OneStart
<1> QED  BY <1>7, <1>10, <1>11, <1>12, <1>13, <1>14, <1>15 DEF PrepInv

\* A message that is no request: nobody comes to hold, or ceases to hold, the round.
LEMMA NoRequestTaken ==
    ASSUME PrepInv, NEW n \in Nodes, Takes(n), commands[n][1].op \notin ConfigOps,
           prepared' = prepared,
           NEW R, Answered(n, R), \A r \in R : r.type # "config"
    PROVE  /\ \A k \in Nodes : HoldsRound(k)' <=> HoldsRound(k)
           /\ AnsweredHolds'
<1>0. UNCHANGED <<roundId, preparations, participants, pendingConfig, rejected>>
  BY DEF Takes, configVars
<1>a. AnsweredHolds /\ participants \subseteq Nodes  BY DEF PrepInv, FlagsFit
<1>1. ASSUME NEW k \in Nodes PROVE HoldsRound(k)' <=> HoldsRound(k)
  BY <1>0, TakenQueues DEF HoldsRound
<1>2. AnsweredHolds'
 <2> SUFFICES ASSUME roundId # 0, NEW k \in participants
              PROVE  /\ ~rejected /\ <<roundId, LastRequest(k), k>> \notin pendingConfig
                           => HoldsRound(k)'
                     /\ \A i \in 1 .. Len(replies'[k]) : Confirms(k, replies'[k][i]) => HoldsRound(k)'
  <3>1. \A m, s : Confirms(m, s)' <=> Confirms(m, s)  BY <1>0 DEF Confirms, LastRequest
  <3> QED  BY <1>0, <3>1 DEF AnsweredHolds, Confirms, LastRequest
 <2>0. k \in Nodes  BY <1>a
 <2>1. ASSUME NEW i \in 1 .. Len(replies'[k]), Confirms(k, replies'[k][i])
       PROVE  HoldsRound(k)
  <3>1. replies'[k][i] \notin R  BY <2>1 DEF Confirms
  <3>2. PICK j \in 1 .. Len(replies[k]) : replies'[k][i] = replies[k][j]  BY <2>0, <3>1 DEF Answered
  <3> QED  BY <1>a, <2>1, <3>2 DEF AnsweredHolds
 <2> QED  BY <1>1, <1>a, <2>0, <2>1 DEF AnsweredHolds
<1> QED  BY <1>1, <1>2

LEMMA NodeTakesFaultOK ==
    ASSUME PrepInv, NEW n \in Nodes, Takes(n), NodeTakesFault(n)
    PROVE  PrepInv'
<1> DEFINE first == commands[n][1]
           named == first.name
           ack(ok) == [type |-> "fault", name |-> named, ok |-> ok]
<1>a. /\ PrepTypes /\ FlagsFit /\ FaultHeld /\ StopsBehindStarts /\ OneStart
      /\ SenderNode \in Nodes
  BY PreparationParameters DEF PrepInv
<1>1. /\ commands' \in [Nodes -> Seq(CommandMessages)]
      /\ 1 \in 1 .. Len(commands[n]) /\ Head(commands[n]) = first
      /\ named \in Nat /\ CommandFits(n, first, preparations, roundStarts)
      /\ \A k \in Nodes : \A i \in 1 .. Len(commands'[k]) :
            \E j \in 1 .. Len(commands[k]) : commands'[k][i] = commands[k][j]
  BY CommandTaken
<1>2. /\ first.op = "fault" /\ n = SenderNode /\ named <= preparations
      /\ prepared' = prepared /\ nodeRuns' = nodeRuns
  BY <1>1 DEF NodeTakesFault, CommandFits
<1>3. UNCHANGED <<roundId, preparations, participants, pendingConfig, rejected, configReady,
                  faultConfigured, faultPending, faultRejected, faultReady, inRound, received,
                  roundStarts, unreachable, stoppedOnce, online>>
  BY DEF Takes, configVars, faultFlags, roundVars
<1>4. PICK ok \in BOOLEAN :
          /\ Says(n, <<ack(ok)>>)
          /\ (ok /\ nodeFault' = TRUE) \/ (~ok /\ nodeFault' = nodeFault)
  BY <1>1 DEF NodeTakesFault
<1> HIDE DEF first
<1> DEFINE r == ack(ok)
<1>5. /\ r \in ReplyMessages /\ r.type = "fault" /\ r.name = named /\ r.ok = ok
      /\ ReplyFits(n, r, preparations)
 <2>1. r \in ReplyMessages /\ r.type = "fault" /\ r.name = named /\ r.ok = ok
   BY <1>1 DEF ReplyMessages
 <2> HIDE DEF r
 <2> QED  BY <1>1, <1>2, <2>1 DEF ReplyFits
<1>6. Answered(n, {r})
 <2>1. Says(n, <<r>>)  BY <1>4
 <2> HIDE DEF r
 <2> QED  BY <1>5, <1>a, <2>1, ReplySaid
<1> HIDE DEF r
<1>7. MessagesFit' /\ LastIsLast' /\ OldStopsFirst'  BY <1>5, <1>6, TakingKeeps
<1>8. commands[n][1].op \notin ConfigOps \union {"start", "stop"}  BY <1>2 DEF ConfigOps, first
<1>9. AnsweredHolds' /\ \A k \in Nodes : HoldsRound(k)' <=> HoldsRound(k)
  BY <1>2, <1>5, <1>6, <1>8, NoRequestTaken
<1>10. PrepTypes'
 <2>1. nodeFault' \in BOOLEAN
  <3>1. CASE nodeFault' = nodeFault  BY <1>a, <3>1 DEF PrepTypes
  <3>2. CASE nodeFault' = TRUE  BY <3>2
  <3> QED  BY <1>4, <3>1, <3>2
 <2>2. replies' \in [Nodes -> Seq(ReplyMessages)]  BY <1>6 DEF Answered
 <2> QED  BY <1>1, <1>2, <1>3, <1>a, <2>1, <2>2 DEF PrepTypes
<1>11. FlagsFit'  BY <1>3, <1>a DEF FlagsFit, FaultSettled
<1>12. FaultHeld'
 <2> SUFFICES ASSUME roundId # 0
              PROVE  /\ faultConfigured => HoldsRound(SenderNode)
                     /\ \A i \in 1 .. Len(commands'[SenderNode]) :
                           /\ commands'[SenderNode][i].op = "fault"
                           /\ commands'[SenderNode][i].name = roundId
                           => HoldsRound(SenderNode)
                     /\ \A i \in 1 .. Len(replies'[SenderNode]) :
                           AcceptsFault(replies'[SenderNode][i]) =>
                               HoldsRound(SenderNode) /\ (~stoppedOnce => nodeFault')
                     /\ faultReady /\ ~stoppedOnce => nodeFault'
  <3>1. \A s : AcceptsFault(s)' <=> AcceptsFault(s)  BY <1>3 DEF AcceptsFault
  <3> QED  BY <1>3, <1>9, <1>a, <3>1 DEF FaultHeld, AcceptsFault
 <2>0. /\ faultConfigured => HoldsRound(SenderNode)
       /\ \A i \in 1 .. Len(commands[SenderNode]) :
             commands[SenderNode][i].op = "fault" /\ commands[SenderNode][i].name = roundId
                 => HoldsRound(SenderNode)
       /\ \A i \in 1 .. Len(replies[SenderNode]) : AcceptsFault(replies[SenderNode][i]) =>
             HoldsRound(SenderNode) /\ (~stoppedOnce => nodeFault)
       /\ faultReady /\ ~stoppedOnce => nodeFault
   BY <1>a DEF FaultHeld
 <2>1. nodeFault => nodeFault'  BY <1>4
 <2>2. \A i \in 1 .. Len(commands'[SenderNode]) : \E j \in 1 .. Len(commands[SenderNode]) :
           commands'[SenderNode][i] = commands[SenderNode][j]
   BY <1>1, <1>a
 <2>3. ASSUME NEW i \in 1 .. Len(replies'[SenderNode]), AcceptsFault(replies'[SenderNode][i])
       PROVE  HoldsRound(SenderNode) /\ (~stoppedOnce => nodeFault')
  <3>1. CASE \E j \in 1 .. Len(replies[SenderNode]) :
                 replies'[SenderNode][i] = replies[SenderNode][j]
    BY <2>0, <2>1, <2>3, <3>1
  <3>2. CASE replies'[SenderNode][i] = r
    BY <1>1, <1>2, <1>4, <1>5, <2>0, <2>3, <3>2 DEF AcceptsFault, first
  <3> QED  BY <1>6, <1>a, <3>1, <3>2 DEF Answered
 <2> QED  BY <2>0, <2>1, <2>2, <2>3
<1>13. StopsBehindStarts'  BY <1>2, <1>3, <1>8, <1>a, TakenQueues DEF StopsBehindStarts
<1>14. OneStart'
 <2>1. \A k \in Nodes : IsOver(k)' => IsOver(k)  BY <1>3, <1>5, <1>6 DEF Answered, HasResult, IsOver
 <2> QED  BY <1>2, <1>3, <1>a, <2>1, TakenQueues DEF OneStart
<1> QED  BY <1>7, <1>9, <1>10, <1>11, <1>12, <1>13, <1>14 DEF PrepInv

\* What a start or a stop has in common with the end of a round by itself: replies
\* are results, the fault plan is only forgotten.
LEMMA ResultsKeepFault ==
    ASSUME PrepInv, NEW n \in Nodes, NEW R, Answered(n, R), \A r \in R : r.type = "result",
           HoldsRound(SenderNode)' <=> HoldsRound(SenderNode),
           \A i \in 1 .. Len(commands'[SenderNode]) : \E j \in 1 .. Len(commands[SenderNode]) :
               commands'[SenderNode][i] = commands[SenderNode][j],
           UNCHANGED <<roundId, faultConfigured, faultReady, stoppedOnce>>,
           nodeFault' = nodeFault \/ stoppedOnce \/ roundId = 0 \/ ~HoldsRound(SenderNode)
    PROVE  FaultHeld'
<1>a. FaultHeld /\ SenderNode \in Nodes /\ (faultReady => faultConfigured)
  BY PreparationParameters DEF PrepInv, FlagsFit
<1> SUFFICES ASSUME roundId # 0
             PROVE  /\ faultConfigured => HoldsRound(SenderNode)
                    /\ \A i \in 1 .. Len(commands'[SenderNode]) :
                          /\ commands'[SenderNode][i].op = "fault"
                          /\ commands'[SenderNode][i].name = roundId
                          => HoldsRound(SenderNode)
                    /\ \A i \in 1 .. Len(replies'[SenderNode]) :
                          AcceptsFault(replies'[SenderNode][i]) =>
                              HoldsRound(SenderNode) /\ (~stoppedOnce => nodeFault')
                    /\ faultReady /\ ~stoppedOnce => nodeFault'
 <2>1. \A s : AcceptsFault(s)' <=> AcceptsFault(s)  BY DEF AcceptsFault
 <2> QED  BY <1>a, <2>1 DEF FaultHeld, AcceptsFault
<1>1. ASSUME NEW i \in 1 .. Len(replies'[SenderNode]), AcceptsFault(replies'[SenderNode][i])
      PROVE  HoldsRound(SenderNode) /\ (~stoppedOnce => nodeFault')
 <2>1. replies'[SenderNode][i] \notin R  BY <1>1 DEF AcceptsFault
 <2>2. PICK j \in 1 .. Len(replies[SenderNode]) :
                replies'[SenderNode][i] = replies[SenderNode][j]
   BY <1>a, <2>1 DEF Answered
 <2>3. HoldsRound(SenderNode) /\ (~stoppedOnce => nodeFault)  BY <1>1, <1>a, <2>2 DEF FaultHeld
 <2> QED  BY <2>3
<1> QED  BY <1>1, <1>a DEF FaultHeld

LEMMA EndOfRunFits ==
    ASSUME PrepTypes, NEW n \in Nodes
    PROVE  /\ EndOfRun(n) \in ReplyMessages /\ EndOfRun(n).type = "result"
           /\ ReplyFits(n, EndOfRun(n), preparations)
  BY DEF PrepTypes, EndOfRun, ReplyMessages, ReplyFits

LEMMA NodeCommandedOK ==
    ASSUME PrepInv, NEW n \in Nodes, Takes(n), NodeCommanded(n)
    PROVE  PrepInv'
<1> DEFINE first == commands[n][1]
<1>a. /\ PrepTypes /\ FlagsFit /\ FaultHeld /\ StopsBehindStarts /\ OneStart /\ OldStopsFirst
      /\ SenderNode \in Nodes
  BY PreparationParameters DEF PrepInv
<1>1. /\ commands' \in [Nodes -> Seq(CommandMessages)] /\ commands'[n] = Tail(commands[n])
      /\ commands[n] \in Seq(CommandMessages) /\ commands[n] # <<>>
      /\ 1 \in 1 .. Len(commands[n]) /\ Head(commands[n]) = first
      /\ first.name \in Nat /\ CommandFits(n, first, preparations, roundStarts)
      /\ \A k \in Nodes \ {n} : commands'[k] = commands[k]
      /\ \A k \in Nodes : \A i \in 1 .. Len(commands'[k]) :
            \E j \in 1 .. Len(commands[k]) : commands'[k][i] = commands[k][j]
  BY CommandTaken DEF Takes
<1>2. first.op \in {"start", "stop"} /\ prepared' = prepared  BY <1>1 DEF NodeCommanded
<1>3. UNCHANGED <<roundId, preparations, participants, pendingConfig, rejected, configReady,
                  faultConfigured, faultPending, faultRejected, faultReady, inRound, received,
                  roundStarts, unreachable, stoppedOnce, online>>
  BY DEF Takes, configVars, faultFlags, roundVars
<1>4. \/ /\ first.op = "start" /\ nodeRuns' = [nodeRuns EXCEPT ![n] = first.name]
         /\ UNCHANGED <<replies, nodeFault>>
      \/ /\ nodeRuns' = [nodeRuns EXCEPT ![n] = 0] /\ Says(n, ResultIfRuns(n))
         /\ nodeFault' = IF first.op = "stop" /\ n = SenderNode THEN FALSE ELSE nodeFault
  BY <1>1 DEF NodeCommanded
<1> HIDE DEF first
<1>5. /\ \A k \in Nodes \ {n} : nodeRuns'[k] = nodeRuns[k]
      /\ nodeRuns' \in [Nodes -> Nat] /\ \A k \in Nodes : nodeRuns'[k] <= roundStarts
      /\ nodeRuns'[n] # 0 => first.op = "start"
      /\ UNCHANGED replies \/ (nodeRuns'[n] = 0 /\ Says(n, ResultIfRuns(n)))
 <2>1. nodeRuns \in [Nodes -> Nat] /\ \A k \in Nodes : nodeRuns[k] <= roundStarts
   BY <1>a DEF PrepTypes
 <2>2. CASE /\ first.op = "start" /\ nodeRuns' = [nodeRuns EXCEPT ![n] = first.name]
            /\ UNCHANGED <<replies, nodeFault>>
   BY <1>1, <2>1, <2>2 DEF CommandFits
 <2>3. CASE /\ nodeRuns' = [nodeRuns EXCEPT ![n] = 0] /\ Says(n, ResultIfRuns(n))
   BY <2>1, <2>3, <1>a DEF PrepTypes
 <2> QED  BY <1>4, <2>2, <2>3
<1>6. PICK S : /\ Answered(n, S) /\ S \subseteq {EndOfRun(n)}
               /\ S # {} => nodeRuns[n] # 0 /\ nodeRuns'[n] = 0
 <2>1. CASE UNCHANGED replies  BY <1>a, <2>1, NothingSaid
 <2>2. CASE nodeRuns[n] = 0 /\ Says(n, ResultIfRuns(n))  BY <1>a, <2>2, NothingSaid DEF ResultIfRuns
 <2>3. CASE nodeRuns[n] # 0 /\ nodeRuns'[n] = 0 /\ Says(n, ResultIfRuns(n))
   BY <2>3, <1>a, ReplySaid, EndOfRunFits DEF ResultIfRuns
 <2> QED  BY <1>5, <2>1, <2>2, <2>3
<1>7. /\ EndOfRun(n) \in ReplyMessages /\ EndOfRun(n).type = "result"
      /\ ReplyFits(n, EndOfRun(n), preparations)
  BY <1>a, EndOfRunFits
<1>8. MessagesFit' /\ LastIsLast' /\ OldStopsFirst'  BY <1>6, <1>7, TakingKeeps
<1>9. commands[n][1].op \notin ConfigOps  BY <1>2 DEF ConfigOps, first
<1>10. AnsweredHolds' /\ \A k \in Nodes : HoldsRound(k)' <=> HoldsRound(k)
  BY <1>2, <1>6, <1>7, <1>9, NoRequestTaken
<1>11. PrepTypes'
 <2>1. nodeFault' \in BOOLEAN
  <3>1. CASE nodeFault' = nodeFault  BY <1>a, <3>1 DEF PrepTypes
  <3>2. CASE nodeFault' = FALSE  BY <3>2
  <3> QED  BY <1>4, <3>1, <3>2
 <2>2. replies' \in [Nodes -> Seq(ReplyMessages)]  BY <1>6 DEF Answered
 <2> QED  BY <1>1, <1>2, <1>3, <1>5, <1>a, <2>1, <2>2 DEF PrepTypes
<1>12. FlagsFit'  BY <1>3, <1>a DEF FlagsFit, FaultSettled
<1>13. FaultHeld'
 <2>1. nodeFault' = nodeFault \/ stoppedOnce \/ roundId = 0 \/ ~HoldsRound(SenderNode)
  <3> SUFFICES ASSUME nodeFault' # nodeFault, ~stoppedOnce, roundId # 0
               PROVE  ~HoldsRound(SenderNode)
    OBVIOUS
  <3>1. first.op = "stop" /\ n = SenderNode  BY <1>4
  <3>2. SenderNode \in participants  BY <1>a DEF FlagsFit
  <3>3. FollowedBy(commands[n], {"stop"}, ConfigOps)  BY <1>a, <3>1, <3>2 DEF OldStopsFirst
  <3>4. PICK j \in 1 + 1 .. Len(commands[n]) : commands[n][j].op \in ConfigOps
    BY <1>1, <3>1, <3>3 DEF FollowedBy, first
  <3>5. j \in 1 .. Len(commands[n])  BY <1>1, <3>4
  <3> QED  BY <3>1, <3>4, <3>5 DEF HoldsRound, Without
 <2>2. \A r \in S : r.type = "result"  BY <1>6, <1>7
 <2>3. \A i \in 1 .. Len(commands'[SenderNode]) : \E j \in 1 .. Len(commands[SenderNode]) :
           commands'[SenderNode][i] = commands[SenderNode][j]
   BY <1>1, <1>a
 <2> QED  BY <1>3, <1>6, <1>10, <1>a, <2>1, <2>2, <2>3, ResultsKeepFault
<1>14. StopsBehindStarts'
 <2> SUFFICES ASSUME ~inRound, NEW k \in Nodes \ unreachable
              PROVE  /\ FollowedBy(commands'[k], {"start"}, {"stop"})
                     /\ nodeRuns'[k] # 0 => ~Without(commands'[k], {"stop"})
   BY <1>3 DEF StopsBehindStarts
 <2>1. /\ FollowedBy(commands[k], {"start"}, {"stop"})
       /\ nodeRuns[k] # 0 => ~Without(commands[k], {"stop"})
   BY <1>a DEF StopsBehindStarts
 <2>2. FollowedBy(commands'[k], {"start"}, {"stop"})  BY <2>1, TakenQueues
 <2>3. CASE k # n  BY <1>1, <1>5, <2>1, <2>2, <2>3
 <2>4. CASE k = n
  <3>1. ASSUME first.op = "start" PROVE ~Without(commands'[n], {"stop"})
   <4>1. PICK j \in 1 + 1 .. Len(commands[n]) : commands[n][j].op \in {"stop"}
     BY <1>1, <2>1, <2>4, <3>1 DEF FollowedBy, first
   <4>2. j \in 1 .. Len(commands[n]) /\ ~Without(commands[n], {"stop"})  BY <1>1, <4>1 DEF Without
   <4>3. commands[n][1].op \notin {"stop"}  BY <3>1 DEF first
   <4> QED  BY <4>2, <4>3, TakenQueues
  <3> QED  BY <1>5, <2>2, <2>4, <3>1
 <2> QED  BY <2>3, <2>4
<1>15. OneStart'
 <2> SUFFICES ASSUME inRound, NEW k \in Nodes
              PROVE  /\ StartsOnce(commands'[k])
                     /\ nodeRuns'[k] # 0 \/ IsOver(k)' => Without(commands'[k], {"start"})
                     /\ IsOver(k)' => nodeRuns'[k] = 0
   BY <1>3 DEF OneStart
 <2>1. /\ StartsOnce(commands[k])
       /\ nodeRuns[k] # 0 \/ IsOver(k) => Without(commands[k], {"start"})
       /\ IsOver(k) => nodeRuns[k] = 0
   BY <1>a DEF OneStart
 <2>2. StartsOnce(commands'[k]) /\ (Without(commands[k], {"start"}) => Without(commands'[k], {"start"}))
   BY <2>1, TakenQueues
 <2>3. IsOver(k)' => IsOver(k) \/ (k = n /\ nodeRuns[n] # 0 /\ nodeRuns'[n] = 0)
  <3>1. ASSUME HasResult(k)' PROVE HasResult(k) \/ (k = n /\ S # {})
   <4>1. PICK i \in 1 .. Len(replies'[k]) : replies'[k][i].type = "result"  BY <3>1 DEF HasResult
   <4>2. CASE \E j \in 1 .. Len(replies[k]) : replies'[k][i] = replies[k][j]
     BY <4>1, <4>2 DEF HasResult
   <4>3. CASE k = n /\ replies'[k][i] \in S  BY <4>3
   <4> QED  BY <1>6, <4>2, <4>3 DEF Answered
  <3> QED  BY <1>3, <1>6, <3>1 DEF IsOver
 <2>4. CASE k # n  BY <1>5, <2>1, <2>2, <2>3, <2>4
 <2>5. CASE k = n /\ nodeRuns'[n] = 0  BY <2>1, <2>2, <2>3, <2>5
 <2>6. CASE k = n /\ nodeRuns'[n] # 0
  <3>1. first.op = "start" /\ Head(commands[n]).op = "start"  BY <1>1, <1>5, <2>6
  <3>2. Without(commands'[n], {"start"})  BY <1>1, <2>1, <2>6, <3>1, StartsTail
  <3>3. ~Without(commands[n], {"start"})  BY <1>1, <3>1 DEF Without, first
  <3> QED  BY <2>1, <2>2, <2>3, <2>6, <3>2, <3>3
 <2> QED  BY <2>4, <2>5, <2>6
<1> QED  BY <1>8, <1>10, <1>11, <1>12, <1>13, <1>14, <1>15 DEF PrepInv

LEMMA NodeEndsOK ==
    ASSUME PrepInv, NEW n \in Nodes, NodeEnds(n)
    PROVE  PrepInv'
<1>a. /\ PrepTypes /\ FlagsFit /\ MessagesFit /\ LastIsLast /\ AnsweredHolds /\ OldStopsFirst
      /\ FaultHeld /\ StopsBehindStarts /\ OneStart /\ SenderNode \in Nodes
  BY PreparationParameters DEF PrepInv
<1>1. UNCHANGED <<roundId, preparations, participants, pendingConfig, rejected, configReady,
                  faultConfigured, faultPending, faultRejected, faultReady, inRound, received,
                  roundStarts, unreachable, stoppedOnce, prepared, nodeFault, online, commands>>
  BY DEF NodeEnds, configVars, faultFlags, roundVars
<1>2. /\ EndOfRun(n) \in ReplyMessages /\ EndOfRun(n).type = "result"
      /\ ReplyFits(n, EndOfRun(n), preparations)
  BY <1>a, EndOfRunFits
<1>3. Answered(n, {EndOfRun(n)})  BY <1>2, <1>a, ReplySaid DEF NodeEnds
<1>4. /\ nodeRuns[n] # 0 /\ nodeRuns' = [nodeRuns EXCEPT ![n] = 0]
      /\ nodeRuns \in [Nodes -> Nat] /\ roundStarts \in Nat
  BY <1>a DEF NodeEnds, PrepTypes
<1>5. /\ nodeRuns'[n] = 0 /\ \A k \in Nodes \ {n} : nodeRuns'[k] = nodeRuns[k]
      /\ nodeRuns' \in [Nodes -> Nat]
  BY <1>4
<1>6. PrepTypes'  BY <1>1, <1>3, <1>4, <1>5, <1>a DEF PrepTypes, Answered
<1>7. MessagesFit'
 <2>1. ASSUME NEW k \in Nodes, NEW i \in 1 .. Len(replies'[k])
       PROVE  ReplyFits(k, replies'[k][i], preparations)
  <3>1. CASE \E j \in 1 .. Len(replies[k]) : replies'[k][i] = replies[k][j]
    BY <1>a, <3>1 DEF MessagesFit
  <3>2. CASE k = n /\ replies'[k][i] = EndOfRun(n)  BY <1>2, <3>2
  <3> QED  BY <1>3, <3>1, <3>2 DEF Answered
 <2> QED  BY <1>1, <1>a, <2>1 DEF MessagesFit
<1>8. FlagsFit' /\ LastIsLast' /\ OldStopsFirst'
  BY <1>1, <1>a DEF FlagsFit, FaultSettled, LastIsLast, LastRequest, OldStopsFirst
<1>9. \A k \in Nodes : HoldsRound(k)' <=> HoldsRound(k)  BY <1>1 DEF HoldsRound
<1>10. AnsweredHolds'
 <2>1. \A m, s : Confirms(m, s)' <=> Confirms(m, s)  BY <1>1 DEF Confirms, LastRequest
 <2>2. participants \subseteq Nodes  BY <1>a DEF FlagsFit
 <2>3. ASSUME roundId # 0, NEW k \in participants, NEW i \in 1 .. Len(replies'[k]),
              Confirms(k, replies'[k][i])
       PROVE  HoldsRound(k)
  <3>1. replies'[k][i] # EndOfRun(n)  BY <1>2, <2>3 DEF Confirms
  <3>2. PICK j \in 1 .. Len(replies[k]) : replies'[k][i] = replies[k][j]
    BY <1>3, <2>2, <3>1 DEF Answered
  <3> QED  BY <1>a, <2>3, <3>2 DEF AnsweredHolds
 <2> QED  BY <1>1, <1>9, <1>a, <2>1, <2>2, <2>3 DEF AnsweredHolds, Confirms, LastRequest
<1>11. FaultHeld'  BY <1>1, <1>2, <1>3, <1>9, <1>a, ResultsKeepFault
<1>12. StopsBehindStarts'  BY <1>1, <1>5, <1>a DEF StopsBehindStarts
<1>13. OneStart'
 <2>1. \A k \in Nodes : IsOver(k)' => IsOver(k) \/ k = n
   BY <1>1, <1>3 DEF Answered, IsOver, HasResult
 <2> QED  BY <1>1, <1>4, <1>5, <1>a, <2>1 DEF OneStart
<1> QED  BY <1>6, <1>7, <1>8, <1>10, <1>11, <1>12, <1>13 DEF PrepInv

-----------------------------------------------------------------------------
(* Connections.                                                             *)

LEMMA CancelKeeps ==
    ASSUME PrepInv, NEW down, CancelWait(down),
           UNCHANGED <<roundId, preparations, participants, received, inRound, roundStarts>>
    PROVE  /\ FlagsFit' /\ faultConfigured' = faultConfigured
           /\ pendingConfig' \subseteq AckNames
           /\ rejected' \in BOOLEAN /\ configReady' \in BOOLEAN /\ faultPending' \in BOOLEAN
           /\ faultRejected' \in BOOLEAN /\ faultReady' \in BOOLEAN
           /\ faultReady' => faultReady
           /\ rejected' \/ (rejected' = rejected /\ pendingConfig' = pendingConfig)
<1>a. PrepTypes /\ FlagsFit  BY DEF PrepInv
<1>1. CASE UNCHANGED <<configVars, faultFlags>>
  BY <1>a, <1>1 DEF PrepTypes, FlagsFit, FaultSettled, configVars, faultFlags
<1>2. CASE /\ WaitIsOver(down)
           /\ pendingConfig' = {} /\ faultPending' = FALSE
           /\ rejected' = TRUE /\ configReady' = FALSE
           /\ faultRejected' = TRUE /\ faultReady' = FALSE
           /\ faultConfigured' = faultConfigured
  BY <1>2, <1>a DEF WaitIsOver, FlagsFit, FaultSettled, PrepTypes
<1> QED  BY <1>1, <1>2 DEF CancelWait

\* Connections come and go: a queue stays or is lost.
Drops(lost) ==
    /\ commands' = [k \in Nodes |-> IF k \in lost THEN <<>> ELSE commands[k]]
    /\ replies' = [k \in Nodes |-> IF k \in lost THEN <<>> ELSE replies[k]]
    /\ online' \in [Nodes -> BOOLEAN] /\ unreachable' = unreachable \union lost
    /\ \E down : CancelWait(down)
    /\ UNCHANGED <<roundId, preparations, participants, inRound, received, roundStarts,
                   stoppedOnce, nodeSide>>

LEMMA DropsOK ==
    ASSUME PrepInv, NEW lost, Drops(lost)
    PROVE  PrepInv'
<1>a. /\ PrepTypes /\ FlagsFit /\ MessagesFit /\ LastIsLast /\ AnsweredHolds /\ OldStopsFirst
      /\ FaultHeld /\ StopsBehindStarts /\ OneStart /\ SenderNode \in Nodes
  BY PreparationParameters DEF PrepInv
<1>b. UNCHANGED <<roundId, preparations, participants, inRound, received, roundStarts, stoppedOnce,
                  prepared, nodeRuns, nodeFault>>
  BY DEF Drops, nodeSide
<1>1. /\ FlagsFit' /\ faultConfigured' = faultConfigured
      /\ pendingConfig' \subseteq AckNames
      /\ rejected' \in BOOLEAN /\ configReady' \in BOOLEAN /\ faultPending' \in BOOLEAN
      /\ faultRejected' \in BOOLEAN /\ faultReady' \in BOOLEAN
      /\ faultReady' => faultReady
      /\ rejected' \/ (rejected' = rejected /\ pendingConfig' = pendingConfig)
  BY <1>b, CancelKeeps DEF Drops
<1>2. \A k \in Nodes : /\ commands'[k] = <<>> \/ commands'[k] = commands[k]
                       /\ replies'[k] = <<>> \/ replies'[k] = replies[k]
                       /\ k \notin lost => commands'[k] = commands[k]
  BY DEF Drops
<1>3. /\ commands' \in [Nodes -> Seq(CommandMessages)] /\ replies' \in [Nodes -> Seq(ReplyMessages)]
  BY <1>a, EmptyQueue DEF PrepTypes, Drops
<1>4. PrepTypes'  BY <1>1, <1>3, <1>a, <1>b DEF Drops, PrepTypes
<1>5. MessagesFit'
 <2> SUFFICES ASSUME NEW k \in Nodes
              PROVE  /\ \A i \in 1 .. Len(commands'[k]) :
                           CommandFits(k, commands'[k][i], preparations, roundStarts)
                     /\ \A i \in 1 .. Len(replies'[k]) : ReplyFits(k, replies'[k][i], preparations)
   BY <1>b DEF MessagesFit
 <2>1. \A i \in 1 .. Len(commands'[k]) : CommandFits(k, commands'[k][i], preparations, roundStarts)
   BY <1>2, <1>a, EmptyQueue DEF MessagesFit
 <2>2. \A i \in 1 .. Len(replies'[k]) : ReplyFits(k, replies'[k][i], preparations)
   BY <1>2, <1>a, EmptyQueue DEF MessagesFit
 <2> QED  BY <2>1, <2>2
<1>6. LastIsLast'
 <2> SUFFICES ASSUME NEW k \in Nodes PROVE EndsWith(commands'[k], LastRequest(k), preparations)
   BY <1>b DEF LastIsLast, LastRequest
 <2> QED  BY <1>2, <1>a, EmptyQueue DEF LastIsLast
<1>7. \A k \in Nodes : HoldsRound(k) => HoldsRound(k)'  BY <1>2, <1>b, EmptyQueue DEF HoldsRound
<1>8. /\ \A k \in Nodes : \A i \in 1 .. Len(commands'[k]) :
             i \in 1 .. Len(commands[k]) /\ commands'[k][i] = commands[k][i]
      /\ \A k \in Nodes : \A i \in 1 .. Len(replies'[k]) :
             i \in 1 .. Len(replies[k]) /\ replies'[k][i] = replies[k][i]
  BY <1>2, EmptyQueue
<1>9. AnsweredHolds'
 <2> SUFFICES ASSUME roundId # 0, NEW k \in participants
              PROVE  /\ ~rejected' /\ <<roundId, LastRequest(k), k>> \notin pendingConfig'
                           => HoldsRound(k)'
                     /\ \A i \in 1 .. Len(replies'[k]) : Confirms(k, replies'[k][i]) => HoldsRound(k)'
  <3>1. \A m, s : Confirms(m, s)' <=> Confirms(m, s)  BY <1>b DEF Confirms, LastRequest
  <3> QED  BY <1>b, <3>1 DEF AnsweredHolds, Confirms, LastRequest
 <2>0. k \in Nodes  BY <1>a DEF FlagsFit
 <2>1. ASSUME ~rejected', <<roundId, LastRequest(k), k>> \notin pendingConfig' PROVE HoldsRound(k)
   BY <1>1, <1>a, <2>1 DEF AnsweredHolds
 <2>2. ASSUME NEW i \in 1 .. Len(replies'[k]), Confirms(k, replies'[k][i]) PROVE HoldsRound(k)
   BY <1>8, <2>0, <2>2, <1>a DEF AnsweredHolds
 <2> QED  BY <1>7, <2>0, <2>1, <2>2
<1>10. OldStopsFirst'
 <2> SUFFICES ASSUME roundId # 0, ~stoppedOnce, NEW k \in participants
              PROVE  FollowedBy(commands'[k], {"stop"}, ConfigOps)
   BY <1>b DEF OldStopsFirst
 <2>1. k \in Nodes /\ FollowedBy(commands[k], {"stop"}, ConfigOps)
   BY <1>a DEF OldStopsFirst, FlagsFit
 <2> QED  BY <1>2, <2>1, EmptyQueue
<1>11. FaultHeld'
 <2> SUFFICES ASSUME roundId # 0
              PROVE  /\ faultConfigured => HoldsRound(SenderNode)
                     /\ \A i \in 1 .. Len(commands'[SenderNode]) :
                           /\ commands'[SenderNode][i].op = "fault"
                           /\ commands'[SenderNode][i].name = roundId
                           => HoldsRound(SenderNode)
                     /\ \A i \in 1 .. Len(replies'[SenderNode]) :
                           AcceptsFault(replies'[SenderNode][i]) =>
                               HoldsRound(SenderNode) /\ (~stoppedOnce => nodeFault)
                     /\ faultReady' /\ ~stoppedOnce => nodeFault
  <3>1. \A s : AcceptsFault(s)' <=> AcceptsFault(s)  BY <1>b DEF AcceptsFault
  <3> QED  BY <1>1, <1>7, <1>a, <1>b, <3>1 DEF FaultHeld, AcceptsFault
 <2>1. ASSUME NEW i \in 1 .. Len(commands'[SenderNode]), commands'[SenderNode][i].op = "fault",
              commands'[SenderNode][i].name = roundId
       PROVE  HoldsRound(SenderNode)
   BY <1>8, <2>1, <1>a DEF FaultHeld
 <2>2. ASSUME NEW i \in 1 .. Len(replies'[SenderNode]), AcceptsFault(replies'[SenderNode][i])
       PROVE  HoldsRound(SenderNode) /\ (~stoppedOnce => nodeFault)
   BY <1>8, <2>2, <1>a DEF FaultHeld
 <2> QED  BY <1>1, <1>a, <2>1, <2>2 DEF FaultHeld
<1>12. StopsBehindStarts'
 <2> SUFFICES ASSUME ~inRound, NEW k \in Nodes \ unreachable'
              PROVE  /\ FollowedBy(commands'[k], {"start"}, {"stop"})
                     /\ nodeRuns[k] # 0 => ~Without(commands'[k], {"stop"})
   BY <1>b DEF StopsBehindStarts
 <2>1. k \notin lost /\ k \notin unreachable /\ commands'[k] = commands[k]  BY <1>2 DEF Drops
 <2> QED  BY <1>a, <2>1 DEF StopsBehindStarts
<1>13. OneStart'
 <2> SUFFICES ASSUME inRound, NEW k \in Nodes
              PROVE  /\ StartsOnce(commands'[k])
                     /\ nodeRuns[k] # 0 \/ IsOver(k)' => Without(commands'[k], {"start"})
                     /\ IsOver(k)' => nodeRuns[k] = 0
   BY <1>b DEF OneStart
 <2>1. IsOver(k)' => IsOver(k)  BY <1>8, <1>b DEF IsOver, HasResult
 <2>2. /\ StartsOnce(commands[k])
       /\ nodeRuns[k] # 0 \/ IsOver(k) => Without(commands[k], {"start"})
       /\ IsOver(k) => nodeRuns[k] = 0
   BY <1>a DEF OneStart
 <2>3. /\ StartsOnce(commands'[k])
       /\ Without(commands[k], {"start"}) => Without(commands'[k], {"start"})
   BY <1>2, <2>2, EmptyQueue
 <2> QED  BY <2>1, <2>2, <2>3
<1> QED  BY <1>1, <1>4, <1>5, <1>6, <1>9, <1>10, <1>11, <1>12, <1>13 DEF PrepInv

LEMMA LoseNodeOK ==
    ASSUME PrepInv, NEW n \in Nodes, LoseNode(n)
    PROVE  PrepInv'
<1>a. /\ commands \in [Nodes -> Seq(CommandMessages)] /\ replies \in [Nodes -> Seq(ReplyMessages)]
      /\ online \in [Nodes -> BOOLEAN]
  BY DEF PrepInv, PrepTypes
<1>1. /\ commands' = [commands EXCEPT ![n] = <<>>] /\ replies' = [replies EXCEPT ![n] = <<>>]
      /\ online' = [online EXCEPT ![n] = FALSE]
      /\ unreachable' = unreachable \union {n}
      /\ CancelWait({m \in Nodes : ~online'[m]})
      /\ UNCHANGED <<roundId, preparations, participants, inRound, received, roundStarts,
                     stoppedOnce, nodeSide>>
  BY DEF LoseNode
<1>2. /\ commands' = [k \in Nodes |-> IF k \in {n} THEN <<>> ELSE commands[k]]
      /\ replies' = [k \in Nodes |-> IF k \in {n} THEN <<>> ELSE replies[k]]
  BY <1>a, <1>1
<1>3. online' \in [Nodes -> BOOLEAN]  BY <1>a, <1>1
<1>4. Drops({n})  BY <1>1, <1>2, <1>3 DEF Drops
<1> QED  BY <1>4, DropsOK

LEMMA NodesChangedOK ==
    ASSUME PrepInv, NodesChanged
    PROVE  PrepInv'
<1>a. /\ commands \in [Nodes -> Seq(CommandMessages)] /\ replies \in [Nodes -> Seq(ReplyMessages)]
      /\ online \in [Nodes -> BOOLEAN]
  BY DEF PrepInv, PrepTypes
<1>1. /\ CancelWait({n \in Nodes : ~online'[n]})
      /\ UNCHANGED <<roundId, preparations, participants, roundVars, nodeSide, commands, replies>>
  BY DEF NodesChanged
<1>2. /\ commands' = [k \in Nodes |-> IF k \in {} THEN <<>> ELSE commands[k]]
      /\ replies' = [k \in Nodes |-> IF k \in {} THEN <<>> ELSE replies[k]]
  BY <1>a, <1>1
<1>3. PICK back : online' = [n \in Nodes |-> online[n] \/ n \in back]  BY DEF NodesChanged
<1>4. online' \in [Nodes -> BOOLEAN]  BY <1>3
<1>5. Drops({})  BY <1>1, <1>2, <1>4 DEF Drops, roundVars
<1> QED  BY <1>5, DropsOK

-----------------------------------------------------------------------------
(* The invariant, and what it says.                                         *)

LEMMA PrepInit ==
    ASSUME PreparationInit
    PROVE  PrepInv
<1>0. \A n \in Nodes : /\ commands[n] = <<>> /\ replies[n] = <<>> /\ nodeRuns[n] = 0
                       /\ prepared[n] = 0 /\ online[n] = TRUE
  BY DEF PreparationInit
<1>1. PrepTypes
 <2>1. /\ commands \in [Nodes -> Seq(CommandMessages)] /\ replies \in [Nodes -> Seq(ReplyMessages)]
       /\ online \in [Nodes -> BOOLEAN] /\ prepared \in [Nodes -> Nat] /\ nodeRuns \in [Nodes -> Nat]
   BY EmptyQueue DEF PreparationInit
 <2>2. /\ preparations = 0 /\ roundStarts = 0 /\ roundId = 0 /\ pendingConfig = {}
       /\ rejected = FALSE /\ configReady = FALSE /\ inRound = FALSE
       /\ faultConfigured = FALSE /\ faultPending = FALSE /\ faultRejected = FALSE
       /\ faultReady = FALSE /\ nodeFault = FALSE /\ stoppedOnce = FALSE
   BY DEF PreparationInit
 <2>3. /\ roundId \in {0, preparations} /\ preparations \in Nat /\ preparations <= LastPreparation
       /\ roundStarts \in Nat /\ roundStarts <= MaxRoundStarts /\ pendingConfig \subseteq AckNames
       /\ \A n \in Nodes : prepared[n] <= preparations /\ nodeRuns[n] <= roundStarts
   BY <1>0, <2>2, PreparationParameters
 <2>4. /\ rejected \in BOOLEAN /\ configReady \in BOOLEAN /\ inRound \in BOOLEAN
       /\ faultConfigured \in BOOLEAN /\ faultPending \in BOOLEAN
       /\ faultRejected \in BOOLEAN /\ faultReady \in BOOLEAN
       /\ nodeFault \in BOOLEAN /\ stoppedOnce \in BOOLEAN
   BY <2>2
 <2> QED  BY <2>1, <2>3, <2>4 DEF PrepTypes
<1>2. FlagsFit  BY DEF PreparationInit, FlagsFit
<1>3. MessagesFit  BY <1>0, EmptyQueue DEF MessagesFit
<1>4. LastIsLast  BY <1>0, EmptyQueue DEF LastIsLast
<1>5. AnsweredHolds /\ OldStopsFirst /\ FaultHeld
  BY DEF PreparationInit, AnsweredHolds, OldStopsFirst, FaultHeld
<1>6. StopsBehindStarts  BY <1>0, EmptyQueue DEF StopsBehindStarts
<1>7. OneStart  BY DEF PreparationInit, OneStart
<1> QED  BY <1>1, <1>2, <1>3, <1>4, <1>5, <1>6, <1>7 DEF PrepInv

LEMMA PrepStep ==
    ASSUME PrepInv, [PatientNext]_preparationVars
    PROVE  PrepInv'
<1>1. CASE UNCHANGED preparationVars
  BY <1>1 DEF preparationVars, configVars, faultFlags, roundVars, nodeSide, connections,
              PrepInv, PrepTypes, FlagsFit, MessagesFit, LastIsLast, LastRequest, AnsweredHolds,
              HoldsRound, Confirms, OldStopsFirst, FaultHeld, AcceptsFault, StopsBehindStarts,
              OneStart, IsOver, HasResult, FaultSettled
<1>2. ASSUME NEW n \in Nodes, NodeHandles(n) PROVE PrepInv'
  BY <1>2, NodeConfiguresOK, NodeTakesFaultOK, NodeCommandedOK DEF NodeHandles, Takes
<1>3. ASSUME StartAll, Patient PROVE PrepInv'
 <2>1. roundStarts' # roundStarts  BY <1>3 DEF StartAll, PrepInv, PrepTypes
 <2> QED  BY <1>3, <2>1, StartAllOK DEF Patient
<1>4. ASSUME NEW n \in Nodes, NodeEnds(n) \/ LoseNode(n) PROVE PrepInv'
  BY <1>4, NodeEndsOK, LoseNodeOK
<1>5. CASE ManagerOperator /\ Patient
  BY <1>3, <1>5, PrepareNodesOK, PrepareFailsOK, StopAllOK, ConfigureFaultPlanOK DEF ManagerOperator
<1>6. CASE ManagerReceives
  BY <1>6, HandleConfigAckOK, HandleFaultAckOK, HandleResultOK DEF ManagerReceives
<1> QED  BY <1>1, <1>2, <1>4, <1>5, <1>6, NodesChangedOK DEF PatientNext, PreparationNext

LEMMA PrepSays ==
    ASSUME PrepInv
    PROVE  PreparationTypeOK /\ ReadyMeansPrepared /\ NoOrphans /\ FaultInForce
<1>a. PrepTypes /\ FlagsFit /\ AnsweredHolds /\ FaultHeld /\ StopsBehindStarts  BY DEF PrepInv
<1>1. PreparationTypeOK  BY <1>a, PreparationParameters DEF PrepTypes, FlagsFit, PreparationTypeOK
<1>2. ReadyMeansPrepared  BY <1>a DEF ReadyMeansPrepared, FlagsFit, AnsweredHolds, HoldsRound
<1>3. NoOrphans
 <2> SUFFICES ASSUME Silent, ~inRound, NEW n \in Nodes, nodeRuns[n] # 0, n \notin unreachable
              PROVE  FALSE
   BY DEF NoOrphans
 <2>1. commands[n] = <<>>  BY DEF Silent
 <2> QED  BY <1>a, <2>1, EmptyQueue DEF StopsBehindStarts
<1>4. FaultInForce  BY <1>a DEF FaultInForce, FaultHeld, FlagsFit, FaultSettled
<1> QED  BY <1>1, <1>2, <1>3, <1>4

LEMMA EndedByAllStep ==
    ASSUME PrepInv, [PatientNext]_preparationVars, inRound, ~inRound', UNCHANGED commands
    PROVE  \A n \in participants :
               /\ nodeRuns[n] # roundStarts
               /\ \A i \in DOMAIN commands[n] : commands[n][i].op # "start"
<1>a. PrepTypes /\ FlagsFit  BY DEF PrepInv
<1>1. ASSUME NEW n \in Nodes, HandleResult(n)
      PROVE  \A m \in participants :
               /\ nodeRuns[m] # roundStarts
               /\ \A i \in DOMAIN commands[m] : commands[m][i].op # "start"
 <2> TAKE m \in participants
 <2>1. m \in Nodes /\ roundStarts > 0 /\ roundStarts \in Nat /\ commands[m] \in Seq(CommandMessages)
   BY <1>a DEF FlagsFit, PrepTypes
 <2>2. Without(commands[m], {"start"}) /\ nodeRuns[m] = 0  BY <1>1, <2>1, ResultEnds
 <2>3. DOMAIN commands[m] = 1 .. Len(commands[m])  BY <2>1
 <2> QED  BY <2>1, <2>2, <2>3 DEF Without
<1>2. ASSUME StopAll PROVE FALSE
 <2> DEFINE stop == <<[op |-> "stop", name |-> 0]>>
            q == commands[SenderNode]
 <2>1. stop \in Seq(CommandMessages) /\ Len(stop) = 1  BY OneMessage
 <2>2. SenderNode \in participants /\ SenderNode \in Nodes /\ participants \subseteq Connected
   BY <1>2, <1>a, PreparationParameters DEF FlagsFit, StopAll
 <2>3. q \in Seq(CommandMessages)  BY <1>a, <2>2 DEF PrepTypes
 <2> HIDE DEF stop
 <2>4. commands'[SenderNode] = q \o stop  BY <1>2, <2>2 DEF StopAll, SentTo, Connected, stop
 <2> HIDE DEF q
 <2>5. Len(q \o stop) = Len(q) + 1 /\ Len(q) \in Nat  BY <2>1, <2>3
 <2> QED  BY <2>4, <2>5 DEF q
<1>3. ~ManagerReceives => UNCHANGED inRound \/ StopAll
  BY DEF PatientNext, PreparationNext, ManagerOperator, PrepareNodes, PrepareFails, StartAll,
         ConfigureFaultPlan, NodesChanged, NodeHandles, NodeEnds, LoseNode, roundVars,
         preparationVars
<1>4. ASSUME NEW n \in Nodes, HandleConfigAck(n) \/ HandleFaultAck(n) PROVE FALSE
  BY <1>4 DEF HandleConfigAck, HandleFaultAck, roundVars
<1> QED  BY <1>1, <1>2, <1>3, <1>4 DEF ManagerReceives

\* A preparation is confirmed only when every participant holds this very round; what
\* runs when all has been said and no round is on was out of reach; the sender starts
\* with the plan the manager has shown as confirmed; and results end a round only
\* when every node has ended this start of it.
THEOREM PreparationSafe ==
    PreparationSpec =>
        /\ [](PreparationTypeOK /\ ReadyMeansPrepared /\ NoOrphans /\ FaultInForce)
        /\ EndedByAll
<1>1. PreparationSpec => []PrepInv  BY PrepInit, PrepStep, PTL DEF PreparationSpec
<1>2. PrepInv => PreparationTypeOK /\ ReadyMeansPrepared /\ NoOrphans /\ FaultInForce  BY PrepSays
<1>3. PrepInv /\ [PatientNext]_preparationVars =>
          [(inRound /\ ~inRound' /\ UNCHANGED commands) =>
              \A n \in participants :
                  /\ nodeRuns[n] # roundStarts
                  /\ \A i \in DOMAIN commands[n] : commands[n][i].op # "start"]_preparationVars
  BY EndedByAllStep
<1>4. PreparationSpec => EndedByAll  BY <1>1, <1>3, PTL DEF PreparationSpec, EndedByAll
<1> QED  BY <1>1, <1>2, <1>4, PTL

-----------------------------------------------------------------------------
(* MonitorLink: the connection of a monitor.                                 *)
Requested(kind) == \E i \in 1 .. Len(requests) : requests[i] = kind

\* Before the node has handled the hello, all that was asked is still under way.
HelloFirst ==
    /\ subscribed => mSocket = "connected" /\ ~Requested("hello")
    /\ mSocket = "connected" /\ ~subscribed => requests = AsksForSnapshot

\* Abnormal events on their way to the clients of the node.
OnItsWay == unqueued \union ToSet(toBroadcast) \union UNION ToSet(inHand)

\* An event is with the monitor, on its way, in the snapshot to come, or is known to
\* have been given up.
NothingLost ==
    subscribed => \/ Requested("snapshot")
                  \/ 1 .. happened \subseteq KnownEvents \union OnItsWay \union lostEvents

\* Nothing is told that did not happen.
OnlyHappened ==
    /\ KnownEvents \subseteq 1 .. happened
    /\ nodeStore \subseteq 1 .. happened /\ unqueued \subseteq 1 .. happened
    /\ ToSet(toBroadcast) \intersect Events \subseteq 1 .. happened
    /\ UNION ToSet(inHand) \subseteq 1 .. happened

MonitorInv == MonitorTypeOK /\ ShownStateIsSocket /\ HelloFirst /\ NothingLost /\ OnlyHappened

LEMMA NothingQueued ==
    ASSUME NEW S
    PROVE  <<>> \in Seq(S) /\ ToSet(<<>>) = {} /\ UNION ToSet(<<>>) = {}
<1>1. <<>> \in Seq(S) /\ DOMAIN <<>> = {}  OBVIOUS
<1> QED  BY <1>1 DEF ToSet

LEMMA SetOfAppend ==
    ASSUME NEW S, NEW q \in Seq(S), NEW x \in S
    PROVE  /\ Append(q, x) \in Seq(S) /\ Len(q) \in Nat /\ Len(Append(q, x)) = Len(q) + 1
           /\ Append(q, x)[Len(q) + 1] = x
           /\ \A i \in 1 .. Len(q) : Append(q, x)[i] = q[i]
           /\ ToSet(Append(q, x)) = ToSet(q) \union {x}
<1>1. /\ Append(q, x) \in Seq(S) /\ Len(q) \in Nat /\ Len(Append(q, x)) = Len(q) + 1
      /\ Append(q, x)[Len(q) + 1] = x
      /\ \A i \in 1 .. Len(q) : Append(q, x)[i] = q[i]
      /\ DOMAIN q = 1 .. Len(q) /\ DOMAIN Append(q, x) = 1 .. Len(q) + 1
  OBVIOUS
<1>2. ASSUME NEW y \in ToSet(Append(q, x)) PROVE y \in ToSet(q) \union {x}
 <2>1. PICK i \in 1 .. Len(q) + 1 : Append(q, x)[i] = y  BY <1>1, <1>2 DEF ToSet
 <2>2. i \in 1 .. Len(q) \/ i = Len(q) + 1  BY <1>1
 <2> QED  BY <1>1, <2>1, <2>2 DEF ToSet
<1>3. ASSUME NEW y \in ToSet(q) PROVE y \in ToSet(Append(q, x))
 <2>1. PICK i \in 1 .. Len(q) : q[i] = y  BY <1>1, <1>3 DEF ToSet
 <2>2. i \in 1 .. Len(q) + 1 /\ Append(q, x)[i] = y  BY <1>1, <2>1
 <2> QED  BY <1>1, <2>2 DEF ToSet
<1>4. x \in ToSet(Append(q, x))
 <2>1. Len(q) + 1 \in 1 .. Len(q) + 1  BY <1>1
 <2> QED  BY <1>1, <2>1 DEF ToSet
<1> QED  BY <1>1, <1>2, <1>3, <1>4

LEMMA SetOfOne ==
    ASSUME NEW S, NEW x \in S
    PROVE  <<x>> \in Seq(S) /\ UNION ToSet(<<x>>) = x
<1>1. <<x>> \in Seq(S) /\ DOMAIN <<x>> = {1} /\ <<x>>[1] = x  OBVIOUS
<1>2. ToSet(<<x>>) = {x}  BY <1>1 DEF ToSet
<1> QED  BY <1>1, <1>2

LEMMA SetOfTail ==
    ASSUME NEW S, NEW q \in Seq(S), q # <<>>
    PROVE  /\ Tail(q) \in Seq(S) /\ Len(q) \in Nat /\ Len(q) > 0
           /\ Len(Tail(q)) = Len(q) - 1 /\ Head(q) = q[1] /\ q[1] \in S
           /\ \A i \in 1 .. Len(Tail(q)) : i + 1 \in 1 .. Len(q) /\ Tail(q)[i] = q[i + 1]
           /\ \A i \in 2 .. Len(q) : i - 1 \in 1 .. Len(Tail(q)) /\ Tail(q)[i - 1] = q[i]
           /\ ToSet(q) = {Head(q)} \union ToSet(Tail(q))
<1>1. /\ Tail(q) \in Seq(S) /\ Len(q) \in Nat /\ Len(q) > 0
      /\ Len(Tail(q)) = Len(q) - 1 /\ Head(q) = q[1] /\ q[1] \in S
      /\ \A i \in 1 .. Len(Tail(q)) : i + 1 \in 1 .. Len(q) /\ Tail(q)[i] = q[i + 1]
      /\ \A i \in 2 .. Len(q) : i - 1 \in 1 .. Len(Tail(q)) /\ Tail(q)[i - 1] = q[i]
      /\ DOMAIN q = 1 .. Len(q) /\ DOMAIN Tail(q) = 1 .. Len(Tail(q))
  OBVIOUS
<1>2. ASSUME NEW y \in ToSet(q) PROVE y \in {Head(q)} \union ToSet(Tail(q))
 <2>1. PICK i \in 1 .. Len(q) : q[i] = y  BY <1>1, <1>2 DEF ToSet
 <2>2. i = 1 \/ i \in 2 .. Len(q)  BY <1>1
 <2> QED  BY <1>1, <2>1, <2>2 DEF ToSet
<1>3. ASSUME NEW y \in ToSet(Tail(q)) PROVE y \in ToSet(q)
 <2>1. PICK i \in 1 .. Len(Tail(q)) : Tail(q)[i] = y  BY <1>1, <1>3 DEF ToSet
 <2> QED  BY <1>1, <2>1 DEF ToSet
<1>4. Head(q) \in ToSet(q)
 <2>1. 1 \in DOMAIN q  BY <1>1
 <2> QED  BY <1>1, <2>1 DEF ToSet
<1> QED  BY <1>1, <1>2, <1>3, <1>4

LEMMA SetOfJoined ==
    ASSUME NEW S, NEW p \in Seq(S), NEW q \in Seq(S)
    PROVE  p \o q \in Seq(S) /\ ToSet(p \o q) = ToSet(p) \union ToSet(q)
<1>1. /\ p \o q \in Seq(S) /\ Len(p) \in Nat /\ Len(q) \in Nat
      /\ DOMAIN p = 1 .. Len(p) /\ DOMAIN q = 1 .. Len(q)
      /\ DOMAIN (p \o q) = 1 .. Len(p) + Len(q)
      /\ \A i \in 1 .. Len(p) : (p \o q)[i] = p[i]
      /\ \A i \in 1 .. Len(q) : (p \o q)[Len(p) + i] = q[i]
      /\ \A i \in Len(p) + 1 .. Len(p) + Len(q) : (p \o q)[i] = q[i - Len(p)]
  OBVIOUS
<1>2. ASSUME NEW y \in ToSet(p \o q) PROVE y \in ToSet(p) \union ToSet(q)
 <2>1. PICK i \in 1 .. Len(p) + Len(q) : (p \o q)[i] = y  BY <1>1, <1>2 DEF ToSet
 <2>2. CASE i \in 1 .. Len(p)  BY <1>1, <2>1, <2>2 DEF ToSet
 <2>3. CASE i \in Len(p) + 1 .. Len(p) + Len(q)
  <3>1. i - Len(p) \in DOMAIN q /\ q[i - Len(p)] = y  BY <1>1, <2>1, <2>3
  <3> QED  BY <3>1 DEF ToSet
 <2> QED  BY <1>1, <2>2, <2>3
<1>3. ASSUME NEW y \in ToSet(p) PROVE y \in ToSet(p \o q)
 <2>1. PICK i \in 1 .. Len(p) : p[i] = y  BY <1>1, <1>3 DEF ToSet
 <2>2. i \in DOMAIN (p \o q) /\ (p \o q)[i] = y  BY <1>1, <2>1
 <2> QED  BY <2>2 DEF ToSet
<1>4. ASSUME NEW y \in ToSet(q) PROVE y \in ToSet(p \o q)
 <2>1. PICK i \in 1 .. Len(q) : q[i] = y  BY <1>1, <1>4 DEF ToSet
 <2>2. Len(p) + i \in DOMAIN (p \o q) /\ (p \o q)[Len(p) + i] = y  BY <1>1, <2>1
 <2> QED  BY <2>2 DEF ToSet
<1> QED  BY <1>1, <1>2, <1>3, <1>4

LEMMA SetOfRemoved ==
    ASSUME NEW S, NEW q \in Seq(S), NEW i \in 1 .. Len(q)
    PROVE  /\ RemoveAt(q, i) \in Seq(S) /\ ToSet(RemoveAt(q, i)) \subseteq ToSet(q)
           /\ ToSet(q) \subseteq ToSet(RemoveAt(q, i)) \union {q[i]}
<1> DEFINE before == SubSeq(q, 1, i - 1)
           after == SubSeq(q, i + 1, Len(q))
<1>1. Len(q) \in Nat /\ DOMAIN q = 1 .. Len(q) /\ \A j \in 1 .. Len(q) : q[j] \in S  OBVIOUS
<1>2. /\ before \in Seq(S) /\ DOMAIN before = 1 .. i - 1
      /\ \A j \in 1 .. i - 1 : before[j] = q[j]
  BY <1>1
<1>3. /\ after \in Seq(S) /\ DOMAIN after = 1 .. Len(q) - i
      /\ \A j \in 1 .. Len(q) - i : after[j] = q[i + j]
  BY <1>1
<1>4. ToSet(RemoveAt(q, i)) = ToSet(before) \union ToSet(after) /\ RemoveAt(q, i) \in Seq(S)
  BY <1>2, <1>3, SetOfJoined DEF RemoveAt
<1>5. ToSet(before) \subseteq ToSet(q)  BY <1>1, <1>2 DEF ToSet
<1>6. ToSet(after) \subseteq ToSet(q)
 <2> SUFFICES ASSUME NEW j \in 1 .. Len(q) - i PROVE after[j] \in ToSet(q)  BY <1>3 DEF ToSet
 <2>1. i + j \in DOMAIN q /\ q[i + j] = after[j]  BY <1>1, <1>3
 <2> QED  BY <2>1 DEF ToSet
<1>7. ASSUME NEW y \in ToSet(q), y # q[i] PROVE y \in ToSet(before) \union ToSet(after)
 <2>1. PICK j \in 1 .. Len(q) : q[j] = y  BY <1>1, <1>7 DEF ToSet
 <2>2. j \in 1 .. i - 1 \/ j \in i + 1 .. Len(q)  BY <1>1, <1>7, <2>1
 <2>3. CASE j \in 1 .. i - 1  BY <1>2, <2>1, <2>3 DEF ToSet
 <2>4. CASE j \in i + 1 .. Len(q)
  <3>1. j - i \in DOMAIN after /\ after[j - i] = y
   <4>1. j - i \in 1 .. Len(q) - i /\ i + (j - i) = j  BY <1>1, <2>4
   <4> QED  BY <1>3, <2>1, <4>1
  <3> QED  BY <3>1 DEF ToSet
 <2> QED  BY <2>2, <2>3, <2>4
<1> QED  BY <1>4, <1>5, <1>6, <1>7

LEMMA MonitorInitOK ==
    ASSUME MonitorInit
    PROVE  MonitorInv
<1>1. MonitorTypeOK
 <2>1. /\ <<>> \in Seq(Observations) /\ <<>> \in Seq(Asked) /\ <<>> \in Seq(Replies)  OBVIOUS
 <2>2. noResponse \in 0 .. ResponseTimeout /\ happened \in 0 .. MaxAbnormal
       /\ connects \in 0 .. MaxConnects
   BY MonitorParameters DEF MonitorInit
 <2> QED  BY <2>1, <2>2 DEF MonitorInit, MonitorTypeOK
<1>2. ShownStateIsSocket  BY DEF MonitorInit, ShownStateIsSocket
<1>3. HelloFirst /\ NothingLost  BY DEF MonitorInit, HelloFirst, NothingLost
<1>4. OnlyHappened  BY NothingQueued DEF MonitorInit, OnlyHappened, KnownEvents
<1> QED  BY <1>1, <1>2, <1>3, <1>4 DEF MonitorInv

\* Where the connection ends, or is made anew.
LEMMA ConnectionGoneOK ==
    ASSUME MonitorInv, ConnectToNode \/ ConnectFails \/ MonitorDisconnected \/ (Poll /\ GivesUp)
    PROVE  MonitorInv'
<1>a. MonitorTypeOK /\ OnlyHappened  BY DEF MonitorInv
<1>1. /\ subscribed' = FALSE /\ requests' = <<>> /\ responses' = <<>> /\ lostEvents' = {}
      /\ mSocket' # "connected" /\ noResponse' = 0
      /\ UNCHANGED <<happened, nodeStore, unqueued, toBroadcast, inHand>>
      /\ records' \in {{}, records}
  BY DEF ConnectToNode, ConnectFails, MonitorDisconnected, Poll, ConnectionGone, broadcastEnd
<1>2. /\ mState' \in {"Disconnected", "Connecting"} /\ polling' = FALSE
      /\ mSocket' \in {"unconnected", "connecting"}
      /\ mState' = "Connecting" <=> mSocket' = "connecting"
      /\ connects' \in 0 .. MaxConnects
 <2>1. CASE ConnectToNode
  <3>1. polling' = FALSE  BY <2>1 DEF MonitorInv, ShownStateIsSocket, ConnectToNode
  <3>2. connects' \in 0 .. MaxConnects
    BY <1>a, <2>1, MonitorParameters DEF ConnectToNode, MonitorTypeOK
  <3> QED  BY <2>1, <3>1, <3>2 DEF ConnectToNode
 <2>2. CASE ConnectFails \/ MonitorDisconnected \/ (Poll /\ GivesUp)
   BY <1>a, <2>2 DEF ConnectFails, MonitorDisconnected, Poll, StateAfterRefusal, MonitorTypeOK
 <2> QED  BY <2>1, <2>2
<1>3. MonitorTypeOK'
 <2>1. <<>> \in Seq(Asked) /\ <<>> \in Seq(Replies)  OBVIOUS
 <2>2. noResponse' \in 0 .. ResponseTimeout  BY <1>1, MonitorParameters
 <2> QED  BY <1>1, <1>2, <1>a, <2>1, <2>2 DEF MonitorTypeOK
<1>4. ShownStateIsSocket'  BY <1>1, <1>2 DEF ShownStateIsSocket
<1>5. HelloFirst' /\ NothingLost'  BY <1>1 DEF HelloFirst, NothingLost
<1>6. OnlyHappened'
 <2>1. KnownEvents' \subseteq 1 .. happened'
   BY <1>1, <1>a, NothingQueued DEF OnlyHappened, KnownEvents
 <2> QED  BY <1>1, <1>a, <2>1 DEF OnlyHappened
<1> QED  BY <1>3, <1>4, <1>5, <1>6 DEF MonitorInv

LEMMA MonitorConnectedOK ==
    ASSUME MonitorInv, MonitorConnected
    PROVE  MonitorInv'
<1>a. MonitorTypeOK /\ OnlyHappened /\ HelloFirst  BY DEF MonitorInv
<1>b. UNCHANGED <<records, happened, nodeStore, unqueued, toBroadcast, inHand, subscribed,
                  responses, connects, lostEvents>>
  BY DEF MonitorConnected, broadcastEnd
<1>1. ~subscribed  BY <1>a DEF HelloFirst, MonitorConnected
<1>2. MonitorTypeOK'
 <2>1. requests' \in Seq(Asked)  BY DEF MonitorConnected, AsksForSnapshot, Asked
 <2> QED  BY <1>a, <1>b, <2>1, MonitorParameters DEF MonitorConnected, MonitorTypeOK
<1>3. ShownStateIsSocket'  BY DEF ShownStateIsSocket, MonitorConnected
<1>4. HelloFirst' /\ NothingLost'
  BY <1>1, <1>b DEF HelloFirst, NothingLost, MonitorConnected
<1>5. OnlyHappened'  BY <1>a, <1>b DEF OnlyHappened, KnownEvents
<1> QED  BY <1>2, <1>3, <1>4, <1>5 DEF MonitorInv

\* What is given up for good is accounted for, and before that the snapshot is to come.
LEMMA GivenUp ==
    ASSUME NEW events \in SUBSET Events, LosesForGood(events), lostEvents \subseteq Events
    PROVE  /\ lostEvents' \subseteq Events /\ lostEvents \subseteq lostEvents'
           /\ subscribed => Requested("snapshot") \/ events \subseteq lostEvents'
  BY DEF LosesForGood, Requested

LEMMA MonitorReceivesOK ==
    ASSUME MonitorInv, MonitorReceives
    PROVE  MonitorInv'
<1> DEFINE told == Head(responses)
<1>a. MonitorTypeOK /\ OnlyHappened /\ HelloFirst /\ NothingLost /\ ShownStateIsSocket
  BY DEF MonitorInv
<1>b. UNCHANGED <<mState, mSocket, polling, happened, nodeStore, unqueued, toBroadcast, inHand,
                  subscribed, requests, connects>>
  BY DEF MonitorReceives, broadcastEnd
<1>1. /\ responses' = Tail(responses) /\ responses' \in Seq(Replies) /\ told \in Replies
      /\ ToSet(responses) = {told} \union ToSet(responses') /\ noResponse' = 0
  BY <1>a, SetOfTail DEF MonitorReceives, MonitorTypeOK
<1>2. KnownEvents = records \union told \union UNION ToSet(responses')
      /\ KnownEvents' = records' \union UNION ToSet(responses')
  BY <1>1 DEF KnownEvents
<1>3. records \union told \subseteq Events  BY <1>1, <1>a DEF MonitorTypeOK, Replies
<1>4. /\ records' \subseteq records \union told /\ lostEvents' \subseteq Events
      /\ lostEvents \subseteq lostEvents'
      /\ subscribed => Requested("snapshot") \/ records \union told \subseteq records' \union lostEvents'
 <2>1. CASE records' = records \union told /\ UNCHANGED lostEvents  BY <1>a, <2>1 DEF MonitorTypeOK
 <2>2. CASE \E kept \in SUBSET (records \union told) :
                records' = kept /\ LosesForGood((records \union told) \ kept)
  <3>1. PICK kept \in SUBSET (records \union told) :
               records' = kept /\ LosesForGood((records \union told) \ kept)
    BY <2>2
  <3>2. /\ lostEvents' \subseteq Events /\ lostEvents \subseteq lostEvents'
        /\ subscribed =>
              Requested("snapshot") \/ (records \union told) \ kept \subseteq lostEvents'
    BY <1>3, <1>a, <3>1, GivenUp DEF MonitorTypeOK
  <3> QED  BY <3>1, <3>2
 <2> QED  BY <2>1, <2>2 DEF MonitorReceives, Recorded
<1>5. MonitorTypeOK'
 <2>1. noResponse' \in 0 .. ResponseTimeout  BY <1>1, MonitorParameters
 <2> QED  BY <1>1, <1>3, <1>4, <1>a, <1>b, <2>1 DEF MonitorTypeOK
<1>6. ShownStateIsSocket' /\ HelloFirst'
  BY <1>a, <1>b DEF ShownStateIsSocket, HelloFirst, Requested
<1>7. NothingLost'
 <2>1. OnItsWay' = OnItsWay /\ Requested("snapshot")' = Requested("snapshot")
   BY <1>b DEF OnItsWay, Requested
 <2> QED  BY <1>2, <1>4, <1>a, <1>b, <2>1 DEF NothingLost
<1>8. OnlyHappened'  BY <1>2, <1>4, <1>a, <1>b DEF OnlyHappened
<1> QED  BY <1>5, <1>6, <1>7, <1>8 DEF MonitorInv

LEMMA PollOK ==
    ASSUME MonitorInv, Poll
    PROVE  MonitorInv'
<1>a. MonitorTypeOK /\ OnlyHappened /\ HelloFirst /\ NothingLost /\ ShownStateIsSocket
  BY DEF MonitorInv
<1>1. CASE GivesUp  BY <1>1, ConnectionGoneOK
<1>2. CASE ~GivesUp
 <2>b. UNCHANGED <<mSocket, mState, polling, subscribed, responses, records, happened, nodeStore,
                   unqueued, toBroadcast, inHand, connects, lostEvents>>
   BY <1>2 DEF Poll, broadcastEnd
 <2>c. KnownEvents' = KnownEvents /\ OnItsWay' = OnItsWay  BY <2>b DEF KnownEvents, OnItsWay
 <2>1. noResponse' \in 0 .. ResponseTimeout
   BY <1>2, <1>a, MonitorParameters DEF Poll, ResponseTimedOut, MonitorTypeOK
 <2>2. OnlyHappened' /\ ShownStateIsSocket'
   BY <1>a, <2>b, <2>c DEF OnlyHappened, ShownStateIsSocket
 <2>3. CASE Requested("status") /\ requests' = requests
  <3>1. MonitorTypeOK'  BY <1>a, <2>1, <2>3, <2>b DEF MonitorTypeOK
  <3>2. HelloFirst'  BY <1>a, <2>3, <2>b DEF HelloFirst, Requested
  <3>3. NothingLost'  BY <1>a, <2>3, <2>b, <2>c DEF NothingLost, Requested
  <3> QED  BY <2>2, <3>1, <3>2, <3>3 DEF MonitorInv
 <2>4. CASE ~Requested("status") /\ requests' = Append(requests, "status")
  <3>1. requests \in Seq(Asked) /\ "status" \in Asked  BY <1>a DEF MonitorTypeOK, Asked
  <3>2. /\ requests' \in Seq(Asked) /\ Len(requests) \in Nat
        /\ Len(requests') = Len(requests) + 1 /\ requests'[Len(requests) + 1] = "status"
        /\ \A i \in 1 .. Len(requests) : requests'[i] = requests[i]
    BY <2>4, <3>1, SetOfAppend
  <3>3. subscribed
   <4> SUFFICES ASSUME ~subscribed PROVE FALSE  BY <1>a DEF MonitorTypeOK
   <4>1. requests = AsksForSnapshot  BY <1>a DEF HelloFirst, Poll, ShownStateIsSocket
   <4>2. Len(requests) = 3 /\ requests[3] = "status"  BY <4>1 DEF AsksForSnapshot
   <4> QED  BY <2>4, <4>2 DEF Requested
  <3>4. Requested("hello")' => Requested("hello")
   <4> SUFFICES ASSUME NEW i \in 1 .. Len(requests'), requests'[i] = "hello"
                PROVE  Requested("hello")
     BY DEF Requested
   <4>1. i \in 1 .. Len(requests) /\ requests[i] = "hello"  BY <3>2
   <4> QED  BY <4>1 DEF Requested
  <3>5. Requested("snapshot") => Requested("snapshot")'  BY <3>2 DEF Requested
  <3>6. MonitorTypeOK'  BY <1>a, <2>1, <2>b, <3>2 DEF MonitorTypeOK
  <3>7. HelloFirst'  BY <1>a, <2>b, <3>3, <3>4 DEF HelloFirst
  <3>8. NothingLost'  BY <1>a, <2>b, <2>c, <3>5 DEF NothingLost
  <3> QED  BY <2>2, <3>6, <3>7, <3>8 DEF MonitorInv
 <2> QED  BY <1>2, <2>3, <2>4 DEF Poll, Requested
<1> QED  BY <1>1, <1>2

LEMMA StoreAbnormalOK ==
    ASSUME MonitorInv, StoreAbnormal
    PROVE  MonitorInv'
<1> DEFINE new == happened + 1
<1>a. MonitorTypeOK /\ OnlyHappened /\ HelloFirst /\ NothingLost /\ ShownStateIsSocket
  BY DEF MonitorInv
<1>b. UNCHANGED <<mState, mSocket, polling, noResponse, records, toBroadcast, inHand, subscribed,
                  requests, responses, connects, lostEvents>>
  BY DEF StoreAbnormal, NodeEnd, monitorEnd
<1>1. /\ happened \in Nat /\ happened' = new /\ new \in Events /\ happened' \in 0 .. MaxAbnormal
      /\ unqueued' = unqueued \union {new} /\ 1 .. happened' = 1 .. happened \union {new}
  BY <1>a, MonitorParameters DEF StoreAbnormal, MonitorTypeOK, Events
<1>2. nodeStore' \subseteq nodeStore \union {new}
 <2>1. CASE nodeStore' = nodeStore \union {new}  BY <2>1
 <2>2. CASE \E old \in nodeStore :
                nodeStore' \in {(nodeStore \ {old}) \union {new}, nodeStore \ {old}}
   BY <2>2
 <2>3. CASE UNCHANGED nodeStore  BY <2>3
 <2> QED  BY <2>1, <2>2, <2>3 DEF StoreAbnormal
<1>3. KnownEvents' = KnownEvents /\ OnItsWay' = OnItsWay \union {new}
  BY <1>1, <1>b DEF KnownEvents, OnItsWay
<1>4. MonitorTypeOK'  BY <1>1, <1>2, <1>a, <1>b DEF MonitorTypeOK
<1>5. ShownStateIsSocket' /\ HelloFirst'
  BY <1>a, <1>b DEF ShownStateIsSocket, HelloFirst, Requested
<1>6. NothingLost'  BY <1>1, <1>3, <1>a, <1>b DEF NothingLost, Requested
<1>7. OnlyHappened'  BY <1>1, <1>2, <1>3, <1>a, <1>b DEF OnlyHappened
<1> QED  BY <1>4, <1>5, <1>6, <1>7 DEF MonitorInv

LEMMA ForgetOldRoundsOK ==
    ASSUME MonitorInv, ForgetOldRounds
    PROVE  MonitorInv'
<1>a. MonitorTypeOK /\ OnlyHappened /\ HelloFirst /\ NothingLost /\ ShownStateIsSocket
  BY DEF MonitorInv
<1>b. UNCHANGED <<mState, mSocket, polling, noResponse, records, happened, unqueued, toBroadcast,
                  inHand, subscribed, requests, responses, connects, lostEvents>>
      /\ nodeStore' \subseteq nodeStore
  BY DEF ForgetOldRounds, NodeEnd, monitorEnd, broadcastEnd
<1>1. KnownEvents' = KnownEvents /\ OnItsWay' = OnItsWay  BY <1>b DEF KnownEvents, OnItsWay
<1>2. MonitorTypeOK'  BY <1>a, <1>b DEF MonitorTypeOK
<1>3. ShownStateIsSocket' /\ HelloFirst'
  BY <1>a, <1>b DEF ShownStateIsSocket, HelloFirst, Requested
<1>4. NothingLost'  BY <1>1, <1>a, <1>b DEF NothingLost, Requested
<1>5. OnlyHappened'  BY <1>1, <1>a, <1>b DEF OnlyHappened
<1> QED  BY <1>2, <1>3, <1>4, <1>5 DEF MonitorInv

\* What an observation puts into the bounded queue, and what that costs.
LEMMA Enqueued ==
    ASSUME MonitorInv, EnqueueAbnormal \/ EnqueueOrdinary
    PROVE  /\ toBroadcast' \in Seq(Observations) /\ lostEvents' \subseteq Events
           /\ unqueued' \subseteq unqueued /\ lostEvents \subseteq lostEvents'
           /\ ToSet(toBroadcast') \intersect Events \subseteq ToSet(toBroadcast) \union unqueued
           /\ subscribed =>
                 \/ Requested("snapshot")
                 \/ OnItsWay \intersect Events \subseteq OnItsWay' \union KnownEvents \union lostEvents'
<1>a. MonitorTypeOK /\ MaxAbnormal \in Nat  BY MonitorParameters DEF MonitorInv
<1>b. toBroadcast \in Seq(Observations) /\ lostEvents \subseteq Events /\ unqueued \subseteq Events
  BY <1>a DEF MonitorTypeOK
<1>c. inHand' = inHand  BY DEF EnqueueAbnormal, EnqueueOrdinary
<1>d. ObservedPacket \notin Events /\ ObservedGroup \notin Events
  BY <1>a DEF Events, ObservedPacket, ObservedGroup
<1>1. ASSUME NEW event \in unqueued, unqueued' = unqueued \ {event},
             toBroadcast' = Append(toBroadcast, event) \/ Evicts(event), UNCHANGED lostEvents
      PROVE  /\ toBroadcast' \in Seq(Observations)
             /\ ToSet(toBroadcast') \intersect Events \subseteq ToSet(toBroadcast) \union {event}
             /\ OnItsWay \intersect Events \subseteq OnItsWay'
 <2>0. event \in Observations  BY <1>1, <1>b DEF Observations
 <2>1. PICK kept \in Seq(Observations) :
          /\ toBroadcast' = Append(kept, event) /\ ToSet(kept) \subseteq ToSet(toBroadcast)
          /\ ToSet(toBroadcast) \intersect Events \subseteq ToSet(kept)
  <3>1. CASE toBroadcast' = Append(toBroadcast, event)  BY <3>1, <1>b
  <3>2. CASE Evicts(event)
   <4>1. PICK i \in 1 .. Len(toBroadcast) :
            /\ toBroadcast[i] = ObservedPacket
            /\ toBroadcast' = Append(RemoveAt(toBroadcast, i), event)
     BY <3>2 DEF Evicts
   <4>2. /\ RemoveAt(toBroadcast, i) \in Seq(Observations)
         /\ ToSet(RemoveAt(toBroadcast, i)) \subseteq ToSet(toBroadcast)
         /\ ToSet(toBroadcast) \subseteq ToSet(RemoveAt(toBroadcast, i)) \union {toBroadcast[i]}
     BY <1>b, SetOfRemoved
   <4> QED  BY <1>d, <4>1, <4>2
  <3> QED  BY <1>1, <3>1, <3>2
 <2>2. toBroadcast' \in Seq(Observations) /\ ToSet(toBroadcast') = ToSet(kept) \union {event}
   BY <2>0, <2>1, SetOfAppend
 <2> QED  BY <1>1, <1>c, <2>1, <2>2 DEF OnItsWay
<1>2. ASSUME NEW event \in unqueued, unqueued' = unqueued \ {event},
             LosesForGood({event} \ KnownEvents), UNCHANGED toBroadcast
      PROVE  /\ lostEvents' \subseteq Events /\ lostEvents \subseteq lostEvents'
             /\ subscribed =>
                   Requested("snapshot") \/ OnItsWay \subseteq OnItsWay' \union KnownEvents \union lostEvents'
 <2>1. /\ lostEvents' \subseteq Events /\ lostEvents \subseteq lostEvents'
       /\ subscribed => Requested("snapshot") \/ {event} \ KnownEvents \subseteq lostEvents'
   BY <1>2, <1>b, GivenUp
 <2> QED  BY <1>2, <1>c, <2>1 DEF OnItsWay
<1>3. CASE EnqueueAbnormal
 <2>1. PICK event \in unqueued :
          /\ unqueued' = unqueued \ {event}
          /\ \/ toBroadcast' = Append(toBroadcast, event) /\ UNCHANGED lostEvents
             \/ Evicts(event) /\ UNCHANGED lostEvents
             \/ LosesForGood({event} \ KnownEvents) /\ UNCHANGED toBroadcast
   BY <1>3 DEF EnqueueAbnormal
 <2>2. CASE (toBroadcast' = Append(toBroadcast, event) \/ Evicts(event)) /\ UNCHANGED lostEvents
   BY <1>1, <1>b, <2>1, <2>2
 <2>3. CASE LosesForGood({event} \ KnownEvents) /\ UNCHANGED toBroadcast  BY <1>2, <1>b, <2>1, <2>3
 <2> QED  BY <2>1, <2>2, <2>3
<1>4. CASE EnqueueOrdinary
 <2>1. PICK kind \in {ObservedPacket, ObservedGroup} : toBroadcast' = Append(toBroadcast, kind)
   BY <1>4 DEF EnqueueOrdinary
 <2>2. UNCHANGED <<unqueued, lostEvents>>  BY <1>4 DEF EnqueueOrdinary
 <2>3. toBroadcast' \in Seq(Observations) /\ ToSet(toBroadcast') = ToSet(toBroadcast) \union {kind}
   BY <1>b, <2>1, SetOfAppend DEF Observations
 <2>4. OnItsWay \subseteq OnItsWay'  BY <1>c, <2>2, <2>3 DEF OnItsWay
 <2> QED  BY <1>b, <1>d, <2>2, <2>3, <2>4
<1> QED  BY <1>3, <1>4

LEMMA EnqueueOK ==
    ASSUME MonitorInv, EnqueueAbnormal \/ EnqueueOrdinary
    PROVE  MonitorInv'
<1>a. MonitorTypeOK /\ OnlyHappened /\ HelloFirst /\ NothingLost /\ ShownStateIsSocket
  BY DEF MonitorInv
<1>b. UNCHANGED <<mState, mSocket, polling, noResponse, records, happened, nodeStore, inHand,
                  subscribed, requests, responses, connects>>
  BY DEF EnqueueAbnormal, EnqueueOrdinary, NodeEnd, monitorEnd
<1>1. KnownEvents' = KnownEvents  BY <1>b DEF KnownEvents
<1>2. MonitorTypeOK'  BY <1>a, <1>b, Enqueued DEF MonitorTypeOK
<1>3. ShownStateIsSocket' /\ HelloFirst'
  BY <1>a, <1>b DEF ShownStateIsSocket, HelloFirst, Requested
<1>4. NothingLost'
 <2> SUFFICES ASSUME subscribed, ~Requested("snapshot")
              PROVE  1 .. happened \subseteq KnownEvents \union OnItsWay' \union lostEvents'
   BY <1>1, <1>b DEF NothingLost, Requested
 <2>1. 1 .. happened \subseteq Events  BY <1>a, MonitorParameters DEF MonitorTypeOK, Events
 <2>2. 1 .. happened \subseteq KnownEvents \union OnItsWay \union lostEvents
   BY <1>a DEF NothingLost
 <2>3. OnItsWay \intersect Events \subseteq OnItsWay' \union KnownEvents \union lostEvents'
       /\ lostEvents \subseteq lostEvents'
   BY Enqueued
 <2> QED  BY <2>1, <2>2, <2>3
<1>5. OnlyHappened'
 <2>1. ToSet(toBroadcast') \intersect Events \subseteq 1 .. happened /\ unqueued' \subseteq unqueued
   BY <1>a, Enqueued DEF OnlyHappened
 <2> QED  BY <1>1, <1>a, <1>b, <2>1 DEF OnlyHappened
<1> QED  BY <1>2, <1>3, <1>4, <1>5 DEF MonitorInv

LEMMA TakeForBroadcastOK ==
    ASSUME MonitorInv, TakeForBroadcast
    PROVE  MonitorInv'
<1> DEFINE taken == {Head(toBroadcast)} \intersect Events
<1>a. MonitorTypeOK /\ OnlyHappened /\ HelloFirst /\ NothingLost /\ ShownStateIsSocket
  BY DEF MonitorInv
<1>b. UNCHANGED <<mState, mSocket, polling, noResponse, records, happened, nodeStore, unqueued,
                  subscribed, requests, responses, connects, lostEvents>>
  BY DEF TakeForBroadcast, NodeEnd, monitorEnd
<1>1. inHand = <<>> /\ inHand' = <<taken>> /\ toBroadcast' = Tail(toBroadcast) /\ toBroadcast # <<>>
  BY DEF TakeForBroadcast
<1>2. /\ toBroadcast' \in Seq(Observations)
      /\ ToSet(toBroadcast) = {Head(toBroadcast)} \union ToSet(toBroadcast')
  BY <1>1, <1>a, SetOfTail DEF MonitorTypeOK
<1>3. inHand' \in Seq(Replies) /\ UNION ToSet(inHand') = taken /\ UNION ToSet(inHand) = {}
 <2>1. <<taken>> \in Seq(Replies) /\ UNION ToSet(<<taken>>) = taken  BY SetOfOne DEF Replies
 <2>2. UNION ToSet(inHand) = {}  BY <1>1, NothingQueued
 <2> QED  BY <1>1, <2>1, <2>2
<1> HIDE DEF taken
<1>4. taken \subseteq Events /\ taken \subseteq ToSet(toBroadcast)
      /\ ToSet(toBroadcast) \intersect Events \subseteq taken \union ToSet(toBroadcast')
  BY <1>2 DEF taken
<1>5. KnownEvents' = KnownEvents /\ OnItsWay \intersect Events \subseteq OnItsWay'
  BY <1>3, <1>4, <1>b DEF KnownEvents, OnItsWay
<1>6. MonitorTypeOK'  BY <1>2, <1>3, <1>a, <1>b DEF MonitorTypeOK
<1>7. ShownStateIsSocket' /\ HelloFirst'
  BY <1>a, <1>b DEF ShownStateIsSocket, HelloFirst, Requested
<1>8. NothingLost'
 <2>1. 1 .. happened \subseteq Events  BY <1>a, MonitorParameters DEF MonitorTypeOK, Events
 <2> QED  BY <1>5, <1>a, <1>b, <2>1 DEF NothingLost, Requested
<1>9. OnlyHappened'
 <2>1. taken \subseteq 1 .. happened /\ ToSet(toBroadcast') \intersect Events \subseteq 1 .. happened
   BY <1>2, <1>4, <1>a DEF OnlyHappened
 <2> QED  BY <1>3, <1>5, <1>a, <1>b, <2>1 DEF OnlyHappened
<1> QED  BY <1>6, <1>7, <1>8, <1>9 DEF MonitorInv

LEMMA BroadcastEventOK ==
    ASSUME MonitorInv, BroadcastEvent
    PROVE  MonitorInv'
<1>a. MonitorTypeOK /\ OnlyHappened /\ HelloFirst /\ NothingLost /\ ShownStateIsSocket
  BY DEF MonitorInv
<1>b. UNCHANGED <<mState, mSocket, polling, noResponse, records, happened, nodeStore, unqueued,
                  toBroadcast, subscribed, requests, connects, lostEvents>>
  BY DEF BroadcastEvent, monitorEnd
<1>1. inHand' = <<>> /\ inHand' \in Seq(Replies) /\ UNION ToSet(inHand') = {}
  BY NothingQueued DEF BroadcastEvent
<1> DEFINE joined == responses \o inHand
           hand == UNION ToSet(inHand)
           old == UNION ToSet(responses)
           new == UNION ToSet(responses')
<1>2. joined \in Seq(Replies) /\ responses \in Seq(Replies) /\ UNION ToSet(joined) = old \union hand
 <2>1. responses \in Seq(Replies) /\ inHand \in Seq(Replies)  BY <1>a DEF MonitorTypeOK
 <2>2. ToSet(joined) = ToSet(responses) \union ToSet(inHand) /\ joined \in Seq(Replies)
   BY <2>1, SetOfJoined
 <2> QED  BY <2>1, <2>2
<1>3. \/ subscribed /\ responses' = joined
      \/ ~subscribed /\ responses' = responses
  BY DEF BroadcastEvent
<1>4. KnownEvents = records \union old /\ KnownEvents' = records \union new
  BY <1>b DEF KnownEvents
<1>5. OnItsWay = unqueued \union ToSet(toBroadcast) \union hand
      /\ OnItsWay' = unqueued \union ToSet(toBroadcast)
  BY <1>1, <1>b DEF OnItsWay
<1>6. hand \subseteq 1 .. happened  BY <1>a DEF OnlyHappened
<1> HIDE DEF joined
<1>7. responses' \in Seq(Replies) /\ ((subscribed /\ new = old \union hand) \/ (~subscribed /\ new = old))
  BY <1>2, <1>3
<1> HIDE DEF hand, old, new
<1>8. /\ KnownEvents \subseteq KnownEvents' /\ KnownEvents' \subseteq KnownEvents \union hand
      /\ subscribed => OnItsWay \subseteq OnItsWay' \union KnownEvents'
  BY <1>4, <1>5, <1>7
<1>9. MonitorTypeOK'  BY <1>1, <1>7, <1>a, <1>b DEF MonitorTypeOK
<1>10. ShownStateIsSocket' /\ HelloFirst'
  BY <1>a, <1>b DEF ShownStateIsSocket, HelloFirst, Requested
<1>11. NothingLost'  BY <1>8, <1>a, <1>b DEF NothingLost, Requested
<1>12. OnlyHappened'  BY <1>1, <1>6, <1>8, <1>a, <1>b DEF OnlyHappened
<1> QED  BY <1>9, <1>10, <1>11, <1>12 DEF MonitorInv

LEMMA NodeServesOK ==
    ASSUME MonitorInv, NodeServes
    PROVE  MonitorInv'
<1>a. MonitorTypeOK /\ OnlyHappened /\ HelloFirst /\ NothingLost /\ ShownStateIsSocket
  BY DEF MonitorInv
<1>b. UNCHANGED <<mState, mSocket, polling, noResponse, records, happened, nodeStore, unqueued,
                  toBroadcast, inHand, connects>>
      /\ mSocket = "connected"
  BY DEF NodeServes, monitorEnd, broadcastEnd
<1>0. requests \in Seq(Asked) /\ requests # <<>> /\ requests' = Tail(requests)
  BY <1>a DEF NodeServes, MonitorTypeOK
<1>1. /\ requests' \in Seq(Asked) /\ Len(requests) \in Nat /\ Len(requests) > 0
      /\ Head(requests) = requests[1] /\ requests[1] \in Asked
      /\ \A i \in 1 .. Len(requests') : i + 1 \in 1 .. Len(requests)
                                         /\ requests'[i] = requests[i + 1]
      /\ \A i \in 2 .. Len(requests) : i - 1 \in 1 .. Len(requests')
                                        /\ requests'[i - 1] = requests[i]
  BY <1>0, SetOfTail
<1>2. \A kind : Requested(kind)' => Requested(kind)  BY <1>1 DEF Requested
<1>3. \A kind : Requested(kind) => Requested(kind)' \/ requests[1] = kind
 <2> SUFFICES ASSUME NEW kind, NEW i \in 1 .. Len(requests), kind = requests[i], i # 1
              PROVE  Requested(kind)'
   BY DEF Requested
 <2>1. i \in 2 .. Len(requests)  BY <1>1
 <2> QED  BY <1>1, <2>1 DEF Requested
<1>4. /\ responses \in Seq(Replies) /\ subscribed \in BOOLEAN /\ {} \in Replies
      /\ nodeStore \in Replies
  BY <1>a DEF MonitorTypeOK, Replies
<1>5. \/ requests[1] = "hello" /\ subscribed' = TRUE /\ UNCHANGED <<responses, lostEvents>>
      \/ /\ requests[1] = "snapshot" /\ responses' = Append(responses, nodeStore)
         /\ subscribed' = subscribed /\ lostEvents' = GoneBefore
      \/ /\ requests[1] = "status" /\ responses' = Append(responses, {})
         /\ subscribed' = subscribed /\ lostEvents' = lostEvents
 <2>1. CASE requests[1] = "hello"  BY <1>1, <2>1 DEF NodeServes
 <2>2. CASE requests[1] = "snapshot"  BY <1>1, <2>2 DEF NodeServes
 <2>3. CASE requests[1] = "status"  BY <1>1, <2>3 DEF NodeServes
 <2> QED  BY <1>1, <2>1, <2>2, <2>3 DEF Asked
<1>6. 1 .. happened \subseteq Events  BY <1>a, MonitorParameters DEF MonitorTypeOK, Events
<1>7. /\ responses' \in Seq(Replies) /\ lostEvents' \subseteq Events
      /\ KnownEvents \subseteq KnownEvents' /\ KnownEvents' \subseteq KnownEvents \union nodeStore
      /\ requests[1] = "snapshot" =>
            1 .. happened \subseteq KnownEvents' \union OnItsWay \union lostEvents'
      /\ requests[1] # "snapshot" => lostEvents' = lostEvents
 <2>1. ASSUME NEW x \in Replies, responses' = Append(responses, x)
       PROVE  responses' \in Seq(Replies) /\ KnownEvents' = KnownEvents \union x
  <3>1. responses' \in Seq(Replies) /\ ToSet(responses') = ToSet(responses) \union {x}
    BY <1>4, <2>1, SetOfAppend
  <3> QED  BY <1>b, <3>1 DEF KnownEvents
 <2>2. CASE requests[1] = "hello" /\ UNCHANGED <<responses, lostEvents>>
   BY <1>4, <1>a, <1>b, <2>2 DEF KnownEvents, MonitorTypeOK
 <2>3. CASE requests[1] = "snapshot" /\ responses' = Append(responses, nodeStore)
            /\ lostEvents' = GoneBefore
  <3>1. responses' \in Seq(Replies) /\ KnownEvents' = KnownEvents \union nodeStore
    BY <1>4, <2>1, <2>3
  <3> QED  BY <1>6, <2>3, <3>1 DEF GoneBefore, OnItsWay
 <2>4. CASE requests[1] = "status" /\ responses' = Append(responses, {})
            /\ lostEvents' = lostEvents
  <3>1. responses' \in Seq(Replies) /\ KnownEvents' = KnownEvents  BY <1>4, <2>1, <2>4
  <3> QED  BY <1>a, <2>4, <3>1 DEF MonitorTypeOK
 <2> QED  BY <1>5, <2>2, <2>3, <2>4
<1>8. MonitorTypeOK'  BY <1>1, <1>4, <1>5, <1>7, <1>a, <1>b DEF MonitorTypeOK
<1>9. ShownStateIsSocket' /\ OnlyHappened' /\ OnItsWay' = OnItsWay
  BY <1>7, <1>a, <1>b DEF ShownStateIsSocket, OnlyHappened, OnItsWay
<1>10. CASE subscribed
 <2>1. subscribed' /\ requests[1] # "hello"
  <3>1. 1 \in 1 .. Len(requests)  BY <1>1
  <3> QED  BY <1>10, <1>5, <1>a, <3>1 DEF HelloFirst, Requested
 <2>2. HelloFirst'  BY <1>2, <1>10, <1>a, <1>b, <2>1 DEF HelloFirst
 <2>3. NothingLost'
  <3> SUFFICES ASSUME ~Requested("snapshot")'
               PROVE  1 .. happened \subseteq KnownEvents' \union OnItsWay \union lostEvents'
    BY <1>9, <1>b DEF NothingLost
  <3>1. CASE requests[1] = "snapshot"  BY <1>7, <3>1
  <3>2. CASE requests[1] # "snapshot"  BY <1>3, <1>7, <1>10, <1>a, <3>2 DEF NothingLost
  <3> QED  BY <3>1, <3>2
 <2> QED  BY <1>8, <1>9, <2>2, <2>3 DEF MonitorInv
<1>11. CASE ~subscribed
 <2>1. requests = AsksForSnapshot  BY <1>11, <1>a, <1>b DEF HelloFirst
 <2>2. requests[1] = "hello" /\ requests[2] = "snapshot" /\ requests[3] = "status"
       /\ Len(requests) = 3
   BY <2>1 DEF AsksForSnapshot
 <2>3. subscribed' = TRUE  BY <1>5, <2>2
 <2>4. Requested("snapshot")'  BY <1>1, <2>2 DEF Requested
 <2>5. ~Requested("hello")'
  <3> SUFFICES ASSUME NEW i \in 1 .. Len(requests'), requests'[i] = "hello" PROVE FALSE
    BY DEF Requested
  <3>1. i + 1 \in 1 .. 3 /\ requests[i + 1] = "hello"  BY <1>1, <2>2
  <3>2. i + 1 = 1  BY <2>2, <3>1
  <3> QED  BY <3>2
 <2>6. HelloFirst' /\ NothingLost'  BY <1>b, <2>3, <2>4, <2>5 DEF HelloFirst, NothingLost
 <2> QED  BY <1>8, <1>9, <2>6 DEF MonitorInv
<1> QED  BY <1>4, <1>10, <1>11

LEMMA MonitorStep ==
    ASSUME MonitorInv, [MonitorNext]_monitorVars
    PROVE  MonitorInv'
<1>1. CASE UNCHANGED monitorVars
  BY <1>1 DEF monitorVars, monitorEnd, broadcastEnd, MonitorInv, MonitorTypeOK, ShownStateIsSocket,
              HelloFirst, NothingLost, OnlyHappened, KnownEvents, OnItsWay, Requested
<1>2. CASE MonitorNext
  BY <1>2, ConnectionGoneOK, MonitorConnectedOK, MonitorReceivesOK, PollOK, NodeServesOK,
     StoreAbnormalOK, ForgetOldRoundsOK, EnqueueOK, TakeForBroadcastOK, BroadcastEventOK
     DEF MonitorNext
<1> QED  BY <1>1, <1>2

LEMMA MonitorSays ==
    ASSUME MonitorInv
    PROVE  NoAbnormalMissed
<1> SUFFICES ASSUME subscribed, unqueued = {}, toBroadcast = <<>>, inHand = <<>>, responses = <<>>,
                    \A i \in 1 .. Len(requests) : requests[i] = "status"
             PROVE  records \subseteq 1 .. happened /\ (1 .. happened) \ records \subseteq lostEvents
  BY DEF NoAbnormalMissed
<1>1. KnownEvents = records /\ OnItsWay = {}  BY NothingQueued DEF KnownEvents, OnItsWay
<1>2. ~Requested("snapshot")  BY DEF Requested
<1> QED  BY <1>1, <1>2 DEF MonitorInv, NothingLost, OnlyHappened

\* What the monitor does not have, once all it asked is answered, is what a limit of the
\* code has cost it; and it shows its connection as it is.
THEOREM MonitorSafe ==
    MonitorSpec => [](MonitorTypeOK /\ NoAbnormalMissed /\ ShownStateIsSocket)
<1>1. MonitorSpec => []MonitorInv  BY MonitorInitOK, MonitorStep, PTL DEF MonitorSpec
<1>2. MonitorInv => MonitorTypeOK /\ NoAbnormalMissed /\ ShownStateIsSocket
  BY MonitorSays DEF MonitorInv
<1> QED  BY <1>1, <1>2, PTL
=============================================================================
