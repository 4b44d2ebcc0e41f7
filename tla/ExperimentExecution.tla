------------------------- MODULE ExperimentExecution -------------------------
(***************************************************************************)
(* AttackExecutionController: the GUI thread of the test endpoint prepares  *)
(* a plan, schedules and stops it and feeds it captured datagrams; a worker *)
(* thread sends the copies, or the load.  m_mtxState guards the state, so   *)
(* each action below is one critical section; stopWorker and bScheduleStart *)
(* wait for the worker between two of them.                                 *)
(***************************************************************************)
EXTENDS Integers, FiniteSets, FiniteSetsExt

CONSTANTS
    Targets,      \* packet indexes of the plan
    RepeatCount,  \* copies of each
    TaskLimit,    \* MAX_PENDING_SEND_TASKS
    MaxLoad,      \* bound of the model: datagrams of a load
    MaxPrepared   \* bound of the model: plans

ASSUME ExecutionParameters ==
    /\ IsFiniteSet(Targets) /\ RepeatCount \in Nat \ {0} /\ TaskLimit \in Nat
    /\ MaxLoad \in Nat /\ MaxPrepared \in Nat

VARIABLES
    xState,     \* m_stateExecution
    xPlan,      \* m_optPlan
    tasks,      \* m_deqTasks: copies of each packet that wait
    captured,   \* m_setCapturedPacketIndexes
    xStop,      \* m_bStopRequested
    xWorker,    \* where m_thrWorker is
    sending,    \* the datagram it has in hand
    xCall,      \* the call the GUI thread waits for the worker in
    plansPrepared,   \* bound: plans prepared
    copies, load  \* History: copies of each packet sent, and load, since the start

executionVars == <<xState, xPlan, tasks, captured, xStop, xWorker, sending, xCall,
                   plansPrepared, copies, load>>

\* m_optContext comes with ContextReady and never goes away again.
NoContext == "Idle"
None == [p \in Targets |-> 0]
Waiting == MapThenSumSet(LAMBDA p : tasks[p], Targets)

ExecutionTypeOK ==
    /\ xState \in {"Idle", "ContextReady", "PlanPending", "Ready", "Scheduled", "Running",
                   "Completed", "Stopped"}
    /\ xPlan \in {"none", "copies", "load"}
    /\ xState \in {"PlanPending", "Ready", "Scheduled"} => xPlan # "none"
    /\ captured \subseteq Targets /\ xStop \in BOOLEAN
    /\ xWorker \in {"none", "wait", "next", "send", "load", "complete", "done"}
    /\ xCall \in {"none", "context", "discard", "stop", "start"}
    /\ \A p \in Targets : tasks[p] \in 0 .. TaskLimit
    /\ Waiting <= TaskLimit

ExecutionInit ==
    /\ xState = "Idle" /\ xPlan = "none" /\ tasks = None /\ captured = {}
    /\ xStop = FALSE /\ xWorker = "none" /\ xCall = "none" /\ plansPrepared = 0
    /\ sending \in Targets
    /\ copies = None /\ load = 0

-----------------------------------------------------------------------------
(* The GUI thread.                                                         *)

Gui == xCall = "none"

MayPrepare == xState \notin {NoContext, "Scheduled", "Running"}

\* bPreparePlan.
PreparePlan ==
    /\ Gui /\ MayPrepare
    /\ plansPrepared < MaxPrepared /\ plansPrepared' = plansPrepared + 1
    /\ xPlan' \in {"copies", "load"} /\ xState' = "PlanPending"
    /\ tasks' = None /\ captured' = {}
    /\ UNCHANGED <<xStop, xWorker, sending, xCall, copies, load>>

\* bAcceptPlan.
AcceptPlan ==
    /\ Gui /\ xState = "PlanPending" /\ xState' = "Ready"
    /\ UNCHANGED <<xPlan, tasks, captured, xStop, xWorker, sending, xCall, plansPrepared, copies, load>>

\* bScheduleStart, up to the wait for the last worker.
ScheduleStart ==
    /\ Gui /\ xState = "Ready" /\ xState' = "Scheduled"
    /\ xStop' = FALSE /\ xCall' = "start"
    /\ UNCHANGED <<xPlan, tasks, captured, xWorker, sending, plansPrepared, copies, load>>

\* stopWorker up to the wait, for bConfigureContext, discardPlan and stop.
RequestStop ==
    /\ Gui /\ xCall' \in {"context", "discard", "stop"}
    /\ xStop' = TRUE /\ tasks' = None /\ captured' = {}
    /\ UNCHANGED <<xState, xPlan, xWorker, sending, plansPrepared, copies, load>>

\* Mutant: nobody waits for the worker.
WorkerAnywhere == TRUE

WorkerEnded == xWorker \in {"none", "done"}

StartWorker ==
    /\ xCall = "start" /\ WorkerEnded
    /\ xWorker' = "wait" /\ xCall' = "none" /\ copies' = None /\ load' = 0
    /\ UNCHANGED <<xState, xPlan, tasks, captured, xStop, sending, plansPrepared>>

\* A stop overwrites every state a plan can be in, "Completed" included.
StopEnds ==
    /\ xCall \in {"context", "discard", "stop"} /\ WorkerEnded
    /\ \/ /\ xCall = "stop" /\ xState \in {"Idle", "ContextReady"}
          /\ UNCHANGED <<xState, xPlan>>
       \/ /\ xCall = "stop" /\ xState \notin {"Idle", "ContextReady"}
          /\ xState' = "Stopped" /\ UNCHANGED xPlan
       \/ /\ xCall = "context" \/ (xCall = "discard" /\ xState # NoContext)
          /\ xState' = "ContextReady" /\ xPlan' = "none"
       \/ /\ xCall = "discard" /\ xState = NoContext
          /\ UNCHANGED <<xState, xPlan>>
    /\ xStop' = FALSE /\ xCall' = "none"
    /\ xWorker' = IF xWorker = "done" THEN "none" ELSE xWorker
    /\ UNCHANGED <<tasks, captured, sending, plansPrepared, copies, load>>

\* Mutant: a datagram that comes again is taken again.
FreshAlways(p) == TRUE

Fresh(p) == p \notin captured

RoomForAll == Waiting + RepeatCount <= TaskLimit

\* processCapturedDatagram for a datagram of the target sender that decodes.
\* Without room the packet counts as captured and is never copied.
Capture(p) ==
    /\ Gui /\ xState = "Running" /\ xPlan = "copies" /\ Fresh(p)
    /\ captured' = captured \union {p}
    /\ tasks' = IF RoomForAll THEN [tasks EXCEPT ![p] = @ + RepeatCount] ELSE tasks
    /\ UNCHANGED <<xState, xPlan, xStop, xWorker, sending, xCall, plansPrepared, copies, load>>

GuiWaits == StartWorker \/ StopEnds

-----------------------------------------------------------------------------
(* The worker.                                                             *)

\* workerLoop: the start time comes, unless a stop does.
WorkerStarts ==
    /\ xWorker = "wait"
    /\ \/ /\ xStop /\ xWorker' = "done" /\ UNCHANGED xState
       \/ /\ ~xStop /\ xState' = "Running"
          /\ xWorker' = IF xPlan = "load" THEN "load" ELSE "next"
    /\ UNCHANGED <<xPlan, tasks, captured, xStop, sending, xCall, plansPrepared, copies, load>>

Woken == xStop

\* The next task that is due; one worker takes them one after the other.
NextTask ==
    /\ xWorker = "next"
    /\ \/ Woken /\ xWorker' = "done" /\ UNCHANGED <<tasks, sending>>
       \/ /\ ~xStop /\ xWorker' = "send"
          /\ \E p \in Targets : /\ tasks[p] > 0 /\ sending' = p
                                /\ tasks' = [tasks EXCEPT ![p] = @ - 1]
    /\ UNCHANGED <<xState, xPlan, captured, xStop, xCall, plansPrepared, copies, load>>

\* runDos: until its time is over, which it looks at before the stop.
NextLoad ==
    /\ xWorker = "load"
    /\ \/ xStop /\ xWorker' = "done"
       \/ ~xStop /\ load < MaxLoad /\ xWorker' = "send"
       \/ xWorker' = "complete"
    /\ UNCHANGED <<xState, xPlan, tasks, captured, xStop, sending, xCall, plansPrepared,
                   copies, load>>

\* bSendDatagram, outside the lock.
Send ==
    /\ xWorker = "send"
    /\ IF xPlan = "load"
       THEN xWorker' = "load" /\ load' = load + 1 /\ UNCHANGED copies
       ELSE xWorker' = "next" /\ copies' = [copies EXCEPT ![sending] = @ + 1] /\ UNCHANGED load
    /\ UNCHANGED <<xState, xPlan, tasks, captured, xStop, sending, xCall, plansPrepared>>

Complete ==
    /\ xWorker = "complete" /\ xState' = "Completed" /\ xWorker' = "done"
    /\ UNCHANGED <<xPlan, tasks, captured, xStop, sending, xCall, plansPrepared, copies, load>>

ExecutionWorker == WorkerStarts \/ NextTask \/ NextLoad \/ Send \/ Complete

ExecutionNext ==
    \/ PreparePlan \/ AcceptPlan \/ ScheduleStart \/ RequestStop \/ GuiWaits
    \/ \E p \in Targets : Capture(p)
    \/ ExecutionWorker

\* Both threads are scheduled; a wait for the worker is over when it has ended, and
\* a load has an end.
ExecutionFairness ==
    WF_executionVars(GuiWaits) /\ WF_executionVars(ExecutionWorker)

ExecutionSpec == ExecutionInit /\ [][ExecutionNext]_executionVars /\ ExecutionFairness

-----------------------------------------------------------------------------
(* Properties.                                                             *)

\* However often the network brings a packet, and whatever was stopped and started
\* before: no more than the plan's copies of it go out in one execution.
CopiesBounded == \A p \in Targets : copies[p] + tasks[p] <= RepeatCount

\* Once a stop has returned nothing goes out before the next start, not even the
\* datagram the worker had in hand.
QuietAfterStop ==
    [][(<<copies, load>>' # <<copies, load>> /\ xCall = "none") => xState = "Running"]_executionVars

\* The GUI thread, which waits for the worker in every stop and every start, goes
\* on: a worker that waits for tasks sees the stop.
ExecutionStopReturns == xCall # "none" ~> xCall = "none"

\* A new start never has two workers at the tasks, and the state a worker leaves
\* behind is about the plan that was started.
OneExecution ==
    xWorker \in {"next", "send", "load", "complete"} => xState = "Running"

\* The copies of an attack are the ones the plan asks for; a stop ends them.
ExecutionSafe == ExecutionTypeOK /\ CopiesBounded
ExecutionEnds == QuietAfterStop /\ ExecutionStopReturns
=============================================================================
