------------------------------ MODULE NodeRuntime ------------------------------
(***************************************************************************)
(* AuthenticationNodeRuntime: the handlers of the manager's messages, which *)
(* run on the manager's client thread, against the sender's worker thread.  *)
(* m_mtxConfig guards the sender context and the archive contexts, and is   *)
(* held across AuthenticationSenderRuntime::configure and                   *)
(* resetConfiguration, which join the worker; the worker needs it for the   *)
(* archive of its result.  The schedule of a round is SenderRuntime, pause  *)
(* and resume are RoundControl.                                             *)
(***************************************************************************)
EXTENDS Integers, Sequences, FiniteSets

CONSTANTS
    NodeChains,  \* chain IDs the manager issues for this sender
    MaxCalls     \* bound of the model: messages of the manager

ASSUME NodeParameters == NodeChains \subseteq Nat \ {0} /\ MaxCalls \in Nat

NoChain == 0

VARIABLES
    handler,       \* where the client thread is in its message
    call,          \* that message
    calls,         \* bound: messages handled
    configLock,    \* who holds m_mtxConfig
    contextChain,  \* chain of m_optSenderContext
    archiveFault,  \* m_mapArchiveContexts of this sender: chain -> configured fault
    preparedChain, \* sender: chain whose payload is prepared (m_bConfigured)
    faultPlan,     \* sender: m_optFaultDetails
    senderRuns,    \* sender: m_bRunning
    senderStop,    \* sender: m_bStopRequested
    wasRunning,    \* sender: stop()'s bWasRunning, read with the request
    worker,        \* sender: where m_thrWorker is
    receiverReady, receiverRuns,   \* receiver: m_bConfigured, m_bRunning
    lastAnswer,    \* the operation answered last and whether it was accepted
    \* History: the fault plan of the round that runs, whether a stop has cleared the
    \* plan confirmed last for the chain, and the sender's archives.
    roundFault, planCleared, archives

nodeVars == <<handler, call, calls, configLock, contextChain, archiveFault,
              preparedChain, faultPlan, senderRuns, senderStop, wasRunning, worker,
              receiverReady, receiverRuns, lastAnswer, roundFault, planCleared, archives>>

Faults == {"NONE", "FAULT"}
Operations == {"sender", "receiver", "payload", "fault", "start", "stop", "status"}
\* "valid" stands for what the handlers test of the message alone: verified
\* material, a payload of the right size that can be scheduled, a synchronised
\* clock and a timestamp that leaves preparation time.
Call == [op : Operations, chain : NodeChains, valid : BOOLEAN]
NodeAnswer == [op : Operations \union {"none"}, accepted : BOOLEAN]

NodeTypeOK ==
    /\ handler \in {"idle", "lock", "held", "join", "emit", "after"}
    /\ call \in Call /\ calls \in 0 .. MaxCalls
    /\ configLock \in {"free", "handler"}
    /\ contextChain \in NodeChains \union {NoChain}
    /\ archiveFault \in [NodeChains -> Faults \union {"absent"}]
    /\ preparedChain \in NodeChains \union {NoChain}
    /\ faultPlan \in Faults /\ roundFault \in Faults
    /\ senderRuns \in BOOLEAN /\ senderStop \in BOOLEAN /\ wasRunning \in BOOLEAN
    /\ worker \in {"none", "run", "emit", "finish", "done"}
    /\ senderRuns => worker \notin {"none", "done"}
    /\ receiverReady \in BOOLEAN /\ receiverRuns \in BOOLEAN
    /\ lastAnswer \in NodeAnswer /\ planCleared \in BOOLEAN

NodeInit ==
    /\ handler = "idle" /\ calls = 0 /\ configLock = "free"
    /\ call \in {c \in Call : c.op = "status" /\ c.valid}
    /\ contextChain = NoChain /\ archiveFault = [c \in NodeChains |-> "absent"]
    /\ preparedChain = NoChain /\ faultPlan = "NONE"
    /\ senderRuns = FALSE /\ senderStop = FALSE /\ wasRunning = FALSE /\ worker = "none"
    /\ receiverReady = FALSE /\ receiverRuns = FALSE
    /\ lastAnswer = [op |-> "none", accepted |-> TRUE]
    /\ roundFault = "NONE" /\ planCleared = FALSE /\ archives = {}

stopVars == <<senderStop, wasRunning>>
senderVars == <<preparedChain, faultPlan, senderRuns, stopVars, worker, roundFault>>
contextVars == <<contextChain, archiveFault, planCleared>>
receiverSide == <<receiverReady, receiverRuns>>

-----------------------------------------------------------------------------
(* The handlers.                                                           *)

\* Mutant: a message that is refused returns with the lock.
LockAfterKept(accepted) == IF accepted THEN "free" ELSE configLock

LockAfter(accepted) == "free"

Answered(op, accepted) ==
    /\ handler' = "idle" /\ configLock' = LockAfter(accepted)
    /\ lastAnswer' = [op |-> op, accepted |-> accepted]

StopFlag == senderStop' = TRUE /\ wasRunning' = senderRuns

\* msgHandleControl and msgApplyFilePayload up to the first lock or join.  The
\* runtimes are asked whether they run before m_mtxConfig is taken.
Receive ==
    /\ handler = "idle" /\ calls < MaxCalls /\ calls' = calls + 1
    /\ call' \in Call
    /\ \/ /\ \/ call'.op \in {"payload", "fault"}
             \/ call'.op = "sender" /\ ~senderRuns /\ call'.valid
          /\ handler' = "lock"
          /\ UNCHANGED <<configLock, lastAnswer, receiverSide, stopVars>>
       \/ /\ call'.op = "receiver" /\ ~receiverRuns /\ call'.valid
          /\ handler' = "lock" /\ receiverReady' = TRUE
          /\ UNCHANGED <<configLock, lastAnswer, receiverRuns, stopVars>>
       \/ /\ call'.op = "start" /\ call'.valid /\ (receiverReady \/ preparedChain # NoChain)
          /\ receiverRuns' = receiverReady
          /\ IF preparedChain # NoChain
             THEN /\ handler' = "join" /\ StopFlag
                  /\ UNCHANGED <<configLock, lastAnswer>>
             ELSE Answered(call'.op, TRUE) /\ UNCHANGED stopVars
          /\ UNCHANGED receiverReady
       \/ /\ call'.op = "stop" /\ handler' = "join" /\ StopFlag
          /\ UNCHANGED <<configLock, lastAnswer, receiverSide>>
       \/ /\ call'.op = "status" /\ Answered(call'.op, TRUE)
          /\ UNCHANGED <<receiverSide, stopVars>>
       \/ /\ \/ call'.op = "sender" /\ (senderRuns \/ ~call'.valid)
             \/ call'.op = "receiver" /\ (receiverRuns \/ ~call'.valid)
          /\ Answered(call'.op, FALSE) /\ UNCHANGED <<receiverSide, stopVars>>
    /\ UNCHANGED <<contextVars, preparedChain, faultPlan, senderRuns, worker, roundFault,
                   archives>>

\* A start without a synchronised clock is refused before anything is touched;
\* one that is too late or finds nothing prepared stops both runtimes.
RefuseStart ==
    /\ handler = "idle" /\ calls < MaxCalls /\ calls' = calls + 1
    /\ call' \in {c \in Call : c.op = "start" /\ ~c.valid}
    /\ \/ Answered(call'.op, FALSE) /\ UNCHANGED <<stopVars, receiverRuns>>
       \/ /\ handler' = "join" /\ StopFlag /\ UNCHANGED receiverRuns
          /\ UNCHANGED <<configLock, lastAnswer>>
    /\ UNCHANGED <<contextVars, preparedChain, faultPlan, senderRuns, worker, roundFault,
                   archives, receiverReady>>

TakeLock ==
    /\ handler = "lock" /\ configLock = "free"
    /\ handler' = "held" /\ configLock' = "handler"
    /\ UNCHANGED <<call, calls, contextVars, senderVars, receiverSide, lastAnswer, archives>>

PayloadFits == contextChain = call.chain /\ call.valid

\* Mutant: the archive context is not told of the plan.
NotedNothing(archived) == archived

Noted(archived) == IF archived = "absent" THEN archived ELSE "FAULT"

\* resetConfiguration and configure() stop the sender; a payload may turn out
\* not to fit only after configure() has done so.
StopBeforeConfiguring ==
    /\ \/ call.op = "sender"
       \/ call.op = "payload" /\ contextChain = call.chain
    /\ handler' = "join" /\ StopFlag
    /\ UNCHANGED <<configLock, lastAnswer, faultPlan, archiveFault, planCleared>>

RefusePayload ==
    /\ call.op = "payload" /\ ~PayloadFits
    /\ Answered(call.op, FALSE) /\ UNCHANGED <<stopVars, faultPlan, archiveFault, planCleared>>

FaultFits == PayloadFits /\ preparedChain # NoChain /\ ~senderRuns

ApplyFault ==
    /\ call.op = "fault" /\ Answered(call.op, FaultFits) /\ UNCHANGED stopVars
    /\ IF FaultFits
       THEN /\ faultPlan' = "FAULT" /\ planCleared' = FALSE
            /\ archiveFault' = [archiveFault EXCEPT ![call.chain] = Noted(@)]
       ELSE UNCHANGED <<faultPlan, archiveFault, planCleared>>

\* Only the sender's own chain and the contexts of the message stay archived.
ApplyReceiverConfig ==
    /\ call.op = "receiver"
    /\ archiveFault' = [c \in NodeChains |->
                           IF c = contextChain THEN archiveFault[c] ELSE "absent"]
    /\ Answered(call.op, TRUE) /\ UNCHANGED <<stopVars, faultPlan, planCleared>>

UnderLock ==
    /\ handler = "held"
    /\ StopBeforeConfiguring \/ RefusePayload \/ ApplyFault \/ ApplyReceiverConfig
    /\ UNCHANGED <<call, calls, preparedChain, senderRuns, worker, roundFault,
                   contextChain, receiverSide, archives>>

-----------------------------------------------------------------------------
(* Stopping the sender: stop(false), stop(true).                           *)

WorkerGone == worker \in {"none", "done"}

Joined == handler = "join" /\ WorkerGone

\* Mutant: a new chain keeps the payload that was prepared for the old one.
AfterResetKept == preparedChain

AfterReset == NoChain

\* resetConfiguration, and the new context with its archive context.
ConfigureSender ==
    /\ Joined /\ call.op = "sender" /\ worker' = "none"
    /\ preparedChain' = AfterReset /\ faultPlan' = "NONE"
    /\ senderRuns' = FALSE /\ contextChain' = call.chain /\ planCleared' = FALSE
    /\ archiveFault' = [c \in NodeChains |-> IF c = call.chain THEN "NONE" ELSE "absent"]
    /\ Answered(call.op, TRUE)
    /\ UNCHANGED <<call, calls, stopVars, roundFault, receiverSide, archives>>

\* configure(): a payload that does not fit leaves the old one prepared.
ConfigurePayload ==
    /\ Joined /\ call.op = "payload" /\ worker' = "none"
    /\ preparedChain' = IF PayloadFits THEN call.chain ELSE preparedChain
    /\ senderRuns' = FALSE
    /\ Answered(call.op, PayloadFits)
    /\ UNCHANGED <<call, calls, contextVars, faultPlan, stopVars, roundFault,
                   receiverSide, archives>>

ReceiverStopped == FALSE

\* start(): by now the timestamp may leave too little time, and the refusal stops
\* both runtimes.
StartSender ==
    /\ Joined /\ call.op = "start" /\ call.valid
    /\ \/ /\ worker' = "run" /\ senderRuns' = TRUE
          /\ senderStop' = FALSE /\ UNCHANGED wasRunning
          /\ roundFault' = faultPlan /\ Answered(call.op, TRUE) /\ UNCHANGED receiverRuns
       \/ /\ worker' = "none" /\ senderRuns' = FALSE /\ receiverRuns' = ReceiverStopped
          /\ Answered(call.op, FALSE) /\ UNCHANGED <<stopVars, roundFault>>
    /\ UNCHANGED <<call, calls, contextVars, preparedChain, faultPlan, receiverReady, archives>>

\* stop(true) reports a round that was still running.
StopSender ==
    /\ Joined /\ call.op \in {"start", "stop"}
    /\ call.op = "start" => ~call.valid
    /\ handler' = IF wasRunning THEN "emit" ELSE "after"
    /\ worker' = "none"
    /\ UNCHANGED <<call, calls, configLock, contextVars, preparedChain, faultPlan,
                   senderRuns, stopVars, roundFault, receiverSide, lastAnswer, archives>>

ArchiveResult ==
    archives' = archives \union
        {[run |-> roundFault, cleared |-> planCleared,
          said |-> IF contextChain = NoChain THEN "absent" ELSE archiveFault[contextChain]]}

EmitStopped ==
    /\ handler = "emit" /\ configLock = "free"
    /\ ArchiveResult /\ handler' = "after"
    /\ UNCHANGED <<call, calls, configLock, contextVars, senderVars, receiverSide, lastAnswer>>

\* A stop clears the fault plan, a refused start does not.
AfterStop ==
    /\ handler = "after"
    /\ senderRuns' = FALSE /\ receiverRuns' = ReceiverStopped
    /\ IF call.op = "stop"
       THEN faultPlan' = "NONE" /\ planCleared' = (planCleared \/ faultPlan = "FAULT")
       ELSE UNCHANGED <<faultPlan, planCleared>>
    /\ Answered(call.op, call.op = "stop") /\ UNCHANGED call
    /\ UNCHANGED <<calls, contextChain, archiveFault, preparedChain, stopVars, worker, roundFault,
                   receiverReady, archives>>

Handler ==
    \/ TakeLock \/ UnderLock \/ ConfigureSender \/ ConfigurePayload \/ StartSender
    \/ StopSender \/ EmitStopped \/ AfterStop

-----------------------------------------------------------------------------
(* The sender's worker, and the receiver's end of a round.                 *)

WorkerEnds ==
    /\ worker = "run"
    /\ worker' = IF senderStop THEN "finish" ELSE "emit"
    /\ UNCHANGED <<handler, call, calls, configLock, contextVars, preparedChain, faultPlan,
                   senderRuns, stopVars, roundFault, receiverSide, lastAnswer, archives>>

\* emitResult waits for m_mtxConfig in optCreateArchive.
WorkerEmits ==
    /\ worker = "emit" /\ configLock = "free"
    /\ ArchiveResult /\ worker' = "finish"
    /\ UNCHANGED <<handler, call, calls, configLock, contextVars, preparedChain, faultPlan,
                   senderRuns, stopVars, roundFault, receiverSide, lastAnswer>>

RunsAfterFinish == FALSE

\* finishWithoutDuplicateResult.
WorkerFinishes ==
    /\ worker = "finish" /\ worker' = "done" /\ senderRuns' = RunsAfterFinish
    /\ UNCHANGED <<handler, call, calls, configLock, contextVars, preparedChain, faultPlan,
                   stopVars, roundFault, receiverSide, lastAnswer, archives>>

NodeWorker == WorkerEnds \/ WorkerEmits \/ WorkerFinishes

ReceiverRoundEnds ==
    /\ receiverRuns /\ handler \in {"idle", "lock", "held"} /\ receiverRuns' = FALSE
    /\ UNCHANGED <<handler, call, calls, configLock, contextVars, senderVars, receiverReady,
                   lastAnswer, archives>>

NodeNext == Receive \/ RefuseStart \/ Handler \/ NodeWorker \/ ReceiverRoundEnds

\* Client and worker threads are scheduled; a round ends in time.
NodeFairness == WF_nodeVars(Handler) /\ WF_nodeVars(NodeWorker)

NodeSpec == NodeInit /\ [][NodeNext]_nodeVars /\ NodeFairness

-----------------------------------------------------------------------------
(* Properties.                                                             *)

\* A new chain invalidates the payload of the old one: what is prepared belongs
\* to the sender context, and the round it makes will find its archive context.
PreparedFits ==
    preparedChain # NoChain /\ configLock = "free" =>
        preparedChain = contextChain /\ archiveFault[contextChain] # "absent"

\* A start that is refused leaves neither runtime in a round, whichever of them
\* had been started before the other refused.
RefusedStartStops ==
    handler = "idle" /\ lastAnswer = [op |-> "start", accepted |-> FALSE] /\ call.valid =>
        ~senderRuns /\ ~receiverRuns

\* The archive of a round names the fault plan the round was sent with.  The one
\* exception: a stop has cleared the plan since it was confirmed; the round that is
\* started then, without a plan, is archived with it.
ArchiveTellsFault ==
    \A a \in archives :
        a.said = a.run \/ (a.cleared /\ a.run = "NONE" /\ a.said = "FAULT")

\* "Every archive contains the fault configuration", without the exception.
ArchiveNamesPlan == \A a \in archives : a.said = a.run

\* Every message of the manager is answered, also one that has to stop a round.
NodeAnswers == handler # "idle" ~> handler = "idle"

\* configure() waits with m_mtxConfig for a worker that needs it for its archive.
Deadlocked == handler = "join" /\ configLock = "handler" /\ worker = "emit"

\* Every message is answered unless it met the worker at its archive: configure()
\* and resetConfiguration are the only waits that can last.
MessagesAnswered == handler # "idle" ~> (handler = "idle" \/ Deadlocked)

\* Context, payload, fault and archive of a node belong to one chain.
NodeSafe == NodeTypeOK /\ PreparedFits /\ RefusedStartStops /\ ArchiveTellsFault
=============================================================================
