# TLA+ models of the Authentication-Transmission-System

The repository implements broadcast authentication with TESLA on a network of
nodes: one sender divides a round into intervals and signs the data packets of
interval *i* with the key *K_i*, which it discloses `d` intervals later; every
receiver believes a packet only if it arrived before anybody could have seen its
key, and once the disclosed key confirms its MAC.  An improved mode signs groups of
packets and locates the altered ones of a group.  A manager configures, starts,
pauses, resumes and stops rounds over TCP, a test endpoint sends copies of packets in
robustness experiments, and monitors watch the nodes.

This directory holds TLA+ modules translated from the C++ sources, the TLC
configurations that model-check them, and theorems about them proved with TLAPS.
Paths below are relative to the repository (`src/`), line numbers are those of the
commit the models were written from.  `PROJECT.json` lists, for every definition,
the lines it models.

## 1. Inventory

| Component | State | Operations | Interacts with | What is hard |
|---|---|---|---|---|
| **Round parameters, key chain** `AuthenticationRoundParameters.cpp`, `KeyChain.cpp`, `buildDatagrams` | none (pure) | numbering of packets, intervals, keys, tail | sender, receivers, manager | short last interval, inclusive bounds, tail of `d` intervals |
| **AuthenticationSenderRuntime** `common/tesla/src/` | schedule, flags, pause and resume slots, fault policy, worker thread | `configure`, `start`, `requestPause`, `resume`, `stop`, `resetConfiguration`, `configureFault`, `clearFault`; worker `run` | called by the node runtime; sends by UDP; reports results | worker and callers interleave between short critical sections; time; joins |
| **AuthenticationReceiverRuntime** | a context per sender (records, candidates, keys, timeline), bounded queue, worker thread | `configure`, `start`, `requestPause`, `resume`, `stop`, attack source mapping, `bEnqueueDatagram`; worker `workerLoop` | fed by the multicast thread; reports results and observations | packets late, lost, repeated, reordered, altered; pause against deadline; who reports first |
| **Improved TESLA** `KsRsMatrix.cpp`, `SamdAggregator.cpp`, `ImprovedTeslaStrategy.cpp` | none (pure) | matrix, aggregate tags, location | sender, receiver | partly damaged groups, short groups |
| **Authority and contexts** | issued chains; contexts per node | issue, configure, look up | manager, nodes | what an earlier round left on a node |
| **AuthenticationNodeRuntime** | both runtimes, configuration, archives, `m_mtxConfig` | control messages, `msgApplyRoundCommand`, payload handlers, `emitResult` | TCP server above, runtimes below | locks held across joins; refusals half way |
| **ManagerAuthenticationController** `apps/manager_gui` | round phase, timeline, pending requests, results | configuration, fault plan, `bStartRound(At)`, pause, resume, stop, `processNodeControlJson` | one TCP connection per node | commands cross with results; connections drop between steps |
| **Attack experiment** `ManagerAttackExperimentController`, `AttackTestNetworkController`, `AttackExecutionController` | context, plan, mappings, state of the execution; a worker and its tasks | submit, map, confirm, start, stop | manager, test endpoint, receivers | three independent connections; worker against stop |
| **TcpManagementServer** `apps/node_agent` | clients and their threads, two bounded monitor queues | `start`, `stop`, accept loop, client loops, uploads, `monitorBroadcastLoop` | node runtime, monitors | stop against waiting threads; full queues; fairness of two queues |
| **Node agent** `NodeAgentService`, `UdpMulticastChannel`, `UdpDiscoveryService` | life cycle | `start`, `stop` | runtimes | order, failure half way |
| **Network controllers** `ManagerNetworkController`, `UavMonitorNetworkController`, `PcNodeNetworkController` | sockets, presence, uploads, send queue, preparation threads | slots of the Qt thread | nodes, runtimes | connections replaced under an operation; posted events; joins on the Qt thread |
| **FileUploadSession** | bytes, next chunk | `begin`, `append`, `wrkComplete`, `reset` | both servers | order and repetition of chunks |
| **AuthenticationObservationStore** | bounded deques by round | `resAppend`, `beginRound`, snapshots | TCP server, monitors | limits, duplicates |
| **FaultInjection** | plan, budget | decision per datagram | sender worker | tag carriers, end of an outage |
| **Protocol codecs** `common/protocol` | stream decoder | frames, datagrams, JSON messages | everywhere | split frames, implicit layout, two functions per message |
| **Crypto, metrics, workloads** | counters | pure functions, counting | — | what counts as cost |
| **GUI windows** | — | presentation | — | — |

The behaviours that are hard to test here are interleavings (worker threads against
control calls, client threads against stop, the Qt thread against posted
events), time (pauses, deadlines, late commands), failures in the middle (connections
that drop between two steps, a start that is refused half way, a socket error), bounded
queues, and agreement between two pieces of code that never call each other
(sender and receiver, writer and reader, manager and node).  `PROJECT.json`
lists the hazards with their lines and the properties that would catch them.

## 2. Modules

```
RoundSchedule ── SenderRuntime ── RoundControl ── MCProtocolSide
      │                └── MCSender    │ R == INSTANCE ReceiverTimeline
      └────────── ReceiverTimeline ── ReceiverRuntime ── MCReceiver ── MCReceiverSide

KsRsMatrix ── GroupLocation ───────────────────────────┐
      └── PacketCodec ── TeslaStrategy ── AuthenticatedRound ── MCProtocolSide
ControlDetails (INSTANCE in AuthenticatedRound)        │
KeyAuthority ──────────────────────────────────────────┘

ExperimentControl ── MCReceiverSide

FileUpload ── ManagementServer ─┐
MonitorBroadcast, NodeRuntime, ObservationStore, FaultPolicy, FrameStream, NodeAgent ── MCNodeSide
ControlDetails ── ControlKinds ── ControlMessages ─┘

FileUpload ── ManagerLink, PcClients ─┐
RoundPreparation, ExperimentExecution, MonitorLink, PcSendQueue ── MCOperatorSide

proofs: SenderProofs (SenderRuntime, RoundControl)
        ReceiverProofs, NodeSideProofs, OperatorSideProofs ── DataInduction
        ProtocolSideProofs (KeyAuthority, GroupLocation, TeslaStrategy) ── DataInduction
        ProtocolSideProofs ── AuthenticatedRoundProofs (AuthenticatedRound)
        ExperimentProofs (ExperimentControl)
```

### Sender, receiver and the timeline they share

**RoundSchedule** is the arithmetic of a round that all nodes share: which packets
belong to an interval, how many datagrams an interval has (tail intervals have
one, with a key only), and which key a datagram carries (`KeyIn`).  A key is its
index in the chain: holding `K_j` is holding every `K_i` with `i <= j`.

**SenderRuntime** models `AuthenticationSenderRuntime.cpp`.  The variables of the
class are `configured`, `running`, `paused`, `stopRequested`, `fault`, `startTs`,
`currentInterval`, `sentDataCount` and the slots `pauseAfter/pauseTs`,
`resumeAt/resumeTs`; `wpc`, `interval`, `datagram`, … are the locals of `run`.  An
action is one critical section of `m_mtxState` or one step between two of them, so
every place where another thread can come in is a state.  A call that joins the
worker (`configure`, `resetConfiguration`, `start`, `stop`) is split at the join
(`BeginCall`, `RequestStop`, `JoinWorker`, then the call's own effect); a call that
throws changes nothing and is left out.  The socket may fail, the fault policy may
drop or delay any datagram, and time may pass anywhere, so every overrun happens.

**ReceiverTimeline** has the receiver's notion of time: `IntervalStartAt` over the
segments of the round (`Unknown` behind an open pause), the safety test `TimeSafe`
and the round's deadline.

**ReceiverRuntime** models the queue, the worker and the control calls of
`AuthenticationReceiverRuntime.cpp`.  A context is a record with the fields of
`ReceiverState`.  A turn of the worker takes at most one datagram, then looks at pauses
and deadlines, as `workerLoop` does in one critical section; the results it collected go
to the handler in a later step (`EmitResults`), with the lock released.  The network
offers any datagram that a sender on the same timeline may have sent by now, its clock
being at most `Tolerance` ahead; it may be late, lost, repeated, reordered, altered in
message or key, malformed, or come from a mapped attack source.

**RoundControl** composes the manager, a sending node (all of SenderRuntime) and the
timeline of a receiving node, with two FIFO channels for the TCP connections.

### What a round carries, and how it is judged

**KsRsMatrix** is the construction of `KsRsMatrix.cpp` (choice of the field, rows,
reduction to the columns of a group) and the verifier's location; **GroupLocation** runs
it over every pattern of intact, altered and lost packets.

**PacketCodec**, **TeslaStrategy**: the layout of datagrams that both sides compute from
the round, MAC inputs, native and improved tags, fast group tags, the key chain, and the
payloads.  A digest is the tuple of what went into it, so that two digests are equal
only if their inputs are; encoding is concatenation of blocks.

**AuthenticatedRound** takes a whole round from the payload at the sender to the result at a
receiver: `buildDatagrams`, delivery with losses, alterations, reordering inside an interval
and copies from the attack endpoint, then `processDatagramLocked`, the verification of both
modes, the failures and observations reported, the metrics counted, and `finalizeLocked`.
Time is reduced to which interval is on the air; ReceiverRuntime has the rest.

**KeyAuthority** follows chains from `AuthenticationAuthority` through the manager's
preparation to the nodes, over several preparations with different senders: what each node
holds, what a start sets to work, and whom a receiver takes for the sender of a datagram.

**ExperimentControl** is a robustness experiment between manager, test endpoint and
receivers, each on a connection of its own that may drop; **ExperimentExecution** is the
endpoint's worker against its GUI and network thread, one action per critical section of
`m_mtxState`.

### The node

**MonitorBroadcast** and **ManagementServer** model `TcpManagementServer.cpp`: the monitor
queues with the broadcast thread, and the accept thread, one thread per client with
its upload (**FileUpload**), and the stop of all of them.  What terminates the process
is a state of its own.

**NodeRuntime** models the handlers of `AuthenticationNodeRuntime.cpp` with `m_mtxConfig` as a
variable, against the sender's worker that needs it for the archive of its result.

**ObservationStore**, **FaultPolicy**, **NodeAgent**: the bounded records with their
snapshot, the fault plans against groups of the improved mode, and the life cycle of the agent.
The store answers failures and packets in two critical sections, and a call takes them one
after the other (`NodeAgentService.cpp:151-154`, as arguments in an order the language leaves
open): the snapshot is two steps, in either order, with appends and evictions in between.

**FrameStream** is the decoder of TCP frames; **ControlDetails**, **ControlKinds** and
**ControlMessages** are the messages in them.  The 47 message types are data: for each
field its kind, the name it has in the document, whether it is optional or has a
default, and how writer and reader treat it; `ControlMessages` writes and reads any
message by its kinds, `ControlDetails` has the rules of the constructors.  A text is its
length, since only its bounds are ever tested; there are two of them, 1024 bytes in
`AuthenticationControl.cpp` and 2048 in `MonitorControl.cpp:14` (`MaxMonitorText`).

### The operators' programs

**RoundPreparation** is the manager's side of a round apart from pauses:
configuration, acknowledgements, fault plan, start, roll-back, stop, and the results that
end the round, over connections that drop.  **ManagerLink** and **MonitorLink** are the
connections of manager and monitor, **PcSendQueue** and **PcClients** the PC node's
send queue and its clients with their preparation threads.  MonitorLink has the limits that cost
an abnormal event on its way: the node's store, the queue of the broadcast thread
(`enqueueMonitorObservation`: a full one gives up an ordinary packet for a failure, or else the
failure), and the monitor's own store.

### Harness modules

`MCNodeSide`, `MCOperatorSide`, `MCProtocolSide` and `MCReceiverSide` check components that
share no variable in one TLC instance.  A variable `focus` picks a component in the initial
state, only that component moves, and the others stay in an initial state: the states
explored are the union of the components' state spaces, not their product, and each
component's actions, fairness and properties are those of its own module.
Where components do share state they are composed in a module of their own
(RoundControl, AuthenticatedRound, ManagementServer with FileUpload, MonitorLink with the
node's store and broadcast).

### Abstractions

- MACs and hashes are free constructors (AuthenticatedRound) or right/wrong
  (ReceiverRuntime); primitives are external.
- Time is discrete.  The sender's clock is the model's clock; `RoundControl` gives
  all nodes the same clock, `ReceiverRuntime` bounds the difference by `Tolerance`.
- All contexts of a receiver have the same round parameters, as the manager
  configures them.
- The interval difference that is unsigned in the code is taken modulo
  `UIntModulus` in the sender (`IntervalStart`).
- A file is its units and their origin (FileUpload), or its bytes (AuthenticatedRound).
- Log text, window state and file output are left out.

## 3. Runs

A property of a run is often a conjunction of named parts, one per question; the
parts stand beside it in the module with a comment of their own.

| Run | Question | Distinct states | Result |
|---|---|---|---|
| `sender_round` | one round of two data intervals (the last one short) and a tail, faults, overruns, socket errors, up to two pause/resume commands, a stop anywhere | 6.1 M | holds |
| `sender_calls` | two rounds with stops, resets, new configurations and a pause for ever, under fairness | 1.1 M | holds |
| `receiver_side` | altered, malformed, injected, late and reordered datagrams with timely pauses; plans of experiments | 1.4 M | holds |
| `receiver_calls` | two contexts, two rounds, last key, timeout, stop, start compete, under fairness | 150 k | holds |
| `protocol_side` | two pauses over two connections, commands prompt or delayed at will; chains, matrices, whole rounds | 2.6 M | holds |
| `node_side` | queues, clients, handlers, store, faults, frames, messages, agent | 434 k | holds |
| `operator_side` | test endpoint, preparation, links, PC node | 184 k | holds |
| `sender_lost_pause` | `PauseHonoured` | — | violated, finding 1 |
| `control_second_pause` | `SenderKeepsTimeline` without waiting between resume and pause | — | violated, finding 2 |
| `monitor_stop` | `BroadcastSurvives` | — | violated, finding 3 |
| `node_deadlock` | `NodeAnswers` | — | violated, finding 4 |
| `node_archive` | `ArchiveNamesPlan` | — | violated, finding 5 |

What the properties say:

| Property | Parts and meaning |
|---|---|
| `TypeOK`, `CompletedRoundIsWhole`, `StopIsPrompt`, `DataPrecedesKey`, `PromisedPauseHonoured` | the sender's bounds; a Completed round sent every datagram; at most the datagram in hand leaves after a stop; no data after its key; a pause accepted ahead of time holds |
| `WorkerReportsOnce`, `SilentAfterResult`, `SenderServes` | one outcome; nothing sent after a result; `StopReturns` (every joining call returns) and `RoundEnds` |
| `RecordsInOrder`, `CompletedIsAuthentic`, `FailureHasCause` | `TypeOK` with `NothingLeftPending` (no packet left behind by verification); what Completed and failures stand for |
| `OneResultPerRound`, `RoundIsReported` | each context exactly one result, also by timeout after a pause |
| `ControlInvariant`, `UnhurriedCommandsFit`, `UnhurriedTimeline` | nodes that refused nothing have the manager's timeline at any delay; unhurried commands are refused by nobody, and the sender is on the timeline (`UnhurriedKeepsTimeline`, `UnhurriedResumes`) |
| `KeysSafe` | `KeysUsedOnce`, `GivenRolesRun`, `SenderResolved`, `ArchiveReady`, `LookupsAgree` |
| `LocatesExactly` | up to the threshold exactly the damaged packets are located; beyond it the verdict says so, and no damaged packet is ever called good (for the shapes that `Separates`, section 5) |
| `OnlyGenuinePasses` | what passed is what the sender sent, whatever was sent beside it |
| `RoundsJudged` | `RefusedForCause`, `EveryIntervalJudged`, `ResultFitsItsMessage`: a valid round is refused only when it is too short for its delay, every interval is judged, and the result can be reported |
| `HarmReported` | `HarmIsTold`, `CopiesAreTold`, `LocatedIsHarmed`: no loss, alteration or altered copy goes unreported |
| `CompletionIsHonest` | `CleanRoundCompletes`, `CompletedIsWhole`, `CostsAgree`, `ComparableMeansClean`: a round nobody harmed completes; a completed one has the sender's payload and costs; harmed rounds stay out of the comparison of the modes |
| `ExperimentSafe`, `PlanDecided` | `MappedBeforeReady`, `ConfirmedPlanRuns`, `NoMappingLeft`, `StopReaches`, `ReadyAgrees`; a submitted plan is decided |
| `BroadcastSafe` | bounds, `EverythingAccounted`, `BoundedOvertaking` of the monitor queues |
| `ServerSafe`, `ServerServes` | `FilesWhole`, `StopLeavesNothing`; both stops return, events leave, and every message to the node is answered unless it meets the deadlock of finding 4 (`MessagesAnswered`) |
| `NodeSafe` | `PreparedFits`, `RefusedStartStops`, and `ArchiveTellsFault`: an archive names the plan its round was sent with, with the one exception that a stop has cleared it (finding 5) |
| `StoreSafe` | `LossAnnounced`, `WarnedOnce`, `AbnormalPacketsKept`, and `SnapshotInOrder`: a failure that is stored at both readings of a snapshot is handed out with its packet, no later than in its batch |
| `FaultSafe` | `TagCarriersSurvive`, `OneOutage` |
| `StreamSafe` | `CutsDoNotMatter`, `BufferBounded` of the frames |
| `MessagesSafe` | `WrittenIsRead`, `DamageStaysLocal`, `ReceiversLearnNoSecret` |
| `AgentServes` | `DownHoldsNothing`, `AnnouncedAfterJoining`, `AgentStopReturns` |
| `ExecutionSafe`, `ExecutionEnds` | `CopiesBounded`; `QuietAfterStop`, `ExecutionStopReturns` |
| `PreparationServes` | `ReadyMeansPrepared`, `NoOrphans`, `FaultInForce`, `EndedByAll`, `ConfigurationSettles` |
| `LinkServes` | `NoOrphanSocket`, `OwnUploadsFit`, `BacklogKept`, `UploadEnds`, `SilentNodeDropped` |
| `MonitorServes` | `NoAbnormalMissed` (an event the monitor does not have was lost to one of the three limits, nowhere else), `ShownStateIsSocket`, `SilentNodeGivenUp` |
| `QueueServes` | `DrainToCome`, `WrittenInOrder`, `CompletedMeansWritten`, `ResultReported` |
| `ClientsServed` | `PcFilesWhole`, `FramesDoNotBlock`, `ThreadHasOwner`, `PreparationAnswered` |

### Bounds

Names that begin with `Max`, and `LastRound` and `LastPreparation`, bound the models, not the
code (except limits the code names, which the modules' comments mark); each stands in the
guard of the action it limits.

- *Sender*: `MaxTime` reaches beyond the end of a round, so that it can finish or overrun at
  every interval.  Three packets at two per interval give a full and a short data
  interval; one tick inside an interval (`IntervalLength = 2`) separates on time, late
  and overrun.  Two commands, because a second pause is the first that finds remains of
  an earlier one; the slots hold no more than one.
- *Receiver*: three arrivals, enough for both packets and the last key in any order;
  `receiver_calls` reaches the timeout of a round that was paused and resumed.
  `CallTimes` picks time stamps on and off interval boundaries; `Expiries` that of an
  attack source mapping, in the middle of the round.
- *Receiver side*, experiments: two receivers, two plans and one disturbance.
- *Protocol side*, commands: two pauses with prompt commands up to time 10; with delayed commands
  one pause up to time 6 (`DelayedTime`, `DelayedPauses`).
- *Protocol side*, the rest: three peers of which two share a machine, two preparations and two
  starts; groups of 2 to 6 packets with thresholds 1 and 2; six rounds that have full and
  partial last intervals and groups in both modes, two of them refused ones; two acts of
  harm or copies, which is more than the threshold in all rounds but one.
- *Node side*: queues of two observations and three metrics with batches of two; one client
  served of two that connect (the second finds the server full) and whose uploads, with four
  frames of one chain, have one chunk (longer files and other chains are left to the theorem
  `ServerSafeHolds`); store limits 1 and 2 with three rounds and three events, two of which name
  one packet, appended up to four times; seven packets in groups of two, three per interval;
  three frames of at most three units; garbled messages one field at a time.
- *Operator side*: two targets copied twice into a queue of three; two preparations, two
  starts and one lost connection; two abnormal events with a broadcast queue of one, so that the
  second finds it full, and two connections of the monitor; uploads of up to five units in
  chunks of two against a backlog of six; a send queue of three for a round of four datagrams; two PC connections of
  which one is served.

`CHECK_DEADLOCK FALSE` is set where the system may stop: the bounded commands, time,
records or connections run out, and a terminated process takes no step.

### Assumptions on the environment

- `receiver_side` uses `TimelySpec`: pauses are aimed at the end of an interval of the current
  segment on the shared timeline, more than `Tolerance` ahead, and followed by their resume,
  which is what the manager computes; and a round starts when the datagrams of the last one have
  been worked off (`TimelyStart`: a context that has reported takes no more of them, and a start
  lies 100 ms ahead).  `receiver_calls` takes any command with a time in `CallTimes`.
- `protocol_side` has both kinds of behaviour: `unhurried` (commands arrive and calls return
  within a tick, where the manager leaves 2000 ms; the operator asks for the next pause when
  the sender has carried out the last resume), or any delay.  Finding 2 shows what
  happens to the sender without the wait.
- `node_side` takes the manager's messages in any order and at any time; what comes of a payload at
  the end of a round (finding 4) and of a start after a stop (finding 5) are exceptions of
  `MessagesAnswered` and `ArchiveTellsFault`, not assumptions.
- `operator_side`: the operator starts a round again only when the last start has come to rest
  (`PatientNext`, `PatientQueueNext`).  A hasty start can be ended by results of the one before,
  since a result names its round only, and on the PC node it clears the fault flag that an
  unprocessed result should still have seen.
- `ManagerLink` and `MonitorLink` reconnect at will; peers that stop answering do so silently.

### Fairness

All fairness is weak, on threads and timers that the code runs.

| Module | Fair | Why |
|---|---|---|
| SenderRuntime, ReceiverRuntime | the worker, the control thread inside a call it has begun, the clock | threads are scheduled; critical sections wait only for a mutex held briefly |
| MonitorBroadcast | the broadcast thread, a stop that has begun | sends have `SO_SNDTIMEO` |
| ManagementServer | stop, admission, the end of `accept`, each client's thread | the same; a closed socket wakes its thread |
| NodeRuntime | the handler, the sender's worker | threads are scheduled; the lock is a variable, not assumed free |
| NodeAgent | stop, a thread that sees its flag | loops poll with a time limit |
| ExperimentControl | handling of what has arrived | Qt event loops |
| ExperimentExecution | the worker, the GUI thread inside a call | the worker waits on a condition with time limit |
| RoundPreparation | the nodes and the manager handle what has arrived | connections in order; a drop is noticed |
| ManagerLink, MonitorLink | a living peer drains the socket; the offline and the poll timer | Qt timers |
| PcSendQueue, PcClients | worker, Qt event loop, preparation threads | a preparation is bounded work |

Nobody has to call anything, and no message of an operator has to come.  Since the clock
of a model stops at `MaxTime`, `RoundEnds` and `RoundIsReported` except rounds whose
deadline lies beyond it.  `StopReturns` of MonitorBroadcast relies on the producers
pausing for a moment, since the thread ends only with both queues empty: `MaxProduced`
stands for that.

## 4. Proofs

| Theorem | Module | Property |
|---|---|---|
| `KeyBeforeInterval` | SenderProofs | a datagram carries keys of earlier intervals only |
| `TypeCorrect` | SenderProofs | `[]TypeOK` |
| `KeysFollowData` | SenderProofs | `DataPrecedesKey` |
| `StopTakesEffect` | SenderProofs | `[]StopIsPrompt` |
| `OutcomeOnce`, `SilenceAfterResult` | SenderProofs | `[]WorkerReportsOnce`, `SilentAfterResult` |
| `PauseKept` | SenderProofs | `PromisedPauseHonoured` |
| `FaultPolicyKept` | SenderProofs | `FaultPolicyStable` |
| `CompletedMeansWhole` | SenderProofs | `[]CompletedRoundIsWhole` |
| `ControlInvariantHolds` | SenderProofs | `[]ControlInvariant` of RoundControl, at any delay of the commands |
| `ManagedSenderImplements` | SenderProofs | `ControlSpec => Spec`: the composition implements the sender's specification (`CallTimes = Nat`) |
| `ReceiverTypeCorrect`, `OneResultHolds` | ReceiverProofs | `[]TypeOK`, `[]OneResultPerRound` |
| `RecordsInOrderHolds` | ReceiverProofs | `[]RecordsInOrder` under `TimelySpec` |
| `CompletedIsAuthenticHolds` | ReceiverProofs | `CompletedIsAuthentic` under `TimelySpec` |
| `FailureHasCauseHolds` | ReceiverProofs | `FailureHasCause` under `TimelySpec`, where the tail keys exist |
| `KeysSafeHolds` | ProtocolSideProofs | `[]KeysSafe` of KeyAuthority |
| `LocatesExactlyHolds`, `DamageIsLocatedHolds` | ProtocolSideProofs | `[]LocatesExactly` of GroupLocation for shapes that `Separates`; its parts about missed damage for all |
| `GenuinePackets`, `JudgedRounds` | AuthenticatedRoundProofs | `[]OnlyGenuinePasses`, `[]RoundsJudged` of AuthenticatedRound, for any set of rounds |
| `HarmReportedHolds`, `CompletionIsHonestHolds` | AuthenticatedRoundProofs | `[]HarmReported`, `[]CompletionIsHonest` of AuthenticatedRound, where the shapes of the groups `Separates` |
| `ExperimentSafeHolds` | ExperimentProofs | `[]ExperimentSafe` of ExperimentControl |
| `QueuesBounded`, `NothingLostSilently`, `NeitherStarves`, `BroadcastSafeHolds` | NodeSideProofs | `[]TypeOK`, `[]EverythingAccounted`, `[]BoundedOvertaking`, `[]BroadcastSafe` of MonitorBroadcast |
| `ServerSafeHolds` | NodeSideProofs | `[]ServerSafe` of ManagementServer |
| `NodeSafeHolds` | NodeSideProofs | `[]NodeSafe` of NodeRuntime, for any messages at any time |
| `DownHoldsNothingHolds`, `AnnouncedAfterJoiningHolds` | NodeSideProofs | `[]DownHoldsNothing`, `AnnouncedAfterJoining` of NodeAgent |
| `FaultSafeHolds` | NodeSideProofs | `[]FaultSafe` of FaultPolicy |
| `StoreSafeHolds` | NodeSideProofs | `[]StoreSafe` of ObservationStore |
| `StreamSafeHolds` | NodeSideProofs | `[]StreamSafe` of FrameStream |
| `OneExecutionHolds`, `QuietAfterStopHolds`, `CopiesBoundedHolds`, `ExecutionSafeHolds` | OperatorSideProofs | `[]OneExecution`, `QuietAfterStop`, `[]CopiesBounded`, `[]ExecutionSafe` |
| `QueueSafeHolds`, `CompletedMeansWrittenHolds` | OperatorSideProofs | `[]QueueSafe`; `CompletedMeansWritten` for a patient operator (`PatientQueueSpec`), both of PcSendQueue |
| `PreparationSafe` | OperatorSideProofs | `[](PreparationTypeOK /\ ReadyMeansPrepared /\ NoOrphans /\ FaultInForce)` and `EndedByAll`: the safety part of `PreparationServes` |
| `MonitorSafe` | OperatorSideProofs | `[](MonitorTypeOK /\ NoAbnormalMissed /\ ShownStateIsSocket)`: the safety part of `MonitorServes` |
| `LinkSafe` | NodeSideProofs | `[](LinkTypeOK /\ NoOrphanSocket /\ OwnUploadsFit)` and `BacklogKept`: the safety part of `LinkServes` |
| `PcClientsSafe` | NodeSideProofs | `[](PcTypeOK /\ PcFilesWhole /\ FramesDoNotBlock /\ ThreadHasOwner)`: the safety part of `ClientsServed` |

They hold for every value of the constants that the modules' assumptions allow (the
`…Parameters` of each module).  The further hypotheses are those of the table:

- `Tolerance <= StartLead` (receiver).  The code tolerates 5 ms and asks for 100 ms between a
  start or resume and its time.  With a lead of 0 and a tolerance of 1 TLC finds
  `FailureHasCause` violated: a sender that is ahead is already in the interval that the
  resume moves.
- `TailKeysExist` (`FailureHasCauseHolds`): for parameters without it the code refuses the
  sender's configuration, so that no such round is sent.
- every shape `Separates` (`LocatesExactlyHolds`, `HarmReportedHolds`,
  `CompletionIsHonestHolds`): for other shapes
  `LocatesExactly` is false, see the end of section 5, and with it what a receiver reports of a group; an `ASSUME` of MCProtocolSide checks it for the shapes tried.
- `CallTimes = Nat` (`ManagedSenderImplements`): the manager computes the times of its commands,
  so the sender's interface must be taken for any.

**The sender.**  `TypeOK` is inductive only together with the bounds
of the two loops of `run` (`LoopBounds`: where the worker stands, its interval and
datagram lie inside the schedule); both form `TypeInv`.

- `DataPrecedesKey` rests on `SentSoFar`, what is on the wire never lies ahead of the
  worker's position: a datagram about to leave belongs to an interval at least as
  late as all that have left, and by `KeyBeforeInterval` these disclose only keys
  of intervals before it.
- `StopIsPrompt` needs to know where the worker can still be once the flag is up
  (`StopInv`): past the test, with the one datagram in hand, or not.
- `WorkerReportsOnce` and `SilentAfterResult` need the same for results (`ReportInv`):
  which results can exist at which step of the worker and of the joining call.
- `PromisedPauseHonoured` is the delicate one (`PauseInv`, in parts `Position`, `Slots`,
  `Promise`): a promise stands in the slot, or the worker is already held at it, and
  the worker's position is not beyond it at any step between.
- `CompletedRoundIsWhole` counts (`WholeInv`: `Progress`, `Fresh`, `Counted`): all
  datagrams before the worker's position are on the wire or dropped, the next one
  is not, and the packet count of the round is the number of data packets on the
  wire at every step but those between the socket call and its bookkeeping.

**The manager's commands.**  `ControlInvariant` is about a receiver to which nothing is on the
way; `ControlInv` says what is on the way meanwhile (`TimelineOnTheWay`): as long as no command
was refused, the last one in the channel that sets a timeline carries the manager's segment, and
with none in it the receiver has that segment already.  A pause sets none, so it may stand
anywhere between them.

**The receiver's results.**  Between the critical section in which the
worker ends a context and the call of the handler, its result is in neither place that
another thread looks at, so `OneInv` speaks of both: per context and round there is
at most one result with the handler, at most one in the worker's hands, never one in each;
a reported context has one, a context at work has none.  `stop()` reports exactly the contexts
at work (`StopRoundReports`), a turn exactly those that it ends (`TurnReports`), and
`OrderOfResults` says that in whatever order they are collected each appears once.  A start
needs nothing of this: no result names a round that has not begun (`NotAhead`).

**The receiver's packets.**  A packet is judged when the worker takes it from the queue, by the
timeline as it is then, but what counts is when it arrived, against what senders could have
disclosed by then.  The bridge is `Reached(st, j, t)`: a clock that is ahead may show the start of
interval `j` at time `t`.  `TimelyInv` says, for a context at work:

- *the timeline is formed* (`TimelineFits`): segments follow each other, none begins
  before the one in front of it runs out, and a pause is open at the end of the last segment or has been
  ended by it.  So starts of intervals are in their order (`StartsInOrder`) although some are unknown;
- *a key is out only when its interval is reached* (`KeysFit`), also one that was seen and is still
  queued (`QueueFits`, with the queue in the order of arrival, `QueueInOrder`);
- *a stored packet came when the disclosing interval was not reached* (`RecordsFit`), its verdict is
  its MAC, and without a blemish it is the sender's own;
- *no packet waits for a verified interval* (`Settled`), and the count of packets is the number stored.

`TimeSafeMeans` turns the code's test into `~Reached`; `PauseFreezes` and `ResumeFreezes` are the
heart: a timely pause or resume changes nothing about which intervals have been reached at any time up to
now, so all parts survive it.  Hence a packet that passes the test cannot belong to an interval
whose key is held (`ProcessedFits`), which is what `NothingLeftPending` needs, and
with all intervals verified each stored packet lies before the first arrival of its key
(`BeforeItsKey`), which is what a Completed result promises.  `TimelyStart` is needed: with a second
round and a queue that is not empty TLC leaves a packet pending.

**The keys.**  A node holds what the messages in its mail have told it so far, and the manager's
view is ahead of it.  `KeyInv` relates the two: a preparation nobody has refused ends in its own
configuration at every node, by the last message of each kind on the way or, with none, by what the
node holds (`PreparationReaches`); a start on the way finds the node as its preparation left it
(`StartsFit`); a ready preparation has no configuration on the way (`ReadyIsQuiet`); and starts are in the
order of their preparations (`RoundsInOrder`), so that what was sent in one round is not sent by another
preparation's holder later (`SentFit`).

**The location of damage.**  A column of the matrix is a polynomial over the field of `q` elements,
its coefficients the digits of its number, and a row holds the columns with one value at one point.
That a good row tells an intact packet from damaged ones is therefore algebra, none of which is in
the library: a prime that divides a product divides a factor (`Euclid`); a polynomial with as many
roots modulo `q` as coefficients is 0 modulo `q` (`RootBound`, by division with Horner's rule);
`Symbol` is the value of the column's polynomial (`SymbolIsPolynomial`), and `MinExponent` digits are
all that a column has (`RestsEnd`).  So two columns agree at fewer points than they have digits
(`ColumnsDiffer`), `threshold` damaged columns spoil at most `threshold * (message - 1)` points, and with
more points than that an intact column has a row without damage (`CleanRow`).  The rest, about
what `resVerify` concludes from a row, is `VerdictIs`.

**What a receiver reports.**  `HarmReported` speaks of judged rounds; `TellingInv` says what has been
told before that.  A packet of a verified interval that is not the sender's is told (`VerifiedTold`),
and what a fallback located fits the tags of its group (`GroupsTold`).  A forged copy has been told,
or it is among the copies that its packet's interval will judge (`CopiesTold`).  What carries this
through the round is time: a key is on the air `delay` intervals after its own (`Aired`), so whatever
arrives for an interval whose key is known is late, is told at once, and leaves the evidence alone on
which a verdict was reached (`Early`, `Grows`).  Neither a packet nor its damage can pass for
the attack node's forgery (`Unforged`): otherwise the copy would not conflict with the packet it replaces.
Verification is a chain of steps for groups and copies; that each only adds reports
and counts, and what each adds for the group it judges, is shown step by step (`Keeps`, `Judged`).

**What a result says of its round.**  `CompletionIsHonest` speaks of the end of a round, and of a history
(`harm`) that the receiver does not see.  Two invariants bring both to what the receiver holds.

- `WholeInv`: whatever was done to the datagrams shows in what the receiver holds: an altered packet is
  not the sent one (`Intact`), a lost one is not there, a malformed one has been noted, a copy that was not
  early has been reported (`Harms`); and a packet passed untouched, or its group is in doubt (`Sound`).
  So a result that counts every packet as passed has all the sender's messages, which give the payload
  back (`PayloadComesBack`), and one that may be compared met no harm (`Concludes`).
- `CleanInv`: while nobody has harmed the round (`Unharmed`), what has arrived is intact, no verified
  packet failed (`Pure`), and what the receiver has counted, with what is still on the air,
  is what the sender has sent so far (`Flows`), the key of a tail once however often it is repeated.  With
  nothing left on the air the last key has come and the round is completed (`Ends`), at the sender's costs.

The counting needs the sums of the model as equations (`PartOfInterval`, `IntervalsAdd`).  That a
verification passes what is intact and vouches for nothing else, in both modes and whatever else it
judges, is `VerifyIntervalMoves`, on `NativePassesIntact` and `FastIsIntact`.

**The experiment.**  `ExperimentSafe` is mostly about settled queues; `ExperimentInv` says what
the messages on the way stand for.  A plan at the endpoint waits, goes on, or is over, and never
goes back, and a connection keeps the order of its messages:

- *orders*: a confirmation on the way is of the manager's plan unless something behind it
  ends that plan (`DecisionsFit`); what goes on at the endpoint is confirmed, and goes on for the
  manager too unless an order that ends it is on the way (`GoingFits`); a start never finds its
  plan waiting (`StartOrdersFit`);
- *reports*: plans arrive in the order of their numbers (`PlansInOrder`); a plan is ready once, after
  its confirmation and before its end (`ReadyFits`, `StatusFits`), and what the manager takes to
  be ready goes on or its end is on the way (`ReadinessFits`);
- *mappings*: each mapping, and each message that installs one, is of the present experiment or a
  message that clears it is behind it (`QueueFits`); an accepted answer is of an installed
  mapping, so that a confirmed plan has them all (`AnswersFit`, `RequestsFit`, `ConfirmedMapped`).

Each of the 22 actions is first brought down to one of twelve moves of the manager or eight of
the endpoint (`Moves`), which say what the queue in between gains or loses; the ordering is
shown on these, the mappings on the actions themselves.

**The node.**

- *Monitor queues*, `Turns`: a kind that has been overtaken is not
  empty and has the next turn, and the thread waits for a batch only while no
  observation was waiting.  It is the preference that the wait hands back
  (`TcpManagementServer.cpp:460-463`) that makes this survive an observation which arrives
  during the wait.  Without the invariant, `BoundedOvertaking` alone is not inductive: it
  does not say whose turn it is.
- *Clients*, `ServerInv`: which threads and sockets can be about at each step of `stop()`
  (`StopReached`), where a connection between `accept` and its thread belongs (`ConnectionsPlaced`),
  and that each upload has collected a prefix of its file, cut at a chunk's border (`UploadsOK`,
  for all sizes of chunks and files).
- *Handlers*, `NodeInv`: who holds `m_mtxConfig` at which step (`HandlerPlaced`), and that context,
  payload and archive are of one chain (`ChainsFit`).  That the archive names the right plan, but for a
  stop that has cleared it, needs `FaultsFit`: what is told of a round stays true until its result is
  archived, whatever is prepared or stopped meanwhile.
- *Frames*, `StreamSafe`: what is left in the buffer and what has been handed over are determined by
  the bytes that arrived, not by where they were cut.
- *Agent*, `AgentInv`: parts are up to a place of the start's order, and down to one of the stop's.
- *Fault plans*, `FaultInv`: what is dropped never ends a group and lies in one window; the
  arithmetic says where a group ends when the last interval is short.
- *Store*, `StoreInv`: besides the four parts of the property, under which round a record stands
  and that the flag `limitReported` and the warning in the deque agree (`WarningRemembered`).  What
  the first half of a snapshot has read is compared with the store at the second: `stayed` and
  `unmoved` say which failures were not taken away, or moved, in between.  A
  removal keeps a subsequence; what holds of every subsequence is proved once, by induction.

**The operators' programs.**  For the test endpoint `CopiesInv`: `OneExecution` says that the worker
is at its tasks only in state Running; a packet that was not captured has neither waiting nor
sent copies (`CapturedOnly`); the copy in the worker's hand counts too (`InHandBounded`).  What
makes a stop followed by a new start harmless is `NothingYet`: a plan that has not begun has an
empty queue and has captured nothing, also while `bScheduleStart` still waits for the
last worker.  The limit of the waiting tasks is about a sum over all targets.  For the PC's send queue
`QueueInv`: what is written, the batch in hand and the queue are one ordered
line with the worker's next datagram behind it (`OneLine`), and a scheduled drain is posted or about to
be (`DrainKept`).

*Preparation*, `PrepInv`: the manager knows only what was answered, so each part says what the
commands and answers on the way can still change.  Whoever has answered the last request of the
present preparation holds its round and is asked for no other (`AnsweredHolds`, with `LastIsLast`), which is
what a ready preparation means.  Out of a round, what runs is also told to stop
(`StopsBehindStarts`); in one, a node starts once and what has given a result does not start again
(`OneStart`), so that the last result ends the round with nothing running.  The stops of an older
round are all in front of the new requests (`OldStopsFirst`); with this a confirmed fault plan is still the
sender's at the start (`FaultHeld`).

*Connections.*  A monitor's snapshot request goes out with its hello (`HelloFirst`); from then on each
event is with the monitor, in an answer, on its way to the broadcast thread or in its queue or hand, covered
by the snapshot to come, or lost to a limit (`NothingLost`); and nothing is in any of these
places that has not happened (`OnlyHappened`).  The manager's upload and the node's session move together: a session belongs to
the upload that was begun on this very connection and has taken what the manager has written
(`SocketsOK`, `SessionOK`, `InStep`), for every number of chunks a pump may write (`PumpOK`).  For the
PC node's clients, an answer or a running preparation is of a file this client sent, and there is one
or the other (`OneFileAtATime`, `AnswersOK`); a descriptor is in the map as long as its socket is
open (`ConnectionsOK`).

**Induction.**  The library's induction theorems take a predicate as a parameter, which the provers
cannot instantiate.  DataInduction states induction over numbers and finite sets about
*sets* of values, from the well-founded minimum of the library; sums over finite sets
(`MapThenSumSet`) and folds over sequences then have their equations.

Only model-checked: all liveness properties (liveness and `ENABLED` are beyond the prover used);
the control messages (`MessagesSafe`: they are written and read by RECURSIVE operators, which the
prover does not take); and whether
unhurried commands fit (`UnhurriedCommandsFit`, `UnhurriedTimeline`).

## 5. Findings

1. *A pause accepted too late is lost* (`sender_lost_pause`).  Between looking for its
   boundary (`AuthenticationSenderRuntime.cpp:974`) and publishing the next interval, the
   worker has left an interval that `requestPause` still accepts.
2. *A pause during a resume is wiped* (`control_second_pause`).  The manager counts the
   round as running as soon as the resume is out, two seconds before the sender
   wakes up and clears both slots (1019); a pause in between survives on the
   receivers only.
3. *A stop can end the process* (`monitor_stop`).  `stop()` clears the metric queue while
   the broadcast thread waits up to 25 ms for a batch; the thread then builds a metric
   message of no records, which throws out of the thread function
   (`TcpManagementServer.cpp:466-479`, `common/protocol/src/MetricControl.cpp:18`).
4. *A payload at the end of a round blocks the node* (`node_deadlock`).  The handlers of
   payloads and of a cleared configuration hold `m_mtxConfig` while they join the sender's
   worker (`AuthenticationNodeRuntime.cpp:903`); the worker that reports its result waits
   for `m_mtxConfig` in `optCreateArchive` (1212-1218).

5. *An archive names a fault plan its round did not have* (`node_archive`).  A stop clears
   the fault policy of the sender (`AuthenticationNodeRuntime.cpp:1183`) and leaves the
   configured plan, which is what the archive says; the manager keeps its ready flags, offers
   Start again and no longer lets the plan be sent (`ManagerMainWindow.cpp:1603-1604`).

`PROJECT.json` quotes the line of the documentation or comment each contradicts.

Two more statements of the repository do not hold.  They stand as definitions in their modules
and TLC finds each violated, with the constants of `node_side` and `operator_side`, but no run
of the project is kept for them:

- *A snapshot returns the failures with the packets they refer to*
  (`docs/stage8-observation-and-visualization.md:15`): `SnapshotComplete` of ObservationStore,
  under `StoreSpec`.  `NodeAgentService.cpp:151-154` takes the two lists in two critical sections,
  and a failure that comes, or is dropped, in between is handed out without its packet.
  `SnapshotInOrder` is what holds.
- *stop() waits for the file preparations, then stops the runtime* (the comment at
  `PcNodeNetworkController.cpp:419`, `docs/stage7-file-authentication.md:38`):
  `RuntimeStopsLast` of PcClients, under `PcSpec`.  `abort()` (404-409) runs the socket's slot at
  once, which removes the client from the map (548-553); the loop that is to join the
  threads (410-416) finds the map empty, the runtime is stopped while a preparation runs,
  and the thread is joined by the destructor of its client, later.

Seen while modelling, without a statement in the repository that they contradict:

- The second pause of finding 2 has another consequence: a resume accepted before the
  sender has reached its boundary stays in its slot, and when another pause replaces the
  boundary first, the sender begins the new segment under the wrong interval (1004).
- `stop(true)` reads `m_bRunning` before the join and reports Stopped after it, although
  the worker may have reported Completed or an overrun in between (395-419).
- A start sets to work whatever a node still holds (`AuthenticationNodeRuntime.cpp:1129`):
  a node that is no longer selected as a sender sends its old chain again, whose keys are
  public, and a pure sender starts receiver contexts of an earlier round.  `KeysUsedOnce` and
  `GivenRolesRun` are stated with these two exceptions.
- With fewer data intervals than the disclosure delay, or with more tags in a group than
  a packet may have (2043), parameters that were accepted make a round that is refused
  later (`RefusedForCause`).
- The manager's `bStopRound` with an unreachable node leaves `m_bRoundRunning` set
  (`ManagerAuthenticationController.cpp:903`); a node lost after the configuration leaves it
  ready; a pause that reaches only some nodes is reported as an error but stands on those.
- An unchanged copy that overtakes its packet leaves a round comparable, and one that comes
  late makes a whole round ProtocolIncomplete (`AuthenticationReceiverRuntime.cpp:1168`).
- The matrix has `message + 2 * threshold` points, whatever the number of digits.  Several
  columns can spoil `threshold * (message - 1)` of them, so that for large groups with a large
  threshold an intact packet may be called bad although no more packets than the
  threshold are damaged, and the verdict exceeds it.  The smallest groups the manager's form allows
  (`ManagerMainWindow.cpp:415-418`: up to 10000 packets, threshold up to 1000) for which this happens have
  2198 packets and threshold 4: field 13, four digits, twelve points; column 2197 is the
  polynomial x^3, and four quadratic ones agree with it at three points each.  For shapes that
  `Separates` it cannot happen (`LocatesExactlyHolds`); no run shows the other case, since a group
  of that size is beyond TLC.
- Numbers in control messages are read with `get<uint32_t>`, which cuts off a larger one; the
  lists of tags and of location steps are iterated without asking whether they are
  lists, so that `null` is read as the empty list.
- A monitor can miss a failure for good while its connection stays up: the broadcast queue is
  full of failures (`TcpManagementServer.cpp:348-375`), or a store is at its limit.  The server
  counts what its queue drops and tells nobody; nothing sends it again.
- `thrFilePreparation` is joined by the next upload, and `msgHandleControl` may wait for
  `m_mtxConfig` on the Qt thread while a preparation holds it.

## 6. What is left

Done: the modules of section 2.  Next, in this order:

1. Proofs: `UnhurriedCommandsFit` and `UnhurriedTimeline` of RoundControl under prompt delivery.
2. RoundControl with connections that drop between a pause and its resume (today in
   RoundPreparation without pauses, and in RoundControl without drops).
3. An abstract round (phases and one outcome) refined by SenderRuntime through a mapping of
   `wpc` and the control program counter.

Not modelled, and why:

- *Windows*: forms, tables and plots carry no protocol state.
- *Cryptographic primitives*: external; their outputs are free constructors.
- *Hardware counters, files of archives and metrics*: output only.
- *Discovery datagrams and the choice of interfaces*: rounds do not depend on them once the
  connections are up; of discovery only the life cycle is modelled.
- *A second control client of the node*: the management server serves a thread per client, so
  two control calls may meet in the runtimes; NodeRuntime has one client at a time.
- *Partial writes*: a send that times out in the middle of a frame (`TcpManagementServer.cpp:542`)
  closes the connection in the model, as it does in the code for a monitor.

## 7. Running

```
tlc -config SenderRound.cfg MCSender.tla       # a run
tlapm SenderProofs.tla                         # a proof module
```
