-------------------------- MODULE RoundPreparation --------------------------
(***************************************************************************)
(* ManagerAuthenticationController around a round: configuring the nodes    *)
(* and counting their acknowledgements, the fault plan, a start that has to *)
(* reach every node or is taken back, the stop, and the results that end    *)
(* the round.  Each node has a TCP connection of its own, which may drop;   *)
(* what a node does with a message is AuthenticationNodeRuntime, reduced to *)
(* its answers.  RoundControl has pause and resume, NodeRuntime the node.   *)
(***************************************************************************)
EXTENDS Integers, Sequences, FiniteSets

CONSTANTS
    Nodes,            \* nodes of the network
    SenderNode,       \* the one selected as sender
    LastPreparation,  \* bound of the model: rounds prepared
    MaxRoundStarts,   \* bound of the model: calls of bStartRoundAt
    MaxLosses         \* bound of the model: connections lost

ASSUME PreparationParameters ==
    /\ SenderNode \in Nodes /\ IsFiniteSet(Nodes)
    /\ LastPreparation \in Nat /\ MaxRoundStarts \in Nat /\ MaxLosses \in Nat

VARIABLES
    roundId,                     \* m_strRoundId (0: none)
    preparations,                \* bound: rounds prepared so far
    participants,                \* m_setParticipantEndpoints
    pendingConfig, rejected, configReady,
                                 \* m_setPendingConfigurationRequests, m_bConfiguration...
    faultConfigured, faultPending, faultRejected, faultReady,
    inRound, received,           \* m_bRoundRunning, m_setReceivedResultKeys
    online, commands, replies,   \* connections and the messages on them
    prepared, nodeRuns, nodeFault,
                                 \* a node: round prepared, start it runs (0: none), plan
    roundStarts, losses,              \* bounds; the number of a start is its name
    \* History: nodes out of reach since the last start; whether one has stopped.
    unreachable, stoppedOnce

configVars == <<pendingConfig, rejected, configReady>>
faultFlags == <<faultConfigured, faultPending, faultRejected, faultReady>>
roundVars == <<inRound, received, roundStarts, unreachable, stoppedOnce>>
nodeSide == <<prepared, nodeRuns, nodeFault>>
connections == <<online, commands, replies, losses>>
preparationVars == <<roundId, preparations, participants, configVars, faultFlags,
                     roundVars, nodeSide, connections>>

PreparationTypeOK ==
    /\ roundId \in 0 .. preparations /\ preparations \in 0 .. LastPreparation
    /\ participants \subseteq Nodes /\ received \subseteq participants
    /\ rejected \in BOOLEAN /\ configReady \in BOOLEAN /\ inRound \in BOOLEAN
    /\ faultConfigured \in BOOLEAN /\ faultPending \in BOOLEAN
    /\ faultRejected \in BOOLEAN /\ faultReady \in BOOLEAN
    /\ online \in [Nodes -> BOOLEAN] /\ nodeFault \in BOOLEAN
    /\ prepared \in [Nodes -> 0 .. LastPreparation] /\ nodeRuns \in [Nodes -> 0 .. MaxRoundStarts]
    /\ configReady => pendingConfig = {} /\ ~rejected
    /\ faultReady => faultConfigured /\ ~faultPending /\ ~faultRejected
    /\ inRound => participants # {}

PreparationInit ==
    /\ roundId = 0 /\ preparations = 0 /\ participants = {}
    /\ pendingConfig = {} /\ rejected = FALSE /\ configReady = FALSE
    /\ faultConfigured = FALSE /\ faultPending = FALSE
    /\ faultRejected = FALSE /\ faultReady = FALSE
    /\ inRound = FALSE /\ received = {} /\ roundStarts = 0
    /\ unreachable = {} /\ stoppedOnce = FALSE
    /\ online = [n \in Nodes |-> TRUE] /\ losses = 0
    /\ commands = [n \in Nodes |-> <<>>] /\ replies = [n \in Nodes |-> <<>>]
    /\ prepared = [n \in Nodes |-> 0] /\ nodeRuns = [n \in Nodes |-> 0] /\ nodeFault = FALSE

-----------------------------------------------------------------------------
(* The operator of the manager.                                            *)

\* The requests a node gets for a round, in order.
RequestsOf(n) == IF n = SenderNode THEN <<"sender", "payload">> ELSE <<"receiver">>

ConfigRequests(n, round) ==
    [i \in DOMAIN RequestsOf(n) |-> [op |-> RequestsOf(n)[i], name |-> round]]

Connected == {n \in Nodes : online[n]}

\* The queues with these messages for whoever of the participants is connected.
SentTo(who, messages) ==
    [n \in Nodes |-> IF n \in who /\ online[n] THEN commands[n] \o messages ELSE commands[n]]

\* resetPreparedRound; inRound is FALSE already.
ResetPreparedRound ==
    /\ roundId' = 0 /\ participants' = {} /\ received' = {}
    /\ pendingConfig' = {} /\ rejected' = FALSE /\ configReady' = FALSE
    /\ faultConfigured' = FALSE /\ faultPending' = FALSE
    /\ faultRejected' = FALSE /\ faultReady' = FALSE

\* bPrepareTextRound, bPrepareFileRound.
PrepareNodes ==
    /\ ~inRound /\ preparations < LastPreparation /\ preparations' = preparations + 1
    /\ SenderNode \in Connected /\ Cardinality(Connected) >= 2
    /\ roundId' = preparations' /\ participants' = Connected /\ received' = {}
    /\ pendingConfig' = UNION {{<<roundId', RequestsOf(n)[i], n>> : i \in DOMAIN RequestsOf(n)}
                                : n \in Connected}
    /\ commands' = [n \in Nodes |-> IF online[n] THEN commands[n] \o ConfigRequests(n, roundId')
                                    ELSE commands[n]]
    /\ rejected' = FALSE /\ configReady' = FALSE
    /\ faultConfigured' = FALSE /\ faultPending' = FALSE
    /\ faultRejected' = FALSE /\ faultReady' = FALSE
    /\ stoppedOnce' = FALSE
    /\ UNCHANGED <<inRound, roundStarts, unreachable, nodeSide, online, replies, losses>>

\* The same without enough nodes, or when a later request cannot be written: what
\* was sent to the sender stays sent, and its answers find no request.
PrepareFails ==
    /\ ~inRound /\ preparations < LastPreparation /\ preparations' = preparations + 1
    /\ ResetPreparedRound
    /\ \/ UNCHANGED commands
       \/ commands' = SentTo({SenderNode}, ConfigRequests(SenderNode, preparations'))
    /\ stoppedOnce' = FALSE
    /\ UNCHANGED <<inRound, roundStarts, unreachable, nodeSide, online, replies, losses>>

FaultSettled == ~faultPending /\ ~faultRejected /\ (faultConfigured => faultReady)

RollBack == <<[op |-> "stop", name |-> 0]>>

ResultsAtStart == {}

\* bStartRoundAt.  When a node cannot be reached the others are stopped again, and
\* the round stays prepared for another try.
StartAll ==
    /\ configReady /\ ~inRound /\ FaultSettled
    /\ roundStarts < MaxRoundStarts /\ roundStarts' = roundStarts + 1 /\ received' = ResultsAtStart
    /\ LET start == <<[op |-> "start", name |-> roundStarts']>> IN
       \/ /\ participants \subseteq Connected /\ inRound' = TRUE
          /\ commands' = SentTo(participants, start)
          /\ UNCHANGED stoppedOnce
       \/ /\ ~(participants \subseteq Connected) /\ UNCHANGED inRound
          /\ commands' = SentTo(participants, start \o RollBack)
          /\ stoppedOnce' = TRUE
    /\ unreachable' = Nodes \ Connected
    /\ UNCHANGED <<roundId, preparations, participants, configVars, faultFlags, nodeSide,
                   online, replies, losses>>

\* bStopRound: the manager takes the round to be over only when every node was told
\* (bound of the model: the operator asks again only with all of them back).
StopAll ==
    /\ inRound /\ (stoppedOnce => participants \subseteq Connected) /\ stoppedOnce' = TRUE
    /\ commands' = SentTo(participants, <<[op |-> "stop", name |-> 0]>>)
    /\ inRound' = ~(participants \subseteq Connected)
    /\ UNCHANGED <<roundId, preparations, participants, configVars, faultFlags, received,
                   roundStarts, unreachable, nodeSide, online, replies, losses>>

\* bConfigureFaultPlan.
ConfigureFaultPlan ==
    /\ configReady /\ ~inRound /\ ~faultPending /\ ~faultConfigured
    /\ faultConfigured' = TRUE /\ faultReady' = FALSE
    /\ faultPending' = online[SenderNode] /\ faultRejected' = ~online[SenderNode]
    /\ commands' = SentTo({SenderNode}, <<[op |-> "fault", name |-> roundId]>>)
    /\ UNCHANGED <<roundId, preparations, participants, configVars, roundVars, nodeSide,
                   online, replies, losses>>

ManagerOperator ==
    PrepareNodes \/ PrepareFails \/ StartAll \/ StopAll \/ ConfigureFaultPlan

-----------------------------------------------------------------------------
(* processNodeControlJson.                                                 *)

Reply(n, type) ==
    /\ replies[n] # <<>> /\ Head(replies[n]).type = type
    /\ replies' = [replies EXCEPT ![n] = Tail(@)]
    /\ UNCHANGED <<roundId, preparations, participants, nodeSide, online, commands, losses>>

AllAccepted(left) == left = {} /\ ~rejected

HandleConfigAck(n) ==
    /\ Reply(n, "config")
    /\ LET ack == Head(replies[n])
           left == pendingConfig \ {ack.name}
       IN  /\ pendingConfig' = left
           /\ rejected' = (rejected \/ (ack.name \in pendingConfig /\ ~ack.ok))
           /\ configReady' = (configReady
                  \/ (ack.name \in pendingConfig /\ ack.ok /\ AllAccepted(left)))
    /\ UNCHANGED <<faultFlags, roundVars>>

HandleFaultAck(n) ==
    /\ Reply(n, "fault")
    /\ LET ack == Head(replies[n]) IN
       IF faultPending /\ ack.name = roundId
       THEN /\ faultPending' = FALSE /\ faultRejected' = (faultRejected \/ ~ack.ok)
            /\ faultReady' = ack.ok
       ELSE UNCHANGED <<faultPending, faultRejected, faultReady>>
    /\ UNCHANGED <<configVars, faultConfigured, roundVars>>

\* A result of a node counts for the round it names.
HandleResult(n) ==
    /\ Reply(n, "result")
    /\ IF Head(replies[n]).name = roundId /\ n \in participants
       THEN /\ received' = received \union {n}
            /\ inRound' = (inRound /\ received' # participants)
       ELSE UNCHANGED <<received, inRound>>
    /\ UNCHANGED <<configVars, faultFlags, roundStarts, unreachable, stoppedOnce>>

ManagerReceives == \E n \in Nodes : HandleConfigAck(n) \/ HandleFaultAck(n) \/ HandleResult(n)

-----------------------------------------------------------------------------
(* A node: the answer to a message, and the end of a round by itself.      *)

Says(n, messages) ==
    replies' = IF online[n] THEN [replies EXCEPT ![n] = @ \o messages] ELSE replies

EndOfRun(n) == [type |-> "result", name |-> prepared[n], ok |-> TRUE]

ResultIfRuns(n) == IF nodeRuns[n] # 0 THEN <<EndOfRun(n)>> ELSE <<>>

\* Configuration is refused during a round, and for reasons of its own.
NodeConfigures(n) ==
    /\ Head(commands[n]).op \in {"sender", "payload", "receiver"}
    /\ LET op == Head(commands[n]).op
           round == Head(commands[n]).name
           ack(ok) == [type |-> "config", name |-> <<round, op, n>>, ok |-> ok]
       IN \/ /\ nodeRuns[n] = 0 /\ Says(n, <<ack(TRUE)>>)
             /\ prepared' = [prepared EXCEPT ![n] = IF op = "sender" THEN 0 ELSE round]
             /\ nodeFault' = IF op = "receiver" THEN nodeFault ELSE FALSE
          \/ Says(n, <<ack(FALSE)>>) /\ UNCHANGED <<prepared, nodeFault>>
    /\ UNCHANGED nodeRuns

NodeTakesFault(n) ==
    /\ Head(commands[n]).op = "fault"
    /\ LET round == Head(commands[n]).name
           ack(ok) == [type |-> "fault", name |-> round, ok |-> ok]
       IN \/ /\ prepared[n] = round /\ nodeRuns[n] = 0
             /\ Says(n, <<ack(TRUE)>>) /\ nodeFault' = TRUE
          \/ Says(n, <<ack(FALSE)>>) /\ UNCHANGED nodeFault
    /\ UNCHANGED <<prepared, nodeRuns>>

\* A start may come too late; a stop ends what runs and forgets the fault plan.
NodeCommanded(n) ==
    /\ Head(commands[n]).op \in {"start", "stop"}
    /\ \/ /\ Head(commands[n]).op = "start" /\ prepared[n] # 0
          /\ nodeRuns' = [nodeRuns EXCEPT ![n] = Head(commands[n]).name]
          /\ UNCHANGED <<replies, nodeFault>>
       \/ /\ nodeRuns' = [nodeRuns EXCEPT ![n] = 0]
          /\ Says(n, ResultIfRuns(n))
          /\ nodeFault' = IF Head(commands[n]).op = "stop" /\ n = SenderNode THEN FALSE
                          ELSE nodeFault
    /\ UNCHANGED prepared

NodeHandles(n) ==
    /\ commands[n] # <<>> /\ commands' = [commands EXCEPT ![n] = Tail(@)]
    /\ NodeConfigures(n) \/ NodeTakesFault(n) \/ NodeCommanded(n)
    /\ UNCHANGED <<roundId, preparations, participants, configVars, faultFlags, roundVars,
                   online, losses>>

NodeEnds(n) ==
    /\ nodeRuns[n] # 0 /\ nodeRuns' = [nodeRuns EXCEPT ![n] = 0] /\ Says(n, <<EndOfRun(n)>>)
    /\ UNCHANGED <<roundId, preparations, participants, configVars, faultFlags, roundVars,
                   prepared, nodeFault, online, commands, losses>>

-----------------------------------------------------------------------------
(* Connections, and what the manager makes of a loss.                      *)

\* Mutant: a loss leaves the requests of the node to wait.
WaitsOn(down) == FALSE

WaitIsOver(down) ==
    (pendingConfig # {} \/ faultPending) /\ participants \intersect down # {}

\* handleNodeStateChanged: there will be no answer any more.
CancelWait(down) ==
    IF WaitIsOver(down)
    THEN /\ pendingConfig' = {} /\ faultPending' = FALSE
         /\ rejected' = TRUE /\ configReady' = FALSE
         /\ faultRejected' = TRUE /\ faultReady' = FALSE
         /\ UNCHANGED faultConfigured
    ELSE UNCHANGED <<configVars, faultFlags>>

LoseNode(n) ==
    /\ online[n] /\ losses < MaxLosses /\ losses' = losses + 1
    /\ online' = [online EXCEPT ![n] = FALSE] /\ unreachable' = unreachable \union {n}
    /\ commands' = [commands EXCEPT ![n] = <<>>] /\ replies' = [replies EXCEPT ![n] = <<>>]
    /\ CancelWait({m \in Nodes : ~online'[m]})
    /\ UNCHANGED <<roundId, preparations, participants, inRound, received, roundStarts,
                   stoppedOnce, nodeSide>>

\* Any other change of the node table, a reconnection among them.
NodesChanged ==
    /\ \E back \in SUBSET (Nodes \ Connected) :
           online' = [n \in Nodes |-> online[n] \/ n \in back]
    /\ CancelWait({n \in Nodes : ~online'[n]})
    /\ UNCHANGED <<roundId, preparations, participants, roundVars, nodeSide, commands,
                   replies, losses>>

PreparationNext ==
    \/ ManagerOperator \/ ManagerReceives \/ NodesChanged
    \/ \E n \in Nodes : NodeHandles(n) \/ NodeEnds(n) \/ LoseNode(n)

\* Nodes answer, and the manager handles what it gets.  Operators need not act.
PreparationFairness ==
    /\ \A n \in Nodes : WF_preparationVars(NodeHandles(n))
    /\ WF_preparationVars(ManagerReceives)

Silent == \A n \in Nodes : commands[n] = <<>> /\ replies[n] = <<>>

\* The operator starts a round again only when the last one has come to rest.
Patient == roundStarts' # roundStarts => Silent /\ \A n \in Nodes : nodeRuns[n] = 0

PatientNext == PreparationNext /\ Patient

PreparationSpec ==
    PreparationInit /\ [][PatientNext]_preparationVars /\ PreparationFairness

-----------------------------------------------------------------------------
(* Properties.                                                             *)

\* "All configurations are confirmed": every participant holds this very round.
ReadyMeansPrepared == configReady => \A n \in participants : prepared[n] = roundId

\* Results end a round only when every node has ended this start of it.  A result
\* names the round, which a second start shares with the first.
EndedByAll ==
    [][(inRound /\ ~inRound' /\ UNCHANGED commands) =>
           \A n \in participants :
               /\ nodeRuns[n] # roundStarts
               /\ \A i \in DOMAIN commands[n] : commands[n][i].op # "start"]_preparationVars

\* When everything has been said no node runs what the manager takes to be over,
\* unless it was out of reach: also after a start that was taken back.
NoOrphans ==
    Silent /\ ~inRound => \A n \in Nodes : nodeRuns[n] # 0 => n \in unreachable

\* The sender starts with the fault plan the manager has shown as confirmed (until
\* a stop makes the node forget it).
FaultInForce ==
    nodeRuns[SenderNode] # 0 /\ nodeRuns[SenderNode] = roundStarts /\ inRound
    /\ faultConfigured /\ ~stoppedOnce => nodeFault

\* "The manager never waits for acknowledgements that can no longer come."
ConfigurationSettles == pendingConfig # {} ~> pendingConfig = {}

\* A round is prepared, started and ended by all of its nodes or not at all, and
\* no preparation waits for ever.
PreparationServes ==
    /\ [](PreparationTypeOK /\ ReadyMeansPrepared /\ NoOrphans /\ FaultInForce)
    /\ EndedByAll /\ ConfigurationSettles
=============================================================================
