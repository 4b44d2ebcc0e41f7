------------------------------ MODULE NodeAgent ------------------------------
(***************************************************************************)
(* NodeAgentService: the order in which the agent's parts are started and  *)
(* stopped, against the threads of those parts: the receiver of            *)
(* UdpMulticastChannel ("mc"), the management server ("srv", in detail in  *)
(* ManagementServer) and UdpDiscoveryService ("disc"), which tells the     *)
(* network that the node is there, and against the sender's round.         *)
(***************************************************************************)
EXTENDS Integers

CONSTANTS MaxAgentStarts   \* bound of the model: calls of start()

ASSUME AgentParameters == MaxAgentStarts \in Nat

Parts == {"mc", "srv", "disc"}

\* Mutant: the node is announced first.
AnnouncedFirst == <<"disc", "srv", "mc">>

\* The order in which start() starts the parts, and stop() stops them.
StartOrder == <<"mc", "srv", "disc">>
StopOrder == <<"disc", "srv", "mc">>

VARIABLES
    agentOn,        \* m_bRunning of the service
    agentPc,        \* where the thread that starts and stops the service is,
    partAt,         \* and the place in StartOrder or StopOrder it has come to
    receiverOn,     \* m_bReceiverRunning
    partOn,         \* m_bRunning of each part
    partSocket,     \* parts with an open socket
    partThread,     \* the thread of each part
    agentRound,     \* a round is running: a sender's worker
    agentStarts,    \* bound: calls of start()
    presence        \* history: the last presence, what it said and if the group was joined

agentVars == <<agentOn, agentPc, partAt, receiverOn, partOn, partSocket, partThread,
               agentRound, agentStarts, presence>>

AgentTypeOK ==
    /\ agentOn \in BOOLEAN /\ receiverOn \in BOOLEAN /\ agentRound \in BOOLEAN
    /\ agentPc \in {"down", "starting", "up", "stopRound", "close", "join"}
    /\ partAt \in 1 .. 3
    /\ partOn \in [Parts -> BOOLEAN] /\ partSocket \subseteq Parts
    /\ partThread \in [Parts -> {"none", "running", "ended"}]
    /\ agentStarts \in 0 .. MaxAgentStarts
    /\ presence \subseteq [receiver : BOOLEAN, joined : BOOLEAN]

AgentInit ==
    /\ agentOn = FALSE /\ agentPc = "down" /\ partAt = 1 /\ receiverOn = FALSE
    /\ partOn = [p \in Parts |-> FALSE] /\ partSocket = {}
    /\ partThread = [p \in Parts |-> "none"]
    /\ agentRound = FALSE /\ agentStarts = 0
    /\ presence = {}

-----------------------------------------------------------------------------
(* start() and stop().                                                     *)

AgentStart ==
    /\ agentPc = "down" /\ ~agentOn /\ agentStarts < MaxAgentStarts
    /\ agentOn' = TRUE /\ agentPc' = "starting" /\ partAt' = 1
    /\ agentStarts' = agentStarts + 1
    /\ UNCHANGED <<receiverOn, partOn, partSocket, partThread, agentRound, presence>>

\* A part starts: its socket, then its thread.
StartPart ==
    /\ agentPc = "starting"
    /\ LET p == StartOrder[partAt]
       IN  /\ partOn' = [partOn EXCEPT ![p] = TRUE] /\ partSocket' = partSocket \union {p}
           /\ partThread' = [partThread EXCEPT ![p] = "running"]
           /\ receiverOn' = (receiverOn \/ p = "mc")
    /\ IF partAt < 3 THEN partAt' = partAt + 1 /\ UNCHANGED agentPc
                     ELSE agentPc' = "up" /\ UNCHANGED partAt
    /\ UNCHANGED <<agentOn, agentRound, agentStarts, presence>>

\* stop(), also of a start in which a part could not bind, having stopped itself.
AgentStop ==
    /\ agentPc \in {"starting", "up"} /\ agentPc' = "stopRound" /\ agentOn' = FALSE
    /\ UNCHANGED <<partAt, receiverOn, partOn, partSocket, partThread, agentRound,
                   agentStarts, presence>>

\* The runtime joins the sender's worker.
StopRuntime ==
    /\ agentPc = "stopRound" /\ agentPc' = "close" /\ partAt' = 1 /\ agentRound' = FALSE
    /\ UNCHANGED <<agentOn, receiverOn, partOn, partSocket, partThread, agentStarts, presence>>

FlagAfterClose(p) == FALSE

ClosePart ==
    /\ agentPc = "close" /\ agentPc' = "join"
    /\ LET p == StopOrder[partAt]
       IN  /\ partOn' = [partOn EXCEPT ![p] = FlagAfterClose(p)]
           /\ partSocket' = partSocket \ {p}
    /\ UNCHANGED <<agentOn, partAt, receiverOn, partThread, agentRound, agentStarts, presence>>

JoinPart ==
    /\ agentPc = "join"
    /\ LET p == StopOrder[partAt]
       IN  /\ partThread[p] # "running"
           /\ partThread' = [partThread EXCEPT ![p] = "none"]
           /\ receiverOn' = (receiverOn /\ p # "srv")
    /\ IF partAt < 3 THEN partAt' = partAt + 1 /\ agentPc' = "close"
                     ELSE agentPc' = "down" /\ UNCHANGED partAt
    /\ UNCHANGED <<agentOn, partOn, partSocket, agentRound, agentStarts, presence>>

-----------------------------------------------------------------------------
(* The threads.                                                            *)

\* A heartbeat, or the answer to a scan.
SendPresence ==
    /\ partThread["disc"] = "running" /\ "disc" \in partSocket
    /\ presence' = {[receiver |-> receiverOn, joined |-> "mc" \in partSocket]}
    /\ UNCHANGED <<agentOn, agentPc, partAt, receiverOn, partOn, partSocket, partThread,
                   agentRound, agentStarts>>

\* poll() comes back after 250 ms at the latest, or after a datagram.
PollReturns(p) == TRUE

ThreadEnds(p) ==
    /\ partThread' = [partThread EXCEPT ![p] = "ended"]
    /\ UNCHANGED <<agentOn, agentPc, partAt, receiverOn, partOn, partSocket, agentRound,
                   agentStarts, presence>>

SeesFlag(p) == partThread[p] = "running" /\ PollReturns(p) /\ ~partOn[p] /\ ThreadEnds(p)

\* A poll() that fails, or that returns an error of the socket, ends the loop.
PollFails(p) == partThread[p] = "running" /\ p # "srv" /\ ThreadEnds(p)

\* ROUND_START from a client, and the end of a round by itself.
ClientStartsRound ==
    /\ partThread["srv"] = "running" /\ "srv" \in partSocket /\ ~agentRound
    /\ agentRound' = TRUE
    /\ UNCHANGED <<agentOn, agentPc, partAt, receiverOn, partOn, partSocket, partThread,
                   agentStarts, presence>>

AgentRoundEnds ==
    /\ agentRound /\ agentRound' = FALSE
    /\ UNCHANGED <<agentOn, agentPc, partAt, receiverOn, partOn, partSocket, partThread,
                   agentStarts, presence>>

AgentStops == StopRuntime \/ ClosePart \/ JoinPart

AgentNext ==
    \/ AgentStart \/ StartPart \/ AgentStop \/ AgentStops
    \/ \E p \in Parts : SeesFlag(p) \/ PollFails(p)
    \/ SendPresence \/ ClientStartsRound \/ AgentRoundEnds

\* The stopping thread goes on, and every loop comes round to its flag.
AgentFairness ==
    WF_agentVars(AgentStops) /\ \A p \in Parts : WF_agentVars(SeesFlag(p))

AgentSpec == AgentInit /\ [][AgentNext]_agentVars /\ AgentFairness

-----------------------------------------------------------------------------
(* Properties.                                                             *)

\* The comment in start(): the group is joined before the node is announced, so
\* that no datagram of a round is missed; and as long as it is announced as
\* receiving.
AnnouncedAfterJoining ==
    [][agentOn /\ presence' # presence =>
         \A said \in presence' : said.joined /\ said.receiver]_agentVars

\* A service that is down, after stop() or after a start that failed half way,
\* has no socket, no thread and no receiver.
DownHoldsNothing ==
    agentPc = "down" =>
        /\ partSocket = {} /\ ~receiverOn
        /\ \A p \in Parts : partThread[p] = "none" /\ ~partOn[p]

\* stop() returns.
AgentStopReturns == (agentPc = "stopRound") ~> (agentPc = "down")

\* The agent comes up in order, goes down completely, and its stop returns.
AgentServes ==
    [](AgentTypeOK /\ DownHoldsNothing) /\ AnnouncedAfterJoining /\ AgentStopReturns
=============================================================================
