----------------------------- MODULE MCNodeSide -----------------------------
(* One TLC instance for the components of a node.  They keep their state    *)
(* apart, so a behaviour is one of a single component ("focus") while the   *)
(* others stay in an initial state in which none of their fair actions is   *)
(* enabled: TLC explores the union of their state spaces, not the product.  *)
EXTENDS MonitorBroadcast, ManagementServer, NodeRuntime, ObservationStore,
        FaultPolicy, FrameStream, NodeAgent, ControlMessages

VARIABLE focus

Components == {"broadcast", "server", "node", "store", "fault", "stream", "agent",
               "messages"}

NodeSideInit ==
    /\ focus \in Components
    /\ Init /\ ServerInit /\ StoreInit /\ AgentInit /\ MessagesInit
    /\ NodeInit /\ (focus # "node" => call = CHOOSE c \in Call : c.op = "status" /\ c.valid)
    /\ FaultInit /\ (focus # "fault" => plan = CHOOSE p \in ValidPlans : TRUE)
    /\ StreamInit /\ (focus # "stream" => stream = <<>>)

Broadcasting ==
    /\ focus = "broadcast" /\ Next
    /\ UNCHANGED <<focus, serverVars, nodeVars, storeVars, faultVars, streamVars, agentVars,
                   messageVars>>

Serving ==
    /\ focus = "server" /\ ServerNext
    /\ UNCHANGED <<focus, vars, nodeVars, storeVars, faultVars, streamVars, agentVars,
                   messageVars>>

HandlingMessages ==
    /\ focus = "node" /\ NodeNext
    /\ UNCHANGED <<focus, vars, serverVars, storeVars, faultVars, streamVars, agentVars,
                   messageVars>>

Storing ==
    /\ focus = "store" /\ StoreNext
    /\ UNCHANGED <<focus, vars, serverVars, nodeVars, faultVars, streamVars, agentVars,
                   messageVars>>

Disturbing ==
    /\ focus = "fault" /\ FaultNext
    /\ UNCHANGED <<focus, vars, serverVars, nodeVars, storeVars, streamVars, agentVars,
                   messageVars>>

Decoding ==
    /\ focus = "stream" /\ StreamNext
    /\ UNCHANGED <<focus, vars, serverVars, nodeVars, storeVars, faultVars, agentVars,
                   messageVars>>

RunningAgent ==
    /\ focus = "agent" /\ AgentNext
    /\ UNCHANGED <<focus, vars, serverVars, nodeVars, storeVars, faultVars, streamVars,
                   messageVars>>

Exchanging ==
    /\ focus = "messages" /\ MessagesNext
    /\ UNCHANGED <<focus, vars, serverVars, nodeVars, storeVars, faultVars, streamVars, agentVars>>

NodeSideNext ==
    \/ Broadcasting \/ Serving \/ HandlingMessages \/ Storing \/ Disturbing \/ Decoding
    \/ RunningAgent \/ Exchanging

nodeSideVars ==
    <<focus, vars, serverVars, nodeVars, storeVars, faultVars, streamVars, agentVars, messageVars>>

NodeSideSpec ==
    /\ NodeSideInit /\ [][NodeSideNext]_nodeSideVars
    /\ WF_vars(Broadcast) /\ WF_vars(Stopping)
    /\ ServerFairness /\ NodeFairness /\ AgentFairness

\* The threads of TcpManagementServer and of NodeRuntime: what is queued leaves, a
\* stop returns, every message is answered or has met the deadlock of m_mtxConfig.
ServerServes == StopReturns /\ EventsLeave /\ ServerStopReturns /\ MessagesAnswered
=============================================================================
