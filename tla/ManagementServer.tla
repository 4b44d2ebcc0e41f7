--------------------------- MODULE ManagementServer ---------------------------
(***************************************************************************)
(* TcpManagementServer's connections: the accept thread, one thread per    *)
(* client that receives and handles frames, the broadcast thread that      *)
(* disconnects slow monitors, and the stop of all of them.  m_vecClients   *)
(* is guarded by m_mtxClients, the sockets are atomic, and a connection's   *)
(* upload belongs to its thread.  What the authentication runtime does     *)
(* with a control message is NodeRuntime; here it takes its time.          *)
(***************************************************************************)
EXTENDS FileUpload, FiniteSets

CONSTANTS
    MaxClients,      \* MAX_CLIENTS
    MaxConnections,  \* bound of the model: connections made by peers
    MaxFrames,       \* bound of the model: frames a connection sends
    Chains           \* chain IDs of uploads

ASSUME ServerParameters ==
    /\ MaxClients \in Nat \ {0} /\ MaxConnections \in Nat /\ MaxFrames \in Nat
    /\ Chains \subseteq Nat \ {0}

Connections == 1 .. MaxConnections

VARIABLES
    serverOn,     \* m_bRunning
    listening,    \* the listen socket is open
    acceptPc,     \* where the accept thread is
    stopPc,       \* where the thread that starts and stops the server is
    clients,      \* m_vecClients: connections with an object and a thread
    socketOpen,   \* connections whose atmSocket() is not -1
    peerUp,       \* connections their peer has made and not yet closed
    hello,        \* role of the connection, once CLIENT_HELLO was received
    upload,       \* uplFile() of the connection
    clientPc,     \* where the connection's thread is
    made, sent,   \* bounds: connections made, frames handled
    \* History: files handed to m_fnFilePayloadHandler.
    files

serverVars == <<serverOn, listening, acceptPc, stopPc, clients, socketOpen, peerUp,
                hello, upload, clientPc, made, sent, files>>

Roles == {"manager", "monitor"}
UploadFrames ==
    [kind : {"begin"}, chain : Chains, size : 1 .. MaxFileSize + 1]
    \union [kind : {"chunk"}, chain : Chains, index : 1 .. 2, length : 1 .. ChunkSize]
    \union [kind : {"end"}, chain : Chains, chunks : 1 .. 2, total : 1 .. MaxFileSize]
\* "control" stands for the messages that are answered, "bad" for a frame or a
\* message that cannot be decoded.
Frames == UploadFrames \union [kind : {"hello"}, role : Roles]
          \union [kind : {"control", "bad"}]

ServerTypeOK ==
    /\ serverOn \in BOOLEAN /\ listening \in BOOLEAN
    /\ acceptPc \in {"none", "accept", "admit", "ended"}
    /\ stopPc \in {"idle", "closeListen", "joinAccept", "closeClients", "joinClients"}
    /\ clients \subseteq Connections /\ socketOpen \subseteq Connections
    /\ Cardinality(socketOpen \intersect clients) <= MaxClients
    /\ peerUp \subseteq Connections
    /\ hello \in [Connections -> Roles \union {"none"}]
    /\ clientPc \in [Connections -> {"none", "test", "recv", "handle", "ended"}]
    /\ made \in Nat /\ sent \in [Connections -> Nat]

ServerInit ==
    /\ serverOn = FALSE /\ listening = FALSE /\ acceptPc = "none" /\ stopPc = "idle"
    /\ clients = {} /\ socketOpen = {} /\ peerUp = {}
    /\ hello = [c \in Connections |-> "none"]
    /\ upload = [c \in Connections |-> NoUpload]
    /\ clientPc = [c \in Connections |-> "none"]
    /\ made = 0 /\ sent = [c \in Connections |-> 0] /\ files = {}

connectionVars == <<hello, upload, sent, files>>

-----------------------------------------------------------------------------
(* Start, and the accept thread.                                           *)

\* The bind or a thread may fail: stop() follows.
ServerStart ==
    /\ stopPc = "idle" /\ ~serverOn /\ acceptPc = "none" /\ made = 0
    /\ \/ serverOn' = TRUE /\ listening' = TRUE /\ acceptPc' = "accept" /\ UNCHANGED stopPc
       \/ listening' = TRUE /\ stopPc' = "closeListen" /\ UNCHANGED <<serverOn, acceptPc>>
    /\ UNCHANGED <<clients, socketOpen, peerUp, clientPc, made, connectionVars>>

\* accept() returns with a connection; whether the server runs is tested next.
TakeConnection ==
    /\ acceptPc = "accept" /\ listening /\ made < MaxConnections
    /\ made' = made + 1 /\ peerUp' = peerUp \union {made + 1}
    /\ socketOpen' = IF serverOn THEN socketOpen \union {made + 1} ELSE socketOpen
    /\ acceptPc' = IF serverOn THEN "admit" ELSE "ended"
    /\ UNCHANGED <<serverOn, listening, stopPc, clients, clientPc, connectionVars>>

\* Only sockets that are open count; the objects of clients that left do not.
RoomForClient == Cardinality(clients \intersect socketOpen) < MaxClients

\* The connection object and its thread, or, without room or without a thread,
\* the end of the connection.
Admit ==
    /\ acceptPc = "admit"
    /\ \/ /\ RoomForClient
          /\ clients' = clients \union {made}
          /\ clientPc' = [clientPc EXCEPT ![made] = "test"]
          /\ UNCHANGED socketOpen
       \/ socketOpen' = socketOpen \ {made} /\ UNCHANGED <<clients, clientPc>>
    /\ acceptPc' = "accept"
    /\ UNCHANGED <<serverOn, listening, stopPc, peerUp, made, connectionVars>>

EndAccept ==
    /\ acceptPc = "accept" /\ (~listening \/ ~serverOn)
    /\ acceptPc' = "ended"
    /\ UNCHANGED <<serverOn, listening, stopPc, clients, socketOpen, peerUp, clientPc,
                   made, connectionVars>>

-----------------------------------------------------------------------------
(* A client's thread.                                                      *)

Leave(c) ==
    /\ clientPc' = [clientPc EXCEPT ![c] = "ended"]
    /\ socketOpen' = socketOpen \ {c}

\* The loop condition: the server runs and the socket has not been closed.
TestClient(c) ==
    /\ clientPc[c] = "test"
    /\ IF serverOn /\ c \in socketOpen
       THEN clientPc' = [clientPc EXCEPT ![c] = "recv"] /\ UNCHANGED socketOpen
       ELSE Leave(c)
    /\ UNCHANGED <<serverOn, listening, acceptPc, stopPc, clients, peerUp, made,
                   connectionVars>>

\* recv() and the stream decoder deliver one frame or several.
ReceiveFrames(c) ==
    /\ clientPc[c] = "recv" /\ c \in socketOpen \intersect peerUp /\ sent[c] < MaxFrames
    /\ clientPc' = [clientPc EXCEPT ![c] = "handle"]
    /\ UNCHANGED <<serverOn, listening, acceptPc, stopPc, clients, socketOpen, peerUp,
                   made, connectionVars>>

\* recv() returns without data: it blocks until one side has closed.
EndClient(c) ==
    /\ clientPc[c] = "recv" /\ c \notin socketOpen \intersect peerUp
    /\ Leave(c)
    /\ UNCHANGED <<serverOn, listening, acceptPc, stopPc, clients, peerUp, made,
                   connectionVars>>

\* The next frame of what was received, whatever became of the socket, or
\* another recv().
Continue(c) ==
    /\ clientPc' \in {[clientPc EXCEPT ![c] = pc] :
                         pc \in {"test"} \union {p \in {"handle"} : sent'[c] < MaxFrames}}
    /\ UNCHANGED socketOpen

\* bSendControlMessage: a closed socket or a failing send ends the thread.
Answer(c) == (c \in socketOpen /\ Continue(c)) \/ Leave(c)

Reset(c) == [upload EXCEPT ![c] = NoUpload]

UploadStep(c, frame) ==
    \/ /\ frame.kind = "begin"
       /\ IF hello[c] = "manager" /\ BeginValid(upload[c], frame.chain, frame.size)
          THEN /\ upload' = [upload EXCEPT ![c] = Begun(c, frame.chain, frame.size)]
               /\ Continue(c)
          ELSE /\ upload' = IF hello[c] = "monitor" THEN upload ELSE Reset(c)
               /\ Answer(c)
       /\ UNCHANGED files
    \/ /\ frame.kind = "chunk"
       /\ IF hello[c] = "manager"
                /\ AppendValid(upload[c], frame.chain, frame.index, frame.length)
          THEN /\ upload' = [upload EXCEPT ![c] =
                                Appended(@, frame.chain, frame.index, frame.length)]
               /\ Continue(c)
          ELSE /\ upload' = IF hello[c] = "monitor" THEN upload ELSE Reset(c)
               /\ Answer(c)
       /\ UNCHANGED files
    \/ /\ frame.kind = "end"
       /\ files' = IF CompleteValid(upload[c], c, frame.chain, frame.chunks, frame.total)
                   THEN files \union {[by |-> hello[c], chain |-> frame.chain,
                                       size |-> upload[c].size, bytes |-> upload[c].bytes]}
                   ELSE files
       /\ upload' = Reset(c)
       /\ Answer(c)

\* bHandleFrame.  Without a hello anything else, and at any time what cannot be
\* decoded, is answered and ends the thread.
HandleFrame(c) ==
    /\ clientPc[c] = "handle" /\ sent' = [sent EXCEPT ![c] = @ + 1]
    /\ \E frame \in Frames :
          \/ /\ frame.kind = "bad" \/ (hello[c] = "none" /\ frame.kind # "hello")
             /\ Leave(c) /\ UNCHANGED <<hello, upload, files>>
          \/ /\ frame.kind = "hello" /\ hello[c] = "none"
             /\ hello' = [hello EXCEPT ![c] = frame.role]
             /\ Continue(c) /\ UNCHANGED <<upload, files>>
          \/ /\ hello[c] # "none" /\ frame.kind \in {"hello", "control"}
             /\ Answer(c) /\ UNCHANGED <<hello, upload, files>>
          \/ /\ hello[c] # "none" /\ UploadStep(c, frame) /\ UNCHANGED hello
    /\ UNCHANGED <<serverOn, listening, acceptPc, stopPc, clients, peerUp, made>>

PeerCloses(c) ==
    /\ c \in peerUp /\ peerUp' = peerUp \ {c}
    /\ UNCHANGED <<serverOn, listening, acceptPc, stopPc, clients, socketOpen, clientPc,
                   made, connectionVars>>

\* monitorBroadcastLoop: a monitor the message cannot be sent to is disconnected.
DropMonitor(c) ==
    /\ c \in clients \intersect socketOpen /\ hello[c] = "monitor" /\ serverOn
    /\ socketOpen' = socketOpen \ {c}
    /\ UNCHANGED <<serverOn, listening, acceptPc, stopPc, clients, peerUp, clientPc,
                   made, connectionVars>>

ClientStep(c) == TestClient(c) \/ EndClient(c) \/ HandleFrame(c)

-----------------------------------------------------------------------------
(* stop().                                                                 *)

ServerStopBegins ==
    /\ stopPc = "idle" /\ serverOn
    /\ serverOn' = FALSE /\ stopPc' = "closeListen"
    /\ UNCHANGED <<listening, acceptPc, clients, socketOpen, peerUp, clientPc, made,
                   connectionVars>>

CloseListen ==
    /\ stopPc = "closeListen"
    /\ listening' = FALSE /\ stopPc' = "joinAccept"
    /\ UNCHANGED <<serverOn, acceptPc, clients, socketOpen, peerUp, clientPc, made,
                   connectionVars>>

\* Mutant: the clients' sockets are closed while the accept thread still runs.
AcceptMayGoOn == TRUE

AcceptGone == acceptPc \in {"none", "ended"}

JoinAccept ==
    /\ stopPc = "joinAccept" /\ AcceptGone
    /\ stopPc' = "closeClients"
    /\ UNCHANGED <<serverOn, listening, acceptPc, clients, socketOpen, peerUp, clientPc,
                   made, connectionVars>>

ToClose == clients

CloseClients ==
    /\ stopPc = "closeClients"
    /\ socketOpen' = socketOpen \ ToClose /\ stopPc' = "joinClients"
    /\ UNCHANGED <<serverOn, listening, acceptPc, clients, peerUp, clientPc, made,
                   connectionVars>>

JoinClients ==
    /\ stopPc = "joinClients" /\ \A c \in clients : clientPc[c] = "ended"
    /\ clients' = {} /\ acceptPc' = "none" /\ stopPc' = "idle"
    /\ UNCHANGED <<serverOn, listening, socketOpen, peerUp, clientPc, made, connectionVars>>

ServerStops == CloseListen \/ JoinAccept \/ CloseClients \/ JoinClients

AcceptStep == TakeConnection \/ Admit \/ EndAccept

ServerNext ==
    \/ ServerStart \/ AcceptStep \/ ServerStopBegins \/ ServerStops
    \/ \E c \in Connections :
          ReceiveFrames(c) \/ ClientStep(c) \/ PeerCloses(c) \/ DropMonitor(c)

ServerSpec == ServerInit /\ [][ServerNext]_serverVars

\* Threads are scheduled, and the calls of the runtime a frame leads to return.
ServerFairness ==
    /\ WF_serverVars(ServerStops) /\ WF_serverVars(Admit) /\ WF_serverVars(EndAccept)
    /\ \A c \in Connections : WF_serverVars(ClientStep(c))

-----------------------------------------------------------------------------
(* Properties.                                                             *)

\* Whatever a peer sends, also chunks out of order, twice, of another chain or
\* after a refusal: a file that reaches the runtime is a manager's, has the
\* size that was announced and every unit in its place.
FilesWhole ==
    \A file \in files : file.by = "manager" /\ file.bytes = WholeFile(file.chain, file.size)

\* "stop() can first close the sockets and then reclaim every thread" (543): once
\* it has returned no connection is open and no thread left.
StopLeavesNothing ==
    stopPc = "idle" /\ ~serverOn =>
        socketOpen = {} /\ \A c \in Connections : clientPc[c] \in {"none", "ended"}

\* stop() returns, whatever the clients and the accept thread are doing.
ServerStopReturns == stopPc # "idle" ~> stopPc = "idle"

\* A file is whole or absent, and a stopped server has let go of everything.
ServerSafe == ServerTypeOK /\ FilesWhole /\ StopLeavesNothing
=============================================================================
