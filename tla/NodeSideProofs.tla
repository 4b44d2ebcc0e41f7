---------------------------- MODULE NodeSideProofs ----------------------------
(***************************************************************************)
(* Theorems about the components of a node, the clients of the PC node     *)
(* among them, and about the manager's end of an upload to a node.         *)
(***************************************************************************)
EXTENDS MonitorBroadcast, ManagementServer, NodeRuntime, NodeAgent, FaultPolicy,
        ObservationStore, FileUpload, FrameStream, PcClients, ManagerLink, DataInduction,
        SequenceTheorems, FiniteSetTheorems

-----------------------------------------------------------------------------
(* What the operators of FileUpload preserve, for every chunk size and every *)
(* file size.                                                               *)

Uploads == [active : BOOLEAN, request : Nat, chain : Nat, size : Nat, next : Nat \ {0},
            bytes : Seq(Nat \X Nat)]

\* What an upload has collected is a prefix of its file, cut at a chunk's border
\* unless the file is complete.
Collected(u) ==
    /\ u.size \in 1 .. MaxFileSize
    /\ u.bytes = WholeFile(u.chain, Len(u.bytes))
    /\ \/ Len(u.bytes) = u.size
       \/ Len(u.bytes) < u.size /\ Len(u.bytes) = (u.next - 1) * ChunkSize

UploadOK(u) == u \in Uploads /\ (u.active => Collected(u))

LEMMA NoUploadOK == UploadOK(NoUpload)
  BY DEF UploadOK, Uploads, NoUpload

LEMMA BegunOK ==
    ASSUME NEW request \in Nat, NEW chain \in Nat, NEW size \in 1 .. MaxFileSize
    PROVE  UploadOK(Begun(request, chain, size))
<1> DEFINE u == Begun(request, chain, size)
<1>1. MaxFileSize \in Nat /\ ChunkSize \in Nat  BY UploadParameters
<1>2. /\ u.size = size /\ u.bytes = <<>> /\ u.next = 1 /\ u.chain = chain  BY DEF Begun
<1>3. u \in Uploads  BY <1>1 DEF Uploads, Begun
<1>4. <<>> = WholeFile(chain, 0)  BY DEF WholeFile
<1>5. (1 - 1) * ChunkSize = 0  BY <1>1
<1> HIDE DEF u
<1>6. Len(u.bytes) = 0  BY <1>2
<1>7. Collected(u)  BY <1>1, <1>2, <1>4, <1>5, <1>6 DEF Collected
<1> QED  BY <1>3, <1>7 DEF UploadOK, u

LEMMA JoinedParts ==
    ASSUME NEW S, NEW a \in Seq(S), NEW b \in Seq(S)
    PROVE  /\ a \o b \in Seq(S) /\ Len(a \o b) = Len(a) + Len(b)
           /\ \A k \in 1 .. Len(a) : (a \o b)[k] = a[k]
           /\ \A k \in 1 .. Len(b) : (a \o b)[Len(a) + k] = b[k]
  OBVIOUS

\* A chunk that is accepted is the next one, and the prefix grows by it.
LEMMA AppendedOK ==
    ASSUME NEW u, UploadOK(u), NEW chain, NEW index, NEW length \in 1 .. ChunkSize,
           AppendValid(u, chain, index, length)
    PROVE  UploadOK(Appended(u, chain, index, length))
<1> DEFINE v == Appended(u, chain, index, length)
           b == u.bytes
           d == ChunkUnits(chain, index, length)
           n == Len(b)
<1>1. ChunkSize \in Nat \ {0} /\ MaxFileSize \in Nat \ {0}  BY UploadParameters
<1>2. /\ u \in Uploads /\ u.active /\ Collected(u) /\ chain = u.chain /\ index = u.next
      /\ length = Lesser(ChunkSize, u.size - n)
  BY DEF UploadOK, AppendValid
<1>3. /\ u.active \in BOOLEAN /\ u.request \in Nat /\ u.chain \in Nat /\ u.size \in Nat
      /\ index \in Nat \ {0} /\ b \in Seq(Nat \X Nat) /\ n \in Nat
  BY <1>2 DEF Uploads
<1>4. n < u.size /\ n = (index - 1) * ChunkSize  BY <1>1, <1>2, <1>3 DEF Collected, Lesser
<1>5. /\ v.active = u.active /\ v.request = u.request /\ v.chain = chain /\ v.size = u.size
      /\ v.next = index + 1 /\ v.bytes = b \o d
  BY <1>2 DEF Appended, Uploads
<1>6. d = [k \in 1 .. length |-> <<chain, n + k>>]  BY <1>4 DEF ChunkUnits
<1>7. length \in Nat \ {0}  BY <1>1
<1>8. d \in Seq(Nat \X Nat) /\ Len(d) = length
 <2>1. \A k \in 1 .. length : <<chain, n + k>> \in Nat \X Nat  BY <1>2, <1>3, <1>7
 <2> HIDE DEF d
 <2>2. d \in [1 .. length -> Nat \X Nat]  BY <1>6, <2>1
 <2> QED  BY <1>7, <2>2
<1>9. v.bytes \in Seq(Nat \X Nat) /\ Len(v.bytes) = n + length
 <2>1. b \o d \in Seq(Nat \X Nat) /\ Len(b \o d) = n + length
  <3> HIDE DEF b, d
  <3>1. Len(b \o d) = Len(b) + Len(d)  BY <1>3, <1>8, JoinedParts
  <3> QED  BY <1>3, <1>8, <3>1, JoinedParts
 <2>2. v.bytes = b \o d  BY <1>5
 <2> QED  BY <2>1, <2>2
<1>10. b = [k \in 1 .. n |-> <<chain, k>>]  BY <1>2 DEF Collected, WholeFile
<1>11. v.bytes = WholeFile(chain, n + length)
 <2>1. \A k \in 1 .. n + length : v.bytes[k] = <<chain, k>>
  <3> SUFFICES ASSUME NEW k \in 1 .. n + length
               PROVE  v.bytes[k] = <<chain, k>>
    OBVIOUS
  <3>1. CASE k <= n
   <4>1. k \in 1 .. n  BY <1>3, <1>7, <3>1
   <4>2. v.bytes[k] = b[k]  BY <1>3, <1>5, <1>8, <4>1, JoinedParts
   <4> QED  BY <1>10, <4>1, <4>2
  <3>2. CASE k > n  BY <1>3, <1>5, <1>6, <1>7, <1>8, <3>2, JoinedParts
  <3> QED  BY <1>3, <1>7, <3>1, <3>2
 <2>2. v.bytes = [k \in 1 .. n + length |-> v.bytes[k]]
  <3> DEFINE w == v.bytes
             m == n + length
  <3>1. w \in Seq(Nat \X Nat) /\ Len(w) = m  BY <1>9
  <3> HIDE DEF w, m
  <3>2. w = [k \in 1 .. m |-> w[k]]  BY <3>1
  <3> QED  BY <3>2 DEF w, m
 <2> QED  BY <2>1, <2>2 DEF WholeFile
<1>12. (index + 1 - 1) * ChunkSize = (index - 1) * ChunkSize + ChunkSize  BY <1>1, <1>3
<1>13. \/ n + length = u.size
       \/ n + length < u.size /\ n + length = (index + 1 - 1) * ChunkSize
  BY <1>1, <1>2, <1>3, <1>4, <1>12 DEF Lesser
<1>14. v \in Uploads
 <2>0. b \o d \in Seq(Nat \X Nat)  BY <1>3, <1>8, JoinedParts
 <2>1. b \o d \in Seq(Nat \X Nat) /\ u.next + 1 \in Nat \ {0}  BY <1>2, <1>3, <2>0
 <2>2. v = [u EXCEPT !.bytes = b \o d, !.next = u.next + 1]  BY <1>2 DEF Appended
 <2> HIDE DEF b, d, v
 <2> QED  BY <1>2, <2>1, <2>2 DEF Uploads
<1>15. Collected(v)
 <2> HIDE DEF v, d, n
 <2>1. v.size \in 1 .. MaxFileSize  BY <1>2, <1>5 DEF Collected
 <2> QED  BY <1>2, <1>3, <1>5, <1>9, <1>11, <1>13, <2>1 DEF Collected
<1> QED  BY <1>14, <1>15 DEF UploadOK

LEMMA AppendedKeeps ==
    ASSUME NEW u \in Uploads, NEW chain, NEW index, NEW length
    PROVE  /\ Appended(u, chain, index, length).active = u.active
           /\ Appended(u, chain, index, length).request = u.request
  BY DEF Appended, Uploads

\* An upload that completes hands over the file its sender has.
LEMMA CompletedWhole ==
    ASSUME NEW u, UploadOK(u), NEW request, NEW chain, NEW chunks, NEW total,
           CompleteValid(u, request, chain, chunks, total)
    PROVE  u.active /\ u.chain = chain /\ u.bytes = WholeFile(chain, u.size)
  BY DEF UploadOK, CompleteValid, Collected

-----------------------------------------------------------------------------
(* ManagementServer.  The accept thread, the clients' threads and stop():  *)
(* which of them may still be about, and whose socket may still be open.   *)

ServerVarsOK ==
    /\ serverOn \in BOOLEAN /\ listening \in BOOLEAN
    /\ acceptPc \in {"none", "accept", "admit", "ended"}
    /\ stopPc \in {"idle", "closeListen", "joinAccept", "closeClients", "joinClients"}
    /\ peerUp \subseteq Connections
    /\ hello \in [Connections -> Roles \union {"none"}]
    /\ sent \in [Connections -> Nat]

\* Connections are numbered as they come; the one being admitted has neither an
\* object nor a thread; only those with an object, and that one, have a socket.
ConnectionsPlaced ==
    /\ made \in 0 .. MaxConnections /\ clients \subseteq 1 .. made
    /\ clientPc \in [Connections -> {"none", "test", "recv", "handle", "ended"}]
    /\ socketOpen \subseteq clients \union {c \in {made} : acceptPc = "admit"}
    /\ acceptPc = "admit" => made # 0 /\ made \notin clients /\ clientPc[made] = "none"
    /\ \A c \in Connections :
          /\ clientPc[c] \notin {"none", "ended"} => c \in clients
          /\ clientPc[c] = "ended" => c \notin socketOpen
          /\ c > made => clientPc[c] = "none"

\* What stop() has reached: the accept thread is gone before the sockets are
\* closed, and no socket is open once it waits for the clients' threads.
StopReached ==
    /\ stopPc # "idle" => ~serverOn
    /\ stopPc \in {"closeClients", "joinClients"} => AcceptGone
    /\ stopPc = "joinClients" => socketOpen = {}
    /\ stopPc = "idle" /\ ~serverOn => clients = {} /\ acceptPc = "none"

PlacesLimited == Cardinality(socketOpen \intersect clients) <= MaxClients

\* Only managers upload, and each upload is a prefix of its file.
UploadsOK ==
    /\ DOMAIN upload = Connections
    /\ \A c \in Connections :
          /\ UploadOK(upload[c])
          /\ upload[c].active => hello[c] = "manager" /\ upload[c].request = c

ThreadsInv == ServerVarsOK /\ ConnectionsPlaced /\ StopReached
ServerInv == ThreadsInv /\ PlacesLimited /\ UploadsOK /\ FilesWhole

\* A step of a client's thread, seen from the others.
ClientMoves(c) ==
    \E pc \in {"test", "recv", "handle", "ended"} :
        /\ clientPc[c] \in {"test", "recv", "handle"}
        /\ clientPc' = [clientPc EXCEPT ![c] = pc]
        /\ socketOpen' = IF pc = "ended" THEN socketOpen \ {c} ELSE socketOpen

ConnectionStep(c) == ReceiveFrames(c) \/ ClientStep(c)

LEMMA ContinueMoves ==
    ASSUME NEW c, Continue(c)
    PROVE  \E pc \in {"test", "handle"} :
              clientPc' = [clientPc EXCEPT ![c] = pc] /\ socketOpen' = socketOpen
<1>1. PICK pc \in {"test"} \union {p \in {"handle"} : sent'[c] < MaxFrames} :
          clientPc' = [clientPc EXCEPT ![c] = pc]
  BY DEF Continue
<1>2. pc \in {"test", "handle"}  OBVIOUS
<1> QED  BY <1>1, <1>2 DEF Continue

LEMMA UploadMoves ==
    ASSUME NEW c, NEW frame, UploadStep(c, frame)
    PROVE  Answer(c) \/ Continue(c)
  BY Zenon DEF UploadStep

LEMMA HandleMoves ==
    ASSUME NEW c, HandleFrame(c)
    PROVE  /\ Leave(c) \/ Continue(c)
           /\ clientPc[c] = "handle"
           /\ UNCHANGED <<serverOn, listening, acceptPc, stopPc, clients, peerUp, made>>
<1>1. PICK frame \in Frames :
          \/ /\ frame.kind = "bad" \/ (hello[c] = "none" /\ frame.kind # "hello")
             /\ Leave(c) /\ UNCHANGED <<hello, upload, files>>
          \/ /\ frame.kind = "hello" /\ hello[c] = "none"
             /\ hello' = [hello EXCEPT ![c] = frame.role]
             /\ Continue(c) /\ UNCHANGED <<upload, files>>
          \/ /\ hello[c] # "none" /\ frame.kind \in {"hello", "control"}
             /\ Answer(c) /\ UNCHANGED <<hello, upload, files>>
          \/ /\ hello[c] # "none" /\ UploadStep(c, frame) /\ UNCHANGED hello
  BY Zenon DEF HandleFrame
<1>2. Leave(c) \/ Continue(c) \/ Answer(c) \/ UploadStep(c, frame)  BY <1>1, Zenon
<1>3. Leave(c) \/ Continue(c)  BY <1>2, UploadMoves, Zenon DEF Answer
<1> QED  BY <1>3, Zenon DEF HandleFrame

LEMMA StepMoves ==
    ASSUME NEW c \in Connections, ConnectionStep(c)
    PROVE  /\ ClientMoves(c)
           /\ UNCHANGED <<serverOn, listening, acceptPc, stopPc, clients, peerUp, made>>
<1>1. CASE HandleFrame(c)
 <2>1. CASE Continue(c)
  <3>1. PICK pc \in {"test", "handle"} :
            clientPc' = [clientPc EXCEPT ![c] = pc] /\ socketOpen' = socketOpen
    BY <2>1, ContinueMoves
  <3>2. pc # "ended"  OBVIOUS
  <3> QED  BY <1>1, <3>1, <3>2, HandleMoves DEF ClientMoves
 <2>2. CASE Leave(c)  BY <1>1, <2>2, HandleMoves DEF ClientMoves, Leave
 <2> QED  BY <1>1, <2>1, <2>2, HandleMoves
<1>2. CASE ReceiveFrames(c)  BY <1>2 DEF ReceiveFrames, ClientMoves
<1>3. CASE TestClient(c)
 <2>1. CASE serverOn /\ c \in socketOpen  BY <1>3, <2>1 DEF TestClient, ClientMoves
 <2>2. CASE ~(serverOn /\ c \in socketOpen)  BY <1>3, <2>2 DEF TestClient, ClientMoves, Leave
 <2> QED  BY <2>1, <2>2
<1>4. CASE EndClient(c)  BY <1>4 DEF EndClient, ClientMoves, Leave
<1> QED  BY <1>1, <1>2, <1>3, <1>4 DEF ConnectionStep, ClientStep

LEMMA ServerInitOK == ServerInit => ServerInv
<1> SUFFICES ASSUME ServerInit
             PROVE  ServerInv
  OBVIOUS
<1>1. MaxConnections \in Nat /\ MaxClients \in Nat  BY ServerParameters
<1>2. ServerVarsOK  BY DEF ServerInit, ServerVarsOK
<1>3. ConnectionsPlaced  BY <1>1 DEF ServerInit, ConnectionsPlaced, Connections
<1>4. StopReached  BY DEF ServerInit, StopReached
<1>5. PlacesLimited  BY <1>1, FS_EmptySet DEF ServerInit, PlacesLimited
<1>6. UploadsOK  BY NoUploadOK DEF NoUpload, ServerInit, UploadsOK
<1>7. FilesWhole  BY DEF ServerInit, FilesWhole
<1> QED  BY <1>2, <1>3, <1>4, <1>5, <1>6, <1>7 DEF ServerInv, ThreadsInv

\* The thread that starts and stops the server, and the accept thread.
LEMMA CallerThreads ==
    ASSUME ThreadsInv, ServerStart \/ AcceptStep \/ ServerStopBegins \/ ServerStops
    PROVE  ThreadsInv' /\ UNCHANGED connectionVars
<1>0. MaxConnections \in Nat  BY ServerParameters
<1> USE DEF ThreadsInv
<1>1. CASE ServerStart
 <2>1. ServerVarsOK'  BY <1>1 DEF ServerStart, ServerVarsOK, connectionVars
 <2>2. ConnectionsPlaced'  BY <1>1 DEF ServerStart, ConnectionsPlaced, StopReached
 <2>3. StopReached'  BY <1>1 DEF ServerStart, StopReached, AcceptGone
 <2> QED  BY <1>1, <2>1, <2>2, <2>3 DEF ServerStart
<1>2. CASE TakeConnection
 <2>0. made + 1 \in Connections /\ made \in Nat
   BY <1>0, <1>2 DEF TakeConnection, ConnectionsPlaced, Connections
 <2>1. ServerVarsOK'  BY <1>2, <2>0 DEF TakeConnection, ServerVarsOK, connectionVars
 <2>a. /\ acceptPc = "accept" /\ made' = made + 1
       /\ clients' = clients /\ clientPc' = clientPc
       /\ acceptPc' \in {"admit", "ended"}
       /\ socketOpen' = IF acceptPc' = "admit" THEN socketOpen \union {made + 1}
                        ELSE socketOpen
   BY <1>2 DEF TakeConnection
 <2>b. /\ made \in 0 .. MaxConnections /\ made + 1 \in 1 .. MaxConnections
       /\ clients \subseteq 1 .. made /\ socketOpen \subseteq clients
       /\ made + 1 \notin clients /\ 1 .. made \subseteq 1 .. made + 1
       /\ clientPc[made + 1] = "none"
   BY <1>0, <2>0, <2>a DEF ConnectionsPlaced, Connections
 <2>c. \A c \in Connections : c > made + 1 => c > made  BY <2>0 DEF Connections
 <2>d. \A c \in Connections : clientPc[c] = "ended" => c # made + 1  BY <2>b
 <2>2. ConnectionsPlaced'  BY <2>0, <2>a, <2>b, <2>c, <2>d DEF ConnectionsPlaced, Connections
 <2>3. StopReached'  BY <1>2 DEF TakeConnection, StopReached, AcceptGone
 <2> QED  BY <1>2, <2>1, <2>2, <2>3 DEF TakeConnection
<1>3. CASE Admit
 <2>1. ServerVarsOK'  BY <1>3 DEF Admit, ServerVarsOK, connectionVars
 <2>2. ConnectionsPlaced'
  <3>0. /\ acceptPc = "admit" /\ acceptPc' = "accept" /\ made' = made
        /\ made \in Connections /\ made \in 1 .. made
    BY <1>0, <1>3 DEF Admit, ConnectionsPlaced, Connections
  <3>1. CASE socketOpen' = socketOpen \ {made} /\ UNCHANGED <<clients, clientPc>>
    BY <3>0, <3>1 DEF ConnectionsPlaced
  <3>2. CASE /\ clients' = clients \union {made} /\ UNCHANGED socketOpen
             /\ clientPc' = [clientPc EXCEPT ![made] = "test"]
    BY <3>0, <3>2 DEF ConnectionsPlaced, Connections
  <3> QED  BY <1>3, <3>1, <3>2 DEF Admit
 <2>3. StopReached'  BY <1>3 DEF Admit, StopReached, AcceptGone
 <2> QED  BY <1>3, <2>1, <2>2, <2>3 DEF Admit
<1>4. CASE EndAccept
  BY <1>4 DEF EndAccept, ServerVarsOK, connectionVars, ConnectionsPlaced, StopReached, AcceptGone
<1>5. CASE ServerStopBegins
  BY <1>5 DEF ServerStopBegins, ServerVarsOK, connectionVars, ConnectionsPlaced, StopReached,
     AcceptGone
<1>6. CASE CloseListen
  BY <1>6 DEF CloseListen, ServerVarsOK, connectionVars, ConnectionsPlaced, StopReached,
     AcceptGone
<1>7. CASE JoinAccept
  BY <1>7 DEF JoinAccept, ServerVarsOK, connectionVars, ConnectionsPlaced, StopReached,
     AcceptGone
<1>8. CASE CloseClients
  BY <1>8 DEF CloseClients, ServerVarsOK, connectionVars, ConnectionsPlaced, StopReached,
     AcceptGone, ToClose
<1>9. CASE JoinClients
  BY <1>9 DEF JoinClients, ServerVarsOK, connectionVars, ConnectionsPlaced, StopReached
<1> QED  BY <1>1, <1>2, <1>3, <1>4, <1>5, <1>6, <1>7, <1>8, <1>9 DEF AcceptStep, ServerStops

LEMMA HelloKept ==
    ASSUME NEW c \in Connections, hello \in [Connections -> Roles \union {"none"}],
           sent \in [Connections -> Nat], ConnectionStep(c)
    PROVE  /\ hello' \in [Connections -> Roles \union {"none"}]
           /\ sent' \in [Connections -> Nat]
           /\ hello' = hello \/ (hello[c] = "none" /\ \A d \in Connections \ {c} :
                                                          hello'[d] = hello[d])
<1>1. CASE HandleFrame(c)  BY <1>1 DEF HandleFrame, Frames, UploadFrames
<1>2. CASE ~HandleFrame(c)
  BY <1>2 DEF ConnectionStep, ClientStep, ReceiveFrames, TestClient, EndClient, connectionVars
<1> QED  BY <1>1, <1>2

\* The clients' threads, their peers and the broadcast thread.
LEMMA ClientThreads ==
    ASSUME ThreadsInv, NEW c \in Connections,
           ConnectionStep(c) \/ PeerCloses(c) \/ DropMonitor(c)
    PROVE  /\ ThreadsInv'
           /\ socketOpen' \subseteq socketOpen /\ clients' = clients
<1> USE DEF ThreadsInv
<1>1. CASE ConnectionStep(c)
 <2>1. PICK pc \in {"test", "recv", "handle", "ended"} :
           /\ clientPc[c] \in {"test", "recv", "handle"}
           /\ clientPc' = [clientPc EXCEPT ![c] = pc]
           /\ socketOpen' = IF pc = "ended" THEN socketOpen \ {c} ELSE socketOpen
   BY <1>1, StepMoves DEF ClientMoves
 <2>2. UNCHANGED <<serverOn, listening, acceptPc, stopPc, clients, peerUp, made>>
   BY <1>1, StepMoves
 <2>3. ServerVarsOK'  BY <1>1, <2>2, HelloKept DEF ServerVarsOK
 <2>4. ConnectionsPlaced'
  <3>1. /\ clientPc' \in [Connections -> {"none", "test", "recv", "handle", "ended"}]
        /\ socketOpen' \subseteq socketOpen /\ c \in clients /\ c <= made
    BY <2>1 DEF ConnectionsPlaced, Connections
  <3>2. \A d \in Connections \ {c} : clientPc'[d] = clientPc[d]  BY <2>1 DEF ConnectionsPlaced
  <3>3. clientPc'[c] = pc /\ (pc = "ended" => c \notin socketOpen') /\ pc # "none"
    BY <2>1 DEF ConnectionsPlaced
  <3>4. acceptPc = "admit" => made # c  BY <2>1 DEF ConnectionsPlaced
  <3> HIDE <2>1
  <3>5. \A d \in Connections :
            /\ clientPc'[d] \notin {"none", "ended"} => d \in clients
            /\ clientPc'[d] = "ended" => d \notin socketOpen'
            /\ d > made => clientPc'[d] = "none"
    BY <3>1, <3>2, <3>3 DEF ConnectionsPlaced, Connections
  <3>6. /\ socketOpen' \subseteq clients \union {d \in {made} : acceptPc = "admit"}
        /\ acceptPc = "admit" => made # 0 /\ made \notin clients /\ clientPc'[made] = "none"
    BY <3>1, <3>2, <3>4 DEF ConnectionsPlaced, Connections
  <3> QED  BY <2>2, <3>1, <3>5, <3>6 DEF ConnectionsPlaced
 <2>5. StopReached'  BY <2>1, <2>2 DEF StopReached, AcceptGone
 <2> QED  BY <2>1, <2>2, <2>3, <2>4, <2>5
<1>2. CASE PeerCloses(c)
  BY <1>2 DEF PeerCloses, ServerVarsOK, connectionVars, ConnectionsPlaced, StopReached,
     AcceptGone
<1>3. CASE DropMonitor(c)
  BY <1>3 DEF DropMonitor, ServerVarsOK, connectionVars, ConnectionsPlaced, StopReached,
     AcceptGone
<1> QED  BY <1>1, <1>2, <1>3

LEMMA PlacesStep ==
    ASSUME ServerInv, ServerNext
    PROVE  PlacesLimited'
<1>0. MaxConnections \in Nat /\ MaxClients \in Nat \ {0}  BY ServerParameters
<1> DEFINE open == socketOpen \intersect clients
<1>1. IsFiniteSet(open) /\ Cardinality(open) \in Nat /\ Cardinality(open) <= MaxClients
 <2>1. IsFiniteSet(1 .. made)  BY FS_Interval DEF ServerInv, ThreadsInv, ConnectionsPlaced
 <2>2. open \subseteq 1 .. made  BY DEF ServerInv, ThreadsInv, ConnectionsPlaced
 <2> QED  BY <2>1, <2>2, FS_Subset, FS_CardinalityType DEF ServerInv, PlacesLimited
<1> HIDE DEF open
<1>2. ASSUME open' \subseteq open
      PROVE  PlacesLimited'
  BY <1>0, <1>1, <1>2, FS_Subset, FS_CardinalityType DEF PlacesLimited, open
<1>3. CASE Admit
 <2>1. CASE RoomForClient /\ clients' = clients \union {made} /\ UNCHANGED socketOpen
  <3>1. Cardinality(open) < MaxClients  BY <2>1 DEF open, RoomForClient
  <3>2. open' \subseteq open \union {made} /\ IsFiniteSet(open \union {made})
    BY <1>1, <2>1, FS_AddElement DEF open
  <3>3. /\ Cardinality(open \union {made}) <= Cardinality(open) + 1
        /\ Cardinality(open \union {made}) \in Nat
    BY <1>1, FS_AddElement
  <3>4. Cardinality(open') <= Cardinality(open \union {made}) /\ Cardinality(open') \in Nat
    BY <3>2, FS_Subset, FS_CardinalityType
  <3>5. Cardinality(open') <= MaxClients  BY <1>0, <1>1, <3>1, <3>3, <3>4
  <3> QED  BY <3>5 DEF PlacesLimited, open
 <2>2. CASE socketOpen' = socketOpen \ {made} /\ UNCHANGED clients  BY <1>2, <2>2 DEF open
 <2> QED  BY <1>3, <2>1, <2>2 DEF Admit
<1>4. CASE TakeConnection
  BY <1>0, <1>2, <1>4 DEF TakeConnection, ServerInv, ThreadsInv, ConnectionsPlaced, open
<1>5. CASE ServerStart \/ EndAccept \/ ServerStopBegins \/ ServerStops
 <2>1. socketOpen' \subseteq socketOpen /\ clients' \subseteq clients
   BY <1>5 DEF ServerStart, EndAccept, ServerStopBegins, ServerStops, CloseListen,
               JoinAccept, CloseClients, JoinClients
 <2> QED  BY <1>2, <2>1 DEF open
<1>6. CASE \E c \in Connections : ConnectionStep(c) \/ PeerCloses(c) \/ DropMonitor(c)
  BY <1>2, <1>6, ClientThreads DEF ServerInv, open
<1> QED  BY <1>3, <1>4, <1>5, <1>6 DEF ServerNext, AcceptStep, ConnectionStep

LEMMA ResetOK ==
    ASSUME UploadsOK, NEW c \in Connections, upload' = Reset(c),
           hello' = hello
    PROVE  UploadsOK'
  BY NoUploadOK DEF NoUpload, Reset, UploadsOK

\* Frame by frame, whatever its fields are.
LEMMA UploadKept ==
    ASSUME UploadsOK, FilesWhole, NEW c \in Connections, NEW frame \in Frames,
           UploadStep(c, frame), hello' = hello
    PROVE  UploadsOK' /\ FilesWhole'
<1>0. MaxFileSize \in Nat /\ ChunkSize \in Nat /\ Chains \subseteq Nat /\ MaxConnections \in Nat
  BY UploadParameters, ServerParameters
<1>a. c \in Nat  BY <1>0 DEF Connections
<1>1. CASE UNCHANGED <<upload, files>>  BY <1>1 DEF UploadsOK, FilesWhole
<1>2. CASE upload' = Reset(c) /\ files' = files  BY <1>2, ResetOK DEF FilesWhole
<1>3. CASE /\ frame.kind = "begin" /\ hello[c] = "manager"
           /\ BeginValid(upload[c], frame.chain, frame.size)
           /\ upload' = [upload EXCEPT ![c] = Begun(c, frame.chain, frame.size)]
           /\ files' = files
  BY <1>0, <1>3, <1>a, BegunOK DEF Frames, UploadFrames, BeginValid, Begun, UploadsOK, FilesWhole
<1>4. CASE /\ frame.kind = "chunk" /\ hello[c] = "manager"
           /\ AppendValid(upload[c], frame.chain, frame.index, frame.length)
           /\ upload' = [upload EXCEPT ![c] =
                             Appended(@, frame.chain, frame.index, frame.length)]
           /\ files' = files
 <2>1. frame.length \in 1 .. ChunkSize  BY <1>4 DEF Frames, UploadFrames
 <2> DEFINE u == Appended(upload[c], frame.chain, frame.index, frame.length)
 <2>2. UploadOK(upload[c]) /\ upload[c] \in Uploads  BY DEF UploadsOK, UploadOK
 <2>3. UploadOK(u) /\ u.active = upload[c].active /\ u.request = upload[c].request
   BY <1>4, <2>1, <2>2, AppendedOK, AppendedKeeps
 <2>4. /\ DOMAIN upload' = Connections /\ upload'[c] = u
       /\ \A d \in Connections \ {c} : upload'[d] = upload[d]
   BY <1>4 DEF UploadsOK
 <2> HIDE DEF u
 <2> QED  BY <1>4, <2>3, <2>4 DEF UploadsOK, FilesWhole
<1>5. CASE frame.kind = "end"
 <2>1. upload' = Reset(c)  BY <1>5 DEF UploadStep
 <2>2. UploadsOK'  BY <2>1, ResetOK
 <2>3. CASE files' = files  BY <2>2, <2>3 DEF FilesWhole
 <2>4. CASE /\ CompleteValid(upload[c], c, frame.chain, frame.chunks, frame.total)
            /\ files' = files \union {[by |-> hello[c], chain |-> frame.chain,
                                       size |-> upload[c].size, bytes |-> upload[c].bytes]}
   BY <2>2, <2>4, CompletedWhole DEF UploadsOK, FilesWhole
 <2> QED  BY <1>5, <2>3, <2>4 DEF UploadStep
<1>6. CASE /\ upload' = IF hello[c] = "monitor" THEN upload ELSE Reset(c)
           /\ files' = files
  BY <1>1, <1>2, <1>6
<1>7. CASE frame.kind = "begin"  BY <1>3, <1>6, <1>7 DEF UploadStep
<1>8. CASE frame.kind = "chunk"  BY <1>4, <1>6, <1>8 DEF UploadStep
<1> QED  BY <1>5, <1>7, <1>8 DEF UploadStep

LEMMA UploadsStep ==
    ASSUME ServerInv, ServerNext
    PROVE  UploadsOK' /\ FilesWhole'
<1>1. CASE ServerStart \/ AcceptStep \/ ServerStopBegins \/ ServerStops
  BY <1>1, CallerThreads DEF ServerInv, connectionVars, UploadsOK, FilesWhole
<1>2. ASSUME NEW c \in Connections,
             ReceiveFrames(c) \/ TestClient(c) \/ EndClient(c) \/ PeerCloses(c) \/ DropMonitor(c)
      PROVE  UploadsOK' /\ FilesWhole'
  BY <1>2 DEF ReceiveFrames, TestClient, EndClient, PeerCloses, DropMonitor, connectionVars,
     ServerInv, UploadsOK, FilesWhole
<1>3. ASSUME NEW c \in Connections, HandleFrame(c)
      PROVE  UploadsOK' /\ FilesWhole'
 <2>1. PICK frame \in Frames :
           \/ UNCHANGED <<hello, upload, files>>
           \/ /\ hello[c] = "none" /\ hello' = [hello EXCEPT ![c] = frame.role]
              /\ UNCHANGED <<upload, files>>
           \/ UploadStep(c, frame) /\ UNCHANGED hello
   BY <1>3, Zenon DEF HandleFrame
 <2>2. CASE UNCHANGED <<hello, upload, files>>  BY <2>2 DEF ServerInv, UploadsOK, FilesWhole
 <2>3. CASE /\ hello[c] = "none" /\ hello' = [hello EXCEPT ![c] = frame.role]
            /\ UNCHANGED <<upload, files>>
   BY <2>3 DEF ServerInv, ThreadsInv, ServerVarsOK, UploadsOK, FilesWhole
 <2>4. CASE UploadStep(c, frame) /\ UNCHANGED hello  BY <2>4, UploadKept DEF ServerInv
 <2> QED  BY <2>1, <2>2, <2>3, <2>4
<1> QED  BY <1>1, <1>2, <1>3 DEF ServerNext, ClientStep

LEMMA ServerInvStep == ServerInv /\ [ServerNext]_serverVars => ServerInv'
<1>1. ASSUME ServerInv, ServerNext
      PROVE  ServerInv'
  BY <1>1, CallerThreads, ClientThreads, PlacesStep, UploadsStep DEF ServerNext, ServerInv,
     ConnectionStep
<1>2. ASSUME ServerInv, UNCHANGED serverVars
      PROVE  ServerInv'
 <2> USE <1>2 DEF serverVars
 <2>1. ServerVarsOK'  BY DEF ServerInv, ThreadsInv, ServerVarsOK
 <2>2. ConnectionsPlaced'  BY DEF ServerInv, ThreadsInv, ConnectionsPlaced
 <2>3. StopReached'  BY DEF ServerInv, ThreadsInv, StopReached, AcceptGone
 <2>4. PlacesLimited'  BY DEF ServerInv, PlacesLimited
 <2>5. UploadsOK' /\ FilesWhole'  BY DEF ServerInv, UploadsOK, FilesWhole
 <2> QED  BY <2>1, <2>2, <2>3, <2>4, <2>5 DEF ServerInv, ThreadsInv
<1> QED  BY <1>1, <1>2

LEMMA ServerInvSafe == ServerInv => ServerSafe
<1> SUFFICES ASSUME ServerInv
             PROVE  ServerSafe
  OBVIOUS
<1>0. MaxConnections \in Nat  BY ServerParameters
<1>1. ServerTypeOK
  BY <1>0 DEF ServerInv, ThreadsInv, ServerVarsOK, ConnectionsPlaced, PlacesLimited,
         ServerTypeOK, Connections
<1>2. StopLeavesNothing
  BY DEF ServerInv, ThreadsInv, StopReached, ConnectionsPlaced, StopLeavesNothing
<1> QED  BY <1>1, <1>2 DEF ServerInv, ServerSafe

\* TcpManagementServer, for any number of connections, frames and clients and any
\* file: what reaches the runtime is a manager's whole file, and a stop that has
\* returned left neither a socket nor a thread.
THEOREM ServerSafeHolds == ServerSpec => []ServerSafe
<1>1. ServerSpec => []ServerInv  BY ServerInitOK, ServerInvStep, PTL DEF ServerSpec
<1> QED  BY <1>1, ServerInvSafe, PTL

-----------------------------------------------------------------------------
(* NodeRuntime.  One message is handled at a time; the sender's worker runs  *)
(* beside it.                                                               *)

\* Which handler holds m_mtxConfig, and what a handler that waits is about.
HandlerPlaced ==
    /\ configLock = "handler" <=>
          handler = "held" \/ (handler = "join" /\ call.op \in {"sender", "payload"})
    /\ handler = "lock" \/ handler = "held" =>
          call.op \in {"sender", "receiver", "payload", "fault"}
    /\ handler = "join" => call.op \in {"sender", "payload", "start", "stop"}
    /\ handler = "emit" \/ handler = "after" =>
          WorkerGone /\ (call.op = "stop" \/ (call.op = "start" /\ ~call.valid))

\* The sender runs as long as its worker has not finished.
WorkerFits == senderRuns <=> worker \in {"run", "emit", "finish"}

\* Context, payload and archive context belong to one chain.
ChainsFit ==
    /\ contextChain # NoChain => archiveFault[contextChain] # "absent"
    /\ preparedChain # NoChain => preparedChain = contextChain

NodeInv == NodeTypeOK /\ HandlerPlaced /\ WorkerFits /\ ChainsFit /\ RefusedStartStops

\* A plan that a stop has cleared may still be archived, and then the next round is
\* sent without one.
Outdated(archived, sentWith) == planCleared /\ archived = "FAULT" /\ sentWith = "NONE"

\* The archive context of the sender's chain says what the round is sent with.
RoundTold ==
    /\ contextChain # NoChain
    /\ \/ archiveFault[contextChain] = roundFault
       \/ Outdated(archiveFault[contextChain], roundFault)

Starting == handler = "join" /\ call.op = "start" /\ call.valid

\* A plan that is set is archived, and one that is archived is set or was cleared;
\* what is told stays true until the result of the round is archived.
FaultsFit ==
    /\ faultPlan = "FAULT" =>
          contextChain # NoChain /\ archiveFault[contextChain] = "FAULT"
    /\ Starting => preparedChain # NoChain
    /\ contextChain # NoChain /\ archiveFault[contextChain] = "FAULT" /\ faultPlan = "NONE"
          => planCleared
    /\ senderRuns => RoundTold
    /\ handler = "join" /\ call.op \in {"start", "stop"} /\ wasRunning => RoundTold
    /\ handler = "emit" => RoundTold

ArchiveInv == NodeInv /\ FaultsFit /\ ArchiveTellsFault

LEMMA NodeInitOK == NodeInit => ArchiveInv
<1> SUFFICES ASSUME NodeInit
             PROVE  ArchiveInv
  OBVIOUS
<1>0. MaxCalls \in Nat  BY NodeParameters
<1>1. NodeTypeOK
 <2>1. /\ [c \in NodeChains |-> "absent"] \in [NodeChains -> Faults \union {"absent"}]
       /\ [op |-> "none", accepted |-> TRUE] \in NodeAnswer
   BY DEF NodeAnswer
 <2>2. call \in Call /\ calls \in 0 .. MaxCalls  BY <1>0 DEF NodeInit
 <2> QED  BY <2>1, <2>2 DEF NodeInit, NodeTypeOK, Faults
<1>2. HandlerPlaced /\ WorkerFits  BY DEF NodeInit, HandlerPlaced, WorkerFits
<1>3. ChainsFit /\ FaultsFit  BY DEF NodeInit, ChainsFit, FaultsFit, Starting
<1>4. RefusedStartStops /\ ArchiveTellsFault  BY DEF NodeInit, RefusedStartStops, ArchiveTellsFault
<1> QED  BY <1>1, <1>2, <1>3, <1>4 DEF ArchiveInv, NodeInv

LEMMA AnsweredShape ==
    ASSUME NEW op \in Operations, NEW accepted \in BOOLEAN, Answered(op, accepted)
    PROVE  /\ handler' = "idle" /\ configLock' = "free" /\ lastAnswer' \in NodeAnswer
           /\ lastAnswer'.op = op /\ lastAnswer'.accepted = accepted
  BY DEF Answered, LockAfter, NodeAnswer

LEMMA NodeVariables ==
    ASSUME NodeTypeOK
    PROVE  /\ call \in Call /\ call.op \in Operations /\ call.chain \in NodeChains
           /\ call.valid \in BOOLEAN
           /\ 0 \notin NodeChains /\ MaxCalls \in Nat
  BY NodeParameters DEF NodeTypeOK, Call

\* The types, for the messages and for the sender apart.
MessageTypeOK ==
    /\ handler \in {"idle", "lock", "held", "join", "emit", "after"}
    /\ call \in Call /\ calls \in 0 .. MaxCalls
    /\ configLock \in {"free", "handler"}
    /\ lastAnswer \in NodeAnswer

ContextTypeOK ==
    /\ contextChain \in NodeChains \union {NoChain}
    /\ archiveFault \in [NodeChains -> Faults \union {"absent"}]
    /\ preparedChain \in NodeChains \union {NoChain}
    /\ faultPlan \in Faults /\ roundFault \in Faults
    /\ worker \in {"none", "run", "emit", "finish", "done"}

FlagTypeOK ==
    /\ senderRuns \in BOOLEAN /\ senderStop \in BOOLEAN /\ wasRunning \in BOOLEAN
    /\ receiverReady \in BOOLEAN /\ receiverRuns \in BOOLEAN /\ planCleared \in BOOLEAN

LEMMA TypesJoin ==
    NodeTypeOK <=> /\ MessageTypeOK /\ ContextTypeOK /\ FlagTypeOK
                   /\ senderRuns => worker \notin {"none", "done"}
  BY DEF NodeTypeOK, MessageTypeOK, ContextTypeOK, FlagTypeOK

LEMMA MessageTypes ==
    ASSUME NodeTypeOK, NodeNext
    PROVE  MessageTypeOK'
<1>0. MaxCalls \in Nat /\ calls \in 0 .. MaxCalls /\ call \in Call  BY NodeParameters DEF NodeTypeOK
<1>1. CASE Receive
 <2>1. call' \in Call /\ calls' \in 0 .. MaxCalls  BY <1>0, <1>1 DEF Receive
 <2>2. call'.op \in Operations  BY <2>1 DEF Call
 <2>3. CASE \E a \in BOOLEAN : Answered(call'.op, a)
   BY <2>1, <2>2, <2>3, AnsweredShape DEF MessageTypeOK
 <2>4. CASE handler' \in {"lock", "join"} /\ UNCHANGED <<configLock, lastAnswer>>
   BY <2>1, <2>4 DEF MessageTypeOK, NodeTypeOK
 <2> QED  BY <1>1, <2>3, <2>4 DEF Receive
<1>2. CASE RefuseStart
 <2>1. call' \in Call /\ calls' \in 0 .. MaxCalls  BY <1>0, <1>2 DEF RefuseStart
 <2>2. call'.op \in Operations  BY <2>1 DEF Call
 <2>3. CASE \E a \in BOOLEAN : Answered(call'.op, a)
   BY <2>1, <2>2, <2>3, AnsweredShape DEF MessageTypeOK
 <2>4. CASE handler' = "join" /\ UNCHANGED <<configLock, lastAnswer>>
   BY <2>1, <2>4 DEF MessageTypeOK, NodeTypeOK
 <2> QED  BY <1>2, <2>3, <2>4 DEF RefuseStart
<1>3. CASE Handler
 <2>1. UNCHANGED <<call, calls>>
   BY <1>3 DEF Handler, TakeLock, UnderLock, ConfigureSender, ConfigurePayload,
               StartSender, StopSender, EmitStopped, AfterStop
 <2>2. call.op \in Operations  BY <1>0 DEF Call
 <2>3. CASE \E a \in BOOLEAN : Answered(call.op, a)
   BY <1>0, <2>1, <2>2, <2>3, AnsweredShape DEF MessageTypeOK
 <2>4. CASE /\ handler' \in {"held", "join", "emit", "after"} /\ lastAnswer' = lastAnswer
            /\ configLock' \in {configLock, "handler"}
   BY <1>0, <2>1, <2>4 DEF MessageTypeOK, NodeTypeOK
 <2>5. PayloadFits \in BOOLEAN /\ FaultFits \in BOOLEAN /\ (call.op = "stop") \in BOOLEAN
   BY Zenon, <1>0 DEF PayloadFits, FaultFits, Call, NodeTypeOK
 <2>6. CASE UnderLock
   BY <2>3, <2>4, <2>5, <2>6 DEF UnderLock, StopBeforeConfiguring, RefusePayload, ApplyFault,
                      ApplyReceiverConfig
 <2>7. CASE ConfigureSender \/ ConfigurePayload
   BY <2>3, <2>5, <2>7 DEF ConfigureSender, ConfigurePayload
 <2>8. CASE StartSender \/ AfterStop  BY <2>3, <2>5, <2>8 DEF StartSender, AfterStop
 <2>9. CASE TakeLock \/ StopSender \/ EmitStopped
   BY <2>4, <2>9 DEF TakeLock, StopSender, EmitStopped
 <2> QED  BY <1>3, <2>6, <2>7, <2>8, <2>9 DEF Handler
<1>4. CASE NodeWorker \/ ReceiverRoundEnds
  BY <1>4 DEF NodeWorker, WorkerEnds, WorkerEmits, WorkerFinishes, ReceiverRoundEnds,
     MessageTypeOK, NodeTypeOK
<1> QED  BY <1>1, <1>2, <1>3, <1>4 DEF NodeNext

LEMMA ContextTypes ==
    ASSUME NodeTypeOK, NodeNext
    PROVE  ContextTypeOK'
<1>0. call.chain \in NodeChains  BY DEF NodeTypeOK, Call
<1> USE DEF NodeTypeOK, ContextTypeOK
<1>1. CASE Receive \/ RefuseStart  BY <1>1 DEF Receive, RefuseStart, contextVars
<1>2. CASE UnderLock
 <2>1. UNCHANGED <<preparedChain, worker, roundFault, contextChain>>  BY <1>2 DEF UnderLock
 <2>2. faultPlan' \in Faults /\ archiveFault' \in [NodeChains -> Faults \union {"absent"}]
  <3>1. CASE ApplyFault  BY <1>0, <3>1 DEF ApplyFault, Noted, Faults
  <3>2. CASE ApplyReceiverConfig  BY <3>2 DEF ApplyReceiverConfig
  <3>3. CASE StopBeforeConfiguring \/ RefusePayload
    BY <3>3 DEF StopBeforeConfiguring, RefusePayload
  <3> QED  BY <1>2, <3>1, <3>2, <3>3 DEF UnderLock
 <2> QED  BY <2>1, <2>2
<1>3. CASE ConfigureSender  BY <1>0, <1>3 DEF ConfigureSender, AfterReset, Faults
<1>4. CASE ConfigurePayload  BY <1>0, <1>4 DEF ConfigurePayload, contextVars
<1>5. CASE StartSender  BY <1>5 DEF StartSender, contextVars
<1>6. CASE StopSender  BY <1>6 DEF StopSender, contextVars
<1>7. CASE EmitStopped \/ TakeLock  BY <1>7 DEF EmitStopped, TakeLock, contextVars, senderVars
<1>8. CASE AfterStop  BY <1>8 DEF AfterStop, contextVars, Faults
<1>9. CASE NodeWorker  BY <1>9 DEF NodeWorker, WorkerEnds, WorkerEmits, WorkerFinishes, contextVars
<1>10. CASE ReceiverRoundEnds  BY <1>10 DEF ReceiverRoundEnds, contextVars, senderVars
<1> QED  BY <1>1, <1>2, <1>3, <1>4, <1>5, <1>6, <1>7, <1>8, <1>9, <1>10 DEF NodeNext, Handler

LEMMA FlagTypes ==
    ASSUME NodeTypeOK, NodeNext
    PROVE  FlagTypeOK'
<1>1. senderRuns' \in {senderRuns, TRUE, FALSE}
  BY DEF NodeNext, Handler, NodeWorker, Receive, RefuseStart, TakeLock, UnderLock,
         ConfigureSender, ConfigurePayload, StartSender, StopSender, EmitStopped, AfterStop,
         WorkerEnds, WorkerEmits, WorkerFinishes, ReceiverRoundEnds, senderVars, RunsAfterFinish
<1>2. /\ senderStop' \in {senderStop, TRUE, FALSE}
      /\ wasRunning' \in {wasRunning, senderRuns}
 <2> USE DEF stopVars, senderVars, StopFlag
 <2>1. CASE Receive \/ RefuseStart  BY <2>1 DEF Receive, RefuseStart
 <2>2. CASE UnderLock
   BY <2>2 DEF UnderLock, StopBeforeConfiguring, RefusePayload, ApplyFault,
               ApplyReceiverConfig
 <2>3. CASE StartSender  BY <2>3 DEF StartSender
 <2> QED
   BY <2>1, <2>2, <2>3 DEF NodeNext, Handler, NodeWorker, TakeLock, ConfigureSender,
      ConfigurePayload, StopSender, EmitStopped, AfterStop, WorkerEnds, WorkerEmits,
      WorkerFinishes, ReceiverRoundEnds
<1>3. /\ receiverReady' \in {receiverReady, TRUE}
      /\ receiverRuns' \in {receiverRuns, receiverReady, FALSE}
 <2> USE DEF receiverSide, ReceiverStopped
 <2>1. CASE Receive \/ RefuseStart  BY <2>1 DEF Receive, RefuseStart
 <2>2. CASE StartSender \/ AfterStop  BY <2>2 DEF StartSender, AfterStop
 <2> QED
   BY <2>1, <2>2 DEF NodeNext, Handler, NodeWorker, TakeLock, ConfigureSender, UnderLock,
      ConfigurePayload, StopSender, EmitStopped, WorkerEnds, WorkerEmits,
      WorkerFinishes, ReceiverRoundEnds
<1>4. /\ senderRuns \in BOOLEAN /\ senderStop \in BOOLEAN /\ wasRunning \in BOOLEAN
      /\ receiverReady \in BOOLEAN /\ receiverRuns \in BOOLEAN
  BY DEF NodeTypeOK
<1> HIDE DEF NodeTypeOK
<1>5. senderRuns' \in BOOLEAN /\ senderStop' \in BOOLEAN /\ wasRunning' \in BOOLEAN
  BY <1>1, <1>2, <1>4
<1>6. receiverReady' \in BOOLEAN /\ receiverRuns' \in BOOLEAN  BY <1>3, <1>4
<1>7. planCleared' \in {planCleared, TRUE, FALSE, planCleared \/ faultPlan = "FAULT"}
 <2> USE DEF contextVars
 <2>1. CASE UnderLock
   BY <2>1 DEF UnderLock, StopBeforeConfiguring, RefusePayload, ApplyFault, ApplyReceiverConfig
 <2>2. CASE AfterStop  BY <2>2 DEF AfterStop
 <2> QED
   BY <2>1, <2>2 DEF NodeNext, Handler, NodeWorker, Receive, RefuseStart, TakeLock,
      ConfigureSender, ConfigurePayload, StartSender, StopSender, EmitStopped, WorkerEnds,
      WorkerEmits, WorkerFinishes, ReceiverRoundEnds
<1>8. planCleared \in BOOLEAN  BY DEF NodeTypeOK
<1>9. planCleared' \in BOOLEAN  BY <1>7, <1>8
<1> QED  BY <1>5, <1>6, <1>9 DEF FlagTypeOK


LEMMA NodeStep ==
    ASSUME NodeInv, NodeNext
    PROVE  NodeInv'
<1>0. NodeTypeOK /\ call \in Call /\ NoChain \notin NodeChains /\ call.chain \in NodeChains
  BY NodeParameters DEF NodeInv, NodeTypeOK, Call, NoChain
<1>t. /\ contextChain \in NodeChains \union {NoChain}
      /\ preparedChain \in NodeChains \union {NoChain}
      /\ archiveFault \in [NodeChains -> Faults \union {"absent"}]
      /\ senderRuns => worker \notin {"none", "done"}
  BY <1>0 DEF NodeTypeOK
<1>1. MessageTypeOK' /\ ContextTypeOK' /\ FlagTypeOK'
  BY <1>0, MessageTypes, ContextTypes, FlagTypes
<1>2. WorkerFits'
 <2> USE DEF senderVars
 <2>1. CASE StartSender \/ ConfigureSender \/ ConfigurePayload \/ StopSender
  <3>1. CASE StartSender  BY <3>1 DEF StartSender, WorkerFits
  <3>2. CASE ConfigureSender \/ ConfigurePayload
    BY <3>2 DEF ConfigureSender, ConfigurePayload, WorkerFits
  <3>3. CASE StopSender  BY <3>3 DEF StopSender, WorkerFits, NodeInv, Joined, WorkerGone
  <3> QED  BY <2>1, <3>1, <3>2, <3>3
 <2>2. CASE AfterStop  BY <2>2 DEF AfterStop, WorkerFits, NodeInv, HandlerPlaced, WorkerGone
 <2>3. CASE NodeWorker
   BY <2>3 DEF NodeWorker, WorkerEnds, WorkerEmits, WorkerFinishes, RunsAfterFinish,
               WorkerFits, NodeInv
 <2>4. CASE \/ Receive \/ RefuseStart \/ TakeLock \/ UnderLock \/ EmitStopped
            \/ ReceiverRoundEnds
  <3>1. UNCHANGED <<senderRuns, worker>>
    BY <2>4 DEF Receive, RefuseStart, TakeLock, UnderLock, EmitStopped, ReceiverRoundEnds
  <3> QED  BY <3>1 DEF WorkerFits, NodeInv
 <2> QED  BY <2>1, <2>2, <2>3, <2>4 DEF NodeNext, Handler
<1>3. ChainsFit'
 <2>1. CASE Receive \/ RefuseStart
   BY <2>1 DEF Receive, RefuseStart, ChainsFit, contextVars, NodeInv
 <2>2. CASE UnderLock
  <3>1. UNCHANGED <<preparedChain, contextChain>>  BY <2>2 DEF UnderLock
  <3>2. contextChain # NoChain => archiveFault'[contextChain] # "absent"
   <4>1. CASE ApplyFault  BY <1>t, <4>1 DEF ApplyFault, Noted, ChainsFit, NodeInv
   <4>2. CASE ApplyReceiverConfig  BY <1>t, <4>2 DEF ApplyReceiverConfig, ChainsFit, NodeInv
   <4>3. CASE StopBeforeConfiguring \/ RefusePayload
     BY <4>3 DEF StopBeforeConfiguring, RefusePayload, ChainsFit, NodeInv
   <4> QED  BY <2>2, <4>1, <4>2, <4>3 DEF UnderLock
  <3> QED  BY <3>1, <3>2 DEF ChainsFit, NodeInv
 <2>3. CASE ConfigureSender  BY <1>0, <2>3 DEF ConfigureSender, ChainsFit, AfterReset
 <2>4. CASE ConfigurePayload
   BY <2>4 DEF ConfigurePayload, ChainsFit, PayloadFits, contextVars, NodeInv
 <2>5. CASE StartSender \/ StopSender \/ AfterStop
   BY <2>5 DEF StartSender, StopSender, AfterStop, contextVars, ChainsFit, NodeInv
 <2>6. CASE TakeLock \/ EmitStopped \/ ReceiverRoundEnds
   BY <2>6 DEF TakeLock, EmitStopped, ReceiverRoundEnds, contextVars, senderVars,
               ChainsFit, NodeInv
 <2>7. CASE NodeWorker
   BY <2>7 DEF NodeWorker, WorkerEnds, WorkerEmits, WorkerFinishes, contextVars,
               ChainsFit, NodeInv
 <2> QED  BY <2>1, <2>2, <2>3, <2>4, <2>5, <2>6, <2>7 DEF NodeNext, Handler
<1>4. HandlerPlaced'
 <2> USE DEF Answered, LockAfter
 <2>1. CASE Receive  BY <2>1 DEF Receive, HandlerPlaced, NodeInv
 <2>2. CASE RefuseStart  BY <2>2 DEF RefuseStart, HandlerPlaced, NodeInv
 <2>3. CASE TakeLock  BY <2>3 DEF TakeLock, HandlerPlaced, NodeInv
 <2>4. CASE UnderLock
   BY <2>4 DEF UnderLock, StopBeforeConfiguring, RefusePayload, ApplyFault,
               ApplyReceiverConfig, HandlerPlaced, NodeInv
 <2>5. CASE ConfigureSender \/ ConfigurePayload \/ StartSender \/ AfterStop
   BY <2>5 DEF ConfigureSender, ConfigurePayload, StartSender, AfterStop, HandlerPlaced,
               NodeInv
 <2>6. CASE StopSender  BY <2>6 DEF StopSender, HandlerPlaced, NodeInv, Joined, WorkerGone
 <2>7. CASE EmitStopped  BY <2>7 DEF EmitStopped, HandlerPlaced, NodeInv, senderVars, WorkerGone
 <2>8. CASE NodeWorker
   BY <2>8 DEF NodeWorker, WorkerEnds, WorkerEmits, WorkerFinishes, HandlerPlaced, NodeInv,
               WorkerGone
 <2>9. CASE ReceiverRoundEnds
   BY <2>9 DEF ReceiverRoundEnds, HandlerPlaced, NodeInv, senderVars, WorkerGone
 <2> QED  BY <2>1, <2>2, <2>3, <2>4, <2>5, <2>6, <2>7, <2>8, <2>9 DEF NodeNext, Handler
<1>5. RefusedStartStops'
 <2> USE DEF Answered
 <2>1. CASE Receive \/ RefuseStart
  <3>1. ASSUME handler' = "idle", lastAnswer' = [op |-> "start", accepted |-> FALSE],
               call'.valid
        PROVE  FALSE
   <4>1. CASE Receive  BY <3>1, <4>1 DEF Receive
   <4>2. CASE RefuseStart  BY <3>1, <4>2 DEF RefuseStart
   <4> QED  BY <2>1, <4>1, <4>2
  <3> QED  BY <3>1 DEF RefusedStartStops
 <2>2. CASE StartSender
  <3>1. \/ senderRuns' = FALSE /\ receiverRuns' = FALSE
        \/ lastAnswer' = [op |-> call.op, accepted |-> TRUE]
    BY <2>2 DEF StartSender, ReceiverStopped
  <3>2. [op |-> call.op, accepted |-> TRUE] # [op |-> "start", accepted |-> FALSE]  OBVIOUS
  <3> QED  BY <3>1, <3>2 DEF RefusedStartStops
 <2>3. CASE AfterStop  BY <2>3 DEF AfterStop, ReceiverStopped, RefusedStartStops
 <2>4. CASE ConfigureSender \/ ConfigurePayload
  <3>1. \E a : lastAnswer' = [op |-> call.op, accepted |-> a] /\ call.op # "start"
    BY <2>4 DEF ConfigureSender, ConfigurePayload
  <3> QED  BY <3>1 DEF RefusedStartStops
 <2>5. CASE UnderLock
  <3>1. \/ handler' = "join"
        \/ \E a : lastAnswer' = [op |-> call.op, accepted |-> a] /\ call.op # "start"
    BY <2>5 DEF UnderLock, StopBeforeConfiguring, RefusePayload, ApplyFault,
                ApplyReceiverConfig
  <3>2. handler' # "idle" \/ lastAnswer' # [op |-> "start", accepted |-> FALSE]  BY <3>1
  <3> QED  BY <3>2 DEF RefusedStartStops
 <2>6. CASE TakeLock \/ StopSender \/ EmitStopped
   BY <2>6 DEF TakeLock, StopSender, EmitStopped, RefusedStartStops
 <2>7. CASE NodeWorker \/ ReceiverRoundEnds
  <3>1. /\ UNCHANGED <<handler, lastAnswer, call>>
        /\ senderRuns' = senderRuns \/ senderRuns' = FALSE
        /\ receiverRuns' = receiverRuns \/ receiverRuns' = FALSE
    BY <2>7 DEF NodeWorker, WorkerEnds, WorkerEmits, WorkerFinishes, RunsAfterFinish,
                ReceiverRoundEnds, senderVars, receiverSide
  <3> QED  BY <3>1 DEF RefusedStartStops, NodeInv
 <2> QED  BY <2>1, <2>2, <2>3, <2>4, <2>5, <2>6, <2>7 DEF NodeNext, Handler
<1>6. (senderRuns => worker \notin {"none", "done"})'  BY <1>2 DEF WorkerFits
<1>7. NodeTypeOK'  BY <1>1, <1>6, TypesJoin, PTL
<1> QED  BY <1>2, <1>3, <1>4, <1>5, <1>7 DEF NodeInv


LEMMA FaultsStep ==
    ASSUME ArchiveInv, NodeNext
    PROVE  FaultsFit' /\ ArchiveTellsFault'
<1>0. NodeTypeOK /\ call \in Call /\ NoChain \notin NodeChains /\ call.chain \in NodeChains
  BY NodeParameters DEF ArchiveInv, NodeInv, NodeTypeOK, Call, NoChain
<1>t. /\ contextChain \in NodeChains \union {NoChain}
      /\ preparedChain \in NodeChains \union {NoChain}
      /\ archiveFault \in [NodeChains -> Faults \union {"absent"}]
      /\ faultPlan \in Faults /\ roundFault \in Faults
  BY <1>0 DEF NodeTypeOK
<1> USE DEF Outdated
<1>i. NodeInv /\ FaultsFit /\ ArchiveTellsFault /\ HandlerPlaced /\ WorkerFits /\ ChainsFit
  BY DEF ArchiveInv, NodeInv
\* Steps that leave what the sender's chain is told alone.
<1>a. ASSUME UNCHANGED <<contextChain, archiveFault, faultPlan, roundFault, preparedChain,
                         call, wasRunning, planCleared, archives>>,
             senderRuns' => senderRuns, handler' = handler \/ handler' \in {"idle", "lock", "held"}
      PROVE  FaultsFit' /\ ArchiveTellsFault'
  BY <1>a, <1>i DEF FaultsFit, RoundTold, Starting, ArchiveTellsFault
\* The result that is archived is the one of the round that was told.
<1>r. ASSUME ArchiveResult, RoundTold
      PROVE  ArchiveTellsFault'
 <2>1. archives' = archives \union {[run |-> roundFault, cleared |-> planCleared,
                                     said |-> archiveFault[contextChain]]}
   BY <1>r DEF ArchiveResult, RoundTold
 <2> QED  BY <1>i, <1>r, <2>1 DEF RoundTold, ArchiveTellsFault
<1>1. CASE Receive \/ RefuseStart
 <2>1. UNCHANGED <<contextChain, archiveFault, preparedChain, faultPlan, senderRuns, roundFault,
                   planCleared, archives>>
   BY <1>1 DEF Receive, RefuseStart, contextVars
 <2>2. handler' = "join" => wasRunning' = senderRuns
   BY <1>1 DEF Receive, RefuseStart, Answered, StopFlag
 <2>3. handler' \in {"idle", "lock", "join"} /\ handler = "idle"
   BY <1>1 DEF Receive, RefuseStart, Answered
 <2>4. Starting' => preparedChain # NoChain
  <3>1. CASE Receive  BY <3>1 DEF Receive, Answered, Starting
  <3>2. CASE RefuseStart  BY <3>2 DEF RefuseStart, Starting
  <3> QED  BY <1>1, <3>1, <3>2
 <2> QED  BY <1>i, <2>1, <2>2, <2>3, <2>4 DEF FaultsFit, RoundTold, ArchiveTellsFault, Starting
<1>2. CASE TakeLock  BY <1>2, <1>a DEF TakeLock, contextVars, senderVars, stopVars
<1>3. CASE UnderLock
 <2>0. /\ UNCHANGED <<call, preparedChain, senderRuns, roundFault, contextChain, archives>>
       /\ handler = "held"
   BY <1>3 DEF UnderLock
 <2>1. CASE ApplyFault
  <3>1. CASE FaultFits
   <4>1. /\ contextChain = call.chain /\ contextChain # NoChain /\ ~senderRuns
         /\ archiveFault[contextChain] # "absent"
     BY <1>0, <1>i, <3>1 DEF FaultFits, PayloadFits, ChainsFit
   <4>2. /\ faultPlan' = "FAULT" /\ handler' = "idle"
         /\ archiveFault'[contextChain] = "FAULT"
     BY <1>t, <1>0, <2>1, <3>1, <4>1 DEF ApplyFault, Answered, Noted
   <4> QED  BY <1>i, <2>0, <4>1, <4>2 DEF FaultsFit, Starting, ArchiveTellsFault
  <3>2. CASE ~FaultFits  BY <1>a, <2>0, <2>1, <3>2 DEF ApplyFault, Answered, stopVars
  <3> QED  BY <3>1, <3>2
 <2>2. CASE ApplyReceiverConfig
   BY <2>0, <2>2, <1>t, <1>i DEF ApplyReceiverConfig, Answered, FaultsFit, Starting, RoundTold,
      ArchiveTellsFault
 <2>3. CASE StopBeforeConfiguring
   BY <2>0, <2>3, <1>i DEF StopBeforeConfiguring, FaultsFit, Starting, RoundTold,
      ArchiveTellsFault
 <2>4. CASE RefusePayload  BY <1>a, <2>0, <2>4 DEF RefusePayload, Answered, stopVars
 <2> QED  BY <1>3, <2>1, <2>2, <2>3, <2>4 DEF UnderLock
<1>4. CASE ConfigureSender
 <2>1. /\ handler' = "idle" /\ senderRuns' = FALSE /\ faultPlan' = "NONE" /\ archives' = archives
       /\ contextChain' = call.chain /\ archiveFault'[call.chain] = "NONE"
   BY <1>4, <1>0 DEF ConfigureSender, Answered
 <2> QED  BY <1>i, <2>1 DEF FaultsFit, Starting, ArchiveTellsFault
<1>5. CASE ConfigurePayload
  BY <1>5, <1>i DEF ConfigurePayload, Answered, contextVars, FaultsFit, Starting,
     ArchiveTellsFault
<1>6. CASE StartSender
 <2>1. /\ handler' = "idle" /\ roundFault' \in {faultPlan, roundFault}
       /\ UNCHANGED <<archives, contextChain, archiveFault, faultPlan, planCleared>>
       /\ senderRuns' => roundFault' = faultPlan
   BY <1>6 DEF StartSender, Answered, contextVars
 <2>2. /\ contextChain # NoChain
       /\ \/ archiveFault[contextChain] = faultPlan
          \/ Outdated(archiveFault[contextChain], faultPlan)
  <3>1. Starting  BY <1>6 DEF StartSender, Joined, Starting
  <3>2. preparedChain # NoChain /\ contextChain = preparedChain /\ contextChain \in NodeChains
    BY <1>i, <1>t, <3>1 DEF FaultsFit, ChainsFit
  <3>3. archiveFault[contextChain] \in {"NONE", "FAULT"}  BY <1>i, <1>t, <3>2 DEF ChainsFit, Faults
  <3>4. CASE faultPlan = "NONE"  BY <1>i, <3>2, <3>3, <3>4 DEF FaultsFit
  <3>5. CASE faultPlan = "FAULT"  BY <1>i, <3>2, <3>5 DEF FaultsFit
  <3> QED  BY <1>t, <3>4, <3>5 DEF Faults
 <2> QED  BY <1>i, <2>1, <2>2 DEF FaultsFit, Starting, RoundTold, ArchiveTellsFault
<1>7. CASE StopSender
  BY <1>7, <1>i DEF StopSender, Joined, contextVars, stopVars, FaultsFit, Starting, RoundTold,
     ArchiveTellsFault
<1>8. CASE EmitStopped
  BY <1>8, <1>i, <1>r DEF EmitStopped, contextVars, senderVars, stopVars, FaultsFit, Starting,
     RoundTold
<1>9. CASE AfterStop
 <2>1. /\ handler' = "idle" /\ senderRuns' = FALSE
       /\ UNCHANGED <<contextChain, archiveFault, archives>>
       /\ faultPlan' \in {"NONE", faultPlan}
   BY <1>9 DEF AfterStop, Answered
 <2>2. CASE call.op = "stop"
  <3>1. faultPlan' = "NONE" /\ (planCleared \/ faultPlan = "FAULT" => planCleared')
    BY <1>9, <2>2 DEF AfterStop
  <3>2. contextChain # NoChain /\ archiveFault[contextChain] = "FAULT" => planCleared'
    BY <1>i, <1>t, <3>1 DEF FaultsFit, Faults
  <3> QED  BY <1>i, <2>1, <3>1, <3>2 DEF FaultsFit, Starting, ArchiveTellsFault
 <2>3. CASE call.op # "stop"
  <3>1. faultPlan' = faultPlan /\ planCleared' = planCleared  BY <1>9, <2>3 DEF AfterStop
  <3> QED  BY <1>i, <2>1, <3>1 DEF FaultsFit, Starting, ArchiveTellsFault
 <2> QED  BY <2>2, <2>3
<1>10. CASE WorkerEnds \/ WorkerFinishes
  BY <1>10, <1>a DEF WorkerEnds, WorkerFinishes, contextVars, stopVars, RunsAfterFinish
<1>11. CASE WorkerEmits
  BY <1>11, <1>i, <1>r DEF WorkerEmits, contextVars, stopVars, FaultsFit, WorkerFits, Starting,
     RoundTold
<1>12. CASE ReceiverRoundEnds
  BY <1>12, <1>a DEF ReceiverRoundEnds, contextVars, senderVars, stopVars
<1> QED
  BY <1>1, <1>2, <1>3, <1>4, <1>5, <1>6, <1>7, <1>8, <1>9, <1>10, <1>11, <1>12
  DEF NodeNext, Handler, NodeWorker

LEMMA NodeIdles == UNCHANGED nodeVars =>
    /\ NodeInv => NodeInv'
    /\ FaultsFit /\ ArchiveTellsFault => FaultsFit' /\ ArchiveTellsFault'
<1> SUFFICES ASSUME UNCHANGED nodeVars
             PROVE  /\ NodeInv => NodeInv'
                    /\ FaultsFit /\ ArchiveTellsFault => FaultsFit' /\ ArchiveTellsFault'
  OBVIOUS
<1> USE DEF nodeVars
<1>1. NodeTypeOK => NodeTypeOK'  BY DEF NodeTypeOK
<1>2. HandlerPlaced => HandlerPlaced'  BY DEF HandlerPlaced, WorkerGone
<1>3. (WorkerFits => WorkerFits') /\ (ChainsFit => ChainsFit')  BY DEF WorkerFits, ChainsFit
<1>4. RefusedStartStops => RefusedStartStops'  BY DEF RefusedStartStops
<1>5. FaultsFit /\ ArchiveTellsFault => FaultsFit' /\ ArchiveTellsFault'
  BY DEF FaultsFit, Starting, RoundTold, ArchiveTellsFault, Outdated
<1> QED  BY <1>1, <1>2, <1>3, <1>4, <1>5 DEF NodeInv

\* AuthenticationNodeRuntime, whatever the manager sends and when: the payload that
\* is prepared belongs to the sender context, a start that was refused leaves neither
\* runtime in a round, and the archive of a round names the fault plan it was sent with
\* unless a stop has cleared that plan.
THEOREM NodeSafeHolds == NodeSpec => []NodeSafe
<1>1. ArchiveInv /\ [NodeNext]_nodeVars => ArchiveInv'
  BY NodeStep, FaultsStep, NodeIdles DEF ArchiveInv
<1>2. ArchiveInv => NodeSafe  BY DEF ArchiveInv, NodeInv, ChainsFit, PreparedFits, NodeSafe
<1> QED  BY <1>1, <1>2, NodeInitOK, PTL DEF NodeSpec

-----------------------------------------------------------------------------
(* NodeAgent.                                                              *)

\* A part that has not been started, or was stopped.
Gone(p) == p \notin partSocket /\ partThread[p] = "none" /\ ~partOn[p]

\* Parts are up to a place of StartOrder, and down to a place of StopOrder; and
\* while the discovery's socket is open the group is joined and received from.
PartsInOrder ==
    /\ agentPc = "down" => ~receiverOn /\ Gone("mc") /\ Gone("srv") /\ Gone("disc")
    /\ agentPc = "starting" =>
          /\ Gone("disc") /\ (partAt < 3 => Gone("srv")) /\ (partAt < 2 => Gone("mc"))
          /\ partAt > 1 => "mc" \in partSocket /\ receiverOn
    /\ agentPc = "close" \/ agentPc = "join" =>
          /\ partAt > 1 => Gone("disc")
          /\ partAt > 2 => Gone("srv") /\ ~receiverOn
    /\ agentPc = "join" =>
          StopOrder[partAt] \notin partSocket /\ ~partOn[StopOrder[partAt]]
    /\ "disc" \in partSocket => "mc" \in partSocket /\ receiverOn

AgentInv == AgentTypeOK /\ PartsInOrder

LEMMA AgentTypes ==
    ASSUME AgentInv, AgentNext
    PROVE  AgentTypeOK'
<1>0. /\ MaxAgentStarts \in Nat /\ \A k \in 1 .. 3 : StartOrder[k] \in Parts /\ StopOrder[k] \in Parts
      /\ agentStarts \in 0 .. MaxAgentStarts /\ partAt \in 1 .. 3
  BY AgentParameters DEF StartOrder, StopOrder, Parts, AgentInv, AgentTypeOK
<1>1. agentOn' \in {agentOn, TRUE, FALSE}
  BY DEF AgentNext, AgentStops, AgentStart, StartPart, AgentStop, StopRuntime, ClosePart, JoinPart,
         SeesFlag, PollFails, ThreadEnds, SendPresence, ClientStartsRound, AgentRoundEnds
<1>2. agentRound' \in {agentRound, TRUE, FALSE}
  BY DEF AgentNext, AgentStops, AgentStart, StartPart, AgentStop, StopRuntime, ClosePart, JoinPart,
         SeesFlag, PollFails, ThreadEnds, SendPresence, ClientStartsRound, AgentRoundEnds
<1>3. receiverOn' \in BOOLEAN
 <2>1. receiverOn \in BOOLEAN  BY DEF AgentInv, AgentTypeOK
 <2>2. CASE StartPart \/ JoinPart  BY Zenon, <2>1, <2>2 DEF StartPart, JoinPart
 <2>3. CASE ~(StartPart \/ JoinPart)
  <3>1. receiverOn' = receiverOn
    BY <2>3 DEF AgentNext, AgentStops, AgentStart, AgentStop, StopRuntime, ClosePart,
       SeesFlag, PollFails, ThreadEnds, SendPresence, ClientStartsRound, AgentRoundEnds
  <3> QED  BY <2>1, <3>1
 <2> QED  BY <2>2, <2>3
<1>n. MaxAgentStarts \in Nat /\ agentStarts \in 0 .. MaxAgentStarts /\ partAt \in 1 .. 3  BY <1>0
<1>4. /\ agentPc' \in {"down", "starting", "up", "stopRound", "close", "join"}
      /\ partAt' \in 1 .. 3 /\ agentStarts' \in 0 .. MaxAgentStarts
 <2>0. agentPc \in {"down", "starting", "up", "stopRound", "close", "join"}
   BY DEF AgentInv, AgentTypeOK
 <2>1. CASE AgentStart  BY <1>n, <2>1 DEF AgentStart
 <2>2. CASE StartPart \/ JoinPart  BY <2>0, <2>2, <1>n DEF StartPart, JoinPart
 <2>3. CASE AgentStop  BY <1>n, <2>3 DEF AgentStop
 <2>5. CASE StopRuntime  BY <1>n, <2>5 DEF StopRuntime
 <2>6. CASE ClosePart  BY <1>n, <2>6 DEF ClosePart
 <2>4. CASE ~(AgentStart \/ StartPart \/ JoinPart \/ AgentStop \/ StopRuntime \/ ClosePart)
  <3>1. UNCHANGED <<agentPc, partAt, agentStarts>>
    BY <2>4 DEF AgentNext, AgentStops, SeesFlag, PollFails, ThreadEnds, SendPresence,
                ClientStartsRound, AgentRoundEnds
  <3> QED  BY <1>n, <2>0, <3>1
 <2> QED  BY <2>1, <2>2, <2>3, <2>4, <2>5, <2>6
<1>5. partOn' \in [Parts -> BOOLEAN] /\ partSocket' \subseteq Parts
 <2>1. partOn \in [Parts -> BOOLEAN] /\ partSocket \subseteq Parts  BY DEF AgentInv, AgentTypeOK
 <2>2. CASE StartPart  BY <1>0, <2>1, <2>2 DEF StartPart
 <2>3. CASE ClosePart  BY <1>0, <2>1, <2>3 DEF ClosePart, FlagAfterClose
 <2>4. CASE ~(StartPart \/ ClosePart)
  <3>1. UNCHANGED <<partOn, partSocket>>
    BY <2>4 DEF AgentNext, AgentStops, AgentStart, AgentStop, StopRuntime, JoinPart,
       SeesFlag, PollFails, ThreadEnds, SendPresence, ClientStartsRound, AgentRoundEnds
  <3> QED  BY <2>1, <3>1
 <2> QED  BY <2>2, <2>3, <2>4
<1>6. partThread' \in [Parts -> {"none", "running", "ended"}]
 <2>1. partThread \in [Parts -> {"none", "running", "ended"}]  BY DEF AgentInv, AgentTypeOK
 <2>2. CASE StartPart \/ JoinPart  BY <1>0, <2>1, <2>2 DEF StartPart, JoinPart
 <2>3. CASE \E p \in Parts : SeesFlag(p) \/ PollFails(p)
   BY <2>1, <2>3 DEF SeesFlag, PollFails, ThreadEnds
 <2>4. CASE /\ ~(StartPart \/ JoinPart)
            /\ ~\E p \in Parts : SeesFlag(p) \/ PollFails(p)
  <3>1. UNCHANGED partThread
    BY <2>4 DEF AgentNext, AgentStops, AgentStart, AgentStop, StopRuntime, ClosePart,
       SendPresence, ClientStartsRound, AgentRoundEnds
  <3> QED  BY <2>1, <3>1
 <2> QED  BY <2>2, <2>3, <2>4
<1>7. presence' \subseteq [receiver : BOOLEAN, joined : BOOLEAN]
 <2>1. presence \subseteq [receiver : BOOLEAN, joined : BOOLEAN] /\ receiverOn \in BOOLEAN
   BY DEF AgentInv, AgentTypeOK
 <2>2. CASE SendPresence
  <3>1. \E b \in BOOLEAN : presence' = {[receiver |-> receiverOn, joined |-> b]}
   <4>1. presence' = {[receiver |-> receiverOn, joined |-> "mc" \in partSocket]}
     BY <2>2 DEF SendPresence
   <4>2. ("mc" \in partSocket) = TRUE \/ ("mc" \in partSocket) = FALSE  OBVIOUS
   <4> QED  BY <4>1, <4>2, Zenon
  <3> QED  BY <2>1, <3>1
 <2>3. CASE ~SendPresence
  <3>1. UNCHANGED presence
    BY <2>3 DEF AgentNext, AgentStops, AgentStart, StartPart, AgentStop, StopRuntime,
       ClosePart, JoinPart, SeesFlag, PollFails, ThreadEnds, ClientStartsRound, AgentRoundEnds
  <3> QED  BY <2>1, <3>1
 <2> QED  BY <2>2, <2>3
<1>8. agentOn \in BOOLEAN /\ agentRound \in BOOLEAN  BY DEF AgentInv, AgentTypeOK
<1>9. agentOn' \in BOOLEAN /\ agentRound' \in BOOLEAN  BY <1>1, <1>2, <1>8
<1> QED  BY <1>3, <1>4, <1>5, <1>6, <1>7, <1>9 DEF AgentTypeOK

LEMMA PartsStep ==
    ASSUME AgentInv, AgentNext
    PROVE  PartsInOrder'
<1>0. /\ partAt \in 1 .. 3 /\ partSocket \subseteq Parts
      /\ partOn \in [Parts -> BOOLEAN]
      /\ partThread \in [Parts -> {"none", "running", "ended"}]
      /\ PartsInOrder
      /\ StartOrder[1] = "mc" /\ StartOrder[2] = "srv" /\ StartOrder[3] = "disc"
      /\ StopOrder[1] = "disc" /\ StopOrder[2] = "srv" /\ StopOrder[3] = "mc"
  BY DEF AgentInv, AgentTypeOK, StartOrder, StopOrder
<1>1. CASE AgentStart  BY <1>0, <1>1 DEF AgentStart, PartsInOrder, Gone
<1>2. CASE StartPart
 <2>1. PICK p \in Parts : p = StartOrder[partAt]  BY <1>0 DEF Parts
 <2>2. /\ agentPc = "starting" /\ p \in partSocket'
       /\ \A q \in Parts \ {p} : partOn'[q] = partOn[q] /\ partThread'[q] = partThread[q]
       /\ partSocket' = partSocket \union {p}
       /\ IF partAt < 3 THEN partAt' = partAt + 1 /\ agentPc' = agentPc
                        ELSE agentPc' = "up" /\ partAt' = partAt
   BY <1>0, <1>2, <2>1 DEF StartPart
 <2>3. receiverOn \/ p = "mc" => receiverOn'  BY <1>2, <2>1 DEF StartPart
 <2>4. \A q \in Parts \ {p} : Gone(q) => Gone(q)'
  <3> SUFFICES ASSUME NEW q \in Parts \ {p}, Gone(q)
               PROVE  Gone(q)'
    OBVIOUS
  <3>1. /\ partOn'[q] = partOn[q] /\ partThread'[q] = partThread[q]
        /\ q \notin partSocket => q \notin partSocket'
    BY <2>2
  <3> QED  BY <3>1 DEF Gone
 <2>5. /\ Gone("disc") /\ (partAt < 3 => Gone("srv")) /\ (partAt < 2 => Gone("mc"))
       /\ partAt > 1 => "mc" \in partSocket /\ receiverOn
   BY <1>0, <2>2 DEF PartsInOrder
 <2>6. CASE partAt = 1  BY <1>0, <2>1, <2>2, <2>3, <2>4, <2>5, <2>6 DEF Parts, Gone, PartsInOrder
 <2>7. CASE partAt = 2  BY <1>0, <2>1, <2>2, <2>3, <2>4, <2>5, <2>7 DEF Parts, Gone, PartsInOrder
 <2>8. CASE partAt = 3  BY <1>0, <2>1, <2>2, <2>3, <2>5, <2>8 DEF Parts, PartsInOrder
 <2> QED  BY <1>0, <2>6, <2>7, <2>8
<1>3. CASE AgentStop \/ StopRuntime  BY <1>0, <1>3 DEF AgentStop, StopRuntime, PartsInOrder
<1>4. CASE ClosePart
 <2>1. CASE partAt = 1  BY <1>0, <1>4, <2>1 DEF ClosePart, PartsInOrder, Gone, Parts, FlagAfterClose
 <2>2. CASE partAt = 2  BY <1>0, <1>4, <2>2 DEF ClosePart, PartsInOrder, Gone, Parts, FlagAfterClose
 <2>3. CASE partAt = 3  BY <1>0, <1>4, <2>3 DEF ClosePart, PartsInOrder, Gone, Parts, FlagAfterClose
 <2> QED  BY <1>0, <2>1, <2>2, <2>3
<1>5. CASE JoinPart
 <2>1. CASE partAt = 1  BY <1>0, <1>5, <2>1 DEF JoinPart, PartsInOrder, Gone, Parts
 <2>2. CASE partAt = 2  BY <1>0, <1>5, <2>2 DEF JoinPart, PartsInOrder, Gone, Parts
 <2>3. CASE partAt = 3  BY <1>0, <1>5, <2>3 DEF JoinPart, PartsInOrder, Gone, Parts
 <2> QED  BY <1>0, <2>1, <2>2, <2>3
<1>6. ASSUME NEW p \in Parts, SeesFlag(p) \/ PollFails(p)
      PROVE  PartsInOrder'
 <2>1. /\ UNCHANGED <<agentPc, partAt, receiverOn, partOn, partSocket>>
       /\ partThread[p] = "running" /\ \A q \in Parts \ {p} : partThread'[q] = partThread[q]
   BY <1>0, <1>6 DEF SeesFlag, PollFails, ThreadEnds
 <2>2. \A q \in Parts : Gone(q) => q # p /\ Gone(q)'  BY <2>1 DEF Gone
 <2>3. {"mc", "srv", "disc"} = Parts  BY DEF Parts
 <2> HIDE DEF Gone
 <2> QED  BY <1>0, <2>1, <2>2, <2>3 DEF PartsInOrder
<1>7. CASE SendPresence \/ ClientStartsRound \/ AgentRoundEnds
  BY <1>0, <1>7 DEF SendPresence, ClientStartsRound, AgentRoundEnds, PartsInOrder, Gone
<1> QED  BY <1>1, <1>2, <1>3, <1>4, <1>5, <1>6, <1>7 DEF AgentNext, AgentStops

LEMMA AgentInvHolds == AgentSpec => []AgentInv
<1>1. AgentInit => AgentInv
 <2> SUFFICES ASSUME AgentInit
              PROVE  AgentInv
   OBVIOUS
 <2>1. MaxAgentStarts \in Nat  BY AgentParameters
 <2>2. AgentTypeOK
  <3>1. /\ [p \in Parts |-> FALSE] \in [Parts -> BOOLEAN]
        /\ [p \in Parts |-> "none"] \in [Parts -> {"none", "running", "ended"}]
        /\ [receiver |-> FALSE, joined |-> FALSE] \in [receiver : BOOLEAN, joined : BOOLEAN]
        /\ 0 \in 0 .. MaxAgentStarts /\ 1 \in 1 .. 3
    BY <2>1
  <3> QED  BY <3>1 DEF AgentInit, AgentTypeOK
 <2>3. PartsInOrder  BY DEF AgentInit, PartsInOrder, Gone, Parts
 <2> QED  BY <2>2, <2>3 DEF AgentInv
<1>2. AgentInv /\ [AgentNext]_agentVars => AgentInv'
  BY AgentTypes, PartsStep DEF agentVars, AgentTypeOK, PartsInOrder, Gone, AgentInv
<1> QED  BY <1>1, <1>2, PTL DEF AgentSpec

\* NodeAgentService, whatever calls of start() and stop(), failing starts and dying
\* threads there are: a service that is down holds no socket, thread or receiver.
THEOREM DownHoldsNothingHolds == AgentSpec => [](AgentTypeOK /\ DownHoldsNothing)
<1>1. AgentInv => AgentTypeOK /\ DownHoldsNothing
 <2> SUFFICES ASSUME AgentInv
              PROVE  DownHoldsNothing
   BY DEF AgentInv
 <2>1. partSocket \subseteq Parts  BY DEF AgentInv, AgentTypeOK
 <2> QED  BY <2>1 DEF AgentInv, PartsInOrder, Gone, DownHoldsNothing, Parts
<1> QED  BY <1>1, AgentInvHolds, PTL

\* A node is announced only while it is in the multicast group and receives.
THEOREM AnnouncedAfterJoiningHolds == AgentSpec => AnnouncedAfterJoining
<1>1. AgentInv /\ [AgentNext]_agentVars =>
          [agentOn /\ presence' # presence =>
               \A said \in presence' : said.joined /\ said.receiver]_agentVars
 <2> SUFFICES ASSUME AgentInv, AgentNext, presence' # presence, NEW said \in presence'
              PROVE  said.joined /\ said.receiver
   BY DEF agentVars
 <2>1. SendPresence
   BY DEF AgentNext, AgentStops, AgentStart, StartPart, AgentStop, StopRuntime, ClosePart,
      JoinPart, SeesFlag, PollFails, ThreadEnds, ClientStartsRound, AgentRoundEnds
 <2>2. "mc" \in partSocket /\ receiverOn  BY <2>1 DEF SendPresence, AgentInv, PartsInOrder
 <2>3. presence' = {[receiver |-> receiverOn, joined |-> "mc" \in partSocket]}
   BY Zenon, <2>1 DEF SendPresence
 <2>4. said = [receiver |-> receiverOn, joined |-> "mc" \in partSocket]  BY Zenon, <2>3
 <2>5. said.joined = ("mc" \in partSocket) /\ said.receiver = receiverOn  BY Zenon, <2>4
 <2> QED  BY <2>2, <2>5
<1> QED  BY <1>1, AgentInvHolds, PTL DEF AgentSpec, AnnouncedAfterJoining

-----------------------------------------------------------------------------
(* FaultPolicy.  A drop is never the end of a protected group; and the ends *)
(* of protected groups are the packets that carry tags, if their size       *)
(* divides the groups'.                                                     *)

LEMMA DivisionIs ==
    ASSUME NEW a \in Nat, NEW b \in Nat \ {0}
    PROVE  a \div b \in Nat /\ a % b = a - b * (a \div b)
           /\ b * (a \div b) <= a /\ a < b * (a \div b) + b
  BY SMTT(30)

LEMMA QuotientIs ==
    ASSUME NEW a \in Nat, NEW b \in Nat \ {0}, NEW q \in Int, b * q <= a, a < b * q + b
    PROVE  a \div b = q
  BY SMTT(30)

LEMMA LeastOf ==
    ASSUME NEW a \in Int, NEW b \in Int
    PROVE  Min({a, b}) = IF a <= b THEN a ELSE b
  BY DEF Min

\* A packet lies in its interval, and an interval's packets have the same bounds.
LEMMA IntervalIs ==
    ASSUME NEW i \in Packets
    PROVE  /\ IntervalOf(i) \in Nat \ {0} /\ FirstOf(i) \in Nat \ {0} /\ LastOf(i) \in Nat
           /\ FirstOf(i) <= i /\ i <= LastOf(i) /\ LastOf(i) <= TotalPackets
           /\ \A j \in FirstOf(i) .. LastOf(i) :
                 FirstOf(j) = FirstOf(i) /\ LastOf(j) = LastOf(i)
<1> DEFINE P == PacketsPerInterval
           k == (i - 1) \div P
<1>1. P \in Nat \ {0} /\ TotalPackets \in Nat \ {0} /\ i \in 1 .. TotalPackets /\ i - 1 \in Nat
  BY FaultParameters DEF Packets
<1> HIDE DEF P
<1>2. k \in Nat /\ P * k <= i - 1 /\ i - 1 < P * k + P  BY <1>1, DivisionIs
<1> HIDE DEF k
<1>3. P * k \in Nat /\ k * P = P * k /\ (k + 1 - 1) * P = P * k /\ (k + 1) * P = P * k + P
  BY <1>1, <1>2
<1>4. IntervalOf(i) = k + 1 /\ FirstOf(i) = P * k + 1  BY <1>2, <1>3 DEF IntervalOf, FirstOf, k, P
<1>5. LastOf(i) = IF TotalPackets <= P * k + P THEN TotalPackets ELSE P * k + P
  BY <1>1, <1>3, <1>4, LeastOf DEF LastOf, P
<1>6. ASSUME NEW j \in FirstOf(i) .. LastOf(i)
      PROVE  FirstOf(j) = FirstOf(i) /\ LastOf(j) = LastOf(i)
 <2>1. j \in Int /\ j >= P * k + 1 /\ j <= P * k + P  BY <1>1, <1>3, <1>4, <1>5, <1>6
 <2>2. j - 1 \in Nat /\ P * k <= j - 1 /\ j - 1 < P * k + P  BY <1>1, <1>3, <2>1
 <2>3. (j - 1) \div P = k  BY <1>1, <1>2, <2>2, QuotientIs
 <2>4. IntervalOf(j) = k + 1  BY <2>3 DEF IntervalOf, P
 <2> QED  BY <1>4, <2>4 DEF FirstOf, LastOf
<1> QED  BY <1>1, <1>2, <1>3, <1>4, <1>5, <1>6

LEMMA CarriersAreEnds ==
    ASSUME NEW size \in 1 .. PacketsPerInterval, GroupSize % size = 0, NEW c \in TagCarriers
    PROVE  c = GroupEnd(c, size)
<1>1. /\ GroupSize \in Nat \ {0} /\ size \in Nat \ {0} /\ TotalPackets \in Nat \ {0}
      /\ PacketsPerInterval \in Nat \ {0}
  BY FaultParameters
<1>2. PICK i \in Packets : /\ (i - FirstOf(i)) % GroupSize = 0
                           /\ c = Min({LastOf(i), i + GroupSize - 1})
  BY DEF TagCarriers
<1> DEFINE F == FirstOf(i)
           L == LastOf(i)
           m == GroupSize \div size
           q == (i - F) \div GroupSize
<1>3. /\ F \in Nat \ {0} /\ L \in Nat /\ i \in Nat /\ F <= i /\ i <= L
      /\ \A j \in F .. L : FirstOf(j) = F /\ LastOf(j) = L
  BY <1>2, IntervalIs DEF Packets
<1> HIDE DEF F, L
<1>4. m \in Nat /\ GroupSize = size * m  BY <1>1, DivisionIs
<1>5. i - F \in Nat  BY <1>3
<1>6. q \in Nat /\ i - F = GroupSize * q
 <2>1. q \in Nat /\ (i - F) % GroupSize = (i - F) - GroupSize * q  BY <1>1, <1>5, DivisionIs
 <2>2. (i - F) % GroupSize = 0  BY <1>2 DEF F
 <2> HIDE DEF q
 <2>3. GroupSize * q \in Int  BY <1>1, <2>1
 <2> QED  BY <1>5, <2>1, <2>2, <2>3
<1> HIDE DEF m, q
<1>7. c = IF L <= i + GroupSize - 1 THEN L ELSE i + GroupSize - 1
  BY <1>1, <1>2, <1>3, LeastOf DEF L
<1>8. c \in F .. L /\ c - F \in Nat  BY <1>1, <1>3, <1>7
<1>9. FirstOf(c) = F /\ LastOf(c) = L  BY <1>3, <1>8
<1> DEFINE o == (c - F) \div size
<1>10. o \in Nat /\ size * o <= c - F /\ c - F < size * o + size  BY <1>1, <1>8, DivisionIs
<1>11. c = L \/ (c - F = size * (m * (q + 1)) - 1 /\ c <= L)
 <2>1. CASE ~(L <= i + GroupSize - 1)
  <3>1. c = i + GroupSize - 1 /\ c <= L  BY <1>1, <1>3, <1>7, <2>1
  <3>2. c - F = GroupSize * q + GroupSize - 1  BY <1>1, <1>3, <1>6, <3>1
  <3>3. GroupSize * q + GroupSize = GroupSize * (q + 1)  BY <1>1, <1>6
  <3>4. GroupSize * (q + 1) = (size * m) * (q + 1)  BY <1>4
  <3>5. (size * m) * (q + 1) = size * (m * (q + 1))  BY <1>1, <1>4, <1>6
  <3>6. c - F = (GroupSize * q + GroupSize) - 1 /\ GroupSize * q \in Int  BY <1>1, <1>6, <3>2
  <3>7. GroupSize * q + GroupSize = size * (m * (q + 1))  BY <3>3, <3>4, <3>5
  <3> QED  BY <3>1, <3>6, <3>7
 <2> QED  BY <1>7, <2>1
<1>12. GroupEnd(c, size) = Min({L, F + (o + 1) * size - 1})  BY <1>9 DEF GroupEnd
<1> HIDE DEF o
<1>13. (o + 1) * size = size * o + size /\ size * o \in Nat  BY <1>1, <1>10
<1>14. GroupEnd(c, size) = IF L <= F + (o + 1) * size - 1 THEN L ELSE F + (o + 1) * size - 1
  BY <1>1, <1>3, <1>12, <1>13, LeastOf
<1>15. CASE c = L  BY <1>1, <1>3, <1>8, <1>10, <1>13, <1>14, <1>15
<1>16. CASE c - F = size * (m * (q + 1)) - 1 /\ c <= L
 <2> DEFINE r == m * (q + 1) - 1
 <2>0. m * (q + 1) \in Int  BY <1>4, <1>6
 <2>1. r \in Int /\ r + 1 = m * (q + 1)  BY <2>0
 <2> HIDE DEF r
 <2>2. size * r \in Int /\ size * (r + 1) = size * r + size  BY <1>1, <2>1
 <2>3. c - F = size * r + size - 1  BY <1>16, <2>1, <2>2
 <2>4. size * r <= c - F /\ c - F < size * r + size  BY <1>1, <2>2, <2>3
 <2>5. o = r  BY <1>1, <1>8, <2>1, <2>4, QuotientIs DEF o
 <2>6. (o + 1) * size = size * r + size  BY <1>13, <2>5
 <2>7. c = F + (o + 1) * size - 1  BY <1>1, <1>3, <1>8, <2>2, <2>3, <2>6
 <2> QED  BY <1>3, <1>14, <1>16, <2>7
<1> QED  BY <1>11, <1>15, <1>16

\* What the plan drops: packets that do not end a group, in one window of time.
FaultInv ==
    /\ plan \in ValidPlans
    /\ nextPacket \in Nat \ {0} /\ planned \in Nat
    /\ windowStart \in {NoWindow} \union 0 .. planned
    /\ sentPackets \subseteq 1 .. nextPacket - 1
    /\ \A x \in dropped :
          /\ x[1] \in Packets /\ x[1] < nextPacket /\ x[2] \in Nat
          /\ x[1] # GroupEnd(x[1], plan.protect) /\ x[1] \notin sentPackets
          /\ plan.kind = "disconnect" =>
                windowStart # NoWindow /\ windowStart <= x[2] /\ x[2] < windowStart + plan.length
    /\ \A i \in 1 .. nextPacket - 1 : i \in sentPackets \/ \E x \in dropped : x[1] = i

LEMMA PlanShape ==
    ASSUME NEW p \in ValidPlans
    PROVE  /\ p.kind = "loss" => p.protect \in 1 .. PacketsPerInterval
                                 /\ p.drops \subseteq Eligible(p.protect)
           /\ p.kind = "disconnect" => /\ p.length \in 1 .. FaultTime
                                       /\ p.protect \in 1 .. PacketsPerInterval
           /\ p.kind = "delay" => p.protect = 1
           /\ p.kind \in {"loss", "disconnect", "delay"}
<1>1. CASE p \in LossPlans /\ p.drops \subseteq Eligible(p.protect)  BY <1>1 DEF LossPlans
<1>2. CASE p \in DisconnectPlans  BY <1>2 DEF DisconnectPlans
<1>3. CASE p \in DelayPlans  BY <1>3 DEF DelayPlans
<1> QED  BY <1>1, <1>2, <1>3 DEF ValidPlans

LEMMA FaultStep ==
    ASSUME FaultInv, FaultNext
    PROVE  FaultInv'
<1>0. FaultTime \in Nat  BY FaultParameters
<1>1. PICK after \in {0, 2} : DecidePacket(after)  BY DEF FaultNext
<1> DEFINE i == nextPacket
           t == planned + after
<1>2. /\ i \in Packets /\ plan' = plan /\ nextPacket' = i + 1 /\ planned' = t
      /\ windowStart' = WindowAfter(i, t)
  BY <1>1 DEF DecidePacket
<1>3. \/ Dropped(i, t) /\ dropped' = dropped \union {<<i, t>>} /\ sentPackets' = sentPackets
      \/ sentPackets' = sentPackets \union {i} /\ dropped' = dropped
  BY <1>1 DEF DecidePacket
<1>4. /\ t \in Nat /\ planned <= t /\ i \in Nat \ {0} /\ planned \in Nat
      /\ windowStart \in {NoWindow} \union 0 .. planned /\ sentPackets \subseteq 1 .. i - 1
  BY DEF FaultInv
<1> HIDE DEF i, t
<1>5. /\ windowStart' \in {NoWindow} \union 0 .. t
      /\ windowStart # NoWindow => windowStart' = windowStart
  BY <1>2, <1>4 DEF WindowAfter, NoWindow
<1>6. /\ nextPacket' \in Nat \ {0} /\ planned' \in Nat /\ plan' \in ValidPlans
      /\ sentPackets' \subseteq 1 .. nextPacket' - 1
 <2>1. 1 .. i - 1 \subseteq 1 .. i + 1 - 1 /\ i \in 1 .. i + 1 - 1  BY <1>4
 <2>2. sentPackets' \subseteq sentPackets \union {i}  BY <1>3
 <2>3. sentPackets' \subseteq 1 .. i + 1 - 1  BY <1>4, <2>1, <2>2
 <2> QED  BY <1>2, <1>4, <2>3 DEF FaultInv
<1>7. \A x \in dropped :
          /\ x[1] \in Packets /\ x[1] < i /\ x[2] \in Nat
          /\ x[1] # GroupEnd(x[1], plan.protect) /\ x[1] \notin sentPackets
          /\ plan.kind = "disconnect" =>
                windowStart # NoWindow /\ windowStart <= x[2] /\ x[2] < windowStart + plan.length
  BY DEF FaultInv, i
<1>8. Dropped(i, t) => /\ i # GroupEnd(i, plan.protect)
                       /\ plan.kind = "disconnect" =>
                             windowStart' # NoWindow /\ t < windowStart' + plan.length
  BY PlanShape DEF FaultInv, Dropped, Eligible
<1>9. \A x \in dropped' :
          /\ x[1] \in Packets /\ x[1] < i + 1 /\ x[2] \in Nat
          /\ x[1] # GroupEnd(x[1], plan.protect) /\ x[1] \notin sentPackets'
          /\ plan.kind = "disconnect" =>
                windowStart' # NoWindow /\ windowStart' <= x[2] /\ x[2] < windowStart' + plan.length
 <2>1. ASSUME NEW x \in dropped
       PROVE  /\ x[1] \in Packets /\ x[1] < i + 1 /\ x[2] \in Nat
              /\ x[1] # GroupEnd(x[1], plan.protect) /\ x[1] \notin sentPackets'
              /\ plan.kind = "disconnect" =>
                    windowStart' # NoWindow /\ windowStart' <= x[2]
                    /\ x[2] < windowStart' + plan.length
   BY <1>3, <1>4, <1>5, <1>7, FaultParameters DEF Packets
 <2>2. Dropped(i, t) /\ sentPackets' = sentPackets =>
           /\ i \in Packets /\ i < i + 1 /\ t \in Nat
           /\ i # GroupEnd(i, plan.protect) /\ i \notin sentPackets'
           /\ plan.kind = "disconnect" =>
                 windowStart' # NoWindow /\ windowStart' <= t /\ t < windowStart' + plan.length
   BY <1>2, <1>4, <1>5, <1>8
 <2>3. <<i, t>>[1] = i /\ <<i, t>>[2] = t  OBVIOUS
 <2> QED  BY <1>3, <2>1, <2>2, <2>3
<1>10. \A j \in 1 .. nextPacket' - 1 : j \in sentPackets' \/ \E x \in dropped' : x[1] = j
 <2>1. \A j \in 1 .. i - 1 : j \in sentPackets \/ \E x \in dropped : x[1] = j  BY DEF FaultInv, i
 <2>2. i \in sentPackets' \/ \E x \in dropped' : x[1] = i
  <3>1. <<i, t>>[1] = i  OBVIOUS
  <3> QED  BY <1>3, <3>1
 <2>3. \A j \in 1 .. nextPacket' - 1 : j = i \/ j \in 1 .. i - 1  BY <1>2, <1>4
 <2>4. sentPackets \subseteq sentPackets' /\ dropped \subseteq dropped'  BY <1>3
 <2> QED  BY <2>1, <2>2, <2>3, <2>4
<1> QED  BY <1>2, <1>5, <1>6, <1>9, <1>10 DEF FaultInv

LEMMA FaultInvSafe == FaultInv => FaultSafe
<1> SUFFICES ASSUME FaultInv
             PROVE  FaultSafe
  OBVIOUS
<1>1. TagCarriersSurvive
 <2> SUFFICES ASSUME GroupSize % plan.protect = 0, NEW x \in dropped
              PROVE  x[1] \notin TagCarriers
   BY DEF TagCarriersSurvive
 <2>1. plan.protect \in 1 .. PacketsPerInterval  BY PlanShape, FaultParameters DEF FaultInv
 <2> QED  BY <2>1, CarriersAreEnds DEF FaultInv
<1>2. ASSUME plan.kind = "disconnect", NEW x \in dropped, NEW y \in dropped
      PROVE  x[2] - y[2] < plan.length
  BY <1>2, PlanShape, FaultParameters DEF FaultInv, NoWindow
<1>3. \A i \in 1 .. nextPacket - 1 : (i \in sentPackets) # (\E x \in dropped : x[1] = i)
 <2> SUFFICES ASSUME NEW i \in 1 .. nextPacket - 1
              PROVE  (i \in sentPackets) # (\E x \in dropped : x[1] = i)
   OBVIOUS
 <2>1. i \in sentPackets \/ \E x \in dropped : x[1] = i  BY DEF FaultInv
 <2>2. ~(i \in sentPackets /\ \E x \in dropped : x[1] = i)  BY DEF FaultInv
 <2> QED  BY <2>1, <2>2, Zenon
<1> QED  BY <1>1, <1>2, <1>3 DEF FaultSafe, OneOutage

\* The fault plans of a sender, for every plan and all round parameters: the packet
\* that carries its group's tags is sent, and a disconnection is one outage.
THEOREM FaultSafeHolds == FaultSpec => []FaultSafe
<1>1. FaultInit => FaultInv  BY DEF FaultInit, FaultInv
<1>2. FaultInv /\ [FaultNext]_faultVars => FaultInv'  BY FaultStep DEF FaultInv, faultVars
<1> QED  BY <1>1, <1>2, FaultInvSafe, PTL DEF FaultSpec

-----------------------------------------------------------------------------
(* The store (ObservationStore).  Kept is a fold: what it keeps comes from   *)
(* growing places of the sequence, and that is all the invariant needs.     *)

Places(s) == [i \in DOMAIN s |-> i]

\* The equation of the fold that Kept is.
IsKept(f, s, D) ==
    f = [t \in SUBSET DOMAIN Places(s) |->
            IF t = {} THEN <<>>
            ELSE IF Places(s)[Max(t)] \in D
                 THEN Append(f[t \ {Max(t)}], s[Places(s)[Max(t)]])
                 ELSE f[t \ {Max(t)}]]

KeptUpTo(s, D) == CHOOSE f : IsKept(f, s, D)

LEMMA KeptIsFold ==
    ASSUME NEW s, NEW D
    PROVE  Kept(s, D) = KeptUpTo(s, D)[DOMAIN Places(s)]
  BY DEF Kept, KeptUpTo, FoldLeftDomain, FoldLeft, MapThenFoldSet, IsKept, Places

LEMMA KeptEquation ==
    ASSUME NEW X, NEW s \in Seq(X), NEW D
    PROVE  /\ KeptUpTo(s, D)[{}] = <<>>
           /\ \A n \in 1 .. Len(s) : KeptUpTo(s, D)[1 .. n] =
                 IF n \in D THEN Append(KeptUpTo(s, D)[1 .. (n - 1)], s[n])
                            ELSE KeptUpTo(s, D)[1 .. (n - 1)]
<1> DEFINE N == Len(s)
           step == [k \in 1 .. N |->
                      [r \in Seq(X) |-> IF k \in D THEN Append(r, s[k]) ELSE r]]
           pick == [t \in SUBSET (1 .. N) |-> Max(t)]
<1>1. N \in Nat /\ DOMAIN s = 1 .. N /\ \A k \in 1 .. N : s[k] \in X  OBVIOUS
<1>2. /\ DOMAIN Places(s) = 1 .. N
      /\ \A k \in 1 .. N : Places(s)[k] = k
  BY <1>1 DEF Places
<1>3. \A t \in SUBSET (1 .. N) : t # {} => pick[t] = Max(t) /\ Max(t) \in t  BY <1>1, MaxIsLast
<1>4. /\ step \in [1 .. N -> [Seq(X) -> Seq(X)]]
      /\ \A k \in 1 .. N, r \in Seq(X) :
            step[k][r] = IF k \in D THEN Append(r, s[k]) ELSE r
  BY <1>1
<1>5. IsFiniteSet(1 .. N)  BY <1>1, FS_Interval
<1>6. <<>> \in Seq(X)  OBVIOUS
<1> HIDE DEF step, pick
<1>7. FoldInput(1 .. N, Seq(X), <<>>, step, pick)
 <2>1. \A t \in SUBSET (1 .. N) : t # {} => pick[t] \in t  BY <1>3, Zenon
 <2>2. step \in [1 .. N -> [Seq(X) -> Seq(X)]]  BY <1>4
 <2> HIDE DEF N
 <2> QED  BY <1>5, <1>6, <2>1, <2>2, Zenon DEF FoldInput
<1>8. PICK f \in [SUBSET (1 .. N) -> Seq(X)] : IsFold(f, <<>>, step, pick, 1 .. N)
  BY <1>7, FoldExists
<1>9. ASSUME NEW t \in SUBSET (1 .. N), t # {}
      PROVE  f[t] = IF Places(s)[Max(t)] \in D
                    THEN Append(f[t \ {Max(t)}], s[Places(s)[Max(t)]])
                    ELSE f[t \ {Max(t)}]
 <2>1. f[t] = step[pick[t]][f[t \ {pick[t]}]]  BY <1>8, <1>9 DEF IsFold
 <2>2. pick[t] = Max(t) /\ Max(t) \in 1 .. N /\ Places(s)[Max(t)] = Max(t)  BY <1>2, <1>3, <1>9
 <2>3. f[t \ {Max(t)}] \in Seq(X)  BY <1>9
 <2>4. \A r \in Seq(X) : step[Max(t)][r] =
           IF Max(t) \in D THEN Append(r, s[Max(t)]) ELSE r
   BY <1>4, <2>2, Zenon
 <2>5. step[Max(t)][f[t \ {Max(t)}]] =
           IF Max(t) \in D THEN Append(f[t \ {Max(t)}], s[Max(t)])
                           ELSE f[t \ {Max(t)}]
   BY <2>3, <2>4, Zenon
 <2>6. f[t] = step[Max(t)][f[t \ {Max(t)}]]  BY <2>1, <2>2, Zenon
 <2> QED  BY <2>2, <2>5, <2>6, Zenon
<1>10. f[{}] = <<>>  BY <1>8 DEF IsFold
<1>11. IsKept(f, s, D)  BY <1>2, <1>9, <1>10 DEF IsKept
<1> DEFINE g == KeptUpTo(s, D)
<1>12. IsKept(g, s, D)  BY <1>11 DEF KeptUpTo
<1> HIDE DEF g
<1>13. \A t \in SUBSET (1 .. N) : g[t] =
            IF t = {} THEN <<>>
            ELSE IF Places(s)[Max(t)] \in D
                 THEN Append(g[t \ {Max(t)}], s[Places(s)[Max(t)]])
                 ELSE g[t \ {Max(t)}]
  BY <1>2, <1>12 DEF IsKept
<1>14. g[{}] = <<>>  BY <1>13
<1>15. ASSUME NEW n \in 1 .. N
       PROVE  g[1 .. n] = IF n \in D THEN Append(g[1 .. (n - 1)], s[n]) ELSE g[1 .. (n - 1)]
 <2> DEFINE t == 1 .. n
 <2>1. t \in SUBSET (1 .. N) /\ t # {} /\ n \in t  BY <1>1
 <2>2. Max(t) \in t /\ n <= Max(t)  BY <1>1, <2>1, MaxIsLast
 <2>3. Max(t) = n  BY <2>2
 <2>4. t \ {n} = 1 .. (n - 1) /\ Places(s)[n] = n  BY <1>2
 <2> HIDE DEF t
 <2>5. g[t] = IF n \in D THEN Append(g[1 .. (n - 1)], s[n]) ELSE g[1 .. (n - 1)]
   BY <1>13, <2>1, <2>3, <2>4
 <2> QED  BY <2>5 DEF t
<1> QED  BY <1>14, <1>15 DEF g

\* h leads from the places of K to those of s that K's members come from, in order.
TakenBy(h, K, s, D) ==
    /\ \A i \in 1 .. Len(K) : K[i] = s[h[i]] /\ i <= h[i]
    /\ \A i, j \in 1 .. Len(K) : i < j => h[i] < h[j]
    /\ \A d \in D : \E i \in 1 .. Len(K) : h[i] = d

Taken(K, s, D) == \E h \in [1 .. Len(K) -> D] : TakenBy(h, K, s, D)

LEMMA TakenNext ==
    ASSUME NEW X, NEW s \in Seq(X), NEW n \in 1 .. Len(s), NEW K \in Seq(X),
           NEW D \in SUBSET (1 .. (n - 1)), Len(K) < n, Taken(K, s, D)
    PROVE  Taken(Append(K, s[n]), s, D \union {n})
<1>1. PICK h \in [1 .. Len(K) -> D] : TakenBy(h, K, s, D)  BY DEF Taken
<1> DEFINE E == D \union {n}
           L == Append(K, s[n])
           m == Len(K) + 1
           g == [i \in 1 .. m |-> IF i = m THEN n ELSE h[i]]
<1>2. /\ Len(L) = m /\ m \in Nat /\ m <= n /\ L[m] = s[n] /\ n \in Nat
      /\ \A i \in 1 .. Len(K) : L[i] = K[i]
  OBVIOUS
<1>10. \A d \in D : d < n  OBVIOUS
<1>3. /\ g[m] = n /\ \A i \in 1 .. Len(K) : g[i] = h[i] /\ h[i] \in D /\ h[i] < n
 <2>1. \A i \in 1 .. Len(K) : i \in 1 .. m /\ i # m /\ h[i] \in D  BY <1>2
 <2>2. m \in 1 .. m  BY <1>2
 <2> QED  BY <1>10, <2>1, <2>2
<1>4. g \in [1 .. m -> E]  OBVIOUS
<1>5. 1 .. m = (1 .. Len(K)) \union {m}  BY <1>2
<1> HIDE DEF L, m, g, E
<1>6. \A i \in 1 .. m : L[i] = s[g[i]] /\ i <= g[i]  BY <1>1, <1>2, <1>3, <1>5 DEF TakenBy
<1>7. \A i, j \in 1 .. m : i < j => g[i] < g[j]
 <2> SUFFICES ASSUME NEW i \in 1 .. m, NEW j \in 1 .. m, i < j PROVE g[i] < g[j]  OBVIOUS
 <2>1. i \in 1 .. Len(K)  BY <1>2 DEF m
 <2>2. CASE j = m  BY <1>3, <2>1, <2>2
 <2>3. CASE j # m  BY <1>1, <1>3, <1>5, <2>1, <2>3 DEF TakenBy
 <2> QED  BY <2>2, <2>3
<1>8. \A d \in E : \E i \in 1 .. m : g[i] = d
 <2> SUFFICES ASSUME NEW d \in E PROVE \E i \in 1 .. m : g[i] = d  OBVIOUS
 <2>1. CASE d = n  BY <1>3, <1>5, <2>1
 <2>2. CASE d \in D  BY <1>1, <1>3, <1>5, <2>2 DEF TakenBy
 <2> QED  BY <2>1, <2>2 DEF E
<1>9. TakenBy(g, L, s, E)  BY <1>2, <1>6, <1>7, <1>8 DEF TakenBy
<1> QED  BY <1>2, <1>4, <1>9 DEF Taken, L, E

LEMMA KeptTaken ==
    ASSUME NEW X, NEW s \in Seq(X), NEW D \in SUBSET (1 .. Len(s))
    PROVE  /\ Kept(s, D) \in Seq(X) /\ Len(Kept(s, D)) <= Len(s)
           /\ Taken(Kept(s, D), s, D)
<1> DEFINE g == KeptUpTo(s, D)
           K(n) == g[1 .. n]
           E(n) == D \intersect (1 .. n)
           Good(n) == K(n) \in Seq(X) /\ Len(K(n)) <= n /\ Taken(K(n), s, E(n))
           T == {n \in Nat : n <= Len(s) => Good(n)}
<1>1. Len(s) \in Nat /\ DOMAIN Places(s) = 1 .. Len(s)  BY DEF Places
<1>2. /\ g[{}] = <<>>
      /\ \A n \in 1 .. Len(s) :
            K(n) = IF n \in D THEN Append(K(n - 1), s[n]) ELSE K(n - 1)
  BY KeptEquation
<1> HIDE DEF g
<1>3. 0 \in T
 <2>1. 1 .. 0 = {}  OBVIOUS
 <2>2. K(0) = <<>> /\ E(0) = {}  BY <1>2, <2>1
 <2>3. Taken(<<>>, s, {})
  <3> DEFINE h == [i \in 1 .. 0 |-> 0]
  <3>1. h \in [1 .. Len(<<>>) -> {}] /\ TakenBy(h, <<>>, s, {})  BY DEF TakenBy
  <3> QED  BY <3>1 DEF Taken
 <2>4. Good(0)
  <3>1. <<>> \in Seq(X) /\ Len(<<>>) <= 0  OBVIOUS
  <3> HIDE DEF K, E
  <3>2. K(0) \in Seq(X) /\ Len(K(0)) <= 0 /\ Taken(K(0), s, E(0))  BY <2>2, <2>3, <3>1, Zenon
  <3> QED  BY <3>2
 <2> HIDE DEF Good
 <2> QED  BY <2>4
<1>4. ASSUME NEW n \in T PROVE n + 1 \in T
 <2> SUFFICES ASSUME n + 1 <= Len(s) PROVE Good(n + 1)  OBVIOUS
 <2>1. n \in Nat /\ n + 1 \in 1 .. Len(s) /\ (n + 1) - 1 = n /\ s[n + 1] \in X  BY <1>1
 <2>2. Good(n)  BY <1>1, <2>1
 <2>3. E(n) \in SUBSET (1 .. n)  OBVIOUS
 <2>4. CASE n + 1 \in D
  <3>1. K(n + 1) = Append(K(n), s[n + 1])  BY <1>2, <2>1, <2>4
  <3>2. E(n + 1) = E(n) \union {n + 1}  BY <2>1, <2>4
  <3> HIDE DEF K, E
  <3> DEFINE k == n + 1
  <3>5. /\ k \in 1 .. Len(s) /\ E(n) \in SUBSET (1 .. (k - 1))
        /\ K(n) \in Seq(X) /\ Len(K(n)) < k /\ Taken(K(n), s, E(n))
    BY <2>1, <2>2, <2>3
  <3> HIDE DEF k
  <3>6. Taken(Append(K(n), s[k]), s, E(n) \union {k})  BY <3>5, TakenNext
  <3>3. Taken(K(n + 1), s, E(n + 1))  BY <3>1, <3>2, <3>6 DEF k
  <3>4. K(n + 1) \in Seq(X) /\ Len(K(n + 1)) <= n + 1  BY <2>1, <2>2, <3>1
  <3> QED  BY <3>3, <3>4
 <2>5. CASE n + 1 \notin D
  <3>1. K(n + 1) = K(n)  BY <1>2, <2>1, <2>5
  <3>2. E(n + 1) = E(n)  BY <2>1, <2>5
  <3> HIDE DEF K, E
  <3> QED  BY <2>1, <2>2, <3>1, <3>2
 <2> QED  BY <2>4, <2>5
<1>5. T \in SUBSET Nat  OBVIOUS
<1> HIDE DEF T
<1>6. Len(s) \in T  BY <1>1, <1>3, <1>4, <1>5, NatSetInduction
<1>9. Len(s) <= Len(s)  BY <1>1
<1>7. Good(Len(s)) /\ E(Len(s)) = D
 <2>1. E(Len(s)) = D  OBVIOUS
 <2> HIDE DEF Good
 <2>2. Good(Len(s))  BY <1>6, <1>9 DEF T
 <2> QED  BY <2>1, <2>2
<1>8. Kept(s, D) = K(Len(s))  BY <1>1, KeptIsFold DEF g
<1> QED  BY <1>7, <1>8
\* A failure is kept under its round, a warning under one that has begun.
RecordsFit ==
    \A k \in 1 .. Len(failureRecords) :
        /\ failureRecords[k].id # Warning =>
              failureRecords[k].round = RoundOf(failureRecords[k].id)
        /\ failureRecords[k].id = Warning => failureRecords[k].round <= currentRound

IdsOnce ==
    \A j, k \in 1 .. Len(failureRecords) :
        failureRecords[j].id = failureRecords[k].id /\ failureRecords[j].id # Warning => j = k

RoundsOrdered ==
    \/ previousRound < currentRound
    \/ previousRound = NoRound /\ currentRound = NoRound

HandedOverFit == \A id \in handedOver : RoundOf(id) = currentRound

\* The store remembers whether it has warned of the current round.
WarningRemembered ==
    /\ limitReported => \E k \in 1 .. Len(failureRecords) :
          failureRecords[k].id = Warning /\ failureRecords[k].round = currentRound
    /\ ~limitReported => \A k \in 1 .. Len(failureRecords) :
          failureRecords[k].id = Warning => failureRecords[k].round # currentRound

RingIndexed == \A k \in 1 .. Len(packetRing) : packetRing[k] \in packetIndex

StoreInv ==
    /\ RecordTypeOK /\ LossAnnounced /\ WarnedOnce /\ AbnormalPacketsKept
    /\ RecordsFit /\ IdsOnce /\ RoundsOrdered /\ HandedOverFit /\ WarningRemembered /\ RingIndexed

\* What is true of the failures, wherever a subsequence of them takes their place.
SoundRecords(records) ==
    /\ records \in Seq(FailureRecord) /\ Len(records) <= AbnormalLimit
    /\ \A k \in 1 .. Len(records) :
          /\ records[k].id # Warning => records[k].round = RoundOf(records[k].id)
          /\ records[k].id = Warning => records[k].round <= currentRound
          /\ records[k].packet \in packetIndex \union {NoPacket}
    /\ \A j, k \in 1 .. Len(records) :
          /\ records[j].id = Warning /\ records[k].id = Warning
                 /\ records[j].round = records[k].round => j = k
          /\ records[j].id = records[k].id /\ records[j].id # Warning => j = k

AnnouncingRecords(records) ==
    /\ \A id \in handedOver : \E k \in 1 .. Len(records) :
          \/ records[k].id = id
          \/ records[k].id = Warning /\ records[k].round = currentRound
    /\ limitReported => \E k \in 1 .. Len(records) :
          records[k].id = Warning /\ records[k].round = currentRound
    /\ ~limitReported => \A k \in 1 .. Len(records) :
          records[k].id = Warning => records[k].round # currentRound

SoundRing ==
    /\ packetRing \in Seq(EventIds) /\ Len(packetRing) <= PacketLimit
    /\ packetIndex \subseteq EventIds
    /\ \A j, k \in 1 .. Len(packetRing) : packetRing[j] = packetRing[k] => j = k
    /\ \A k \in 1 .. Len(packetRing) : packetRing[k] \in packetIndex

SoundRounds ==
    /\ currentRound \in StoreRounds \union {NoRound}
    /\ previousRound \in StoreRounds \union {NoRound}
    /\ groupRounds \in Seq(StoreRounds) /\ Len(groupRounds) <= GroupLimit
    /\ limitReported \in BOOLEAN /\ discarded \in Nat /\ counted \in Nat
    /\ handedOver \subseteq EventIds
    /\ RoundsOrdered /\ HandedOverFit

LEMMA StoreInvParts ==
    StoreInv <=> /\ SoundRecords(failureRecords) /\ AnnouncingRecords(failureRecords)
                 /\ SoundRing /\ SoundRounds
  BY DEF StoreInv, RecordTypeOK, LossAnnounced, WarnedOnce, AbnormalPacketsKept,
       RecordsFit, IdsOnce,
         WarningRemembered, RingIndexed, SoundRecords, AnnouncingRecords, SoundRing, SoundRounds

LEMMA StoreInvPartsNext ==
    /\ SoundRecords(failureRecords)' /\ AnnouncingRecords(failureRecords)'
    /\ SoundRing' /\ SoundRounds'
    => StoreInv'
  BY DEF StoreInv, RecordTypeOK, LossAnnounced, WarnedOnce, AbnormalPacketsKept,
       RecordsFit, IdsOnce,
         WarningRemembered, RingIndexed, SoundRecords, AnnouncingRecords, SoundRing, SoundRounds

LEMMA RecordRound ==
    ASSUME NEW f \in FailureRecord
    PROVE  f.round \in Nat /\ f.id \in Nat
<1>1. f.round \in StoreRounds \union {NoRound} /\ f.id \in EventIds \union {Warning}
  BY DEF FailureRecord
<1>2. StoreRounds \subseteq Nat /\ EventIds \subseteq Nat /\ NoRound \in Nat /\ Warning \in Nat
  BY StoreLimits DEF NoRound, Warning
<1> QED  BY <1>1, <1>2

LEMMA TakenSound ==
    ASSUME SoundRecords(failureRecords), NEW K \in Seq(FailureRecord),
           NEW D \in SUBSET (1 .. Len(failureRecords)), Taken(K, failureRecords, D),
           Len(K) <= Len(failureRecords)
    PROVE  SoundRecords(K)
<1> DEFINE s == failureRecords
<1>1. PICK h \in [1 .. Len(K) -> D] : TakenBy(h, K, s, D)  BY DEF Taken
<1>2. s \in Seq(FailureRecord) /\ Len(s) \in Nat /\ Len(K) \in Nat /\ Len(s) <= AbnormalLimit
  BY DEF SoundRecords
<1>3. \A i \in 1 .. Len(K) : h[i] \in 1 .. Len(s) /\ K[i] = s[h[i]]  BY <1>1 DEF TakenBy
<1>4. \A i, j \in 1 .. Len(K) : h[i] = h[j] => i = j
 <2> SUFFICES ASSUME NEW i \in 1 .. Len(K), NEW j \in 1 .. Len(K), i # j PROVE h[i] # h[j]  OBVIOUS
 <2>1. h[i] \in Int /\ h[j] \in Int /\ (i < j \/ j < i)  BY <1>3
 <2> QED  BY <1>1, <2>1 DEF TakenBy
<1>5. Len(K) <= AbnormalLimit  BY <1>2, StoreLimits
<1>6. ASSUME NEW k \in 1 .. Len(K)
      PROVE  /\ K[k].id # Warning => K[k].round = RoundOf(K[k].id)
             /\ K[k].id = Warning => K[k].round <= currentRound
             /\ K[k].packet \in packetIndex \union {NoPacket}
  BY <1>3 DEF SoundRecords
<1>7. ASSUME NEW j \in 1 .. Len(K), NEW k \in 1 .. Len(K),
             K[j].id = Warning, K[k].id = Warning, K[j].round = K[k].round
      PROVE  j = k
  BY <1>3, <1>4, <1>7 DEF SoundRecords
<1>8. ASSUME NEW j \in 1 .. Len(K), NEW k \in 1 .. Len(K), K[j].id = K[k].id, K[j].id # Warning
      PROVE  j = k
 <2>1. /\ h[j] \in 1 .. Len(s) /\ h[k] \in 1 .. Len(s)
       /\ s[h[j]].id = s[h[k]].id /\ s[h[j]].id # Warning
   BY <1>3, <1>8
 <2>2. \A i, m \in 1 .. Len(s) : s[i].id = s[m].id /\ s[i].id # Warning => i = m
   BY DEF SoundRecords
 <2>3. h[j] = h[k]  BY <2>1, <2>2
 <2> QED  BY <1>4, <2>3
<1>9. ASSUME NEW j \in 1 .. Len(K), NEW k \in 1 .. Len(K)
      PROVE  /\ K[j].id = Warning /\ K[k].id = Warning /\ K[j].round = K[k].round => j = k
             /\ K[j].id = K[k].id /\ K[j].id # Warning => j = k
  BY <1>7, <1>8
<1> HIDE DEF s
<1> QED  BY <1>5, <1>6, <1>9 DEF SoundRecords

\* Making room costs nothing but a failure of the previous round.
LEMMA MadeRoomTaken ==
    ASSUME SoundRecords(failureRecords), NEW round
    PROVE  LET K == MadeRoom(round)
           IN  /\ K \in Seq(FailureRecord) /\ Len(K) <= Len(failureRecords)
               /\ \E D \in SUBSET (1 .. Len(failureRecords)) :
                     /\ Taken(K, failureRecords, D)
                     /\ \A k \in (1 .. Len(failureRecords)) \ D :
                           currentRound # NoRound /\ failureRecords[k].round = previousRound
<1> DEFINE s == failureRecords
           N == Len(s)
           K == MadeRoom(round)
           Fit(M) == \E D \in SUBSET (1 .. N) :
                        /\ Taken(M, s, D)
                        /\ \A k \in (1 .. N) \ D :
                              currentRound # NoRound /\ s[k].round = previousRound
           Goal == K \in Seq(FailureRecord) /\ Len(K) <= N /\ Fit(K)
<1>1. s \in Seq(FailureRecord) /\ N \in Nat  BY DEF SoundRecords
<1>2. ASSUME K = s PROVE Goal
 <2> DEFINE h == [i \in 1 .. N |-> i]
 <2>1. h \in [1 .. N -> 1 .. N] /\ TakenBy(h, s, s, 1 .. N)  BY <1>1 DEF TakenBy
 <2>2. Taken(s, s, 1 .. N)  BY <2>1 DEF Taken
 <2>3. Fit(s)  BY <2>2
 <2> HIDE DEF K, Fit
 <2> QED  BY <1>1, <1>2, <2>3
<1>3. ASSUME K # s PROVE Goal
 <2> DEFINE I == {i \in 1 .. N : s[i].round = previousRound}
            p == Min(I)
 <2>1. /\ currentRound # NoRound /\ I # {}
       /\ K = SubSeq(s, 1, p - 1) \o SubSeq(s, p + 1, N)
   BY <1>3 DEF MadeRoom, RemoveFirstMatch, RemoveAt, SelectInSeq
 <2>2. p \in I
  <3>1. PICK x \in I : \A y \in I : x <= y  BY <1>1, <2>1, LeastNat, I \in SUBSET Nat
  <3> QED  BY <3>1 DEF Min
 <2> HIDE DEF p
 <2>3. p \in 1 .. N /\ s[p].round = previousRound  BY <2>2
 <2> DEFINE A == SubSeq(s, 1, p - 1)
            B == SubSeq(s, p + 1, N)
            h == [i \in 1 .. (N - 1) |-> IF i < p THEN i ELSE i + 1]
            D == (1 .. N) \ {p}
 <2>4. /\ A \in Seq(FailureRecord) /\ Len(A) = p - 1
       /\ \A i \in 1 .. (p - 1) : A[i] = s[i]
   BY <1>1, <2>3
 <2>5. /\ B \in Seq(FailureRecord) /\ Len(B) = N - p
       /\ \A i \in 1 .. (N - p) : B[i] = s[i + p]
   BY <1>1, <2>3
 <2> HIDE DEF A, B, K
 <2>6. /\ K \in Seq(FailureRecord) /\ Len(K) = N - 1
       /\ \A i \in 1 .. (N - 1) : K[i] = IF i < p THEN s[i] ELSE s[i + 1]
  <3>1. K = A \o B  BY <2>1 DEF A, B
  <3>2. K \in Seq(FailureRecord) /\ Len(K) = N - 1  BY <1>1, <2>3, <2>4, <2>5, <3>1
  <3>3. ASSUME NEW i \in 1 .. (N - 1) PROVE K[i] = IF i < p THEN s[i] ELSE s[i + 1]
   <4>1. CASE i < p  BY <1>1, <2>3, <2>4, <2>5, <3>1, <4>1
   <4>2. CASE ~ (i < p)
    <5>1. i - (p - 1) \in 1 .. (N - p) /\ ~ (i <= Len(A)) /\ i <= Len(A) + Len(B)
      BY <1>1, <2>3, <2>4, <2>5, <4>2
    <5>2. K[i] = B[i - (p - 1)]  BY <2>4, <2>5, <3>1, <5>1
    <5>3. (i - (p - 1)) + p = i + 1  BY <2>3
    <5> QED  BY <2>5, <4>2, <5>1, <5>2, <5>3
   <4> QED  BY <4>1, <4>2
  <3> QED  BY <3>2, <3>3
 <2>7. h \in [1 .. (N - 1) -> D]  BY <1>1, <2>3
 <2>8. \A d \in D : \E i \in 1 .. (N - 1) : h[i] = d
  <3> SUFFICES ASSUME NEW d \in D PROVE \E i \in 1 .. (N - 1) : h[i] = d  OBVIOUS
  <3>1. CASE d < p  BY <1>1, <2>3, <3>1
  <3>2. CASE ~ (d < p)  BY <1>1, <2>3, <3>2
  <3> QED  BY <3>1, <3>2
 <2>9. TakenBy(h, K, s, D)  BY <1>1, <2>3, <2>6, <2>8 DEF TakenBy
 <2>10. Taken(K, s, D)  BY <2>6, <2>7, <2>9 DEF Taken
 <2>11. \A k \in (1 .. N) \ D : k = p  OBVIOUS
 <2>12. D \in SUBSET (1 .. N) /\ Len(K) <= N  BY <1>1, <2>6
 <2> HIDE DEF D
 <2>13. Fit(K)  BY <2>1, <2>3, <2>10, <2>11, <2>12
 <2> QED  BY <2>6, <2>12, <2>13
<1> QED  BY <1>2, <1>3

BoundedBy(b, s, d) ==
    Len(b) = Len(s) - d /\ \A k \in 1 .. Len(b) : b[k] = s[k + d]

LEMMA BoundedOK ==
    ASSUME NEW X, NEW s \in Seq(X), NEW limit \in Nat \ {0}
    PROVE  /\ Bounded(s, limit) \in Seq(X) /\ Len(Bounded(s, limit)) <= limit
           /\ \E d \in Nat : BoundedBy(Bounded(s, limit), s, d)
<1>1. CASE Len(s) > limit
 <2> DEFINE d == Len(s) - limit
            b == SubSeq(s, d + 1, Len(s))
 <2>1. /\ b \in Seq(X) /\ Len(b) = limit /\ d \in Nat
       /\ \A k \in 1 .. limit : b[k] = s[k + d]
   BY <1>1
 <2>2. Bounded(s, limit) = b  BY <1>1 DEF Bounded, Newest
 <2>3. Len(b) = Len(s) - d  BY <2>1
 <2> HIDE DEF b, d
 <2>4. BoundedBy(b, s, d)  BY <2>1, <2>3 DEF BoundedBy
 <2> QED  BY <2>1, <2>2, <2>4
<1>2. CASE ~ (Len(s) > limit)  BY <1>2 DEF Bounded, BoundedBy
<1> QED  BY <1>1, <1>2

LEMMA BeginStoreRoundOK ==
    ASSUME StoreInv, NEW round \in StoreRounds, BeginStoreRound(round)
    PROVE  StoreInv'
<1> DEFINE s == failureRecords
           D == {k \in 1 .. Len(s) : OfLastRounds(s[k].round)}
           G == {k \in 1 .. Len(groupRounds) : OfLastRounds(groupRounds[k])}
           K == Kept(s, D)
<1>1. SoundRecords(s) /\ SoundRing /\ SoundRounds  BY StoreInvParts
<1>2. s \in Seq(FailureRecord) /\ groupRounds \in Seq(StoreRounds)
  BY <1>1 DEF SoundRecords, SoundRounds
<1>3. D \in SUBSET (1 .. Len(s)) /\ G \in SUBSET (1 .. Len(groupRounds))  OBVIOUS
<1> HIDE DEF D, G
<1>4. K \in Seq(FailureRecord) /\ Len(K) <= Len(s) /\ Taken(K, s, D)  BY <1>2, <1>3, KeptTaken
<1>5. SoundRecords(K)  BY <1>1, <1>3, <1>4, TakenSound
<1>6. groupRounds' = Kept(groupRounds, G) /\ failureRecords' = K  BY DEF BeginStoreRound, D, G
<1>7. groupRounds' \in Seq(StoreRounds) /\ Len(groupRounds') <= GroupLimit
 <2>1. Kept(groupRounds, G) \in Seq(StoreRounds) /\ Len(Kept(groupRounds, G)) <= Len(groupRounds)
   BY <1>2, <1>3, KeptTaken
 <2> HIDE DEF K
 <2> QED  BY <1>1, <1>2, <1>6, <2>1, StoreLimits DEF SoundRounds
<1> HIDE DEF K
<1>8. /\ currentRound' = round /\ previousRound' = currentRound /\ round > currentRound
      /\ currentRound \in Nat /\ round \in Nat
  BY <1>1, StoreLimits DEF BeginStoreRound, SoundRounds, NoRound
<1>9. SoundRecords(failureRecords)'
 <2>1. \A k \in 1 .. Len(K) : K[k] \in FailureRecord  BY <1>4
 <2>2. \A k \in 1 .. Len(K) : K[k].packet \in packetIndex' \union {NoPacket}
   BY <1>5, <1>6 DEF SoundRecords, BeginStoreRound, Held
 <2>3. ASSUME NEW k \in 1 .. Len(K), K[k].id = Warning PROVE K[k].round <= currentRound'
   BY <1>5, <1>8, <2>1, <2>3, RecordRound DEF SoundRecords
 <2> QED  BY <1>5, <1>6, <2>2, <2>3 DEF SoundRecords
<1>10. AnnouncingRecords(failureRecords)'
 <2>1. ASSUME NEW k \in 1 .. Len(K), K[k].id = Warning PROVE K[k].round # currentRound'
   BY <1>4, <1>5, <1>8, <2>1, RecordRound DEF SoundRecords
 <2>2. handedOver' = {} /\ limitReported' = FALSE  BY DEF BeginStoreRound
 <2> QED  BY <1>6, <2>1, <2>2 DEF AnnouncingRecords
<1>11. SoundRing'
 <2>1. packetRing' = packetRing /\ packetIndex' = packetIndex \intersect Held(packetRing, failureRecords')
   BY DEF BeginStoreRound
 <2>2. ASSUME NEW k \in 1 .. Len(packetRing) PROVE packetRing[k] \in packetIndex'
   BY <1>1, <2>1, StoreLimits DEF SoundRing, ToSet, NoPacket, Held
 <2> QED  BY <1>1, <2>1, <2>2 DEF SoundRing
<1>12. SoundRounds'
  BY <1>1, <1>7, <1>8 DEF SoundRounds, BeginStoreRound, RoundsOrdered, HandedOverFit
<1> QED  BY <1>9, <1>10, <1>11, <1>12, StoreInvPartsNext

LEMMA AppendPacketOK ==
    ASSUME StoreInv, NEW id \in EventIds, AppendPacket(id)
    PROVE  StoreInv'
<1> DEFINE a == Append(packetRing, id)
           ring == Bounded(a, PacketLimit)
<1>1. /\ SoundRecords(failureRecords) /\ AnnouncingRecords(failureRecords)
      /\ SoundRing /\ SoundRounds
  BY StoreInvParts
<1>2. /\ packetRing \in Seq(EventIds) /\ Len(packetRing) \in Nat
      /\ \A k \in 1 .. Len(packetRing) : packetRing[k] \in packetIndex
  BY <1>1 DEF SoundRing
<1>3. \A k \in 1 .. Len(packetRing) : packetRing[k] # id
 <2> SUFFICES ASSUME NEW k \in 1 .. Len(packetRing), packetRing[k] = id PROVE FALSE  OBVIOUS
 <2>1. id \in ToSet(packetRing) /\ id # NoPacket  BY <1>2, StoreLimits DEF ToSet, NoPacket
 <2> QED  BY <1>2, <2>1 DEF AppendPacket, Held
<1>4. /\ a \in Seq(EventIds) /\ Len(a) = Len(packetRing) + 1
      /\ \A k \in 1 .. Len(packetRing) : a[k] = packetRing[k]
      /\ a[Len(packetRing) + 1] = id
  BY <1>2
<1> HIDE DEF a
<1>5. \A j, k \in 1 .. Len(a) : a[j] = a[k] => j = k  BY <1>1, <1>2, <1>3, <1>4 DEF SoundRing
<1>6. \A k \in 1 .. Len(a) : a[k] \in packetIndex \union {id} /\ a[k] \in EventIds  BY <1>2, <1>4
<1>7. ring \in Seq(EventIds) /\ Len(ring) <= PacketLimit  BY <1>4, StoreLimits, BoundedOK
<1>18. PICK d \in Nat : BoundedBy(ring, a, d)  BY <1>4, StoreLimits, BoundedOK
<1>8. Len(ring) = Len(a) - d /\ \A k \in 1 .. Len(ring) : ring[k] = a[k + d]  BY <1>18 DEF BoundedBy
<1>9. packetRing' = ring /\ packetIndex' = (packetIndex \union {id}) \intersect Held(ring, failureRecords)
  BY DEF AppendPacket, a
<1> HIDE DEF ring
<1>10. \A k \in 1 .. Len(ring) : k + d \in 1 .. Len(a)  BY <1>2, <1>4, <1>7, <1>8
<1>11. \A j, k \in 1 .. Len(ring) : ring[j] = ring[k] => j = k
 <2> SUFFICES ASSUME NEW j \in 1 .. Len(ring), NEW k \in 1 .. Len(ring), ring[j] = ring[k]
              PROVE  j = k
   OBVIOUS
 <2>1. j + d = k + d  BY <1>5, <1>8, <1>10
 <2> QED  BY <2>1
<1>12. ASSUME NEW k \in 1 .. Len(ring) PROVE ring[k] \in packetIndex'
  BY <1>6, <1>7, <1>8, <1>9, <1>10, StoreLimits DEF ToSet, NoPacket, Held
<1>13. SoundRing'  BY <1>1, <1>7, <1>9, <1>11, <1>12 DEF SoundRing
<1>14. \A k \in 1 .. Len(failureRecords) :
          failureRecords[k].packet \in packetIndex' \union {NoPacket}
  BY <1>1, <1>9 DEF SoundRecords, Held
<1>15. failureRecords' = failureRecords /\ currentRound' = currentRound  BY DEF AppendPacket
<1>16. SoundRecords(failureRecords)'  BY <1>1, <1>14, <1>15 DEF SoundRecords
<1>17. AnnouncingRecords(failureRecords)' /\ SoundRounds'
  BY <1>1 DEF AnnouncingRecords, AppendPacket, SoundRounds, RoundsOrdered, HandedOverFit
<1> QED  BY <1>13, <1>16, <1>17, StoreInvPartsNext

LEMMA AppendGroupOK ==
    ASSUME StoreInv, NEW round \in StoreRounds, AppendGroup(round)
    PROVE  StoreInv'
<1>1. /\ SoundRecords(failureRecords) /\ AnnouncingRecords(failureRecords)
      /\ SoundRing /\ SoundRounds
  BY StoreInvParts
<1>2. Append(groupRounds, round) \in Seq(StoreRounds)  BY <1>1 DEF SoundRounds
<1>3. groupRounds' \in Seq(StoreRounds) /\ Len(groupRounds') <= GroupLimit
  BY <1>2, StoreLimits, BoundedOK DEF AppendGroup
<1>4. SoundRounds'  BY <1>1, <1>3 DEF SoundRounds, AppendGroup, RoundsOrdered, HandedOverFit
<1>5. SoundRecords(failureRecords)' /\ AnnouncingRecords(failureRecords)' /\ SoundRing'
  BY <1>1 DEF SoundRecords, AnnouncingRecords, SoundRing, AppendGroup
<1> QED  BY <1>4, <1>5, StoreInvPartsNext

LEMMA AppendFailureOK ==
    ASSUME StoreInv, NEW id \in EventIds, NEW packet \in EventIds \union {NoPacket},
           AppendFailure(id, RoundOf(id), packet)
    PROVE  StoreInv'
<1> DEFINE round == RoundOf(id)
           K == MadeRoom(round)
           s == failureRecords
           new == [id |-> id, round |-> round, packet |-> SharedPacket(packet, K)]
           warning == [id |-> Warning, round |-> currentRound, packet |-> NoPacket]
           HandedOver == IF round = currentRound THEN handedOver \union {id} ELSE handedOver
<1>1. SoundRecords(s) /\ AnnouncingRecords(s) /\ SoundRing /\ SoundRounds  BY StoreInvParts
<1>2. PICK D \in SUBSET (1 .. Len(s)) :
        /\ K \in Seq(FailureRecord) /\ Len(K) <= Len(s) /\ Taken(K, s, D)
        /\ \A k \in (1 .. Len(s)) \ D :
              currentRound # NoRound /\ s[k].round = previousRound
  BY <1>1, MadeRoomTaken
<1>3. /\ currentRound' = currentRound /\ previousRound' = previousRound
      /\ packetRing' = packetRing /\ packetIndex' = packetIndex /\ groupRounds' = groupRounds
      /\ counted' = counted + 1 /\ handedOver' = HandedOver
  BY DEF AppendFailure
<1>17. \A k \in 1 .. Len(s) : s[k].id # id  BY DEF AppendFailure
<1>4. \/ /\ ~ Full(K) /\ failureRecords' = Append(K, new)
         /\ limitReported' = limitReported /\ discarded' = discarded
      \/ /\ Full(K) /\ discarded' = discarded + 1 /\ limitReported
         /\ failureRecords' = s /\ limitReported' = limitReported
      \/ /\ Full(K) /\ discarded' = discarded + 1 /\ ~ limitReported
         /\ failureRecords' = [K EXCEPT ![Len(K)] = warning] /\ limitReported' = TRUE
  BY DEF AppendFailure, RaiseWarning
<1>5. /\ round \in StoreRounds /\ id # Warning /\ id \in Nat
      /\ currentRound \in Nat /\ previousRound \in Nat
      /\ currentRound # NoRound => previousRound < currentRound
  BY <1>1, StoreInputs, StoreLimits DEF SoundRounds, RoundsOrdered, NoRound, Warning
<1>6. new \in FailureRecord /\ new.packet \in packetIndex \union {NoPacket}
 <2>1. SharedPacket(packet, K) \in packetIndex \union {NoPacket}  BY DEF SharedPacket
 <2>2. SharedPacket(packet, K) \in EventIds \union {NoPacket}  BY <1>1, <2>1 DEF SoundRing
 <2> HIDE DEF K
 <2> QED  BY <1>5, <2>1, <2>2 DEF FailureRecord
<1>7. warning \in FailureRecord  BY <1>1 DEF FailureRecord, SoundRounds
<1>8. new.id = id /\ new.round = round  OBVIOUS
<1>9. warning.id = Warning /\ warning.round = currentRound /\ warning.packet = NoPacket  OBVIOUS
<1> HIDE DEF K, new, warning, round
<1>10. SoundRecords(K)  BY <1>1, <1>2, TakenSound
<1>11. PICK h \in [1 .. Len(K) -> D] : TakenBy(h, K, s, D)  BY <1>2 DEF Taken
<1>12. \A i \in 1 .. Len(K) : h[i] \in 1 .. Len(s) /\ K[i] = s[h[i]]  BY <1>11 DEF TakenBy
\* A record of the current round is not the one that gives up its place.
<1>13. \A k \in 1 .. Len(s) : s[k].round = currentRound => \E i \in 1 .. Len(K) : K[i] = s[k]
 <2> SUFFICES ASSUME NEW k \in 1 .. Len(s), s[k].round = currentRound
              PROVE  \E i \in 1 .. Len(K) : K[i] = s[k]
   OBVIOUS
 <2>1. k \in D  BY <1>2, <1>5
 <2> QED  BY <1>11, <2>1 DEF TakenBy
<1>14. AnnouncingRecords(K)
 <2>1. ASSUME NEW x \in handedOver
       PROVE  \E i \in 1 .. Len(K) :
                 K[i].id = x \/ (K[i].id = Warning /\ K[i].round = currentRound)
  <3>1. PICK k \in 1 .. Len(s) :
          s[k].id = x \/ (s[k].id = Warning /\ s[k].round = currentRound)
    BY <1>1 DEF AnnouncingRecords
  <3>2. x # Warning /\ RoundOf(x) = currentRound
    BY <1>1, StoreLimits DEF SoundRounds, HandedOverFit, Warning
  <3>3. s[k].round = currentRound  BY <1>1, <3>1, <3>2 DEF SoundRecords
  <3> QED  BY <1>13, <3>1, <3>3
 <2>2. ASSUME limitReported
       PROVE  \E i \in 1 .. Len(K) : K[i].id = Warning /\ K[i].round = currentRound
  <3>1. PICK k \in 1 .. Len(s) : s[k].id = Warning /\ s[k].round = currentRound
    BY <1>1, <2>2 DEF AnnouncingRecords
  <3> QED  BY <1>13, <3>1
 <2>3. ASSUME ~ limitReported, NEW i \in 1 .. Len(K), K[i].id = Warning
       PROVE  K[i].round # currentRound
   BY <1>1, <1>12, <2>3 DEF AnnouncingRecords
 <2> QED  BY <2>1, <2>2, <2>3 DEF AnnouncingRecords
<1>15. SoundRing' /\ SoundRounds'
 <2>1. SoundRing'  BY <1>1, <1>3 DEF SoundRing
 <2>2. handedOver' \subseteq EventIds /\ \A x \in handedOver' : RoundOf(x) = currentRound
   BY <1>1, <1>3 DEF SoundRounds, HandedOverFit, round
 <2>5. discarded \in Nat /\ counted \in Nat /\ limitReported \in BOOLEAN  BY <1>1 DEF SoundRounds
 <2>6. limitReported' \in BOOLEAN  BY <1>4, <2>5, Zenon
 <2>7. discarded' \in {discarded, discarded + 1}  BY <1>4, Zenon
 <2>3. discarded' \in Nat /\ counted' \in Nat /\ limitReported' \in BOOLEAN
   BY <1>3, <2>5, <2>6, <2>7
 <2>4. SoundRounds'  BY <1>1, <1>3, <2>2, <2>3 DEF SoundRounds, RoundsOrdered, HandedOverFit
 <2> QED  BY <2>1, <2>4
<1>16. SoundRecords(failureRecords)' /\ AnnouncingRecords(failureRecords)'
 <2> DEFINE R == failureRecords'
 <2>1. CASE /\ ~ Full(K) /\ R = Append(K, new)
            /\ limitReported' = limitReported
  <3> DEFINE n == Len(K) + 1
  <3>1. /\ R \in Seq(FailureRecord) /\ Len(R) = n /\ R[n] = new
        /\ n <= AbnormalLimit /\ n \in Nat
        /\ \A k \in 1 .. Len(K) : R[k] = K[k] /\ k \in 1 .. n
        /\ 1 .. n = (1 .. Len(K)) \union {n}
    BY <1>2, <1>6, <2>1, StoreLimits DEF Full
  <3> HIDE DEF n
  <3>2. ASSUME NEW k \in 1 .. n
        PROVE  /\ R[k].id # Warning => R[k].round = RoundOf(R[k].id)
               /\ R[k].id = Warning => R[k].round <= currentRound
               /\ R[k].packet \in packetIndex \union {NoPacket}
   <4>1. CASE k = n  BY <1>5, <1>6, <1>8, <3>1, <4>1 DEF round
   <4>2. CASE k \in 1 .. Len(K)  BY <1>10, <3>1, <4>2 DEF SoundRecords
   <4> QED  BY <3>1, <4>1, <4>2
  <3>3. ASSUME NEW j \in 1 .. n, NEW k \in 1 .. n,
               R[j].id = Warning, R[k].id = Warning, R[j].round = R[k].round
        PROVE  j = k
    BY <1>5, <1>8, <1>10, <3>1, <3>3 DEF SoundRecords
  <3>9. ASSUME NEW j \in 1 .. n, NEW k \in 1 .. n, R[j].id = R[k].id, R[j].id # Warning
        PROVE  j = k
   <4>1. \A i \in 1 .. Len(K) : R[i].id # id  BY <1>12, <1>17, <3>1
   <4>2. \A i, m \in 1 .. Len(K) : R[i].id = R[m].id /\ R[i].id # Warning => i = m
     BY <1>10, <3>1 DEF SoundRecords
   <4> QED  BY <1>8, <3>1, <3>9, <4>1, <4>2
  <3>4. SoundRecords(failureRecords)'  BY <1>3, <3>1, <3>2, <3>3, <3>9 DEF SoundRecords
  <3>5. ASSUME NEW x \in handedOver'
        PROVE  \E i \in 1 .. n :
                  R[i].id = x \/ (R[i].id = Warning /\ R[i].round = currentRound)
   <4>1. CASE x = id  BY <1>8, <3>1, <4>1
   <4>2. CASE x \in handedOver  BY <1>14, <3>1, <4>2 DEF AnnouncingRecords
   <4> QED  BY <1>3, <4>1, <4>2
  <3>6. limitReported' => \E i \in 1 .. n : R[i].id = Warning /\ R[i].round = currentRound
    BY <1>14, <2>1, <3>1 DEF AnnouncingRecords
  <3>7. ASSUME ~ limitReported', NEW i \in 1 .. n, R[i].id = Warning
        PROVE  R[i].round # currentRound
    BY <1>5, <1>8, <1>14, <2>1, <3>1, <3>7 DEF AnnouncingRecords
  <3>8. AnnouncingRecords(failureRecords)'  BY <1>3, <3>1, <3>5, <3>6, <3>7 DEF AnnouncingRecords
  <3> QED  BY <3>4, <3>8
 <2>2. CASE limitReported /\ R = s /\ limitReported' = limitReported
  <3>1. SoundRecords(failureRecords)'  BY <1>1, <1>3, <2>2 DEF SoundRecords
  <3>2. PICK k \in 1 .. Len(s) : s[k].id = Warning /\ s[k].round = currentRound
    BY <1>1, <2>2 DEF AnnouncingRecords
  <3>3. AnnouncingRecords(failureRecords)'  BY <1>3, <2>2, <3>2 DEF AnnouncingRecords
  <3> QED  BY <3>1, <3>3
 <2>3. CASE /\ Full(K) /\ ~ limitReported /\ limitReported' = TRUE
            /\ R = [K EXCEPT ![Len(K)] = warning]
  <3> DEFINE n == Len(K)
  <3>1. /\ n \in 1 .. n /\ R \in Seq(FailureRecord) /\ Len(R) = n /\ R[n] = warning
        /\ \A k \in 1 .. n : k # n => R[k] = K[k]
    BY <1>2, <1>7, <2>3, StoreLimits DEF Full
  <3> HIDE DEF n
  <3>2. ASSUME NEW k \in 1 .. n
        PROVE  /\ R[k].id # Warning => R[k].round = RoundOf(R[k].id)
               /\ R[k].id = Warning => R[k].round <= currentRound
               /\ R[k].packet \in packetIndex \union {NoPacket}
   <4>1. CASE k = n  BY <1>5, <1>9, <3>1, <4>1
   <4>2. CASE k # n  BY <1>10, <3>1, <4>2 DEF SoundRecords, n
   <4> QED  BY <4>1, <4>2
  <3>3. ASSUME NEW j \in 1 .. n, NEW k \in 1 .. n,
               R[j].id = Warning, R[k].id = Warning, R[j].round = R[k].round
        PROVE  j = k
   <4>1. \A i \in 1 .. n : i # n /\ R[i].id = Warning => R[i].round # currentRound
     BY <1>14, <2>3, <3>1 DEF AnnouncingRecords, n
   <4>2. CASE j # n /\ k # n  BY <1>10, <3>1, <3>3, <4>2 DEF SoundRecords, n
   <4> QED  BY <1>9, <3>1, <3>3, <4>1, <4>2
  <3>9. ASSUME NEW j \in 1 .. n, NEW k \in 1 .. n, R[j].id = R[k].id, R[j].id # Warning
        PROVE  j = k
    BY <1>9, <1>10, <3>1, <3>9 DEF SoundRecords, n
  <3>4. SoundRecords(failureRecords)'  BY <1>3, <1>10, <3>1, <3>2, <3>3, <3>9 DEF SoundRecords, n
  <3>5. AnnouncingRecords(failureRecords)'  BY <1>3, <1>9, <2>3, <3>1 DEF AnnouncingRecords
  <3> QED  BY <3>4, <3>5
 <2> QED  BY <1>4, <2>1, <2>2, <2>3
<1> QED  BY <1>15, <1>16, StoreInvPartsNext

\* A failure that is updated has its own round: the record does not change.
LEMMA UpdateKeeps ==
    ASSUME StoreInv, NEW id \in EventIds, UpdateFailure(id, RoundOf(id))
    PROVE  failureRecords' = failureRecords
<1> DEFINE s == failureRecords
<1>1. SoundRecords(s) /\ AnnouncingRecords(s) /\ SoundRing /\ SoundRounds  BY StoreInvParts
<1>2. PICK k \in 1 .. Len(s) :
        s[k].id = id /\ failureRecords' = [s EXCEPT ![k].round = RoundOf(id)]
  BY DEF UpdateFailure
<1>3. s[k].round = RoundOf(id) /\ s \in Seq(FailureRecord)
  BY <1>1, <1>2, StoreLimits DEF SoundRecords, Warning
<1>4. failureRecords' = s
 <2>1. s[k] \in FailureRecord  BY <1>3
 <2>2. [s[k] EXCEPT !.round = RoundOf(id)] = s[k]  BY <1>3, <2>1 DEF FailureRecord
 <2>3. failureRecords' = [s EXCEPT ![k] = [s[k] EXCEPT !.round = RoundOf(id)]]  BY <1>2, <1>3
 <2> QED  BY <1>3, <2>2, <2>3
<1> QED  BY <1>4

LEMMA UpdateFailureOK ==
    ASSUME StoreInv, NEW id \in EventIds, UpdateFailure(id, RoundOf(id))
    PROVE  StoreInv'
<1>5. UNCHANGED recordVars  BY UpdateKeeps DEF UpdateFailure, recordVars
<1> QED
  BY <1>5 DEF StoreInv, RecordTypeOK, LossAnnounced, WarnedOnce, AbnormalPacketsKept,
     RecordsFit, IdsOnce,
     WarningRemembered, RingIndexed, RoundsOrdered, HandedOverFit, recordVars

\* A store that is empty: at the start and after a clear.
LEMMA EmptyStoreOK == StoreInit => StoreInv
<1> SUFFICES ASSUME StoreInit PROVE StoreInv  OBVIOUS
<1>1. Len(packetRing) = 0 /\ Len(failureRecords) = 0 /\ Len(groupRounds) = 0  BY DEF StoreInit
<1>4. /\ packetRing \in Seq(EventIds) /\ groupRounds \in Seq(StoreRounds)
      /\ failureRecords \in Seq(FailureRecord)
  BY DEF StoreInit
<1>5. 0 <= PacketLimit /\ 0 <= AbnormalLimit /\ 0 <= GroupLimit  BY StoreLimits
<1>2. RecordTypeOK  BY <1>1, <1>4, <1>5 DEF StoreInit, RecordTypeOK
<1>3. handedOver = {} /\ 1 .. 0 = {} /\ limitReported = FALSE
      /\ previousRound = NoRound /\ currentRound = NoRound
  BY DEF StoreInit
<1> QED
  BY <1>1, <1>2, <1>3 DEF StoreInv, LossAnnounced, WarnedOnce, AbnormalPacketsKept, RecordsFit,
           IdsOnce, WarningRemembered, RingIndexed, RoundsOrdered, HandedOverFit

LEMMA ClearStoreOK == ClearStore => StoreInv'
<1> SUFFICES ASSUME ClearStore PROVE StoreInv'  OBVIOUS
<1>1. Len(packetRing') = 0 /\ Len(failureRecords') = 0 /\ Len(groupRounds') = 0  BY DEF ClearStore
<1>4. /\ packetRing' \in Seq(EventIds) /\ groupRounds' \in Seq(StoreRounds)
      /\ failureRecords' \in Seq(FailureRecord)
  BY DEF ClearStore
<1>5. 0 <= PacketLimit /\ 0 <= AbnormalLimit /\ 0 <= GroupLimit  BY StoreLimits
<1>2. RecordTypeOK'  BY <1>1, <1>4, <1>5 DEF ClearStore, RecordTypeOK
<1>3. handedOver' = {} /\ 1 .. 0 = {} /\ limitReported' = FALSE
      /\ previousRound' = NoRound /\ currentRound' = NoRound
  BY DEF ClearStore
<1> QED
  BY <1>1, <1>2, <1>3 DEF StoreInv, LossAnnounced, WarnedOnce, AbnormalPacketsKept, RecordsFit,
           IdsOnce, WarningRemembered, RingIndexed, RoundsOrdered, HandedOverFit

\* A failure that was stored before an operation and is still stored after it has come
\* from the same place or a later one.
MovedUp ==
    \A k \in 1 .. Len(failureRecords') :
        failureRecords'[k].id \in StoredIds(failureRecords) =>
            \E j \in 1 .. Len(failureRecords) :
                k <= j /\ failureRecords[j] = failureRecords'[k]

LEMMA TakenMovedUp ==
    ASSUME failureRecords \in Seq(FailureRecord), NEW K \in Seq(FailureRecord),
           NEW D \in SUBSET (1 .. Len(failureRecords)), Taken(K, failureRecords, D)
    PROVE  \A k \in 1 .. Len(K) : \E j \in 1 .. Len(failureRecords) :
              k <= j /\ failureRecords[j] = K[k]
<1>1. PICK h \in [1 .. Len(K) -> D] : TakenBy(h, K, failureRecords, D)  BY DEF Taken
<1> QED  BY <1>1 DEF TakenBy

LEMMA OperationMovesUp ==
    ASSUME StoreInv, StoreOperation
    PROVE  MovedUp
<1> DEFINE s == failureRecords
<1>1. SoundRecords(s) /\ s \in Seq(FailureRecord) /\ Len(s) \in Nat
  BY StoreInvParts DEF SoundRecords
<1>2. ASSUME failureRecords' = s PROVE MovedUp  BY <1>1, <1>2 DEF MovedUp
<1>3. ASSUME NEW round \in StoreRounds, BeginStoreRound(round) PROVE MovedUp
 <2> DEFINE D == {k \in 1 .. Len(s) : OfLastRounds(s[k].round)}
 <2>1. failureRecords' = Kept(s, D) /\ D \in SUBSET (1 .. Len(s))  BY <1>3 DEF BeginStoreRound
 <2> HIDE DEF D
 <2>2. Kept(s, D) \in Seq(FailureRecord) /\ Taken(Kept(s, D), s, D)  BY <1>1, <2>1, KeptTaken
 <2> QED  BY <1>1, <2>1, <2>2, TakenMovedUp DEF MovedUp
<1>4. ASSUME NEW id \in EventIds, NEW packet \in {PacketOf(id), NoPacket},
             AppendFailure(id, RoundOf(id), packet)
      PROVE  MovedUp
 <2> DEFINE K == MadeRoom(RoundOf(id))
            new == [id |-> id, round |-> RoundOf(id), packet |-> SharedPacket(packet, K)]
            warning == [id |-> Warning, round |-> currentRound, packet |-> NoPacket]
 <2>1. \/ failureRecords' = Append(K, new)
       \/ failureRecords' = s
       \/ Full(K) /\ failureRecords' = [K EXCEPT ![Len(K)] = warning]
   BY <1>4 DEF AppendFailure, RaiseWarning
 <2>2. id \notin StoredIds(s) /\ Warning \notin StoredIds(s)  BY <1>4 DEF AppendFailure, StoredIds
 <2>3. new.id = id /\ warning.id = Warning  OBVIOUS
 <2> HIDE DEF K, new, warning
 <2>4. PICK D \in SUBSET (1 .. Len(s)) : K \in Seq(FailureRecord) /\ Taken(K, s, D)
   BY <1>1, MadeRoomTaken DEF K
 <2>5. \A k \in 1 .. Len(K) : \E j \in 1 .. Len(s) : k <= j /\ s[j] = K[k]
   BY <1>1, <2>4, TakenMovedUp
 <2>6. CASE failureRecords' = Append(K, new)
  <3>1. /\ Len(failureRecords') = Len(K) + 1 /\ failureRecords'[Len(K) + 1] = new
        /\ \A k \in 1 .. Len(K) : failureRecords'[k] = K[k]
        /\ 1 .. Len(failureRecords') = (1 .. Len(K)) \union {Len(K) + 1}
    BY <2>4, <2>6
  <3> QED  BY <2>2, <2>3, <2>5, <3>1 DEF MovedUp
 <2>7. CASE Full(K) /\ failureRecords' = [K EXCEPT ![Len(K)] = warning]
  <3>1. /\ Len(failureRecords') = Len(K) /\ failureRecords'[Len(K)] = warning
        /\ \A k \in 1 .. Len(K) : k # Len(K) => failureRecords'[k] = K[k]
    BY <2>4, <2>7, StoreLimits DEF Full
  <3> QED  BY <2>2, <2>3, <2>5, <3>1 DEF MovedUp
 <2> QED  BY <1>2, <2>1, <2>6, <2>7
<1>5. ASSUME NEW id \in EventIds, UpdateFailure(id, RoundOf(id)) PROVE MovedUp
  BY <1>2, <1>5, UpdateKeeps
<1>6. ASSUME ClearStore PROVE MovedUp
 <2>1. Len(failureRecords') = 0  BY <1>6 DEF ClearStore
 <2> QED  BY <2>1 DEF MovedUp
<1>7. ASSUME NEW round \in StoreRounds, AppendGroup(round) PROVE MovedUp
  BY <1>2, <1>7 DEF AppendGroup
<1>8. ASSUME NEW id \in EventIds, AppendPacket(PacketOf(id)) PROVE MovedUp
  BY <1>2, <1>8 DEF AppendPacket
<1> QED  BY <1>3, <1>4, <1>5, <1>6, <1>7, <1>8 DEF StoreOperation

\* The packet of a failure is handed out at the failure's place or before.
LEMMA PacketsInOrder ==
    ASSUME RecordTypeOK
    PROVE  /\ AbnormalPackets \in Seq(EventIds)
           /\ \A k \in 1 .. Len(failureRecords) :
                 failureRecords[k].packet # NoPacket =>
                     \E p \in 1 .. Len(AbnormalPackets) :
                         p <= k /\ AbnormalPackets[p] = failureRecords[k].packet
<1> DEFINE F == Failures
           N == Len(failureRecords)
           D == {k \in 1 .. Len(F) : F[k] # NoPacket /\ \A m \in 1 .. k - 1 : F[m] # F[k]}
           K == AbnormalPackets
<1>1. F \in Seq(EventIds \union {NoPacket}) /\ Len(F) = N /\ N \in Nat
 <2>1. failureRecords \in Seq(FailureRecord)  BY DEF RecordTypeOK
 <2>3. \A k \in 1 .. N : failureRecords[k] \in FailureRecord  BY <2>1
 <2>4. \A f \in FailureRecord : f.packet \in EventIds \union {NoPacket}  BY DEF FailureRecord
 <2>2. \A k \in 1 .. N : failureRecords[k].packet \in EventIds \union {NoPacket}  BY <2>3, <2>4
 <2> QED  BY <2>1, <2>2 DEF Failures
<1>2. K = Kept(F, D)  BY DEF AbnormalPackets
<1>3. D \in SUBSET (1 .. Len(F))  OBVIOUS
<1>8. /\ \A k \in D : F[k] # NoPacket
      /\ \A k \in 1 .. N : F[k] # NoPacket /\ (\A m \in 1 .. k - 1 : F[m] # F[k]) => k \in D
  BY <1>1
<1>9. \A k \in 1 .. N : F[k] = failureRecords[k].packet  BY DEF Failures
<1> HIDE DEF D, F, K
<1>4. /\ K \in Seq(EventIds \union {NoPacket}) /\ Len(K) \in Nat
      /\ Taken(K, F, D)
  BY <1>1, <1>2, <1>3, KeptTaken
<1>5. PICK h \in [1 .. Len(K) -> D] : TakenBy(h, K, F, D)  BY <1>4 DEF Taken
<1>6. K \in Seq(EventIds)
 <2>1. \A p \in 1 .. Len(K) : K[p] \in EventIds  BY <1>4, <1>5, <1>8 DEF TakenBy
 <2> QED  BY <1>4, <2>1
<1>7. ASSUME NEW k \in 1 .. N, F[k] # NoPacket
      PROVE  \E p \in 1 .. Len(K) : p <= k /\ K[p] = F[k]
 <2> DEFINE S == {m \in 1 .. N : F[m] = F[k]}
 <2>1. S \in SUBSET Nat /\ S # {}  BY <1>1, <1>7
 <2>2. PICK m \in S : \A j \in S : m <= j  BY <2>1, LeastNat
 <2>3. m \in 1 .. N /\ m <= k /\ F[m] = F[k]  BY <2>2
 <2>4. \A j \in 1 .. m - 1 : F[j] # F[m]  BY <1>1, <2>2, <2>3
 <2>5. m \in D  BY <1>7, <1>8, <2>3, <2>4
 <2>6. PICK p \in 1 .. Len(K) : h[p] = m  BY <1>5, <2>5 DEF TakenBy
 <2>7. K[p] = F[m] /\ p <= m  BY <1>5, <2>6 DEF TakenBy
 <2> QED  BY <1>4, <2>3, <2>7
<1> QED  BY <1>6, <1>7, <1>9 DEF K

\* What is true between the two readings of a snapshot.
PacketsFit ==
    readFirst = "packets" =>
        /\ readList \in Seq(EventIds)
        /\ \A k \in 1 .. Len(failureRecords) :
              failureRecords[k].packet # NoPacket /\ failureRecords[k].id \in stayed =>
                  \E p \in 1 .. Len(readList) :
                      /\ readList[p] = failureRecords[k].packet
                      /\ failureRecords[k].id \in unmoved => p <= k

FailuresFit ==
    readFirst = "failures" =>
        /\ readList \in Seq(FailureRecord)
        /\ \A k \in 1 .. Len(readList) :
              readList[k].packet # NoPacket /\ readList[k].id \in stayed =>
                  \E j \in 1 .. Len(failureRecords) :
                      j <= k /\ failureRecords[j] = readList[k]

SnapshotInv ==
    /\ readFirst \in {"none", "packets", "failures"}
    /\ readFirst = "none" => readList = <<>>
    /\ stayed \subseteq StoredIds(failureRecords) /\ unmoved \subseteq EventIds
    /\ PacketsFit /\ FailuresFit

LEMMA StoredInEvents ==
    ASSUME RecordTypeOK
    PROVE  StoredIds(failureRecords) \subseteq EventIds
<1>1. \A k \in 1 .. Len(failureRecords) : failureRecords[k] \in FailureRecord  BY DEF RecordTypeOK
<1> QED  BY <1>1 DEF StoredIds, FailureRecord

LEMMA SnapshotOperationOK ==
    ASSUME StoreInv, SnapshotInv, StoreOperation, Witnessed, StoreInv'
    PROVE  SnapshotInv'
<1> DEFINE s == failureRecords
           R == failureRecords'
<1>1. MovedUp  BY OperationMovesUp
<1>2. /\ readFirst' = readFirst /\ readList' = readList
      /\ stayed' = stayed \intersect StoredIds(R) /\ unmoved' \subseteq unmoved
      /\ \A id \in unmoved' : \E k \in DOMAIN s \intersect DOMAIN R : s[k].id = id /\ R[k].id = id
  BY DEF Witnessed
<1>3. /\ s \in Seq(FailureRecord) /\ R \in Seq(FailureRecord)
      /\ \A k \in 1 .. Len(s) : s[k] \in FailureRecord
  BY DEF StoreInv, RecordTypeOK
<1>4. /\ \A j, k \in 1 .. Len(s) : s[j].id = s[k].id /\ s[j].id # Warning => j = k
      /\ \A j, k \in 1 .. Len(R) : R[j].id = R[k].id /\ R[j].id # Warning => j = k
  BY DEF StoreInv, IdsOnce
<1>5. \A id \in stayed : id # Warning /\ id \in StoredIds(s)  BY DEF SnapshotInv, StoredIds
<1>6. DOMAIN s = 1 .. Len(s) /\ DOMAIN R = 1 .. Len(R) /\ Len(s) \in Nat /\ Len(R) \in Nat  BY <1>3
<1>7. PacketsFit'
 <2> SUFFICES ASSUME readFirst = "packets",
                     NEW k \in 1 .. Len(R), R[k].packet # NoPacket, R[k].id \in stayed'
              PROVE  \E p \in 1 .. Len(readList) :
                         readList[p] = R[k].packet /\ (R[k].id \in unmoved' => p <= k)
   BY <1>2 DEF SnapshotInv, PacketsFit
 <2>1. R[k].id \in stayed /\ R[k].id \in StoredIds(s) /\ R[k].id # Warning  BY <1>2, <1>5
 <2>2. PICK j \in 1 .. Len(s) : k <= j /\ s[j] = R[k]  BY <1>1, <2>1 DEF MovedUp
 <2>3. PICK p \in 1 .. Len(readList) :
         readList[p] = s[j].packet /\ (s[j].id \in unmoved => p <= j)
   BY <2>1, <2>2 DEF SnapshotInv, PacketsFit
 <2>4. ASSUME R[k].id \in unmoved' PROVE p <= k
  <3>1. PICK i \in 1 .. Len(s) : i \in 1 .. Len(R) /\ s[i].id = R[k].id /\ R[i].id = R[k].id
    BY <1>2, <1>6, <2>4
  <3>2. i = k /\ i = j  BY <1>4, <2>1, <2>2, <3>1
  <3> QED  BY <1>2, <2>2, <2>3, <2>4, <3>2
 <2> QED  BY <2>2, <2>3, <2>4
<1>8. FailuresFit'
 <2> SUFFICES ASSUME readFirst = "failures",
                     NEW k \in 1 .. Len(readList), readList[k].packet # NoPacket,
                     readList[k].id \in stayed'
              PROVE  \E j \in 1 .. Len(R) : j <= k /\ R[j] = readList[k]
   BY <1>2 DEF SnapshotInv, FailuresFit
 <2>1. readList[k].id \in stayed /\ readList[k].id \in StoredIds(s) /\ readList[k].id # Warning
   BY <1>2, <1>5
 <2>2. PICK j \in 1 .. Len(s) : j <= k /\ s[j] = readList[k]  BY <2>1 DEF SnapshotInv, FailuresFit
 <2>3. PICK i \in 1 .. Len(R) : R[i].id = readList[k].id  BY <1>2 DEF StoredIds
 <2>4. PICK m \in 1 .. Len(s) : i <= m /\ s[m] = R[i]  BY <1>1, <2>1, <2>3 DEF MovedUp
 <2>5. m = j  BY <1>4, <2>1, <2>2, <2>3, <2>4
 <2>6. i <= k  BY <1>6, <2>2, <2>4, <2>5
 <2> QED  BY <2>2, <2>4, <2>5, <2>6
<1> QED  BY <1>2, <1>7, <1>8 DEF SnapshotInv

LEMMA ReadOK ==
    ASSUME StoreInv, SnapshotInv, UNCHANGED recordVars,
           ReadPacketsFirst \/ ReadFailuresFirst \/ FinishSnapshot
    PROVE  SnapshotInv'
<1>1. /\ failureRecords' = failureRecords /\ RecordTypeOK
      /\ failureRecords \in Seq(FailureRecord) /\ StoredIds(failureRecords) \subseteq EventIds
  BY StoredInEvents DEF recordVars, StoreInv, RecordTypeOK
<1>2. CASE ReadPacketsFirst
 <2>1. PacketsFit'  BY <1>1, <1>2, PacketsInOrder DEF PacketsFit, ReadPacketsFirst
 <2> QED  BY <1>1, <1>2, <2>1 DEF SnapshotInv, FailuresFit, ReadPacketsFirst
<1>3. CASE ReadFailuresFirst
 <2>1. FailuresFit'  BY <1>1, <1>3 DEF FailuresFit, ReadFailuresFirst
 <2> QED  BY <1>1, <1>3, <2>1 DEF SnapshotInv, PacketsFit, ReadFailuresFirst
<1>4. CASE FinishSnapshot
  BY <1>1, <1>4 DEF SnapshotInv, PacketsFit, FailuresFit, FinishSnapshot
<1> QED  BY <1>2, <1>3, <1>4

\* What a snapshot hands out comes no later than the failure it belongs to.
LEMMA SnapshotFits ==
    ASSUME StoreInv, SnapshotInv
    PROVE  SnapshotInOrder
<1>1. /\ RecordTypeOK /\ Len(failureRecords) \in Nat
      /\ AbnormalPackets \in Seq(EventIds) /\ Len(AbnormalPackets) \in Nat
  BY PacketsInOrder DEF StoreInv, RecordTypeOK
<1>2. ASSUME NEW p \in Nat, NEW k \in Nat, 1 <= p, p <= k PROVE BatchOf(p) <= BatchOf(k)
 <2>1. (p - 1) \div SnapshotBatch <= (k - 1) \div SnapshotBatch  BY <1>2, StoreLimits
 <2> QED  BY <1>2, <2>1, StoreLimits DEF BatchOf
<1>3. CASE readFirst = "packets"
 <2>1. HandedFailures = failureRecords /\ HandedPackets = readList /\ Len(readList) \in Nat
   BY <1>3 DEF HandedFailures, HandedPackets, SnapshotInv, PacketsFit
 <2> SUFFICES ASSUME NEW k \in 1 .. Len(failureRecords), failureRecords[k].packet # NoPacket,
                     failureRecords[k].id \in stayed
              PROVE  \E p \in 1 .. Len(readList) :
                        /\ readList[p] = failureRecords[k].packet
                        /\ failureRecords[k].id \in unmoved => BatchOf(p) <= BatchOf(k)
   BY <1>3, <2>1 DEF SnapshotInOrder
 <2>2. PICK p \in 1 .. Len(readList) :
         /\ readList[p] = failureRecords[k].packet
         /\ failureRecords[k].id \in unmoved => p <= k
   BY <1>3 DEF SnapshotInv, PacketsFit
 <2>3. p \in Nat /\ 1 <= p /\ k \in Nat  BY <1>1, <2>1
 <2> QED  BY <1>2, <2>2, <2>3
<1>4. CASE readFirst = "failures"
 <2>1. HandedFailures = readList /\ HandedPackets = AbnormalPackets /\ Len(readList) \in Nat
   BY <1>4 DEF HandedFailures, HandedPackets, SnapshotInv, FailuresFit
 <2> SUFFICES ASSUME NEW k \in 1 .. Len(readList), readList[k].packet # NoPacket,
                     readList[k].id \in stayed
              PROVE  \E p \in 1 .. Len(AbnormalPackets) :
                        AbnormalPackets[p] = readList[k].packet /\ BatchOf(p) <= BatchOf(k)
   BY <1>4, <2>1 DEF SnapshotInOrder
 <2>2. PICK j \in 1 .. Len(failureRecords) : j <= k /\ failureRecords[j] = readList[k]
   BY <1>4 DEF SnapshotInv, FailuresFit
 <2>3. PICK p \in 1 .. Len(AbnormalPackets) :
         p <= j /\ AbnormalPackets[p] = failureRecords[j].packet
   BY <1>1, <2>2, PacketsInOrder
 <2>4. p \in Nat /\ 1 <= p /\ k \in Nat /\ p <= k  BY <1>1, <2>1, <2>2, <2>3
 <2> QED  BY <1>2, <2>2, <2>3, <2>4
<1> QED  BY <1>3, <1>4 DEF SnapshotInv, SnapshotInOrder

LEMMA StoreStepOK ==
    StoreInv /\ SnapshotInv /\ [StoreNext]_storeVars => StoreInv' /\ SnapshotInv'
<1> SUFFICES ASSUME StoreInv, SnapshotInv, [StoreNext]_storeVars
             PROVE  StoreInv' /\ SnapshotInv'
  OBVIOUS
<1>1. ASSUME NEW round \in StoreRounds, BeginStoreRound(round) PROVE StoreInv'
  BY <1>1, BeginStoreRoundOK
<1>2. ASSUME NEW round \in StoreRounds, AppendGroup(round) PROVE StoreInv'  BY <1>2, AppendGroupOK
<1>3. ASSUME NEW id \in EventIds, AppendPacket(PacketOf(id)) PROVE StoreInv'
  BY <1>3, AppendPacketOK, StoreInputs
<1>4. ASSUME NEW id \in EventIds, UpdateFailure(id, RoundOf(id)) PROVE StoreInv'
  BY <1>4, UpdateFailureOK
<1>5. ASSUME NEW id \in EventIds, NEW packet \in {PacketOf(id), NoPacket},
             AppendFailure(id, RoundOf(id), packet)
      PROVE  StoreInv'
  BY <1>5, AppendFailureOK, StoreInputs
<1>6. CASE StoreOperation /\ Witnessed
 <2>1. StoreInv'  BY <1>1, <1>2, <1>3, <1>4, <1>5, <1>6, ClearStoreOK DEF StoreOperation
 <2> QED  BY <1>6, <2>1, SnapshotOperationOK
<1>7. ASSUME UNCHANGED recordVars PROVE StoreInv'
  BY <1>7 DEF StoreInv, RecordTypeOK, LossAnnounced, WarnedOnce, AbnormalPacketsKept, RecordsFit,
     IdsOnce, WarningRemembered, RingIndexed, RoundsOrdered, HandedOverFit, recordVars
<1>8. CASE (ReadPacketsFirst \/ ReadFailuresFirst \/ FinishSnapshot) /\ UNCHANGED recordVars
  BY <1>7, <1>8, ReadOK
<1>9. CASE UNCHANGED storeVars
 <2>1. UNCHANGED recordVars /\ UNCHANGED <<readFirst, readList, stayed, unmoved>>
   BY <1>9 DEF storeVars
 <2>2. failureRecords' = failureRecords  BY <2>1 DEF recordVars
 <2> QED  BY <1>7, <2>1, <2>2 DEF SnapshotInv, PacketsFit, FailuresFit
<1> QED  BY <1>6, <1>8, <1>9 DEF StoreNext

\* A store of any size, asked in any order and changed between the two readings of a
\* snapshot, announces what it loses, keeps what is abnormal and hands out the packet
\* of a failure that stays in the failure's batch or before.
THEOREM StoreSafeHolds == StoreSpec => []StoreSafe
<1>1. StoreInit => StoreInv /\ SnapshotInv
  BY EmptyStoreOK DEF StoreInit, SnapshotInv, PacketsFit, FailuresFit
<1>2. StoreInv /\ SnapshotInv => StoreSafe
 <2> SUFFICES ASSUME StoreInv, SnapshotInv PROVE StoreSafe  OBVIOUS
 <2>1. stayed \subseteq EventIds  BY StoredInEvents DEF StoreInv, SnapshotInv
 <2>2. StoreTypeOK  BY <2>1 DEF StoreTypeOK, StoreInv, SnapshotInv, PacketsFit, FailuresFit
 <2> QED  BY <2>2, SnapshotFits DEF StoreInv, StoreSafe
<1> QED  BY <1>1, <1>2, StoreStepOK, PTL DEF StoreSpec

-----------------------------------------------------------------------------
(* MonitorBroadcast.  What the sequence operations do to the queue.        *)

LEMMA EmptyQueue == <<>> \in Seq(Kinds) /\ Len(<<>>) = 0
  BY EmptySeq

\* A failure that takes the place of a packet leaves the length as it was.
LEMMA EvictKeepsLength ==
    ASSUME events \in Seq(Kinds), NEW k \in FirstPackets
    PROVE  /\ Append(Without(k), "failure") \in Seq(Kinds)
           /\ Len(Append(Without(k), "failure")) = Len(events)
<1>1. k \in 1 .. Len(events) /\ Len(events) \in Nat
  BY DEF FirstPackets
<1>2. /\ SubSeq(events, 1, k - 1) \in Seq(Kinds)
      /\ Len(SubSeq(events, 1, k - 1)) = k - 1
  BY <1>1, SubSeqProperties
<1>3. /\ SubSeq(events, k + 1, Len(events)) \in Seq(Kinds)
      /\ Len(SubSeq(events, k + 1, Len(events))) = Len(events) - k
  BY <1>1, SubSeqProperties
<1>4. Without(k) \in Seq(Kinds) /\ Len(Without(k)) = Len(events) - 1
 <2> DEFINE before == SubSeq(events, 1, k - 1)
            after  == SubSeq(events, k + 1, Len(events))
 <2>1. before \in Seq(Kinds) /\ after \in Seq(Kinds)  BY <1>2, <1>3
 <2>2. Len(before) = k - 1 /\ Len(after) = Len(events) - k  BY <1>2, <1>3
 <2>3. Without(k) = before \o after  BY DEF Without
 <2> HIDE DEF before, after
 <2>4. before \o after \in Seq(Kinds) /\ Len(before \o after) = Len(before) + Len(after)
  BY <2>1, ConcatProperties
 <2> QED  BY <1>1, <2>2, <2>3, <2>4
<1>5. "failure" \in Kinds
  BY DEF Kinds
<1> QED
  BY <1>1, <1>4, <1>5, AppendProperties

\* The length of what a step of the queue leaves behind.
LEMMA EnqueueLength ==
    ASSUME TypeOK, NEW kind \in Kinds, EnqueueObservation(kind)
    PROVE  /\ events' \in Seq(Kinds) /\ Len(events') <= EventLimit
           /\ droppedCount' \in Nat
           /\ Len(events') + droppedCount' = Len(events) + droppedCount + 1
           /\ events # <<>> => events' # <<>>
<1> USE DEF TypeOK
<1>0. Len(events) \in Nat /\ EventLimit \in Nat
  BY BroadcastParameters
<1>1. CASE EventRoom /\ events' = Append(events, kind) /\ UNCHANGED droppedCount
  BY <1>0, <1>1, AppendProperties, EmptySeq DEF EventRoom
<1>2. CASE ~EventRoom /\ kind = "failure" /\ Evict
 <2>1. PICK k \in FirstPackets : events' = Append(Without(k), "failure")  BY <1>2 DEF Evict
 <2>2. events' \in Seq(Kinds) /\ Len(events') = Len(events)  BY <2>1, EvictKeepsLength
 <2>3. droppedCount' = droppedCount + 1  BY <1>2 DEF Evict
 <2> QED BY <1>0, <2>2, <2>3, EmptySeq
<1>3. CASE ~EventRoom /\ droppedCount' = droppedCount + 1 /\ UNCHANGED events
  BY <1>0, <1>3
<1> QED
  BY <1>1, <1>2, <1>3 DEF EnqueueObservation

\* The sizes before and after a batch has been taken.
LEMMA BatchSizes ==
    ASSUME TypeOK, TakeBatch
    PROVE  /\ metrics' \in 0 .. MetricLimit /\ taken' \in Nat
           /\ metrics' + taken' = metrics + taken
  BY BroadcastParameters DEF TypeOK, TakeBatch

\* Giving the turn away is a Boolean matter.
LEMMA AlternateType == prefer \in BOOLEAN /\ Alternate => prefer' \in BOOLEAN
  BY Zenon DEF Alternate

\* The types after a batch.
LEMMA BatchType ==
    ASSUME TypeOK, TakeBatch, prefer' \in BOOLEAN
    PROVE  TypeOK'
  BY BatchSizes DEF TypeOK, TakeBatch

-----------------------------------------------------------------------------
(* The inductive invariant.                                                *)

\* A class that was overtaken is not empty and has the next turn; the thread
\* waits for a batch, or has ended, only while nothing else was kept waiting.
Turns ==
    /\ batchesWaited \in {0, 1} /\ eventsWaited \in {0, 1}
    /\ batchesWaited = 1 => HasEvents /\ ~prefer
    /\ eventsWaited = 1 => HasMetrics /\ (bpc = "batchWait" \/ prefer)
    /\ bpc = "batchWait" => batchesWaited = 0
    /\ bpc = "none" => batchesWaited = 0 /\ eventsWaited = 0

Inv == TypeOK /\ EverythingAccounted /\ Turns

LEMMA InvInit == Init => Inv
<1> SUFFICES ASSUME Init PROVE Inv
  OBVIOUS
<1>1. TypeOK
 <2>1. running \in BOOLEAN /\ prefer \in BOOLEAN  BY Zenon DEF Init
 <2>2. events \in Seq(Kinds) /\ Len(events) <= EventLimit
  BY BroadcastParameters, EmptyQueue DEF Init
 <2>3. metrics \in 0 .. MetricLimit /\ droppedCount \in Nat  BY BroadcastParameters DEF Init
 <2>4. /\ bpc \in {"none", "take", "batchWait", "send", "terminated"}
       /\ spc \in {"idle", "clear", "join", "clients"}
       /\ starts \in Nat /\ produced \in Nat /\ taken \in Nat /\ cleared \in Nat
       /\ batchesWaited \in Nat /\ eventsWaited \in Nat
  BY DEF Init
 <2> QED  BY <2>1, <2>2, <2>3, <2>4 DEF TypeOK
<1>2. EverythingAccounted
  BY EmptyQueue DEF Init, EverythingAccounted
<1>3. Turns
  BY DEF Init, Turns
<1> QED
  BY <1>1, <1>2, <1>3 DEF Inv

LEMMA TypeNext == TypeOK /\ [Next]_vars => TypeOK'
<1> SUFFICES ASSUME TypeOK, [Next]_vars PROVE TypeOK'
  OBVIOUS
<1>0. MetricLimit \in Nat \ {0} /\ BatchSize \in Nat \ {0} /\ EventLimit \in Nat \ {0}
  BY BroadcastParameters
<1>1. ASSUME NEW kind \in Kinds, EnqueueObservation(kind) PROVE TypeOK'
  BY <1>1, EnqueueLength DEF TypeOK, EnqueueObservation, Produce
<1>2. CASE EnqueueMetric
  BY <1>0, <1>2 DEF TypeOK, EnqueueMetric, Produce
<1>3. CASE EndBroadcast \/ AwaitBatch \/ SendMessage
  BY <1>3 DEF TypeOK, EndBroadcast, AwaitBatch, SendMessage
<1>4. CASE TakeEvent
 <2>1. events # <<>>  BY <1>4 DEF TakeEvent, HasEvents
 <2>2. Tail(events) \in Seq(Kinds) /\ Len(Tail(events)) = Len(events) - 1
  BY <2>1, HeadTailProperties DEF TypeOK
 <2>3. events' \in Seq(Kinds) /\ Len(events') <= EventLimit
  BY <1>0, <1>4, <2>2 DEF TypeOK, TakeEvent
 <2>4. prefer' \in BOOLEAN  BY <1>4, AlternateType DEF TakeEvent, TypeOK
 <2>5. /\ taken' \in Nat /\ batchesWaited' \in Nat /\ eventsWaited' \in Nat
       /\ bpc' = "send"
       /\ UNCHANGED <<running, metrics, droppedCount, spc, starts, produced, cleared>>
  BY <1>4 DEF TakeEvent, TypeOK
 <2> QED  BY <2>3, <2>4, <2>5 DEF TypeOK
<1>5. CASE TakeBatchAtOnce  BY <1>5, AlternateType, BatchType DEF TakeBatchAtOnce, TypeOK
<1>6. CASE EndBatchWait  BY <1>6, BatchType DEF EndBatchWait, TypeOK
<1>7. CASE StartServer
 <2>1. running' \in BOOLEAN /\ prefer' \in BOOLEAN  BY <1>7, Zenon DEF TypeOK, StartServer
 <2>2. /\ bpc' \in {"none", "take", "batchWait", "send", "terminated"}
       /\ spc' \in {"idle", "clear", "join", "clients"}
       /\ starts' \in Nat
       /\ UNCHANGED <<events, metrics, droppedCount, produced, taken, cleared,
                      batchesWaited, eventsWaited>>
  BY <1>7 DEF TypeOK, StartServer
 <2> QED  BY <2>1, <2>2 DEF TypeOK
<1>8. CASE BeginStop \/ JoinBroadcast
  BY <1>8 DEF TypeOK, BeginStop, JoinBroadcast
<1>9. CASE ClearForStop \/ EndStop
 <2>0. events' = <<>> /\ metrics' = 0  BY <1>9 DEF ClearForStop, EndStop, ClearQueues
 <2>1. events' \in Seq(Kinds) /\ Len(events') <= EventLimit /\ metrics' \in 0 .. MetricLimit
  BY <1>0, <2>0, EmptyQueue
 <2>2. Len(events) \in Nat  BY DEF TypeOK
 <2>3. /\ cleared' \in Nat /\ batchesWaited' \in Nat /\ eventsWaited' \in Nat
       /\ spc' \in {"idle", "clear", "join", "clients"}
       /\ UNCHANGED <<running, droppedCount, prefer, bpc, starts, produced, taken>>
  BY <1>0, <1>9, <2>2 DEF TypeOK, ClearForStop, EndStop, ClearQueues
 <2> QED  BY <2>1, <2>3 DEF TypeOK
<1>10. CASE UNCHANGED vars
  BY <1>10 DEF TypeOK, vars
<1> QED
  BY <1>1, <1>2, <1>3, <1>4, <1>5, <1>6, <1>7, <1>8, <1>9, <1>10
     DEF Next, Producer, Broadcast, Stopping

LEMMA AccountedNext ==
    TypeOK /\ TypeOK' /\ EverythingAccounted /\ [Next]_vars => EverythingAccounted'
<1> SUFFICES ASSUME TypeOK, TypeOK', EverythingAccounted, [Next]_vars
             PROVE  EverythingAccounted'
  OBVIOUS
<1>0. /\ Len(events) \in Nat /\ metrics \in Nat /\ taken \in Nat /\ cleared \in Nat
      /\ droppedCount \in Nat /\ produced \in Nat
      /\ Len(events') \in Nat /\ metrics' \in Nat /\ taken' \in Nat
      /\ cleared' \in Nat /\ droppedCount' \in Nat /\ produced' \in Nat
  BY BroadcastParameters DEF TypeOK
<1> USE <1>0 DEF EverythingAccounted
<1>1. ASSUME NEW kind \in Kinds, EnqueueObservation(kind) PROVE EverythingAccounted'
  BY <1>1, EnqueueLength DEF EnqueueObservation, Produce
<1>2. CASE EnqueueMetric
  BY <1>2 DEF EnqueueMetric, Produce
<1>3. CASE EndBroadcast \/ AwaitBatch \/ SendMessage
  BY <1>3 DEF EndBroadcast, AwaitBatch, SendMessage
<1>4. CASE TakeEvent  BY <1>4, HeadTailProperties DEF TakeEvent, HasEvents, TypeOK
<1>5. CASE TakeBatchAtOnce \/ EndBatchWait
 <2>1. metrics' + taken' = metrics + taken  BY <1>5, BatchSizes DEF TakeBatchAtOnce, EndBatchWait
 <2>2. /\ Len(events') = Len(events) /\ droppedCount' = droppedCount
       /\ produced' = produced /\ cleared' = cleared
  BY <1>5 DEF TakeBatchAtOnce, EndBatchWait, TakeBatch
 <2>3. produced = Len(events) + (metrics + taken) + cleared + droppedCount  OBVIOUS
 <2>4. produced' = Len(events') + (metrics' + taken') + cleared' + droppedCount'
  BY <2>1, <2>2, <2>3
 <2> QED  BY <2>4
<1>7. CASE StartServer
  BY <1>7 DEF StartServer
<1>8. CASE BeginStop \/ JoinBroadcast
  BY <1>8 DEF BeginStop, JoinBroadcast
<1>9. CASE ClearForStop \/ EndStop
  BY <1>9, EmptyQueue DEF ClearForStop, EndStop, ClearQueues
<1>10. CASE UNCHANGED vars
  BY <1>10 DEF vars
<1> QED
  BY <1>1, <1>2, <1>3, <1>4, <1>5, <1>7, <1>8, <1>9, <1>10
     DEF Next, Producer, Broadcast, Stopping

LEMMA TurnsNext == TypeOK /\ Turns /\ [Next]_vars => Turns'
<1> SUFFICES ASSUME TypeOK, Turns, [Next]_vars PROVE Turns'
  OBVIOUS
<1> USE DEF Turns, HasEvents, HasMetrics
<1>0. metrics \in Nat
  BY BroadcastParameters DEF TypeOK
<1>1. ASSUME NEW kind \in Kinds, EnqueueObservation(kind) PROVE Turns'
  BY <1>1, EnqueueLength DEF EnqueueObservation
<1>2. CASE EnqueueMetric
  BY <1>0, <1>2 DEF EnqueueMetric
<1>3. CASE EndBroadcast \/ AwaitBatch \/ SendMessage
  BY <1>3 DEF EndBroadcast, AwaitBatch, SendMessage, SendsBatch, BatchAtOnce
<1>4. CASE TakeEvent
 <2>1. HasMetrics => ~prefer /\ prefer'  BY <1>4, Zenon DEF TakeEvent, Alternate, SendsBatch
 <2>2. /\ bpc = "take" /\ bpc' = "send" /\ metrics' = metrics
       /\ batchesWaited' = 0
       /\ eventsWaited' = IF HasMetrics THEN eventsWaited + 1 ELSE 0
  BY <1>4 DEF TakeEvent
 <2>3. HasMetrics => eventsWaited = 0  BY <2>1, <2>2
 <2>4. HasMetrics => eventsWaited' = 1 /\ HasMetrics' /\ prefer'  BY <2>1, <2>2, <2>3
 <2> QED  BY <2>2, <2>4
<1>5. CASE TakeBatchAtOnce
 <2>1. HasEvents => prefer /\ ~prefer'  BY <1>5, Zenon DEF TakeBatchAtOnce, Alternate, SendsBatch
 <2>2. /\ bpc' \in {"send", "terminated"} /\ events' = events
       /\ batchesWaited' = IF HasEvents THEN batchesWaited + 1 ELSE 0
       /\ eventsWaited' = 0
  BY <1>5 DEF TakeBatchAtOnce, TakeBatch
 <2>3. HasEvents => batchesWaited = 0  BY <2>1
 <2>4. HasEvents => batchesWaited' = 1 /\ HasEvents' /\ ~prefer'  BY <2>1, <2>2, <2>3
 <2> QED  BY <2>2, <2>4
<1>6. CASE EndBatchWait
  BY <1>6 DEF EndBatchWait, TakeBatch, TypeOK
<1>7. CASE StartServer
  BY <1>7 DEF StartServer, ClearQueues
<1>8. CASE BeginStop \/ JoinBroadcast
  BY <1>8 DEF BeginStop, JoinBroadcast
<1>9. CASE ClearForStop \/ EndStop
  BY <1>9 DEF ClearForStop, EndStop, ClearQueues
<1>10. CASE UNCHANGED vars
  BY <1>10 DEF vars
<1> QED
  BY <1>1, <1>2, <1>3, <1>4, <1>5, <1>6, <1>7, <1>8, <1>9, <1>10
     DEF Next, Producer, Broadcast, Stopping

-----------------------------------------------------------------------------
(* The theorems.                                                           *)

LEMMA InvAlways == Spec => []Inv
<1>1. Inv /\ [Next]_vars => Inv'
  BY TypeNext, AccountedNext, TurnsNext DEF Inv
<1> QED
  BY InvInit, <1>1, PTL DEF Spec

\* enqueueMonitorObservation and enqueueMonitorMetric keep both queues within
\* their limits, evictions included.
THEOREM QueuesBounded == Spec => []TypeOK
  BY InvAlways, PTL DEF Inv

\* m_nDroppedMonitorEventCount: the counter and the queues account for every
\* record that a runtime has handed over.
THEOREM NothingLostSilently == Spec => []EverythingAccounted
  BY InvAlways, PTL DEF Inv

\* bPreferMetricBatch does what its comment promises for every batch size and
\* every timing of the 25 ms wait.
THEOREM NeitherStarves == Spec => []BoundedOvertaking
<1>1. Inv => BoundedOvertaking
  BY DEF Inv, Turns, BoundedOvertaking
<1> QED
  BY InvAlways, <1>1, PTL

\* The three together: what the run checks for one size of the queues holds for
\* every size, every batch and any number of starts and stops.
THEOREM BroadcastSafeHolds == Spec => []BroadcastSafe
  BY QueuesBounded, NothingLostSilently, NeitherStarves, PTL DEF BroadcastSafe

-----------------------------------------------------------------------------
(* The frames of a stream (FrameStream).  The bytes of the first frames are  *)
(* a fold over the stream, what a call decodes one over the rest of it: both *)
(* are described place by place before the invariant is shown.              *)

\* The equation of the fold that BytesUpTo is.
IsLengthOf(f, s) ==
    f = [t \in SUBSET DOMAIN s |->
            IF t = {} THEN 0 ELSE f[t \ {Max(t)}] + BytesOf(s[Max(t)])]

LengthUpTo(s) == CHOOSE f : IsLengthOf(f, s)

LEMMA LengthIsFold ==
    ASSUME NEW s
    PROVE  FoldLeft(LAMBDA n, frame : n + BytesOf(frame), 0, s) = LengthUpTo(s)[DOMAIN s]
  BY DEF LengthUpTo, FoldLeft, MapThenFoldSet, IsLengthOf

LEMMA FrameBytes ==
    ASSUME NEW frame \in StreamFrame
    PROVE  /\ frame.length \in Nat /\ frame.length <= MaxFrame + 1
           /\ BytesOf(frame) \in Nat /\ BytesOf(frame) = Prefix + frame.length
           /\ BytesOf(frame) > 0
  BY StreamParameters DEF StreamFrame, BytesOf

\* The fold, a frame at a time.
LEMMA LengthEquation ==
    ASSUME NEW s \in Seq(StreamFrame)
    PROVE  /\ LengthUpTo(s)[{}] = 0
           /\ \A n \in 1 .. Len(s) :
                 LengthUpTo(s)[1 .. n] = LengthUpTo(s)[1 .. (n - 1)] + BytesOf(s[n])
<1> DEFINE N == Len(s)
           step == [k \in 1 .. N |-> [r \in Nat |-> r + BytesOf(s[k])]]
           pick == [t \in SUBSET (1 .. N) |-> Max(t)]
<1>1. N \in Nat /\ DOMAIN s = 1 .. N /\ \A k \in 1 .. N : s[k] \in StreamFrame  OBVIOUS
<1>2. \A k \in 1 .. N : BytesOf(s[k]) \in Nat  BY <1>1, FrameBytes
<1>3. \A t \in SUBSET (1 .. N) : t # {} => pick[t] = Max(t) /\ Max(t) \in t  BY <1>1, MaxIsLast
<1>4. /\ step \in [1 .. N -> [Nat -> Nat]]
      /\ \A k \in 1 .. N, r \in Nat : step[k][r] = r + BytesOf(s[k])
 <2>1. \A k \in 1 .. N, r \in Nat : r + BytesOf(s[k]) \in Nat  BY <1>2
 <2> HIDE DEF N
 <2> QED  BY <2>1
<1>5. IsFiniteSet(1 .. N)  BY <1>1, FS_Interval
<1> HIDE DEF step, pick
<1>6. FoldInput(1 .. N, Nat, 0, step, pick)
 <2>1. \A t \in SUBSET (1 .. N) : t # {} => pick[t] \in t  BY <1>3, Zenon
 <2>2. 0 \in Nat  OBVIOUS
 <2> HIDE DEF N
 <2> QED  BY <1>4, <1>5, <2>1, <2>2, Zenon DEF FoldInput
<1>7. PICK f \in [SUBSET (1 .. N) -> Nat] : IsFold(f, 0, step, pick, 1 .. N)  BY <1>6, FoldExists
<1>8. ASSUME NEW t \in SUBSET (1 .. N), t # {}
      PROVE  f[t] = f[t \ {Max(t)}] + BytesOf(s[Max(t)])
 <2>1. f[t] = step[pick[t]][f[t \ {pick[t]}]]  BY <1>7, <1>8 DEF IsFold
 <2>2. pick[t] = Max(t) /\ Max(t) \in 1 .. N  BY <1>3, <1>8
 <2>3. f[t \ {Max(t)}] \in Nat  BY <1>8
 <2>4. step[Max(t)][f[t \ {Max(t)}]] = f[t \ {Max(t)}] + BytesOf(s[Max(t)])  BY <1>4, <2>2, <2>3
 <2> QED  BY <2>1, <2>2, <2>4
<1>9. f[{}] = 0  BY <1>7 DEF IsFold
<1>10. IsLengthOf(f, s)  BY <1>1, <1>8, <1>9 DEF IsLengthOf
<1> DEFINE g == LengthUpTo(s)
<1>11. IsLengthOf(g, s)  BY <1>10 DEF LengthUpTo
<1> HIDE DEF g
<1>12. \A t \in SUBSET (1 .. N) :
            g[t] = IF t = {} THEN 0 ELSE g[t \ {Max(t)}] + BytesOf(s[Max(t)])
  BY <1>1, <1>11 DEF IsLengthOf
<1>13. g[{}] = 0  BY <1>12
<1>14. ASSUME NEW n \in 1 .. N
       PROVE  g[1 .. n] = g[1 .. (n - 1)] + BytesOf(s[n])
 <2>1. /\ (1 .. n) \in SUBSET (1 .. N) /\ (1 .. n) # {}
       /\ Max(1 .. n) = n /\ (1 .. n) \ {n} = 1 .. (n - 1)
   BY <1>1, MaxOfInterval
 <2> DEFINE t == 1 .. n
 <2>2. t \in SUBSET (1 .. N) /\ t # {} /\ Max(t) = n /\ t \ {n} = 1 .. (n - 1)  BY <2>1
 <2> HIDE DEF t
 <2>3. g[t] = g[1 .. (n - 1)] + BytesOf(s[n])  BY <1>12, <2>2
 <2> QED  BY <2>3 DEF t
<1> QED  BY <1>13, <1>14 DEF g

\* The bytes of the first k frames do not depend on the frames after them.
LEMMA LengthOfPrefix ==
    ASSUME NEW s \in Seq(StreamFrame), NEW k \in 0 .. Len(s)
    PROVE  \A j \in 0 .. k : LengthUpTo(SubSeq(s, 1, k))[1 .. j] = LengthUpTo(s)[1 .. j]
<1> DEFINE p == SubSeq(s, 1, k)
           f == LengthUpTo(p)
           g == LengthUpTo(s)
           T == {j \in Nat : j <= k => f[1 .. j] = g[1 .. j]}
<1>1. p \in Seq(StreamFrame) /\ Len(p) = k /\ \A n \in 1 .. k : p[n] = s[n]  BY SubSeqProperties
<1>2. /\ f[{}] = 0
      /\ \A n \in 1 .. Len(p) : f[1 .. n] = f[1 .. (n - 1)] + BytesOf(p[n])
  BY <1>1, LengthEquation
<1>3. /\ g[{}] = 0
      /\ \A n \in 1 .. Len(s) : g[1 .. n] = g[1 .. (n - 1)] + BytesOf(s[n])
  BY LengthEquation
<1> HIDE DEF f, g, p
<1>4. 0 \in T  BY <1>2, <1>3
<1>5. ASSUME NEW j \in T
      PROVE  j + 1 \in T
 <2>1. SUFFICES ASSUME j + 1 <= k PROVE f[1 .. (j + 1)] = g[1 .. (j + 1)]  OBVIOUS
 <2>2. j \in Nat /\ f[1 .. j] = g[1 .. j] /\ (j + 1) - 1 = j  BY <2>1
 <2>3. j + 1 \in 1 .. Len(p) /\ j + 1 \in 1 .. Len(s) /\ p[j + 1] = s[j + 1]  BY <1>1, <2>1, <2>2
 <2>4. f[1 .. (j + 1)] = f[1 .. ((j + 1) - 1)] + BytesOf(p[j + 1])  BY <1>2, <2>3, Zenon
 <2>5. g[1 .. (j + 1)] = g[1 .. ((j + 1) - 1)] + BytesOf(s[j + 1])  BY <1>3, <2>3, Zenon
 <2> QED  BY <2>2, <2>3, <2>4, <2>5
<1>6. T = Nat
 <2>1. T \in SUBSET Nat  OBVIOUS
 <2> HIDE DEF T
 <2> QED  BY <1>4, <1>5, <2>1, NatSetInduction
<1> QED  BY <1>6 DEF f, g, p

\* What the prefixes of the stream amount to.
LEMMA BytesUpToEquation ==
    ASSUME stream \in Seq(StreamFrame)
    PROVE  /\ BytesUpTo(0) = 0
           /\ \A k \in 1 .. Len(stream) : BytesUpTo(k) = BytesUpTo(k - 1) + BytesOf(stream[k])
<1> DEFINE g == LengthUpTo(stream)
<1>1. ASSUME NEW k \in 0 .. Len(stream)
      PROVE  BytesUpTo(k) = g[1 .. k]
 <2> DEFINE p == SubSeq(stream, 1, k)
 <2>1. BytesUpTo(k) = LengthUpTo(p)[DOMAIN p]  BY LengthIsFold DEF BytesUpTo
 <2>2. DOMAIN p = 1 .. k /\ k \in 0 .. k
  <3>1. p \in Seq(StreamFrame) /\ Len(p) = k  BY SubSeqProperties
  <3> HIDE DEF p
  <3> QED  BY <3>1
 <2>3. LengthUpTo(p)[1 .. k] = g[1 .. k]  BY <2>2, LengthOfPrefix
 <2> QED  BY <2>1, <2>2, <2>3
<1>2. /\ g[{}] = 0
      /\ \A n \in 1 .. Len(stream) : g[1 .. n] = g[1 .. (n - 1)] + BytesOf(stream[n])
  BY LengthEquation
<1> HIDE DEF g
<1>3. BytesUpTo(0) = 0  BY <1>1, <1>2
<1>4. ASSUME NEW k \in 1 .. Len(stream)
      PROVE  BytesUpTo(k) = BytesUpTo(k - 1) + BytesOf(stream[k])
  BY <1>1, <1>2
<1> QED  BY <1>3, <1>4

\* The prefixes grow.
LEMMA BytesGrow ==
    ASSUME stream \in Seq(StreamFrame), NEW k \in 0 .. Len(stream)
    PROVE  /\ BytesUpTo(k) \in Nat
           /\ \A j \in 0 .. k : BytesUpTo(j) <= BytesUpTo(k)
<1> DEFINE N == Len(stream)
           B == [j \in 0 .. N |-> BytesUpTo(j)]
           T == {j \in Nat : j <= N => B[j] \in Nat /\ \A m \in 0 .. j : B[m] \in Nat /\ B[m] <= B[j]}
<1>1. N \in Nat /\ \A j \in 1 .. N : stream[j] \in StreamFrame  OBVIOUS
<1>2. /\ B[0] = 0
      /\ \A j \in 1 .. N : B[j] = B[j - 1] + BytesOf(stream[j]) /\ BytesOf(stream[j]) \in Nat
 <2>1. /\ BytesUpTo(0) = 0
       /\ \A j \in 1 .. N : BytesUpTo(j) = BytesUpTo(j - 1) + BytesOf(stream[j])
   BY BytesUpToEquation
 <2>2. \A j \in 1 .. N : BytesOf(stream[j]) \in Nat  BY <1>1, FrameBytes
 <2>3. \A j \in 0 .. N : B[j] = BytesUpTo(j)  OBVIOUS
 <2>4. \A j \in 1 .. N : j \in 0 .. N /\ j - 1 \in 0 .. N  BY <1>1
 <2> HIDE DEF B, N
 <2> QED  BY <1>1, <2>1, <2>2, <2>3, <2>4
<1>3. B[k] = BytesUpTo(k) /\ \A j \in 0 .. k : B[j] = BytesUpTo(j)  OBVIOUS
<1> HIDE DEF B, N
<1>4. 0 \in T  BY <1>2
<1>5. ASSUME NEW j \in T
      PROVE  j + 1 \in T
 <2>1. SUFFICES ASSUME j + 1 <= N
                PROVE  /\ B[j + 1] \in Nat
                       /\ \A m \in 0 .. j + 1 : B[m] \in Nat /\ B[m] <= B[j + 1]
   OBVIOUS
 <2>2. j \in Nat /\ B[j] \in Nat /\ \A m \in 0 .. j : B[m] \in Nat /\ B[m] <= B[j]  BY <1>1, <2>1
 <2>3. j + 1 \in 1 .. N /\ (j + 1) - 1 = j  BY <1>1, <2>1, <2>2
 <2>4. B[j + 1] = B[j] + BytesOf(stream[j + 1]) /\ BytesOf(stream[j + 1]) \in Nat  BY <1>2, <2>3
 <2>5. \A m \in 0 .. j + 1 : m \in 0 .. j \/ m = j + 1  BY <2>2
 <2> QED  BY <2>2, <2>4, <2>5
<1>6. T = Nat
 <2>1. T \in SUBSET Nat  OBVIOUS
 <2> HIDE DEF T
 <2> QED  BY <1>4, <1>5, <2>1, NatSetInduction
<1>7. k \in Nat /\ k <= N  BY DEF N
<1>8. B[k] \in Nat /\ \A m \in 0 .. k : B[m] <= B[k]
 <2>1. k \in {j \in Nat : j <= N => B[j] \in Nat /\ \A m \in 0 .. j : B[m] \in Nat /\ B[m] <= B[j]}
   BY <1>6, <1>7
 <2> HIDE DEF T
 <2> QED  BY <1>7, <2>1
<1> HIDE DEF T
<1> QED  BY <1>3, <1>8

\* What a call of batConsume has come to after some of the frames.
Progress == [bytes : Nat, out : Seq(StreamFrame), error : BOOLEAN, waits : BOOLEAN]

LEMMA DecodeStepType ==
    ASSUME NEW r \in Progress, NEW frame \in StreamFrame
    PROVE  DecodeStep(r, frame) \in Progress
<1>1. /\ r = [bytes |-> r.bytes, out |-> r.out, error |-> r.error, waits |-> r.waits]
      /\ r.bytes \in Nat /\ r.out \in Seq(StreamFrame)
      /\ r.error \in BOOLEAN /\ r.waits \in BOOLEAN
  BY DEF Progress
<1>2. [r EXCEPT !.error = TRUE, !.bytes = 0] \in Progress  BY <1>1 DEF Progress
<1>3. [r EXCEPT !.waits = TRUE] \in Progress  BY <1>1 DEF Progress
<1>4. Takes(r, frame) =>
        [r EXCEPT !.bytes = @ - BytesOf(frame), !.out = Append(@, frame)] \in Progress
 <2>1. SUFFICES ASSUME Takes(r, frame)
                PROVE  /\ r.bytes - BytesOf(frame) \in Nat
                       /\ Append(r.out, frame) \in Seq(StreamFrame)
   BY <1>1 DEF Progress
 <2>2. r.bytes >= BytesOf(frame) /\ BytesOf(frame) \in Nat  BY <2>1, FrameBytes DEF Takes
 <2> QED  BY <1>1, <2>2
<1> QED  BY <1>2, <1>3, <1>4 DEF DecodeStep

\* The equation of the fold of Consume.
IsDecoding(f, start, s) ==
    f = [t \in SUBSET DOMAIN s |->
            IF t = {} THEN start ELSE DecodeStep(f[t \ {Max(t)}], s[Max(t)])]

Decoding(start, s) == CHOOSE f : IsDecoding(f, start, s)

LEMMA DecodingIsFold ==
    ASSUME NEW start, NEW s
    PROVE  FoldLeft(DecodeStep, start, s) = Decoding(start, s)[DOMAIN s]
  BY DEF Decoding, FoldLeft, MapThenFoldSet, IsDecoding

LEMMA DecodingEquation ==
    ASSUME NEW start \in Progress, NEW s \in Seq(StreamFrame)
    PROVE  /\ Decoding(start, s)[{}] = start
           /\ \A n \in 1 .. Len(s) :
                 Decoding(start, s)[1 .. n] = DecodeStep(Decoding(start, s)[1 .. (n - 1)], s[n])
<1> DEFINE N == Len(s)
           step == [k \in 1 .. N |-> [r \in Progress |-> DecodeStep(r, s[k])]]
           pick == [t \in SUBSET (1 .. N) |-> Max(t)]
<1>1. N \in Nat /\ DOMAIN s = 1 .. N /\ \A k \in 1 .. N : s[k] \in StreamFrame  OBVIOUS
<1>3. \A t \in SUBSET (1 .. N) : t # {} => pick[t] = Max(t) /\ Max(t) \in t  BY <1>1, MaxIsLast
<1>4. /\ step \in [1 .. N -> [Progress -> Progress]]
      /\ \A k \in 1 .. N, r \in Progress : step[k][r] = DecodeStep(r, s[k])
 <2>1. \A k \in 1 .. N, r \in Progress : DecodeStep(r, s[k]) \in Progress  BY <1>1, DecodeStepType
 <2> HIDE DEF N
 <2> QED  BY <2>1
<1>5. IsFiniteSet(1 .. N)  BY <1>1, FS_Interval
<1> HIDE DEF step, pick
<1>6. FoldInput(1 .. N, Progress, start, step, pick)
 <2>1. \A t \in SUBSET (1 .. N) : t # {} => pick[t] \in t  BY <1>3, Zenon
 <2> HIDE DEF N
 <2> QED  BY <1>4, <1>5, <2>1, Zenon DEF FoldInput
<1>7. PICK f \in [SUBSET (1 .. N) -> Progress] : IsFold(f, start, step, pick, 1 .. N)
  BY <1>6, FoldExists
<1>8. ASSUME NEW t \in SUBSET (1 .. N), t # {}
      PROVE  f[t] = DecodeStep(f[t \ {Max(t)}], s[Max(t)])
 <2>1. f[t] = step[pick[t]][f[t \ {pick[t]}]]  BY <1>7, <1>8 DEF IsFold
 <2>2. pick[t] = Max(t) /\ Max(t) \in 1 .. N  BY <1>3, <1>8
 <2>3. f[t \ {Max(t)}] \in Progress  BY <1>8
 <2>4. step[Max(t)][f[t \ {Max(t)}]] = DecodeStep(f[t \ {Max(t)}], s[Max(t)])  BY <1>4, <2>2, <2>3
 <2> QED  BY <2>1, <2>2, <2>4
<1>9. f[{}] = start  BY <1>7 DEF IsFold
<1>10. IsDecoding(f, start, s)  BY <1>1, <1>8, <1>9 DEF IsDecoding
<1> DEFINE g == Decoding(start, s)
<1>11. IsDecoding(g, start, s)  BY <1>10 DEF Decoding
<1> HIDE DEF g
<1>12. \A t \in SUBSET (1 .. N) :
            g[t] = IF t = {} THEN start ELSE DecodeStep(g[t \ {Max(t)}], s[Max(t)])
  BY <1>1, <1>11 DEF IsDecoding
<1>13. g[{}] = start  BY <1>12
<1>14. ASSUME NEW n \in 1 .. N
       PROVE  g[1 .. n] = DecodeStep(g[1 .. (n - 1)], s[n])
 <2> DEFINE t == 1 .. n
 <2>1. /\ (1 .. n) \in SUBSET (1 .. N) /\ (1 .. n) # {}
       /\ Max(1 .. n) = n /\ (1 .. n) \ {n} = 1 .. (n - 1)
   BY <1>1, MaxOfInterval
 <2>2. t \in SUBSET (1 .. N) /\ t # {} /\ Max(t) = n /\ t \ {n} = 1 .. (n - 1)  BY <2>1
 <2> HIDE DEF t
 <2>3. g[t] = DecodeStep(g[1 .. (n - 1)], s[n])  BY <1>12, <2>2
 <2> QED  BY <2>3 DEF t
<1> QED  BY <1>13, <1>14 DEF g

\* A frame that resDecode accepts, and one that still has to wait for bytes.
Good(frame) == frame.valid /\ frame.length >= TypeSize /\ frame.length <= MaxFrame
Stuck(frame, bytes) == bytes < BytesOf(frame) /\ ~Refused(frame, bytes)

\* Frames handed on are the stream's first, all of them good and arrived.
Matched(out, total) ==
    /\ Len(out) <= Len(stream)
    /\ \A m \in 1 .. Len(out) : out[m] = stream[m] /\ Good(stream[m])
    /\ BytesUpTo(Len(out)) <= total

\* Where a call stands when it has looked at the first n frames of the stream.
Reached(r, n, total) ==
    /\ Matched(r.out, total)
    /\ CASE r.error -> /\ r.bytes = 0 /\ Len(r.out) < Len(stream)
                       /\ ~Good(stream[Len(r.out) + 1])
         [] ~r.error /\ r.waits -> /\ r.bytes = total - BytesUpTo(Len(r.out))
                                   /\ Len(r.out) < Len(stream)
                                   /\ Stuck(stream[Len(r.out) + 1], r.bytes)
         [] OTHER -> r.bytes = total - BytesUpTo(Len(r.out)) /\ Len(r.out) = n

StreamInv ==
    /\ stream \in Seq(StreamFrame) /\ decoded \in Seq(StreamFrame)
    /\ pending \in Nat /\ arrived \in Nat /\ decodeError \in BOOLEAN
    /\ Matched(decoded, arrived)
    /\ decodeError => /\ pending = 0 /\ Len(decoded) < Len(stream)
                      /\ ~Good(stream[Len(decoded) + 1])
    /\ ~decodeError => /\ pending = arrived - BytesUpTo(Len(decoded))
                       /\ arrived <= BytesUpTo(Len(stream))
                       /\ Len(decoded) < Len(stream) =>
                             Stuck(stream[Len(decoded) + 1], pending)

LEMMA RefusedOrGood ==
    ASSUME NEW frame \in StreamFrame, NEW bytes \in Nat
    PROVE  /\ Refused(frame, bytes) => ~Good(frame)
           /\ ~Refused(frame, bytes) /\ bytes >= BytesOf(frame) => Good(frame)
<1>1. /\ frame.length \in Nat /\ BytesOf(frame) = Prefix + frame.length
      /\ BytesOf(frame) \in Nat
  BY FrameBytes
<1>2. Prefix \in Nat  BY StreamParameters
<1>3. bytes >= BytesOf(frame) => bytes >= Prefix  BY <1>1, <1>2
<1>4. ~(frame.length < TypeSize \/ frame.length > MaxFrame) =>
          frame.length >= TypeSize /\ frame.length <= MaxFrame
  BY <1>1, StreamParameters
<1>5. frame.length >= TypeSize /\ frame.length <= MaxFrame =>
          ~(frame.length < TypeSize \/ frame.length > MaxFrame)
  BY <1>1, StreamParameters
<1> QED  BY <1>3, <1>4, <1>5, Zenon DEF Refused, Good

LEMMA StepReached ==
    ASSUME stream \in Seq(StreamFrame), NEW r \in Progress, NEW total \in Nat,
           NEW n \in Nat, n < Len(stream), Reached(r, n, total)
    PROVE  Reached(DecodeStep(r, stream[n + 1]), n + 1, total)
<1> DEFINE frame == stream[n + 1]
           e == Len(r.out)
           q == DecodeStep(r, frame)
<1>1. /\ r = [bytes |-> r.bytes, out |-> r.out, error |-> r.error, waits |-> r.waits]
      /\ r.bytes \in Nat /\ r.out \in Seq(StreamFrame) /\ e \in Nat
      /\ r.error \in BOOLEAN /\ r.waits \in BOOLEAN
  BY DEF Progress
<1>2. frame \in StreamFrame /\ n + 1 \in 1 .. Len(stream) /\ (n + 1) - 1 = n  OBVIOUS
<1>3. BytesOf(frame) \in Nat /\ BytesUpTo(n + 1) = BytesUpTo(n) + BytesOf(frame)
  BY <1>2, BytesUpToEquation, FrameBytes
<1>4. BytesUpTo(n) \in Nat  BY BytesGrow
<1>5. Matched(r.out, total)  BY DEF Reached
<1> HIDE DEF frame
<1>6. CASE r.error
 <2>1. q = [r EXCEPT !.waits = TRUE]  BY <1>6 DEF DecodeStep, Takes
 <2>2. q.out = r.out /\ q.error = r.error /\ q.bytes = r.bytes  BY <1>1, <2>1
 <2> HIDE DEF q
 <2>3. r.bytes = 0 /\ e < Len(stream) /\ ~Good(stream[e + 1])  BY <1>6 DEF Reached
 <2>4. Reached(q, n + 1, total)  BY <1>5, <1>6, <2>2, <2>3 DEF Reached
 <2> QED  BY <2>4 DEF q, frame
<1>7. CASE ~r.error /\ r.waits
 <2>1. q = [r EXCEPT !.waits = TRUE]  BY <1>7 DEF DecodeStep, Takes
 <2>2. q.out = r.out /\ q.error = r.error /\ q.bytes = r.bytes /\ q.waits  BY <1>1, <2>1
 <2> HIDE DEF q
 <2>3. /\ r.bytes = total - BytesUpTo(e)
       /\ e < Len(stream) /\ Stuck(stream[e + 1], r.bytes)
   BY <1>7 DEF Reached
 <2>4. Reached(q, n + 1, total)  BY <1>5, <1>7, <2>2, <2>3 DEF Reached
 <2> QED  BY <2>4 DEF q, frame
<1>8. CASE ~r.error /\ ~r.waits
 <2>1. r.bytes = total - BytesUpTo(n) /\ e = n  BY <1>8 DEF Reached
 <2>2. CASE Refused(frame, r.bytes)
  <3>1. q = [r EXCEPT !.error = TRUE, !.bytes = 0]  BY <1>8, <2>2 DEF DecodeStep
  <3>2. q.out = r.out /\ q.error /\ q.bytes = 0  BY <1>1, <3>1
  <3>3. ~Good(frame)  BY <1>1, <1>2, <2>2, RefusedOrGood
  <3> HIDE DEF q
  <3>4. ~Good(stream[e + 1])  BY <2>1, <3>3 DEF frame
  <3>5. Reached(q, n + 1, total)  BY <1>5, <2>1, <3>2, <3>4 DEF Reached
  <3> QED  BY <3>5 DEF q, frame
 <2>3. CASE ~Refused(frame, r.bytes) /\ r.bytes >= BytesOf(frame)
  <3>1. q = [r EXCEPT !.bytes = @ - BytesOf(frame), !.out = Append(@, frame)]
    BY <1>8, <2>3 DEF DecodeStep, Takes
  <3>2. /\ q.out = Append(r.out, frame) /\ ~q.error /\ ~q.waits
        /\ q.bytes = r.bytes - BytesOf(frame)
    BY <1>1, <1>8, <3>1
  <3>3. Good(frame)  BY <1>1, <1>2, <2>3, RefusedOrGood
  <3>4. /\ Len(Append(r.out, frame)) = n + 1
        /\ \A m \in 1 .. n : Append(r.out, frame)[m] = r.out[m]
        /\ Append(r.out, frame)[n + 1] = frame
    BY <1>1, <2>1
  <3> HIDE DEF q
  <3>5. q.bytes = total - BytesUpTo(n + 1)  BY <1>1, <1>3, <1>4, <2>1, <3>2
  <3>6. BytesUpTo(n + 1) <= total  BY <1>1, <1>3, <1>4, <2>1, <2>3
  <3>7. ASSUME NEW m \in 1 .. n + 1
        PROVE  q.out[m] = stream[m] /\ Good(stream[m])
   <4>1. m \in 1 .. n \/ m = n + 1  OBVIOUS
   <4>2. m \in 1 .. n => r.out[m] = stream[m] /\ Good(stream[m])  BY <1>5, <2>1 DEF Matched
   <4>3. CASE m \in 1 .. n  BY <3>2, <3>4, <4>2, <4>3
   <4>4. CASE m = n + 1  BY <3>2, <3>3, <3>4, <4>4 DEF frame
   <4> QED  BY <4>1, <4>3, <4>4
  <3>8. Len(q.out) = n + 1  BY <3>2, <3>4
  <3>9. Matched(q.out, total)  BY <3>6, <3>7, <3>8 DEF Matched
  <3>10. Reached(q, n + 1, total)  BY <3>2, <3>5, <3>8, <3>9 DEF Reached
  <3> QED  BY <3>10 DEF q, frame
 <2>4. CASE ~Refused(frame, r.bytes) /\ ~(r.bytes >= BytesOf(frame))
  <3>1. q = [r EXCEPT !.waits = TRUE]  BY <1>8, <2>4 DEF DecodeStep, Takes
  <3>2. q.out = r.out /\ ~q.error /\ q.bytes = r.bytes /\ q.waits  BY <1>1, <1>8, <3>1
  <3> HIDE DEF q
  <3>3. Stuck(stream[e + 1], r.bytes) /\ e < Len(stream)  BY <1>1, <1>3, <2>1, <2>4 DEF Stuck, frame
  <3>4. Reached(q, n + 1, total)  BY <1>5, <2>1, <3>2, <3>3 DEF Reached
  <3> QED  BY <3>4 DEF q, frame
 <2> QED  BY <2>2, <2>3, <2>4
<1> QED  BY <1>6, <1>7, <1>8

\* One call: the frames it takes, and what it leaves in the buffer.
LEMMA ConsumeStep ==
    ASSUME StreamInv, NEW bytes \in Nat, Consume(bytes)
    PROVE  StreamInv'
<1> DEFINE d == Len(decoded)
           N == Len(stream)
           total == arrived + bytes
           rest == SubSeq(stream, d + 1, N)
           start == [bytes |-> pending + bytes, out |-> decoded,
                     error |-> FALSE, waits |-> FALSE]
           f == Decoding(start, rest)
           T == {j \in Nat : j <= N - d =>
                    f[1 .. j] \in Progress /\ Reached(f[1 .. j], d + j, total)}
           end == f[1 .. (N - d)]
<1>1. /\ stream \in Seq(StreamFrame) /\ decoded \in Seq(StreamFrame)
      /\ pending \in Nat /\ arrived \in Nat
      /\ N \in Nat /\ d \in Nat /\ d <= N /\ N - d \in Nat
  BY DEF StreamInv, Matched
<1>2. /\ ~decodeError /\ total <= BytesUpTo(N)
      /\ arrived' = total /\ stream' = stream
  BY DEF Consume
<1>3. pending = arrived - BytesUpTo(d) /\ Matched(decoded, arrived)  BY <1>2 DEF StreamInv
<1>4. total \in Nat /\ BytesUpTo(d) \in Nat /\ BytesUpTo(d) <= arrived
  BY <1>1, <1>3, BytesGrow DEF Matched
<1>5. start \in Progress  BY <1>1 DEF Progress
<1>6. /\ rest \in Seq(StreamFrame) /\ Len(rest) = N - d
      /\ \A j \in 1 .. N - d : rest[j] = stream[d + j]
 <2>1. d + 1 \in 1 .. N + 1  BY <1>1
 <2>2. CASE d = N  BY <1>1, <2>2
 <2>3. CASE d < N
  <3>1. /\ rest \in Seq(StreamFrame)
        /\ Len(rest) = N - (d + 1) + 1
        /\ \A j \in 1 .. N - (d + 1) + 1 : rest[j] = stream[(d + 1) + j - 1]
    BY <1>1, <2>3, SubSeqProperties
  <3>2. N - (d + 1) + 1 = N - d /\ \A j \in Nat : (d + 1) + j - 1 = d + j  BY <1>1
  <3> HIDE DEF rest, N, d
  <3> QED  BY <3>1, <3>2
 <2> QED  BY <1>1, <2>2, <2>3
<1>7. /\ f[{}] = start
      /\ \A n \in 1 .. N - d : f[1 .. n] = DecodeStep(f[1 .. (n - 1)], rest[n])
 <2>1. /\ f[{}] = start
       /\ \A n \in 1 .. Len(rest) : f[1 .. n] = DecodeStep(f[1 .. (n - 1)], rest[n])
   BY <1>5, <1>6, DecodingEquation
 <2> QED  BY <1>6, <2>1
<1>8. /\ pending' = end.bytes /\ decoded' = end.out /\ decodeError' = end.error
 <2>1. DOMAIN rest = 1 .. (N - d)  BY <1>6
 <2>2. FoldLeft(DecodeStep, start, rest) = f[DOMAIN rest]  BY DecodingIsFold
 <2> QED  BY <2>1, <2>2 DEF Consume
<1>9. start.out = decoded /\ start.bytes = pending + bytes /\ ~start.error /\ ~start.waits  OBVIOUS
<1> HIDE DEF start, rest, f
<1>10. 0 \in T
 <2>1. 1 .. 0 = {} /\ d + 0 = d  BY <1>1
 <2>2. Matched(decoded, total)  BY <1>1, <1>3, <1>4 DEF Matched
 <2>3. start.bytes = total - BytesUpTo(d)  BY <1>1, <1>3, <1>4, <1>9
 <2>4. Reached(start, d, total)  BY <1>9, <2>2, <2>3 DEF Reached
 <2> QED  BY <1>5, <1>7, <2>1, <2>4
<1>11. ASSUME NEW j \in T
       PROVE  j + 1 \in T
 <2>1. SUFFICES ASSUME j + 1 <= N - d
                PROVE  /\ f[1 .. (j + 1)] \in Progress
                       /\ Reached(f[1 .. (j + 1)], d + (j + 1), total)
   OBVIOUS
 <2>2. j \in Nat /\ f[1 .. j] \in Progress /\ Reached(f[1 .. j], d + j, total)  BY <1>1, <2>1
 <2>3. j + 1 \in 1 .. N - d /\ (j + 1) - 1 = j /\ d + j \in Nat /\ d + j < N
       /\ d + (j + 1) = (d + j) + 1 /\ (d + j) + 1 \in 1 .. N
   BY <1>1, <2>1, <2>2
 <2>4. f[1 .. (j + 1)] = DecodeStep(f[1 .. ((j + 1) - 1)], rest[j + 1])  BY <1>7, <2>3, Zenon
 <2>5. rest[j + 1] = stream[(d + j) + 1]  BY <1>6, <2>3
 <2>6. f[1 .. (j + 1)] = DecodeStep(f[1 .. j], stream[(d + j) + 1])  BY <2>3, <2>4, <2>5
 <2>7. stream[(d + j) + 1] \in StreamFrame  BY <1>1, <2>3
 <2>8. f[1 .. (j + 1)] \in Progress  BY <2>2, <2>6, <2>7, DecodeStepType
 <2>9. Reached(DecodeStep(f[1 .. j], stream[(d + j) + 1]), (d + j) + 1, total)
   BY <1>1, <1>4, <2>2, <2>3, StepReached
 <2> QED  BY <2>3, <2>6, <2>8, <2>9
<1>12. end \in Progress /\ Reached(end, N, total)
 <2>1. T = Nat
  <3>1. T \in SUBSET Nat  OBVIOUS
  <3> HIDE DEF T
  <3> QED  BY <1>10, <1>11, <3>1, NatSetInduction
 <2>2. N - d <= N - d /\ d + (N - d) = N  BY <1>1
 <2>3. N - d \in {j \in Nat : j <= N - d =>
                      f[1 .. j] \in Progress /\ Reached(f[1 .. j], d + j, total)}
   BY <1>1, <2>1
 <2> HIDE DEF T
 <2>4. f[1 .. (N - d)] \in Progress /\ Reached(f[1 .. (N - d)], d + (N - d), total)  BY <2>2, <2>3
 <2> QED  BY <2>2, <2>4
<1> HIDE DEF T, end
<1>13. /\ end.bytes \in Nat /\ end.out \in Seq(StreamFrame) /\ end.error \in BOOLEAN
       /\ end.waits \in BOOLEAN
  BY <1>12 DEF Progress
<1>14. Matched(end.out, total)  BY <1>12 DEF Reached
<1>15. end.error => /\ end.bytes = 0 /\ Len(end.out) < N
                    /\ ~Good(stream[Len(end.out) + 1])
  BY <1>12 DEF Reached
<1>16. ~end.error => /\ end.bytes = total - BytesUpTo(Len(end.out))
                     /\ Len(end.out) < N => Stuck(stream[Len(end.out) + 1], end.bytes)
 <2>1. CASE ~end.error /\ end.waits  BY <1>12, <2>1 DEF Reached
 <2>2. CASE ~end.error /\ ~end.waits  BY <1>1, <1>12, <2>2 DEF Reached
 <2> QED  BY <2>1, <2>2
<1> HIDE DEF total, d, N
<1>17. /\ BytesUpTo(Len(decoded))' = BytesUpTo(Len(end.out))
       /\ BytesUpTo(Len(stream))' = BytesUpTo(Len(stream))
  BY <1>2, <1>8, LengthIsFold DEF BytesUpTo, LengthUpTo, FoldLeft, MapThenFoldSet, IsLengthOf
<1>18. Matched(decoded, arrived)'  BY <1>2, <1>8, <1>14, <1>17 DEF Matched
<1>19. (decodeError => /\ pending = 0 /\ Len(decoded) < Len(stream)
                       /\ ~Good(stream[Len(decoded) + 1]))'
  BY <1>2, <1>8, <1>15 DEF N
<1>20. (~decodeError => /\ pending = arrived - BytesUpTo(Len(decoded))
                        /\ arrived <= BytesUpTo(Len(stream))
                        /\ Len(decoded) < Len(stream) =>
                              Stuck(stream[Len(decoded) + 1], pending))'
  BY <1>2, <1>8, <1>16, <1>17 DEF N
<1>21. /\ stream' \in Seq(StreamFrame) /\ decoded' \in Seq(StreamFrame)
       /\ pending' \in Nat /\ arrived' \in Nat /\ decodeError' \in BOOLEAN
  BY <1>1, <1>2, <1>4, <1>8, <1>13
<1> QED  BY <1>18, <1>19, <1>20, <1>21 DEF StreamInv

LEMMA StreamInvSafe ==
    ASSUME StreamInv
    PROVE  CutsDoNotMatter /\ BufferBounded
<1> DEFINE d == Len(decoded)
           N == Len(stream)
<1>1. /\ stream \in Seq(StreamFrame) /\ pending \in Nat /\ arrived \in Nat
      /\ d \in Nat /\ N \in Nat /\ d <= N
  BY DEF StreamInv, Matched
<1>2. /\ BytesUpTo(d) <= arrived
      /\ \A m \in 1 .. d : decoded[m] = stream[m] /\ Good(stream[m])
  BY DEF StreamInv, Matched
<1>3. /\ decodeError => pending = 0 /\ d < N /\ ~Good(stream[d + 1])
      /\ ~decodeError => /\ pending = arrived - BytesUpTo(d)
                         /\ arrived <= BytesUpTo(N)
                         /\ d < N => Stuck(stream[d + 1], pending)
  BY DEF StreamInv
<1> HIDE DEF d
<1>4. /\ BytesUpTo(d) \in Nat
      /\ \A m \in 1 .. d : BytesUpTo(m) <= BytesUpTo(d) /\ BytesUpTo(m) \in Nat
  BY <1>1, BytesGrow
<1>5. ASSUME d < N
      PROVE  /\ stream[d + 1] \in StreamFrame /\ d + 1 \in 1 .. N
             /\ BytesUpTo(d + 1) = BytesUpTo(d) + BytesOf(stream[d + 1])
  BY <1>1, <1>5, BytesUpToEquation
<1>6. \A m \in 1 .. N : Good(stream[m]) <=>
          (stream[m].valid /\ stream[m].length \in TypeSize .. MaxFrame)
  BY <1>1, FrameBytes, StreamParameters DEF Good
<1>7. ASSUME NEW k \in 1 .. d
      PROVE  \A m \in 1 .. k : BytesUpTo(m) <= arrived /\ Good(stream[m])
 <2> SUFFICES ASSUME NEW m \in 1 .. k
              PROVE  BytesUpTo(m) <= arrived /\ Good(stream[m])
   OBVIOUS
 <2>1. m \in 1 .. d  BY <1>1
 <2> QED  BY <1>1, <1>2, <1>4, <2>1
<1>8. d < N => ~(BytesUpTo(d + 1) <= arrived /\ Good(stream[d + 1]))
 <2>1. SUFFICES ASSUME d < N, ~decodeError
                PROVE  ~(BytesUpTo(d + 1) <= arrived)
   BY <1>3
 <2>2. pending = arrived - BytesUpTo(d) /\ pending < BytesOf(stream[d + 1])  BY <1>3, <2>1 DEF Stuck
 <2>3. BytesOf(stream[d + 1]) \in Nat  BY <1>5, <2>1, FrameBytes
 <2> QED  BY <1>1, <1>4, <1>5, <2>1, <2>2, <2>3
<1>9. CutsDoNotMatter
 <2>1. ASSUME NEW k \in 1 .. N
       PROVE  (\A m \in 1 .. k : BytesUpTo(m) <= arrived /\ Good(stream[m])) <=> k <= d
  <3>1. CASE k <= d  BY <1>1, <1>7, <3>1
  <3>2. CASE k > d  BY <1>1, <1>8, <3>2
  <3> QED  BY <1>1, <3>1, <3>2
 <2>2. ASSUME NEW k \in 1 .. N
       PROVE  (\A m \in 1 .. k :
                 /\ BytesUpTo(m) <= arrived
                 /\ stream[m].valid /\ stream[m].length \in TypeSize .. MaxFrame) <=> k <= d
  <3>1. \A m \in 1 .. k : m \in 1 .. N  BY <1>1
  <3>2. \A m \in 1 .. k : Good(stream[m]) <=>
            (stream[m].valid /\ stream[m].length \in TypeSize .. MaxFrame)
    BY <1>6, <3>1
  <3> QED  BY <2>1, <3>2, Zenon
 <2>3. \A k \in 1 .. d : decoded[k] = stream[k]  BY <1>2
 <2> QED  BY <2>2, <2>3, Zenon DEF CutsDoNotMatter, d
<1>10. BufferBounded
 <2>1. Prefix \in Nat /\ Prefix > 0 /\ MaxFrame \in Nat  BY StreamParameters
 <2>2. CASE decodeError  BY <1>1, <1>3, <2>1, <2>2 DEF BufferBounded
 <2>3. CASE ~decodeError /\ d = N  BY <1>1, <1>3, <1>4, <2>1, <2>3 DEF BufferBounded
 <2>4. CASE ~decodeError /\ d < N
  <3> DEFINE frame == stream[d + 1]
  <3>1. pending < BytesOf(frame) /\ ~Refused(frame, pending)  BY <1>3, <2>4 DEF Stuck
  <3>2. frame \in StreamFrame  BY <1>5, <2>4
  <3> HIDE DEF frame
  <3>3. frame.length \in Nat /\ BytesOf(frame) = Prefix + frame.length  BY <3>2, FrameBytes
  <3>4. pending < Prefix \/ frame.length <= MaxFrame  BY <1>1, <2>1, <3>1, <3>3 DEF Refused
  <3> QED  BY <1>1, <2>1, <3>1, <3>3, <3>4 DEF BufferBounded
 <2> QED  BY <1>1, <2>2, <2>3, <2>4
<1> QED  BY <1>9, <1>10

LEMMA StreamInvInit == StreamInit => StreamInv
<1> SUFFICES ASSUME StreamInit PROVE StreamInv  OBVIOUS
<1>1. /\ arrived = 0 /\ pending = 0 /\ decoded = <<>> /\ decodeError = FALSE
      /\ stream \in Seq(StreamFrame)
  BY StreamParameters DEF StreamInit
<1>2. Len(decoded) = 0 /\ BytesUpTo(0) = 0 /\ BytesUpTo(Len(stream)) \in Nat
  BY <1>1, BytesUpToEquation, BytesGrow
<1>3. Matched(decoded, arrived)  BY <1>1, <1>2 DEF Matched
<1>4. 0 < Len(stream) => Stuck(stream[0 + 1], 0)
 <2>1. SUFFICES ASSUME 0 < Len(stream) PROVE Stuck(stream[1], 0)  OBVIOUS
 <2>2. stream[1] \in StreamFrame  BY <1>1, <2>1
 <2>3. /\ BytesOf(stream[1]) \in Nat /\ BytesOf(stream[1]) > 0  BY <2>2, FrameBytes
 <2>4. ~(0 >= Prefix)  BY StreamParameters
 <2> QED  BY <2>3, <2>4 DEF Stuck, Refused
<1>5. arrived \in Nat /\ pending \in Nat /\ decoded \in Seq(StreamFrame)  BY <1>1
<1>6. /\ pending = arrived - BytesUpTo(Len(decoded))
      /\ arrived <= BytesUpTo(Len(stream))
      /\ Len(decoded) < Len(stream) => Stuck(stream[Len(decoded) + 1], pending)
  BY <1>1, <1>2, <1>4
<1> QED  BY <1>1, <1>3, <1>5, <1>6 DEF StreamInv

\* The decoder of a connection, for every stream of frames and however its bytes
\* were cut: what it hands on, and how much it keeps (TcpFrameStreamDecoder).
THEOREM StreamSafeHolds == StreamSpec => []StreamSafe
<1>1. StreamInv /\ StreamNext => StreamInv'
 <2> SUFFICES ASSUME StreamInv, NEW bytes \in 1 .. (Prefix + MaxFrame) * 2, Consume(bytes)
              PROVE  StreamInv'
   BY DEF StreamNext
 <2>1. bytes \in Nat  BY StreamParameters
 <2> QED  BY <2>1, ConsumeStep
<1>2. StreamInv /\ UNCHANGED streamVars => StreamInv'
 <2> SUFFICES ASSUME StreamInv, UNCHANGED streamVars PROVE StreamInv'  OBVIOUS
 <2>1. /\ stream' = stream /\ arrived' = arrived /\ pending' = pending
       /\ decoded' = decoded /\ decodeError' = decodeError
   BY DEF streamVars
 <2>2. /\ BytesUpTo(Len(decoded))' = BytesUpTo(Len(decoded))
       /\ BytesUpTo(Len(stream))' = BytesUpTo(Len(stream))
   BY <2>1 DEF BytesUpTo, FoldLeft, MapThenFoldSet
 <2> QED  BY <2>1, <2>2 DEF StreamInv, Matched
<1>3. StreamInv /\ [StreamNext]_streamVars => StreamInv'  BY <1>1, <1>2
<1>4. StreamInv => StreamSafe  BY StreamInvSafe DEF StreamSafe
<1> QED  BY <1>3, <1>4, StreamInvInit, PTL DEF StreamSpec

-----------------------------------------------------------------------------
(* PcClients: the management port of the PC node.                            *)

\* A request whose file was accepted from the client.
AcceptedFrom(c, request) == \E f \in acceptedFiles : f.client = c /\ f.request = request
Running(c) == preparation[c].state = "running"
AnswerWaits(c) == \E i \in 1 .. Len(answers) : answers[i].client = c

\* The ClientState of a connection, with the upload its slots hold.
ClientStatesOK ==
    /\ DOMAIN pcUpload = PcConnections
    /\ preparation \in [PcConnections -> [state : {"none", "running", "ended"}, request : Nat]]
    /\ \A c \in PcConnections :
        /\ UploadOK(pcUpload[c])
        /\ pcUpload[c].active => pcUpload[c].chain = 1 /\ pcUpload[c].request \in Requests

\* Where a connection is: a client has its state, and a socket to be deleted is closed.
ConnectionsOK ==
    /\ IsFiniteSet(inMap) /\ inMap \subseteq alive
    /\ \A c \in PcConnections : c \in inMap <=> pcSocket[c] \in {"open", "closing"}
    /\ \A c \in deleting : pcSocket[c] = "closed"

\* One file of a client at a time: its preparation, then its answer.
OneFileAtATime ==
    \A c \in PcConnections :
        /\ Running(c) => /\ preparing[c] /\ ~AnswerWaits(c)
                         /\ AcceptedFrom(c, preparation[c].request)
                         /\ preparation[c].request \in Requests
        /\ AnswerWaits(c) => preparing[c]

AnswersOK ==
    /\ \A i \in 1 .. Len(answers) : AcceptedFrom(answers[i].client, answers[i].request)
    /\ \A i, j \in 1 .. Len(answers) : answers[i].client = answers[j].client => i = j

PcInv ==
    /\ PcTypeOK /\ PcFilesWhole /\ FramesDoNotBlock /\ ThreadHasOwner
    /\ ClientStatesOK /\ ConnectionsOK /\ OneFileAtATime /\ AnswersOK

LEMMA AppendedAnswer ==
    ASSUME NEW S, NEW q \in Seq(S), NEW x \in S
    PROVE  /\ Append(q, x) \in Seq(S) /\ Len(q) \in Nat /\ Len(Append(q, x)) = Len(q) + 1
           /\ Append(q, x)[Len(q) + 1] = x
           /\ \A i \in 1 .. Len(q) : Append(q, x)[i] = q[i]
  OBVIOUS

LEMMA AnswersTail ==
    ASSUME NEW S, NEW q \in Seq(S), q # <<>>
    PROVE  /\ Tail(q) \in Seq(S) /\ Len(q) \in Nat /\ Len(q) > 0
           /\ Len(Tail(q)) = Len(q) - 1 /\ Head(q) = q[1] /\ q[1] \in S
           /\ \A i \in 1 .. Len(Tail(q)) : i + 1 \in 1 .. Len(q) /\ Tail(q)[i] = q[i + 1]
           /\ \A i \in 2 .. Len(q) : i - 1 \in 1 .. Len(Tail(q)) /\ Tail(q)[i - 1] = q[i]
  OBVIOUS

LEMMA PcInitOK ==
    ASSUME PcInit
    PROVE  PcInv
<1>1. PcTypeOK
 <2>1. Cardinality({}) = 0 /\ 0 <= PcMaxClients /\ 0 \in 0 .. MaxPcFrames
   BY FS_EmptySet, PcParameters
 <2>2. answers \in Seq([client : PcConnections, request : Requests])  BY DEF PcInit
 <2>3. pcOn \in BOOLEAN /\ runtimeStopped \in BOOLEAN  BY DEF PcInit
 <2>4. /\ pcSocket \in [PcConnections -> {"new", "open", "closing", "closed"}]
       /\ greeting \in [PcConnections -> PcRoles \union {"none"}]
       /\ preparing \in [PcConnections -> BOOLEAN]
       /\ \A c \in PcConnections : preparation[c].state \in {"none", "running", "ended"}
   BY DEF PcInit, NoPreparation
 <2>5. /\ inMap \subseteq PcConnections /\ Cardinality(inMap) <= PcMaxClients
       /\ deleting \subseteq PcConnections /\ alive \subseteq PcConnections
       /\ joining \in PcConnections \union {0} /\ handled \in 0 .. MaxPcFrames
   BY <2>1 DEF PcInit
 <2> QED  BY <2>2, <2>3, <2>4, <2>5 DEF PcTypeOK
<1>2. /\ Len(answers) = 0 /\ 1 .. 0 = {} /\ \A c \in PcConnections : preparation[c].state = "none"
  BY DEF PcInit, NoPreparation
<1>3. PcFilesWhole /\ FramesDoNotBlock /\ ThreadHasOwner
  BY <1>2 DEF PcInit, PcFilesWhole, FramesDoNotBlock, ThreadHasOwner
<1>4. ClientStatesOK
 <2>1. NoUpload.active = FALSE  BY DEF NoUpload
 <2>2. NoPreparation \in [state : {"none", "running", "ended"}, request : Nat]  BY DEF NoPreparation
 <2> HIDE DEF NoUpload
 <2>3. /\ DOMAIN pcUpload = PcConnections
       /\ \A c \in PcConnections : pcUpload[c] = NoUpload
   BY DEF PcInit
 <2>4. preparation \in [PcConnections -> [state : {"none", "running", "ended"}, request : Nat]]
   BY <2>2 DEF PcInit
 <2> QED  BY <2>1, <2>3, <2>4, NoUploadOK DEF ClientStatesOK
<1>5. ConnectionsOK  BY FS_EmptySet DEF PcInit, ConnectionsOK
<1>6. OneFileAtATime /\ AnswersOK  BY <1>2 DEF OneFileAtATime, AnswersOK, Running, AnswerWaits
<1> QED  BY <1>1, <1>3, <1>4, <1>5, <1>6 DEF PcInv

\* What a step that leaves threads and answers alone keeps.
LEMMA ThreadsKept ==
    ASSUME PcInv, UNCHANGED <<preparing, preparation, answers>>,
           acceptedFiles \subseteq acceptedFiles'
    PROVE  OneFileAtATime' /\ AnswersOK'
<1>1. \A c, request : AcceptedFrom(c, request) => AcceptedFrom(c, request)'  BY DEF AcceptedFrom
<1>2. \A c : (Running(c)' <=> Running(c)) /\ (AnswerWaits(c)' <=> AnswerWaits(c))
  BY DEF Running, AnswerWaits
<1>3. OneFileAtATime'  BY <1>1, <1>2 DEF PcInv, OneFileAtATime
<1>4. AnswersOK'  BY <1>1 DEF PcInv, AnswersOK
<1> QED  BY <1>3, <1>4

LEMMA AcceptClientOK ==
    ASSUME PcInv, NEW c \in PcConnections, AcceptClient(c)
    PROVE  PcInv'
<1>a. PcTypeOK /\ FramesDoNotBlock /\ ThreadHasOwner /\ ConnectionsOK /\ ClientStatesOK /\ PcFilesWhole
  BY DEF PcInv
<1>0. /\ UNCHANGED <<pcOn, greeting, pcUpload, preparing, preparation, answers, joining,
                     runtimeStopped, handled, acceptedFiles, answered>>
      /\ joining = 0 /\ pcSocket[c] = "new"
      /\ pcSocket \in [PcConnections -> {"new", "open", "closing", "closed"}]
  BY <1>a DEF AcceptClient, InLoop, PcTypeOK
<1>1. OneFileAtATime' /\ AnswersOK'  BY <1>0, ThreadsKept
<1>2. ClientStatesOK' /\ PcFilesWhole' /\ FramesDoNotBlock'
  BY <1>0, <1>a DEF ClientStatesOK, PcFilesWhole, FramesDoNotBlock
<1>3. c \notin inMap  BY <1>0, <1>a DEF ConnectionsOK
<1>4. CASE RoomForPcClient
 <2>1. /\ pcSocket' = [pcSocket EXCEPT ![c] = "open"] /\ deleting' = deleting
       /\ inMap' = inMap \union {c} /\ alive' = alive \union {c}
   BY <1>4 DEF AcceptClient
 <2>2. IsFiniteSet(inMap') /\ Cardinality(inMap') <= PcMaxClients
  <3>1. IsFiniteSet(inMap) /\ Cardinality(inMap) \in Nat
    BY <1>a, FS_CardinalityType DEF ConnectionsOK
  <3>2. IsFiniteSet(inMap') /\ Cardinality(inMap') = Cardinality(inMap) + 1
    BY <1>3, <2>1, <3>1, FS_AddElement
  <3> QED  BY <1>4, <3>1, <3>2, PcParameters DEF RoomForPcClient
 <2>3. PcTypeOK'  BY <1>0, <2>1, <2>2, <1>a DEF PcTypeOK, Requests
 <2>4. ConnectionsOK'  BY <1>0, <2>1, <2>2, <1>a DEF ConnectionsOK, PcTypeOK
 <2>5. ThreadHasOwner'  BY <1>0, <1>a, <2>1 DEF ThreadHasOwner
 <2> QED  BY <1>1, <1>2, <2>3, <2>4, <2>5 DEF PcInv
<1>5. CASE ~RoomForPcClient
 <2>1. /\ pcSocket' = [pcSocket EXCEPT ![c] = "closed"] /\ deleting' = deleting \union {c}
       /\ UNCHANGED <<inMap, alive>>
   BY <1>5 DEF AcceptClient
 <2>2. PcTypeOK'  BY <1>0, <2>1, <1>a DEF PcTypeOK, Requests
 <2>3. ConnectionsOK'  BY <1>0, <1>3, <2>1, <1>a DEF PcTypeOK, ConnectionsOK
 <2>4. ThreadHasOwner'  BY <1>0, <1>a, <2>1 DEF ThreadHasOwner
 <2> QED  BY <1>1, <1>2, <2>2, <2>3, <2>4 DEF PcInv
<1> QED  BY <1>4, <1>5

LEMMA ClientGoneOK ==
    ASSUME PcInv, NEW c \in PcConnections, ClientGone(c)
    PROVE  PcInv'
<1>a. PcTypeOK /\ FramesDoNotBlock /\ ThreadHasOwner /\ ConnectionsOK /\ ClientStatesOK /\ PcFilesWhole
  BY DEF PcInv
<1>0. /\ UNCHANGED <<pcOn, alive, greeting, pcUpload, preparing, preparation, answers, joining,
                     runtimeStopped, handled, acceptedFiles, answered>>
      /\ pcSocket' = [pcSocket EXCEPT ![c] = "closed"]
      /\ inMap' = inMap \ {c} /\ deleting' = deleting \union {c}
      /\ pcSocket \in [PcConnections -> {"new", "open", "closing", "closed"}]
  BY <1>a DEF ClientGone, PcTypeOK
<1>1. OneFileAtATime' /\ AnswersOK'  BY <1>0, ThreadsKept
<1>2. ClientStatesOK' /\ PcFilesWhole' /\ FramesDoNotBlock' /\ ThreadHasOwner'
  BY <1>0, <1>a DEF ClientStatesOK, PcFilesWhole, FramesDoNotBlock, ThreadHasOwner
<1>3. IsFiniteSet(inMap') /\ Cardinality(inMap') <= PcMaxClients
  BY <1>0, <1>a, FS_CardinalityType, FS_Subset, PcParameters DEF ConnectionsOK, PcTypeOK
<1>4. PcTypeOK'  BY <1>0, <1>3, <1>a DEF PcTypeOK, Requests
<1>5. ConnectionsOK'  BY <1>0, <1>3, <1>a DEF PcTypeOK, ConnectionsOK
<1> QED  BY <1>1, <1>2, <1>4, <1>5 DEF PcInv

LEMMA DeleteSocketOK ==
    ASSUME PcInv, NEW c \in PcConnections, DeleteSocket(c)
    PROVE  PcInv'
<1>a. PcTypeOK /\ FramesDoNotBlock /\ ThreadHasOwner /\ ConnectionsOK /\ ClientStatesOK /\ PcFilesWhole
  BY DEF PcInv
<1>0. /\ UNCHANGED <<pcOn, pcSocket, inMap, greeting, pcUpload, preparing, preparation,
                     answers, runtimeStopped, handled, acceptedFiles, answered>>
      /\ joining = 0 /\ c \in deleting /\ deleting' = deleting \ {c} /\ alive' = alive \ {c}
      /\ joining' = IF Running(c) THEN c ELSE 0
  BY DEF DeleteSocket, InLoop, FreedAfterThread, Running
<1>1. OneFileAtATime' /\ AnswersOK'  BY <1>0, ThreadsKept
<1>2. ClientStatesOK' /\ PcFilesWhole'  BY <1>0, <1>a DEF ClientStatesOK, PcFilesWhole
<1>3. FramesDoNotBlock'  BY <1>0, <1>a DEF FramesDoNotBlock
<1>4. ThreadHasOwner'
 <2> SUFFICES ASSUME NEW d \in PcConnections, preparation[d].state = "running"
              PROVE  d \in alive' \/ joining' = d
   BY <1>0 DEF ThreadHasOwner
 <2>1. 0 \notin PcConnections  BY PcParameters
 <2>2. d \in alive  BY <1>0, <1>a, <2>1 DEF ThreadHasOwner
 <2> QED  BY <1>0, <2>2 DEF Running
<1>5. PcTypeOK'  BY <1>0, <1>a DEF PcTypeOK, Requests
<1>6. ConnectionsOK'  BY <1>0, <1>a DEF ConnectionsOK
<1> QED  BY <1>1, <1>2, <1>3, <1>4, <1>5, <1>6 DEF PcInv

\* What a frame does to the upload of its connection, and to nothing else.
UploadBecomes(c, u) ==
    /\ pcUpload' = [pcUpload EXCEPT ![c] = u]
    /\ UNCHANGED <<preparing, preparation, joining, acceptedFiles>>

\* The outcomes of a frame.
LEMMA FrameOutcomes ==
    ASSUME PcInv, NEW c \in PcConnections, PcHandleFrame(c)
    PROVE  /\ UNCHANGED <<pcOn, inMap, deleting, alive, answers, runtimeStopped, answered>>
           /\ joining = 0 /\ c \in inMap /\ handled < MaxPcFrames /\ handled' = handled + 1
           /\ pcSocket' = pcSocket \/ pcSocket' = [pcSocket EXCEPT ![c] = "closing"]
           /\ greeting' = greeting \/ \E r \in PcRoles : greeting' = [greeting EXCEPT ![c] = r]
           /\ \/ UNCHANGED <<pcUpload, preparing, preparation, joining, acceptedFiles>>
              \/ UploadBecomes(c, NoUpload)
              \/ \E size \in 1 .. MaxFileSize : UploadBecomes(c, Begun(handled + 1, 1, size))
              \/ \E index \in 1 .. 2, length \in 1 .. ChunkSize :
                    /\ AppendValid(pcUpload[c], 1, index, length)
                    /\ UploadBecomes(c, Appended(pcUpload[c], 1, index, length))
              \/ /\ ~preparing[c] /\ preparing' = [preparing EXCEPT ![c] = FALSE]
                 /\ pcUpload' = [pcUpload EXCEPT ![c] = NoUpload]
                 /\ UNCHANGED <<preparation, joining, acceptedFiles>>
              \/ \E total : ~preparing[c] /\ Completes(c, total) /\ BeginPreparation(c)
<1>1. /\ UNCHANGED <<pcOn, inMap, deleting, alive, answers, runtimeStopped, answered>>
      /\ joining = 0 /\ c \in inMap /\ handled < MaxPcFrames /\ handled' = handled + 1
  BY DEF PcHandleFrame, InLoop
<1>2. PICK f \in PcFrames :
        CASE f.kind = "bad" -> Hangup(c)
          [] f.kind # "bad" /\ greeting[c] = "none" ->
               IF f.kind # "hello" THEN Hangup(c)
               ELSE /\ greeting' = [greeting EXCEPT ![c] = f.role]
                    /\ UNCHANGED <<pcSocket, pcUpload, preparing, preparation, joining,
                                   acceptedFiles>>
          [] f.kind \in {"hello", "control"} /\ greeting[c] # "none" -> Nothing
          [] f.kind \in {"begin", "chunk", "end"} /\ greeting[c] # "none" ->
               PcUploadFrame(c, f)
  BY DEF PcHandleFrame
<1>3. f.kind \in {"hello", "control", "bad", "begin", "chunk", "end"}  BY DEF PcFrames
<1>4. CASE f.kind = "bad" \/ (greeting[c] = "none" /\ f.kind # "hello")
  BY <1>1, <1>2, <1>3, <1>4 DEF Hangup
<1>5. CASE greeting[c] = "none" /\ f.kind = "hello"  BY <1>1, <1>2, <1>5 DEF PcFrames
<1>6. CASE greeting[c] # "none" /\ f.kind \in {"hello", "control"}  BY <1>1, <1>2, <1>6 DEF Nothing
<1>7. CASE greeting[c] # "none" /\ f.kind \in {"begin", "chunk", "end"}
 <2>0. PcUploadFrame(c, f)  BY <1>2, <1>7
 <2>1. CASE greeting[c] = "monitor"  BY <1>1, <2>0, <2>1 DEF PcUploadFrame, Nothing
 <2>2. CASE greeting[c] # "monitor" /\ f.kind = "begin"
   BY <1>1, <2>0, <2>2 DEF PcFrames, PcUploadFrame, SetUpload, UploadBecomes
 <2>3. CASE greeting[c] # "monitor" /\ f.kind = "chunk"
  <3>1. f.index \in 1 .. 2 /\ f.length \in 1 .. ChunkSize  BY <2>3 DEF PcFrames
  <3>2. \/ Nothing \/ SetUpload(c, NoUpload)
        \/ /\ AppendValid(pcUpload[c], 1, f.index, f.length)
           /\ SetUpload(c, Appended(pcUpload[c], 1, f.index, f.length))
    BY <2>0, <2>3 DEF PcUploadFrame
  <3>3. CASE Nothing  BY <1>1, <3>3 DEF Nothing
  <3>4. CASE SetUpload(c, NoUpload)  BY <1>1, <3>4 DEF SetUpload, UploadBecomes
  <3>5. CASE /\ AppendValid(pcUpload[c], 1, f.index, f.length)
             /\ SetUpload(c, Appended(pcUpload[c], 1, f.index, f.length))
    BY <1>1, <3>1, <3>5 DEF SetUpload, UploadBecomes
  <3> QED  BY <3>2, <3>3, <3>4, <3>5
 <2>4. CASE greeting[c] # "monitor" /\ f.kind = "end"
  <3>1. CASE preparing[c]  BY <1>1, <2>0, <2>4, <3>1 DEF PcUploadFrame, MayUpload, Nothing
  <3>2. CASE ~preparing[c] /\ Completes(c, f.total)
    BY <1>1, <2>0, <2>4, <3>2 DEF PcUploadFrame, MayUpload, BeginPreparation
  <3>3. CASE ~preparing[c] /\ ~Completes(c, f.total)
    BY <1>1, <2>0, <2>4, <3>3 DEF PcUploadFrame, MayUpload
  <3> QED  BY <3>1, <3>2, <3>3
 <2> QED  BY <1>7, <2>1, <2>2, <2>3, <2>4
<1> QED  BY <1>3, <1>4, <1>5, <1>6, <1>7

\* An upload of a connection gives way to another that is in order.
LEMMA UploadOfOK ==
    ASSUME ClientStatesOK, NEW c \in PcConnections, NEW u, UploadOK(u),
           u.active => u.chain = 1 /\ u.request \in Requests,
           pcUpload' = [pcUpload EXCEPT ![c] = u], preparation' = preparation
    PROVE  ClientStatesOK'
  BY DEF ClientStatesOK, Requests

LEMMA FrameTypes ==
    ASSUME PcInv, NEW c \in PcConnections, PcHandleFrame(c),
           preparing' \in [PcConnections -> BOOLEAN],
           \A d \in PcConnections : preparation'[d].state \in {"none", "running", "ended"},
           joining' = 0
    PROVE  PcTypeOK' /\ ConnectionsOK' /\ FramesDoNotBlock'
<1>a. PcTypeOK /\ ConnectionsOK  BY DEF PcInv
<1>1. /\ UNCHANGED <<pcOn, inMap, deleting, alive, answers, runtimeStopped, answered>>
      /\ joining = 0 /\ c \in inMap /\ handled < MaxPcFrames /\ handled' = handled + 1
      /\ pcSocket' = pcSocket \/ pcSocket' = [pcSocket EXCEPT ![c] = "closing"]
      /\ greeting' = greeting \/ \E r \in PcRoles : greeting' = [greeting EXCEPT ![c] = r]
  BY FrameOutcomes
<1>2. handled' \in 0 .. MaxPcFrames  BY <1>1, <1>a, PcParameters DEF PcTypeOK
<1>3. pcSocket \in [PcConnections -> {"new", "open", "closing", "closed"}]
      /\ greeting \in [PcConnections -> PcRoles \union {"none"}]
  BY <1>a DEF PcTypeOK
<1>4. pcSocket' \in [PcConnections -> {"new", "open", "closing", "closed"}]  BY <1>1, <1>3
<1>5. greeting' \in [PcConnections -> PcRoles \union {"none"}]  BY <1>1, <1>3
<1>6. PcTypeOK'  BY <1>1, <1>2, <1>4, <1>5, <1>a DEF PcTypeOK, Requests
<1>7. ConnectionsOK'  BY <1>1, <1>3, <1>a DEF ConnectionsOK, PcTypeOK
<1> QED  BY <1>6, <1>7 DEF FramesDoNotBlock

\* A frame that begins, continues or ends an upload without completing it.
LEMMA UploadFrameOK ==
    ASSUME PcInv, NEW c \in PcConnections, PcHandleFrame(c), NEW u, UploadOK(u),
           u.active => u.chain = 1 /\ u.request \in Requests,
           pcUpload' = [pcUpload EXCEPT ![c] = u],
           UNCHANGED <<preparing, preparation, joining, acceptedFiles>>
    PROVE  PcInv'
<1>1. /\ UNCHANGED <<pcOn, inMap, deleting, alive, answers, runtimeStopped, answered>>
      /\ joining = 0
  BY FrameOutcomes
<1>2. PcTypeOK' /\ ConnectionsOK' /\ FramesDoNotBlock'  BY <1>1, FrameTypes DEF PcInv, PcTypeOK
<1>3. OneFileAtATime' /\ AnswersOK'  BY <1>1, ThreadsKept
<1>4. ClientStatesOK'  BY UploadOfOK DEF PcInv
<1>5. PcFilesWhole' /\ ThreadHasOwner'  BY <1>1 DEF PcInv, PcFilesWhole, ThreadHasOwner
<1> QED  BY <1>2, <1>3, <1>4, <1>5 DEF PcInv

\* The frame that completes a file.
LEMMA CompletingFrameOK ==
    ASSUME PcInv, NEW c \in PcConnections, PcHandleFrame(c), NEW total, ~preparing[c],
           Completes(c, total), BeginPreparation(c)
    PROVE  PcInv'
<1> DEFINE u == pcUpload[c]
           file == [client |-> c, request |-> u.request, size |-> u.size, bytes |-> u.bytes]
           thread == [state |-> "running", request |-> u.request]
<1>a. PcTypeOK /\ FramesDoNotBlock /\ ThreadHasOwner /\ ConnectionsOK /\ ClientStatesOK
      /\ PcFilesWhole /\ OneFileAtATime /\ AnswersOK
  BY DEF PcInv
<1>1. /\ UNCHANGED <<pcOn, inMap, deleting, alive, answers, runtimeStopped, answered>>
      /\ joining = 0 /\ c \in inMap
  BY FrameOutcomes
<1>2. UploadOK(u) /\ u.active /\ u.chain = 1 /\ u.request \in Requests
      /\ u.bytes = WholeFile(1, u.size)
  BY <1>a, CompletedWhole DEF ClientStatesOK, Completes
<1>3. ~Running(c) /\ ~AnswerWaits(c)  BY <1>a DEF OneFileAtATime
<1>4. /\ preparing' = [preparing EXCEPT ![c] = TRUE]
      /\ acceptedFiles' = acceptedFiles \union {file}
      /\ preparation' = [preparation EXCEPT ![c] = thread] /\ joining' = 0
      /\ pcUpload' = [pcUpload EXCEPT ![c] = NoUpload]
  BY <1>1, <1>3 DEF BeginPreparation, Running
<1> HIDE DEF u
<1>5. file.client = c /\ file.request = u.request /\ file.size = u.size /\ file.bytes = u.bytes
      /\ file \in acceptedFiles'
  BY <1>4
<1>6. thread.state = "running" /\ thread.request = u.request
      /\ thread \in [state : {"none", "running", "ended"}, request : Nat]
  BY <1>2 DEF UploadOK, Uploads
<1> HIDE DEF file, thread
<1>7. /\ preparation \in [PcConnections -> [state : {"none", "running", "ended"}, request : Nat]]
      /\ preparing \in [PcConnections -> BOOLEAN]
  BY <1>a DEF ClientStatesOK, PcTypeOK
<1>8. /\ preparation' \in [PcConnections -> [state : {"none", "running", "ended"}, request : Nat]]
      /\ preparation'[c] = thread
      /\ \A d \in PcConnections \ {c} : preparation'[d] = preparation[d]
  BY <1>4, <1>6, <1>7
<1>9. preparing' \in [PcConnections -> BOOLEAN]  BY <1>4, <1>7
<1>10. \A d \in PcConnections \ {c} : preparing'[d] = preparing[d]  BY <1>4, <1>7
<1>11. preparing'[c] = TRUE  BY <1>4, <1>7
<1>12. PcTypeOK' /\ ConnectionsOK' /\ FramesDoNotBlock'  BY <1>4, <1>8, <1>9, FrameTypes
<1>13. ClientStatesOK'
 <2>1. UploadOK(NoUpload) /\ NoUpload.active = FALSE  BY NoUploadOK DEF NoUpload
 <2> HIDE DEF NoUpload
 <2>2. /\ DOMAIN pcUpload' = PcConnections /\ pcUpload'[c] = NoUpload
       /\ \A d \in PcConnections \ {c} : pcUpload'[d] = pcUpload[d]
   BY <1>4, <1>a DEF ClientStatesOK
 <2> QED  BY <1>8, <1>a, <2>1, <2>2 DEF ClientStatesOK, Requests
<1>14. PcFilesWhole'  BY <1>1, <1>2, <1>4, <1>5, <1>a DEF PcFilesWhole
<1>15. ThreadHasOwner'
 <2> SUFFICES ASSUME NEW d \in PcConnections, preparation'[d].state = "running"
              PROVE  d \in alive' \/ joining' = d
   BY DEF ThreadHasOwner
 <2>1. CASE d = c  BY <1>1, <1>a, <2>1 DEF ConnectionsOK
 <2>2. CASE d # c  BY <1>1, <1>4, <1>8, <2>2, <1>a DEF ThreadHasOwner
 <2> QED  BY <2>1, <2>2
<1>16. \A d, request : AcceptedFrom(d, request) => AcceptedFrom(d, request)'
  BY <1>4 DEF AcceptedFrom
<1>17. \A d : AnswerWaits(d)' <=> AnswerWaits(d)  BY <1>1 DEF AnswerWaits
<1>18. OneFileAtATime'
 <2> SUFFICES ASSUME NEW d \in PcConnections
              PROVE  /\ Running(d)' => /\ preparing'[d] /\ ~AnswerWaits(d)
                                       /\ preparation'[d].request \in Requests
                                       /\ \E f \in acceptedFiles' : /\ f.client = d
                                             /\ f.request = preparation'[d].request
                     /\ AnswerWaits(d) => preparing'[d]
   BY <1>17 DEF OneFileAtATime, Requests, AcceptedFrom
 <2>1. CASE d = c  BY <1>2, <1>3, <1>5, <1>6, <1>8, <1>11, <2>1
 <2>2. CASE d # c
  <3>1. preparation'[d] = preparation[d] /\ preparing'[d] = preparing[d]  BY <1>8, <1>10, <2>2
  <3>2. Running(d)' <=> Running(d)  BY <3>1 DEF Running
  <3>3. Running(d) => \E f \in acceptedFiles' : /\ f.client = d
                                               /\ f.request = preparation[d].request
    BY <1>4, <1>a DEF OneFileAtATime, AcceptedFrom
  <3>4. /\ Running(d) => preparing[d] /\ ~AnswerWaits(d) /\ preparation[d].request \in Requests
        /\ AnswerWaits(d) => preparing[d]
    BY <1>a DEF OneFileAtATime
  <3> QED  BY <3>1, <3>2, <3>3, <3>4
 <2> QED  BY <2>1, <2>2
<1>19. AnswersOK'  BY <1>1, <1>16, <1>a DEF AnswersOK
<1> QED  BY <1>12, <1>13, <1>14, <1>15, <1>18, <1>19 DEF PcInv

LEMMA PcHandleFrameOK ==
    ASSUME PcInv, NEW c \in PcConnections, PcHandleFrame(c)
    PROVE  PcInv'
<1>a. PcTypeOK /\ ClientStatesOK /\ OneFileAtATime  BY DEF PcInv
<1>1. /\ UNCHANGED <<pcOn, inMap, deleting, alive, answers, runtimeStopped, answered>>
      /\ joining = 0 /\ handled < MaxPcFrames
  BY FrameOutcomes
<1>2. handled + 1 \in Requests /\ handled + 1 \in Nat
  BY <1>1, <1>a, PcParameters DEF PcTypeOK, Requests
<1>3. UploadOK(NoUpload) /\ NoUpload.active = FALSE  BY NoUploadOK DEF NoUpload
<1> HIDE DEF NoUpload
<1>4. UploadOK(pcUpload[c]) /\ pcUpload[c] \in Uploads
      /\ (pcUpload[c].active => pcUpload[c].chain = 1 /\ pcUpload[c].request \in Requests)
      /\ DOMAIN pcUpload = PcConnections
  BY <1>a DEF ClientStatesOK, UploadOK
<1>5. CASE UNCHANGED <<pcUpload, preparing, preparation, joining, acceptedFiles>>
 <2>1. pcUpload' = pcUpload /\ ClientStatesOK'  BY <1>5, <1>a DEF ClientStatesOK, Requests
 <2>2. PcTypeOK' /\ ConnectionsOK' /\ FramesDoNotBlock'
   BY <1>1, <1>5, <1>a, FrameTypes DEF PcTypeOK
 <2>3. OneFileAtATime' /\ AnswersOK'  BY <1>1, <1>5, ThreadsKept
 <2>4. PcFilesWhole' /\ ThreadHasOwner'  BY <1>1, <1>5 DEF PcInv, PcFilesWhole, ThreadHasOwner
 <2> QED  BY <2>1, <2>2, <2>3, <2>4 DEF PcInv
<1>6. CASE UploadBecomes(c, NoUpload)  BY <1>3, <1>6, UploadFrameOK DEF UploadBecomes
<1>7. ASSUME NEW size \in 1 .. MaxFileSize, UploadBecomes(c, Begun(handled + 1, 1, size))
      PROVE  PcInv'
 <2> DEFINE u == Begun(handled + 1, 1, size)
 <2>1. UploadOK(u)  BY <1>2, BegunOK
 <2>2. u.chain = 1 /\ u.request = handled + 1  BY DEF Begun
 <2>3. /\ pcUpload' = [pcUpload EXCEPT ![c] = u]
       /\ UNCHANGED <<preparing, preparation, joining, acceptedFiles>>
   BY <1>7 DEF UploadBecomes
 <2> HIDE DEF u
 <2> QED  BY <1>2, <2>1, <2>2, <2>3, UploadFrameOK
<1>8. ASSUME NEW index \in 1 .. 2, NEW length \in 1 .. ChunkSize,
             AppendValid(pcUpload[c], 1, index, length),
             UploadBecomes(c, Appended(pcUpload[c], 1, index, length))
      PROVE  PcInv'
 <2> DEFINE u == Appended(pcUpload[c], 1, index, length)
 <2>1. UploadOK(u) /\ u.active = pcUpload[c].active /\ u.request = pcUpload[c].request
   BY <1>4, <1>8, AppendedOK, AppendedKeeps
 <2>2. u.chain = pcUpload[c].chain  BY <1>4 DEF Appended, Uploads
 <2>3. /\ pcUpload' = [pcUpload EXCEPT ![c] = u]
       /\ UNCHANGED <<preparing, preparation, joining, acceptedFiles>>
   BY <1>8 DEF UploadBecomes
 <2> HIDE DEF u
 <2> QED  BY <1>4, <2>1, <2>2, <2>3, UploadFrameOK
<1>9. CASE /\ ~preparing[c] /\ preparing' = [preparing EXCEPT ![c] = FALSE]
           /\ pcUpload' = [pcUpload EXCEPT ![c] = NoUpload]
           /\ UNCHANGED <<preparation, joining, acceptedFiles>>
  BY <1>3, <1>9, <1>a, UploadFrameOK DEF PcTypeOK
<1>10. ASSUME NEW total, ~preparing[c], Completes(c, total), BeginPreparation(c)
       PROVE  PcInv'
  BY <1>10, CompletingFrameOK
<1>11. \/ UNCHANGED <<pcUpload, preparing, preparation, joining, acceptedFiles>>
       \/ UploadBecomes(c, NoUpload)
       \/ \E size \in 1 .. MaxFileSize : UploadBecomes(c, Begun(handled + 1, 1, size))
       \/ \E index \in 1 .. 2, length \in 1 .. ChunkSize :
             /\ AppendValid(pcUpload[c], 1, index, length)
             /\ UploadBecomes(c, Appended(pcUpload[c], 1, index, length))
       \/ /\ ~preparing[c] /\ preparing' = [preparing EXCEPT ![c] = FALSE]
          /\ pcUpload' = [pcUpload EXCEPT ![c] = NoUpload]
          /\ UNCHANGED <<preparation, joining, acceptedFiles>>
       \/ \E total : ~preparing[c] /\ Completes(c, total) /\ BeginPreparation(c)
  BY FrameOutcomes
<1> QED  BY <1>5, <1>6, <1>7, <1>8, <1>9, <1>10, <1>11

LEMMA PreparationEndsOK ==
    ASSUME PcInv, NEW c \in PcConnections, PreparationEnds(c)
    PROVE  PcInv'
<1> DEFINE a == [client |-> c, request |-> preparation[c].request]
           Kind == [client : PcConnections, request : Requests]
           States == [state : {"none", "running", "ended"}, request : Nat]
<1>a. PcTypeOK /\ FramesDoNotBlock /\ ThreadHasOwner /\ ConnectionsOK /\ ClientStatesOK
      /\ PcFilesWhole /\ OneFileAtATime /\ AnswersOK
  BY DEF PcInv
<1>0. /\ UNCHANGED <<pcOn, pcSocket, inMap, deleting, alive, greeting, pcUpload, preparing,
                     runtimeStopped, handled, acceptedFiles, answered>>
      /\ preparation[c].state = "running" /\ answers' = Append(answers, a)
      /\ preparation' = [preparation EXCEPT ![c].state = "ended"]
      /\ joining' = IF joining = c THEN 0 ELSE joining
  BY DEF PreparationEnds
<1>1. /\ Running(c) /\ preparing[c] /\ ~AnswerWaits(c) /\ AcceptedFrom(c, preparation[c].request)
      /\ preparation[c].request \in Requests
  BY <1>0, <1>a DEF OneFileAtATime, Running
<1>2. a \in Kind /\ a.client = c /\ a.request = preparation[c].request  BY <1>1
<1>3. answers \in Seq(Kind) /\ preparation \in [PcConnections -> States]
  BY <1>a DEF PcTypeOK, ClientStatesOK
<1>4. /\ preparation' \in [PcConnections -> States] /\ preparation'[c].state = "ended"
      /\ \A d \in PcConnections \ {c} : preparation'[d] = preparation[d]
 <2> DEFINE ended == [preparation[c] EXCEPT !.state = "ended"]
 <2>1. ended \in States /\ ended.state = "ended"  BY <1>3
 <2>2. preparation' = [preparation EXCEPT ![c] = ended]  BY <1>0
 <2> HIDE DEF ended, States
 <2> QED  BY <1>3, <2>1, <2>2
<1>5. \A d \in PcConnections : preparation'[d].state \in {"none", "running", "ended"}  BY <1>4
<1> HIDE DEF a, Kind, States
<1>6. /\ answers' \in Seq(Kind) /\ Len(answers) \in Nat /\ Len(answers') = Len(answers) + 1
      /\ answers'[Len(answers) + 1] = a
      /\ \A i \in 1 .. Len(answers) : answers'[i] = answers[i]
  BY <1>0, <1>2, <1>3, AppendedAnswer
<1>7. \A i \in 1 .. Len(answers') : i \in 1 .. Len(answers) \/ i = Len(answers) + 1  BY <1>6
<1>8. \A d \in PcConnections \ {c} : (AnswerWaits(d)' => AnswerWaits(d)) /\ (Running(d)' => Running(d))
 <2>1. ASSUME NEW d \in PcConnections \ {c}, AnswerWaits(d)' PROVE AnswerWaits(d)
  <3>1. PICK i \in 1 .. Len(answers') : answers'[i].client = d  BY <2>1 DEF AnswerWaits
  <3>2. i \in 1 .. Len(answers)  BY <1>2, <1>6, <1>7, <3>1
  <3> QED  BY <1>6, <3>1, <3>2 DEF AnswerWaits
 <2> QED  BY <1>4, <2>1 DEF Running
<1>9. PcTypeOK'  BY <1>0, <1>5, <1>6, <1>a DEF Kind, Requests, PcTypeOK
<1>10. ClientStatesOK'  BY <1>0, <1>4, <1>a DEF ClientStatesOK, States, Requests
<1>11. ConnectionsOK' /\ PcFilesWhole' /\ FramesDoNotBlock'
  BY <1>0, <1>a DEF ConnectionsOK, PcFilesWhole, FramesDoNotBlock
<1>12. ThreadHasOwner'
 <2> SUFFICES ASSUME NEW d \in PcConnections, preparation'[d].state = "running"
              PROVE  d \in alive \/ joining' = d
   BY <1>0 DEF ThreadHasOwner
 <2>1. d # c /\ preparation[d].state = "running"  BY <1>4
 <2> QED  BY <1>0, <1>a, <2>1 DEF ThreadHasOwner
<1>13. OneFileAtATime'
 <2> SUFFICES ASSUME NEW d \in PcConnections
              PROVE  /\ Running(d)' => /\ preparing[d] /\ ~AnswerWaits(d)'
                                       /\ preparation'[d].request \in Requests
                                       /\ \E f \in acceptedFiles : /\ f.client = d
                                             /\ f.request = preparation'[d].request
                     /\ AnswerWaits(d)' => preparing[d]
   BY <1>0 DEF OneFileAtATime, Requests, AcceptedFrom
 <2>1. CASE d = c  BY <1>1, <1>4, <2>1 DEF Running
 <2>2. CASE d # c  BY <1>4, <1>8, <1>a, <2>2 DEF OneFileAtATime, AcceptedFrom
 <2> QED  BY <2>1, <2>2
<1>14. AnswersOK'
 <2>1. ASSUME NEW i \in 1 .. Len(answers')
       PROVE  \E f \in acceptedFiles : f.client = answers'[i].client /\ f.request = answers'[i].request
   BY <1>1, <1>2, <1>6, <1>7, <1>a DEF AnswersOK, AcceptedFrom
 <2>2. ASSUME NEW i \in 1 .. Len(answers'), NEW j \in 1 .. Len(answers'),
              answers'[i].client = answers'[j].client
       PROVE  i = j
   BY <1>1, <1>2, <1>6, <1>7, <2>2, <1>a DEF AnswerWaits, AnswersOK
 <2> QED  BY <1>0, <2>1, <2>2 DEF AnswersOK, AcceptedFrom
<1> QED  BY <1>9, <1>10, <1>11, <1>12, <1>13, <1>14 DEF PcInv

LEMMA DeliverAnswerOK ==
    ASSUME PcInv, DeliverAnswer
    PROVE  PcInv'
<1> DEFINE a == answers[1]
           Kind == [client : PcConnections, request : Requests]
<1>a. PcTypeOK /\ FramesDoNotBlock /\ ThreadHasOwner /\ ConnectionsOK /\ ClientStatesOK
      /\ PcFilesWhole /\ OneFileAtATime /\ AnswersOK
  BY DEF PcInv
<1>0. /\ UNCHANGED <<pcOn, pcSocket, inMap, deleting, alive, greeting, pcUpload,
                     preparation, joining, runtimeStopped, handled, acceptedFiles>>
      /\ answers # <<>> /\ answers' = Tail(answers) /\ answers \in Seq(Kind)
  BY <1>a DEF DeliverAnswer, PcTypeOK
<1>1. /\ answers' \in Seq(Kind) /\ Len(answers) \in Nat /\ Len(answers) > 0
      /\ Head(answers) = a /\ a \in Kind
      /\ \A i \in 1 .. Len(answers') : i + 1 \in 1 .. Len(answers) /\ answers'[i] = answers[i + 1]
  BY <1>0, AnswersTail
<1>2. a.client \in PcConnections /\ 1 \in 1 .. Len(answers)  BY <1>1
<1>3. /\ preparing' = [preparing EXCEPT ![a.client] = IF StillThere(a.client)
                                                      THEN AfterAnswer(a.client) ELSE @]
      /\ answered' = IF StillThere(a.client) /\ pcSocket[a.client] = "open"
                     THEN answered \union {a} ELSE answered
  BY <1>1 DEF DeliverAnswer
<1> HIDE DEF Kind, a
<1>4. \A d : AnswerWaits(d)' => AnswerWaits(d) /\ d # a.client
 <2> SUFFICES ASSUME NEW d, NEW i \in 1 .. Len(answers'), answers'[i].client = d
              PROVE  AnswerWaits(d) /\ d # a.client
   BY DEF AnswerWaits
 <2>1. i + 1 \in 1 .. Len(answers) /\ answers[i + 1].client = d  BY <1>1
 <2>2. d # a.client
  <3> SUFFICES ASSUME answers[i + 1].client = answers[1].client PROVE FALSE  BY <2>1 DEF a
  <3>1. i + 1 = 1  BY <1>2, <1>a, <2>1 DEF AnswersOK
  <3> QED  BY <3>1
 <2> QED  BY <2>1, <2>2 DEF AnswerWaits
<1>5. ~Running(a.client)  BY <1>2, <1>a DEF OneFileAtATime, AnswerWaits, a
<1>6. preparing \in [PcConnections -> BOOLEAN]  BY <1>a DEF PcTypeOK
<1>7. preparing' \in [PcConnections -> BOOLEAN]
 <2>1. CASE StillThere(a.client)  BY <1>2, <1>3, <1>6, <2>1 DEF AfterAnswer
 <2>2. CASE ~StillThere(a.client)  BY <1>2, <1>3, <1>6, <2>2
 <2> QED  BY <2>1, <2>2
<1>8. \A d \in PcConnections \ {a.client} : preparing'[d] = preparing[d]  BY <1>3, <1>6
<1>9. PcTypeOK'  BY <1>0, <1>1, <1>7, <1>a DEF Kind, Requests, PcTypeOK
<1>10. ClientStatesOK' /\ ConnectionsOK' /\ FramesDoNotBlock' /\ ThreadHasOwner'
  BY <1>0, <1>a DEF ClientStatesOK, ConnectionsOK, FramesDoNotBlock, ThreadHasOwner, Requests
<1>11. PcFilesWhole'  BY <1>0, <1>2, <1>3, <1>a DEF AnswersOK, AcceptedFrom, a, PcFilesWhole
<1>12. OneFileAtATime'
 <2> SUFFICES ASSUME NEW d \in PcConnections
              PROVE  /\ Running(d) => /\ preparing'[d] /\ ~AnswerWaits(d)'
                                      /\ AcceptedFrom(d, preparation[d].request)
                                      /\ preparation[d].request \in Requests
                     /\ AnswerWaits(d)' => preparing'[d]
   BY <1>0 DEF OneFileAtATime, Requests, AcceptedFrom, Running
 <2>1. CASE d = a.client  BY <1>4, <1>5, <2>1
 <2>2. CASE d # a.client  BY <1>4, <1>8, <1>a, <2>2 DEF OneFileAtATime
 <2> QED  BY <2>1, <2>2
<1>13. AnswersOK'
 <2>1. ASSUME NEW i \in 1 .. Len(answers')
       PROVE  \E f \in acceptedFiles : f.client = answers'[i].client /\ f.request = answers'[i].request
   BY <1>1, <1>a DEF AnswersOK, AcceptedFrom
 <2>2. ASSUME NEW i \in 1 .. Len(answers'), NEW j \in 1 .. Len(answers'),
              answers'[i].client = answers'[j].client
       PROVE  i = j
   BY <1>1, <2>2, <1>a DEF AnswersOK
 <2> QED  BY <1>0, <2>1, <2>2 DEF AnswersOK, AcceptedFrom
<1> QED  BY <1>9, <1>10, <1>11, <1>12, <1>13 DEF PcInv

LEMMA PcStopOK ==
    ASSUME PcInv, PcStop
    PROVE  PcInv'
<1>a. PcTypeOK /\ FramesDoNotBlock /\ ThreadHasOwner /\ ConnectionsOK /\ ClientStatesOK /\ PcFilesWhole
  BY DEF PcInv
<1>0. /\ UNCHANGED <<alive, greeting, pcUpload, preparing, preparation, answers, joining,
                     handled, acceptedFiles, answered>>
      /\ pcOn' = FALSE /\ runtimeStopped' = TRUE /\ inMap' = {}
      /\ pcSocket' = [c \in PcConnections |-> IF c \in inMap THEN "closed" ELSE pcSocket[c]]
      /\ deleting' = deleting \union inMap
  BY DEF PcStop
<1>1. OneFileAtATime' /\ AnswersOK'  BY <1>0, ThreadsKept
<1>2. ClientStatesOK' /\ PcFilesWhole' /\ FramesDoNotBlock' /\ ThreadHasOwner'
  BY <1>0, <1>a DEF ClientStatesOK, PcFilesWhole, FramesDoNotBlock, ThreadHasOwner, Requests
<1>3. IsFiniteSet(inMap') /\ Cardinality(inMap') = 0 /\ Cardinality(inMap') <= PcMaxClients
  BY <1>0, FS_EmptySet, PcParameters
<1>4. PcTypeOK'  BY <1>0, <1>3, <1>a DEF PcTypeOK, Requests
<1>5. ConnectionsOK'
 <2>1. ASSUME NEW c \in PcConnections PROVE pcSocket'[c] \notin {"open", "closing"}
   BY <1>0, <1>a DEF ConnectionsOK
 <2>2. deleting \subseteq PcConnections /\ inMap \subseteq PcConnections  BY <1>a DEF PcTypeOK
 <2>3. ASSUME NEW c \in deleting' PROVE pcSocket'[c] = "closed"
   BY <1>0, <1>a, <2>2 DEF ConnectionsOK
 <2> QED  BY <1>0, <1>3, <2>1, <2>3 DEF ConnectionsOK
<1> QED  BY <1>1, <1>2, <1>4, <1>5 DEF PcInv

LEMMA PcStep ==
    ASSUME PcInv, [PcNext]_pcVars
    PROVE  PcInv'
<1>1. CASE UNCHANGED pcVars
 <2>1. OneFileAtATime' /\ AnswersOK'  BY <1>1, ThreadsKept DEF pcVars
 <2> QED
   BY <1>1, <2>1 DEF pcVars, PcInv, PcTypeOK, PcFilesWhole, FramesDoNotBlock, ThreadHasOwner,
                     ClientStatesOK, ConnectionsOK, Requests
<1>2. CASE PcNext
  BY <1>2, AcceptClientOK, ClientGoneOK, DeleteSocketOK, PcHandleFrameOK, PreparationEndsOK,
     DeliverAnswerOK, PcStopOK DEF PcNext
<1> QED  BY <1>1, <1>2

\* A file reaches the authentication runtime whole and only the client that
\* uploaded it is answered, the Qt thread never waits for a preparation but in
\* the destructor of its client, and no preparation runs without an owner,
\* whatever the clients send and in whatever order their threads end.
THEOREM PcClientsSafe ==
    PcSpec => [](PcTypeOK /\ PcFilesWhole /\ FramesDoNotBlock /\ ThreadHasOwner)
<1>1. PcInv => PcTypeOK /\ PcFilesWhole /\ FramesDoNotBlock /\ ThreadHasOwner  BY DEF PcInv
<1> QED  BY <1>1, PcInitOK, PcStep, PTL DEF PcSpec

-----------------------------------------------------------------------------
(* ManagerLink: the connection to a node and the upload it carries.          *)

\* What the pump works on: an upload under way, the bytes that wait, the node's end.
Sent == [request : Nat \ {0}, size : 1 .. MaxFileSize, offset : Nat, next : Nat \ {0},
         begunOn : Links]
SentOK(u) == u \in Sent /\ u.offset = Lesser(u.size, (u.next - 1) * ChunkSize)
PumpStates == [uploadNow : Sent, backlog : Nat, session : Uploads, refused : BOOLEAN]

\* The node's session is where the upload is.
InStep(u, s) ==
    /\ s.active /\ s.chain = 1 /\ s.request = u.request /\ s.size = u.size
    /\ s.next = u.next /\ Len(s.bytes) = u.offset

LEMMA LinkNumbers ==
    /\ ChunkSize \in Nat \ {0} /\ MaxFileSize \in Nat \ {0} /\ MaxBacklog \in Nat
    /\ EndReserve \in Nat \ {0} /\ ChunkSize + 1 <= MaxBacklog - EndReserve
    /\ MaxLinks \in Nat /\ MaxUploads \in Nat /\ OfflineTimeout \in Nat \ {0}
  BY UploadParameters, LinkParameters

LEMMA SentIsSending ==
    ASSUME NEW u \in Sent
    PROVE  u # NotSending
  BY DEF Sent, NotSending

LEMMA OffsetsOf ==
    ASSUME NEW p \in PumpStates, SentOK(p.uploadNow), NEW k \in Nat
    PROVE  /\ OffsetAfter(p, k) \in Nat /\ OffsetAfter(p, k) >= p.uploadNow.offset
           /\ OffsetAfter(p, k) <= p.uploadNow.size /\ p.uploadNow.offset <= p.uploadNow.size
           /\ OffsetAfter(p, 0) = p.uploadNow.offset
           /\ k * ChunkSize \in Nat
           /\ BacklogAfter(p, k) \in Nat /\ BacklogAfter(p, k) >= p.backlog + k
<1> DEFINE u == p.uploadNow
           z == k * ChunkSize
           b == (u.next - 1) * ChunkSize
<1>1. u \in Sent /\ u.size \in Nat /\ u.offset \in Nat /\ p.backlog \in Nat /\ u.next - 1 \in Nat
  BY LinkNumbers DEF PumpStates, Sent
<1>2. z \in Nat /\ b \in Nat  BY <1>1, LinkNumbers
<1>3. u.offset = Lesser(u.size, b)  BY DEF SentOK
<1>4. u.offset <= u.size  BY <1>1, <1>2, <1>3 DEF Lesser
<1>5. OffsetAfter(p, k) = Lesser(u.size, u.offset + z)  BY DEF OffsetAfter
<1>6. OffsetAfter(p, 0) = Lesser(u.size, u.offset)  BY <1>1, LinkNumbers DEF OffsetAfter
<1> HIDE DEF u, z, b
<1>7. /\ OffsetAfter(p, k) \in Nat /\ OffsetAfter(p, k) >= u.offset /\ OffsetAfter(p, k) <= u.size
      /\ OffsetAfter(p, 0) = u.offset
  BY <1>1, <1>2, <1>4, <1>5, <1>6 DEF Lesser
<1>8. BacklogAfter(p, k) = p.backlog + (OffsetAfter(p, k) - u.offset) + k  BY DEF BacklogAfter, u
<1>9. BacklogAfter(p, k) \in Nat /\ BacklogAfter(p, k) >= p.backlog + k  BY <1>1, <1>7, <1>8
<1> QED  BY <1>2, <1>4, <1>7, <1>9 DEF u, z

\* The pump stops: after as many chunks as the file can have nothing is left.
LEMMA ChunksExist ==
    ASSUME NEW p \in PumpStates, SentOK(p.uploadNow)
    PROVE  /\ Chunks(p) \in 0 .. MaxFileSize
           /\ \A j \in 1 .. Chunks(p) : Writes(p, j)
           /\ ~Writes(p, Chunks(p) + 1)
<1> DEFINE T == {k \in Nat : ~Writes(p, k + 1)}
<1>1. MaxFileSize \in T
 <2>1. OffsetAfter(p, MaxFileSize) >= p.uploadNow.size
   BY LinkNumbers DEF PumpStates, Sent, OffsetAfter, Lesser
 <2>2. p.uploadNow.size \in Nat /\ OffsetAfter(p, MaxFileSize) \in Nat /\ MaxFileSize + 1 - 1 = MaxFileSize
   BY LinkNumbers, OffsetsOf DEF PumpStates, Sent
 <2> QED  BY <2>1, <2>2, LinkNumbers DEF Writes
<1>2. PICK k \in T : \A y \in T : k <= y  BY <1>1, LeastNat
<1>3. k \in 0 .. MaxFileSize /\ ~Writes(p, k + 1)  BY <1>1, <1>2, LinkNumbers
<1>4. \A j \in 1 .. k : Writes(p, j)
 <2> SUFFICES ASSUME NEW j \in 1 .. k, ~Writes(p, j) PROVE FALSE  OBVIOUS
 <2>1. j - 1 \in Nat /\ j - 1 + 1 = j /\ ~(k <= j - 1)  BY <1>2
 <2>2. j - 1 \in T  BY <2>1
 <2> QED  BY <1>2, <2>1, <2>2
<1>5. \E n \in 0 .. MaxFileSize : ~Writes(p, n + 1) /\ \A j \in 1 .. n : Writes(p, j)  BY <1>3, <1>4
<1> QED  BY <1>5, Zenon DEF Chunks

\* Chunks that are written, field by field.
LEMMA ChunksWritten ==
    ASSUME NEW p \in PumpStates, NEW k \in Nat, NEW q, q = WriteChunks(p, k)
    PROVE  /\ q.uploadNow = [p.uploadNow EXCEPT !.offset = OffsetAfter(p, k), !.next = @ + k]
           /\ q.backlog = BacklogAfter(p, k)
           /\ LET fits == k = 0 \/ AppendValid(p.session, 1, p.uploadNow.next,
                                       Lesser(ChunkSize, p.uploadNow.size - p.uploadNow.offset))
              IN  /\ q.refused = (p.refused \/ ~fits)
                  /\ q.session = IF fits
                                 THEN [p.session EXCEPT !.next = @ + k,
                                       !.bytes = @ \o ChunkUnits(1, p.uploadNow.next,
                                           OffsetAfter(p, k) - p.uploadNow.offset)]
                                 ELSE NoUpload
           /\ DOMAIN q = {"uploadNow", "backlog", "session", "refused"}
<1> DEFINE u == [p.uploadNow EXCEPT !.offset = OffsetAfter(p, k), !.next = @ + k]
           b == BacklogAfter(p, k)
           fits == k = 0 \/ AppendValid(p.session, 1, p.uploadNow.next,
                                        Lesser(ChunkSize, p.uploadNow.size - p.uploadNow.offset))
           s == IF fits THEN [p.session EXCEPT !.next = @ + k,
                                   !.bytes = @ \o ChunkUnits(1, p.uploadNow.next,
                                       OffsetAfter(p, k) - p.uploadNow.offset)]
                ELSE NoUpload
           r == p.refused \/ ~fits
<1>1. q = [p EXCEPT !.uploadNow.offset = OffsetAfter(p, k), !.uploadNow.next = @ + k,
                    !.backlog = b, !.session = s, !.refused = r]
  BY DEF WriteChunks
<1>2. DOMAIN p = {"uploadNow", "backlog", "session", "refused"}  BY DEF PumpStates
<1>3. DOMAIN p.uploadNow = {"request", "size", "offset", "next", "begunOn"}  BY DEF PumpStates, Sent
<1> DEFINE o == OffsetAfter(p, k)
<1>4. q = [p EXCEPT !.uploadNow.offset = o, !.uploadNow.next = @ + k,
                    !.backlog = b, !.session = s, !.refused = r]
  BY <1>1
<1>5. u = [p.uploadNow EXCEPT !.offset = o, !.next = @ + k]  OBVIOUS
<1> HIDE DEF b, s, r, o, u
<1>6. q.uploadNow = u /\ q.backlog = b /\ q.session = s /\ q.refused = r
      /\ DOMAIN q = {"uploadNow", "backlog", "session", "refused"}
  BY <1>2, <1>3, <1>4, <1>5
<1> QED  BY <1>6, Zenon DEF b, s, r, o, u

LEMMA ChunksAdd ==
    ASSUME NEW n \in Nat \ {0}, NEW k \in Nat, NEW c \in Nat, NEW m, m = n + k
    PROVE  /\ (m - 1) * c = (n - 1) * c + k * c
           /\ (n - 1) * c \in Nat /\ k * c \in Nat
  OBVIOUS

\* What a chunk or several do to an upload and to the node's session.
LEMMA ChunksOK ==
    ASSUME NEW p \in PumpStates, SentOK(p.uploadNow),
           p.session.active => InStep(p.uploadNow, p.session),
           NEW q, q = WriteChunks(p, Chunks(p))
    PROVE  /\ SentOK(q.uploadNow) /\ q.uploadNow.begunOn = p.uploadNow.begunOn
           /\ q.uploadNow.request = p.uploadNow.request /\ q.uploadNow.size = p.uploadNow.size
           /\ q.uploadNow.offset >= p.uploadNow.offset
           /\ q.session \in Uploads /\ q.backlog \in Nat /\ q.refused \in BOOLEAN
           /\ p.session.active => InStep(q.uploadNow, q.session) /\ q.refused = p.refused
           /\ ~p.session.active => ~q.session.active
           /\ q.backlog <= MaxBacklog \/ (q.backlog = p.backlog /\ q.uploadNow.offset = p.uploadNow.offset)
           /\ DOMAIN q = {"uploadNow", "backlog", "session", "refused"}
<1> DEFINE k == Chunks(p)
           u == p.uploadNow
           s == p.session
           o == OffsetAfter(p, k)
           length == Lesser(ChunkSize, u.size - u.offset)
           fits == k = 0 \/ AppendValid(s, 1, u.next, length)
           units == ChunkUnits(1, u.next, o - u.offset)
           read == [s EXCEPT !.next = @ + k, !.bytes = @ \o units]
           b == BacklogAfter(p, k)
<1>1. k \in 0 .. MaxFileSize /\ k \in Nat /\ \A j \in 1 .. k : Writes(p, j)
  BY ChunksExist, LinkNumbers
<1>2. /\ u \in Sent /\ s \in Uploads /\ p.refused \in BOOLEAN /\ p.backlog \in Nat /\ SentOK(u)
      /\ s.active => InStep(u, s)
  BY DEF PumpStates
<1>3. /\ u.request \in Nat \ {0} /\ u.size \in 1 .. MaxFileSize /\ u.size \in Nat /\ u.offset \in Nat
      /\ u.next \in Nat \ {0} /\ u.begunOn \in Links
      /\ s.active \in BOOLEAN /\ s.next \in Nat \ {0} /\ s.bytes \in Seq(Nat \X Nat)
  BY <1>2, LinkNumbers DEF Sent, Uploads
<1>4. /\ o \in Nat /\ o >= u.offset /\ o <= u.size /\ u.offset <= u.size
      /\ k * ChunkSize \in Nat /\ b \in Nat /\ b >= p.backlog + k
      /\ OffsetAfter(p, 0) = u.offset
  BY <1>1, OffsetsOf
<1>5. /\ q.uploadNow = [u EXCEPT !.offset = o, !.next = @ + k] /\ q.backlog = b
      /\ q.refused = (p.refused \/ ~fits) /\ q.session = IF fits THEN read ELSE NoUpload
      /\ DOMAIN q = {"uploadNow", "backlog", "session", "refused"}
  BY <1>1, ChunksWritten, ZenonT(60)
<1>6. o = Lesser(u.size, u.offset + k * ChunkSize)  BY DEF OffsetAfter
<1>7. k = 0 => o = u.offset  BY <1>4
<1>8. k # 0 => u.offset < u.size /\ u.offset = (u.next - 1) * ChunkSize
 <2> SUFFICES ASSUME k # 0 PROVE u.offset < u.size /\ u.offset = (u.next - 1) * ChunkSize  OBVIOUS
 <2>1. 1 \in 1 .. k /\ 1 - 1 = 0  BY <1>1
 <2>2. OffsetAfter(p, 0) < u.size  BY <1>1, <2>1 DEF Writes
 <2> DEFINE base == (u.next - 1) * ChunkSize
 <2>3. u.offset = Lesser(u.size, base) /\ base \in Nat
   BY <1>2, <1>3, ChunksAdd, LinkNumbers DEF SentOK
 <2> HIDE DEF base, u
 <2>4. u.offset < u.size /\ u.offset = base  BY <1>3, <1>4, <2>2, <2>3 DEF Lesser
 <2> QED  BY <2>4 DEF base
<1>9. units \in Seq(Nat \X Nat) /\ Len(units) = o - u.offset
 <2> DEFINE n == o - u.offset
            base == (u.next - 1) * ChunkSize
 <2>1. n \in Nat /\ base \in Nat
  <3> HIDE DEF u, o
  <3>1. n \in Nat  BY <1>3, <1>4
  <3>2. base \in Nat  BY <1>3, ChunksAdd, LinkNumbers, u.next = u.next + 0
  <3> QED  BY <3>1, <3>2
 <2>2. units = [i \in 1 .. n |-> <<1, base + i>>]  BY DEF ChunkUnits
 <2> HIDE DEF n, base, units
 <2>3. units \in [1 .. n -> Nat \X Nat]  BY <2>1, <2>2
 <2>4. units \in Seq(Nat \X Nat) /\ Len(units) = n  BY <2>1, <2>3
 <2> QED  BY <2>4 DEF n
<1> HIDE DEF k, o, units, b
<1>10. /\ q.uploadNow.request = u.request /\ q.uploadNow.size = u.size
       /\ q.uploadNow.begunOn = u.begunOn /\ q.uploadNow.offset = o /\ q.uploadNow.next = u.next + k
       /\ q.uploadNow \in Sent
 <2> DEFINE next == u.next + k
 <2>1. next \in Nat \ {0}  BY <1>1, <1>3
 <2>2. q.uploadNow = [u EXCEPT !.offset = o, !.next = next]  BY <1>5
 <2> HIDE DEF next, u
 <2>3. /\ q.uploadNow.request = u.request /\ q.uploadNow.size = u.size
       /\ q.uploadNow.begunOn = u.begunOn /\ q.uploadNow.offset = o /\ q.uploadNow.next = next
       /\ q.uploadNow \in Sent
   BY <1>2, <1>4, <2>1, <2>2 DEF Sent
 <2> QED  BY <2>3 DEF next
<1>11. SentOK(q.uploadNow)
 <2> HIDE DEF u
 <2>1. CASE k = 0  BY <1>2, <1>3, <1>7, <1>10, <2>1 DEF SentOK
 <2>2. CASE k # 0
  <3> DEFINE next == q.uploadNow.next
             base == (next - 1) * ChunkSize
  <3>1. next = u.next + k  BY <1>10
  <3> HIDE DEF next
  <3>2. base = u.offset + k * ChunkSize  BY <1>1, <1>3, <1>8, <2>2, <3>1, ChunksAdd, LinkNumbers
  <3> HIDE DEF base
  <3>3. q.uploadNow.offset = Lesser(q.uploadNow.size, base)  BY <1>6, <1>10, <3>2
  <3> QED  BY <1>10, <3>3 DEF SentOK, base, next
 <2> QED  BY <2>1, <2>2
<1>12. s.bytes \o units \in Seq(Nat \X Nat) /\ Len(s.bytes \o units) = Len(s.bytes) + (o - u.offset)
 <2> DEFINE Units == Nat \X Nat
            a == s.bytes
            more == o - u.offset
 <2>1. a \in Seq(Units) /\ units \in Seq(Units) /\ Len(units) = more  BY <1>3, <1>9
 <2> HIDE DEF Units, a, more
 <2>2. a \o units \in Seq(Units) /\ Len(a \o units) = Len(a) + more  BY <2>1, JoinedParts
 <2> QED  BY <2>2 DEF Units, a, more
<1>13. /\ read \in Uploads /\ read.active = s.active /\ read.chain = s.chain
       /\ read.request = s.request /\ read.size = s.size
       /\ read.next = s.next + k /\ read.bytes = s.bytes \o units
 <2> DEFINE joined == s.bytes \o units
            next == s.next + k
 <2>1. joined \in Seq(Nat \X Nat) /\ next \in Nat \ {0}  BY <1>1, <1>3, <1>12
 <2>2. read = [s EXCEPT !.next = next, !.bytes = joined]  OBVIOUS
 <2> HIDE DEF joined, next, read
 <2>3. /\ read \in Uploads /\ read.active = s.active /\ read.chain = s.chain
       /\ read.request = s.request /\ read.size = s.size /\ read.next = next /\ read.bytes = joined
   BY <1>2, <2>1, <2>2 DEF Uploads
 <2> QED  BY <2>3 DEF joined, next
<1>14. NoUpload \in Uploads /\ NoUpload.active = FALSE  BY NoUploadOK DEF UploadOK, NoUpload
<1>15. q.session \in Uploads /\ q.refused \in BOOLEAN  BY <1>5, <1>13, <1>14
<1>16. s.active => fits
 <2> SUFFICES ASSUME s.active, k # 0 PROVE AppendValid(s, 1, u.next, length)  OBVIOUS
 <2>1. s.chain = 1 /\ s.size = u.size /\ s.next = u.next /\ Len(s.bytes) = u.offset
   BY <1>2 DEF InStep
 <2> QED  BY <2>1 DEF AppendValid
<1>17. s.active => InStep(q.uploadNow, q.session) /\ q.refused = p.refused
 <2> SUFFICES ASSUME s.active PROVE InStep(q.uploadNow, q.session) /\ q.refused = p.refused  OBVIOUS
 <2>1. q.session = read /\ q.refused = p.refused  BY <1>2, <1>5, <1>16
 <2>2. InStep(u, s)  BY <1>2
 <2>3. Len(s.bytes) + (o - u.offset) = o  BY <1>3, <1>4, <2>2 DEF InStep
 <2> HIDE DEF u, s, read
 <2>4. InStep(q.uploadNow, read)  BY <1>10, <1>12, <1>13, <2>2, <2>3 DEF InStep
 <2> QED  BY <2>1, <2>4
<1>18. ~s.active => ~q.session.active
 <2>1. q.session = read \/ q.session = NoUpload  BY <1>5
 <2> HIDE DEF read, s
 <2> QED  BY <1>13, <1>14, <2>1
<1>19. b <= MaxBacklog \/ (b = p.backlog /\ o = u.offset)
 <2>1. CASE k = 0  BY <1>2, <1>3, <1>7, <2>1 DEF b, BacklogAfter, o
 <2>2. CASE k # 0
  <3>1. k \in 1 .. k /\ k - 1 \in Nat  BY <1>1, <2>2
  <3>2. RoomForChunk(p, k)  BY <1>1, <3>1 DEF Writes
  <3>3. CASE BacklogAfter(p, k) <= MaxBacklog  BY <3>3 DEF b
  <3>4. CASE BacklogAfter(p, k - 1) = 0
   <4>1. BacklogAfter(p, k - 1) >= p.backlog + (k - 1)  BY <3>1, OffsetsOf
   <4>2. k = 1 /\ p.backlog = 0  BY <1>2, <3>1, <3>4, <4>1
   <4>3. b = p.backlog + (o - u.offset) + k  BY DEF b, BacklogAfter, o
   <4>4. o = Lesser(u.size, u.offset + ChunkSize)  BY <1>6, <4>2, LinkNumbers
   <4>5. b <= ChunkSize + 1  BY <1>3, <1>4, <4>2, <4>3, <4>4, LinkNumbers DEF Lesser
   <4> QED  BY <1>4, <4>5, LinkNumbers
  <3> QED  BY <3>2, <3>3, <3>4 DEF RoomForChunk
 <2> QED  BY <2>1, <2>2
<1> QED  BY <1>4, <1>5, <1>10, <1>11, <1>15, <1>17, <1>18, <1>19

\* What the whole of bPumpFileUpload does to an upload that is under way.
LEMMA PumpOK ==
    ASSUME NEW p \in PumpStates, SentOK(p.uploadNow),
           p.session.active => InStep(p.uploadNow, p.session),
           NEW r, r = Pumped(p, WriteChunks(p, Chunks(p)))
    PROVE  /\ r.session \in Uploads /\ r.backlog \in Nat /\ r.refused \in BOOLEAN
           /\ \/ r.uploadNow = NotSending /\ ~r.session.active
              \/ /\ SentOK(r.uploadNow) /\ r.uploadNow.begunOn = p.uploadNow.begunOn
                 /\ p.session.active => InStep(r.uploadNow, r.session)
           /\ p.session.active => r.refused = p.refused
           /\ ~p.session.active => ~r.session.active
           /\ r.backlog <= MaxBacklog \/ r.backlog = p.backlog
           /\ r.uploadNow = NotSending \/ r.uploadNow.offset > p.uploadNow.offset
                => r.backlog <= MaxBacklog
<1> DEFINE q == WriteChunks(p, Chunks(p))
           fits == CompleteValid(q.session, q.uploadNow.request, 1, q.uploadNow.next - 1,
                                 q.uploadNow.size)
<1>1. /\ SentOK(q.uploadNow) /\ q.uploadNow.begunOn = p.uploadNow.begunOn
      /\ q.uploadNow.offset >= p.uploadNow.offset
      /\ q.session \in Uploads /\ q.backlog \in Nat /\ q.refused \in BOOLEAN
      /\ p.session.active => InStep(q.uploadNow, q.session) /\ q.refused = p.refused
      /\ ~p.session.active => ~q.session.active
      /\ q.backlog <= MaxBacklog \/ (q.backlog = p.backlog /\ q.uploadNow.offset = p.uploadNow.offset)
      /\ DOMAIN q = {"uploadNow", "backlog", "session", "refused"}
  BY ChunksOK
<1>2. p.uploadNow # NotSending /\ q.uploadNow # NotSending  BY <1>1, SentIsSending DEF SentOK
<1>3. r = IF q.uploadNow.offset = q.uploadNow.size /\ q.backlog <= MaxBacklog - EndReserve
          THEN WriteEnd(q) ELSE q
  BY <1>2 DEF Pumped
<1>4. p.session \in Uploads /\ p.session.active \in BOOLEAN /\ p.refused \in BOOLEAN
      /\ p.uploadNow.offset \in Nat /\ p.backlog \in Nat
  BY DEF PumpStates, Uploads, Sent
<1>n. q.uploadNow.offset \in Nat /\ q.uploadNow.next \in Nat \ {0}  BY <1>1 DEF SentOK, Sent
<1> HIDE DEF q
<1>5. CASE r = q  BY <1>1, <1>2, <1>4, <1>5, <1>n
<1>6. CASE r = WriteEnd(q) /\ q.uploadNow.offset = q.uploadNow.size /\ q.backlog <= MaxBacklog - EndReserve
 <2>1. r = [q EXCEPT !.uploadNow = NotSending, !.backlog = @ + 1, !.session = NoUpload,
                     !.refused = @ \/ ~fits]
   BY <1>6 DEF WriteEnd
 <2>2. /\ r.uploadNow = NotSending /\ r.backlog = q.backlog + 1 /\ r.session = NoUpload
       /\ r.refused = (q.refused \/ ~fits)
  <3> DEFINE now == NotSending
             no == NoUpload
             b == q.backlog + 1
             f == q.refused \/ ~fits
  <3>1. r = [q EXCEPT !.uploadNow = now, !.backlog = b, !.session = no, !.refused = f]  BY <2>1
  <3> HIDE DEF now, no, b, f
  <3>2. r.uploadNow = now /\ r.backlog = b /\ r.session = no /\ r.refused = f  BY <1>1, <3>1
  <3> QED  BY <3>2, Zenon DEF now, no, b, f
 <2>3. NoUpload \in Uploads /\ NoUpload.active = FALSE  BY NoUploadOK DEF UploadOK, NoUpload
 <2>4. p.session.active => fits
  <3> SUFFICES ASSUME p.session.active PROVE fits  OBVIOUS
  <3>1. InStep(q.uploadNow, q.session)  BY <1>1
  <3> QED  BY <1>6, <3>1 DEF InStep, CompleteValid
 <2> HIDE DEF fits
 <2>5. r.refused \in BOOLEAN /\ (p.session.active => r.refused = p.refused)
  <3>1. r.refused \in BOOLEAN  BY <2>2
  <3>2. ASSUME p.session.active PROVE r.refused = p.refused  BY <1>1, <1>4, <2>2, <2>4, <3>2
  <3> QED  BY <3>1, <3>2
 <2>6. r.backlog \in Nat /\ r.backlog <= MaxBacklog  BY <1>1, <1>6, <2>2, LinkNumbers
 <2>7. r.session \in Uploads /\ r.session.active = FALSE  BY <2>2, <2>3
 <2> QED  BY <2>2, <2>5, <2>6, <2>7
<1> QED  BY <1>3, <1>5, <1>6

\* The state shown, the socket and the connection say the same.
SocketsOK ==
    /\ link = "Connecting" => socket \in Links /\ tcp[socket] = "connecting"
    /\ link = "Connected" => socket \in Links /\ tcp[socket] = "connected"

\* An upload under way was begun on a connection that has been made.
SendingOK ==
    uploadNow = NotSending
        \/ (SentOK(uploadNow) /\ tcp[uploadNow.begunOn] \in {"connected", "closed"})

\* The node has a session for the upload begun on this connection, and for no other.
SessionOK ==
    /\ session \in Uploads /\ refusedOwn = FALSE
    /\ session.active => /\ link = "Connected" /\ uploadNow # NotSending
                         /\ uploadNow.begunOn = socket
    /\ uploadNow # NotSending /\ uploadNow.begunOn = socket => InStep(uploadNow, session)

LinkInv == LinkTypeOK /\ NoOrphanSocket /\ SocketsOK /\ SendingOK /\ SessionOK

LEMMA NothingSent ==
    /\ NotSending.offset = 0 /\ NotSending.size = 0 /\ NotSending.begunOn = 0
    /\ NoUpload \in Uploads /\ NoUpload.active = FALSE
  BY NoUploadOK DEF NotSending, UploadOK, NoUpload

\* Uploads of the types the invariant names are of LinkTypeOK's.
LEMMA SendingTypes ==
    ASSUME NEW u, u = NotSending \/ SentOK(u)
    PROVE  u.offset \in 0 .. u.size /\ u.begunOn \in 0 .. MaxLinks
<1>1. CASE u = NotSending  BY <1>1, NothingSent, LinkNumbers
<1>2. CASE SentOK(u)
 <2> DEFINE base == (u.next - 1) * ChunkSize
 <2>1. u \in Sent /\ u.offset = Lesser(u.size, base)  BY <1>2 DEF SentOK
 <2>2. u.size \in Nat /\ u.offset \in Nat /\ u.next \in Nat \ {0} /\ u.begunOn \in Links
   BY <2>1, LinkNumbers DEF Sent
 <2>3. base \in Nat  BY <2>2, ChunksAdd, LinkNumbers, u.next = u.next + 0
 <2> HIDE DEF base
 <2> QED  BY <2>1, <2>2, <2>3, LinkNumbers DEF Lesser, Links
<1> QED  BY <1>1, <1>2

LEMMA LinkInitOK ==
    ASSUME LinkInit
    PROVE  LinkInv
<1>1. LinkTypeOK
 <2>1. uploadNow.offset \in 0 .. uploadNow.size /\ uploadNow.begunOn \in 0 .. MaxLinks
   BY SendingTypes DEF LinkInit
 <2>2. backlog \in 0 .. MaxBacklog + MaxFileSize + 2 /\ silence \in 0 .. OfflineTimeout
       /\ queued \in 0 .. MaxUploads /\ socket \in 0 .. MaxLinks
   BY LinkNumbers DEF LinkInit
 <2>3. refusedOwn \in BOOLEAN /\ link \in {"Disconnected", "Connecting", "Connected"}
       /\ tcp \in [Links -> {"new", "connecting", "connected", "closed"}]
   BY DEF LinkInit
 <2> QED  BY <2>1, <2>2, <2>3 DEF LinkTypeOK
<1>2. NoOrphanSocket /\ SocketsOK /\ SendingOK
  BY DEF LinkInit, NoOrphanSocket, SocketsOK, SendingOK
<1>3. SessionOK  BY NothingSent DEF LinkInit, SessionOK
<1> QED  BY <1>1, <1>2, <1>3 DEF LinkInv

\* What the pump does to the endpoint and the node.
LEMMA PumpStep ==
    ASSUME LinkInv, link = "Connected", NEW p \in PumpStates, SentOK(p.uploadNow), ~p.refused,
           p.uploadNow.begunOn = socket <=> p.session.active,
           p.session.active => InStep(p.uploadNow, p.session),
           tcp[p.uploadNow.begunOn] \in {"connected", "closed"},
           p.backlog <= MaxBacklog + MaxFileSize + 2,
           Pump(p), UNCHANGED <<link, socket, tcp, silence>>, queued' \in 0 .. MaxUploads
    PROVE  /\ LinkInv'
           /\ uploadNow' = NotSending \/ uploadNow'.offset > p.uploadNow.offset
                => backlog' <= MaxBacklog
<1> DEFINE r == Pumped(p, WriteChunks(p, Chunks(p)))
<1>0. /\ uploadNow' = r.uploadNow /\ backlog' = r.backlog /\ session' = r.session
      /\ refusedOwn' = (refusedOwn \/ (r.refused /\ p.uploadNow.begunOn = socket))
  BY DEF Pump
<1>1. /\ r.session \in Uploads /\ r.backlog \in Nat /\ r.refused \in BOOLEAN
      /\ \/ r.uploadNow = NotSending /\ ~r.session.active
         \/ /\ SentOK(r.uploadNow) /\ r.uploadNow.begunOn = p.uploadNow.begunOn
            /\ p.session.active => InStep(r.uploadNow, r.session)
      /\ p.session.active => r.refused = p.refused
      /\ ~p.session.active => ~r.session.active
      /\ r.backlog <= MaxBacklog \/ r.backlog = p.backlog
      /\ r.uploadNow = NotSending \/ r.uploadNow.offset > p.uploadNow.offset
           => r.backlog <= MaxBacklog
  BY PumpOK
<1> HIDE DEF r
<1>2. p.session.active \in BOOLEAN /\ r.session.active \in BOOLEAN  BY <1>1 DEF PumpStates, Uploads
<1>a. LinkTypeOK /\ NoOrphanSocket /\ SocketsOK /\ SessionOK  BY DEF LinkInv
<1>3. refusedOwn' = FALSE
 <2>1. CASE p.uploadNow.begunOn = socket  BY <1>0, <1>1, <2>1, <1>a DEF SessionOK
 <2>2. CASE p.uploadNow.begunOn # socket  BY <1>0, <1>a, <2>2 DEF SessionOK
 <2> QED  BY <2>1, <2>2
<1>4. backlog' \in 0 .. MaxBacklog + MaxFileSize + 2  BY <1>0, <1>1, LinkNumbers DEF PumpStates
<1>5. LinkTypeOK'  BY <1>0, <1>1, <1>3, <1>4, <1>a, SendingTypes DEF LinkTypeOK, Links
<1>6. NoOrphanSocket' /\ SocketsOK'  BY <1>a DEF NoOrphanSocket, SocketsOK, Links
<1>7. SendingOK'  BY <1>0, <1>1 DEF SendingOK
<1>8. SessionOK'
 <2>1. CASE r.uploadNow = NotSending /\ ~r.session.active  BY <1>0, <1>1, <1>3, <2>1 DEF SessionOK
 <2>2. CASE /\ SentOK(r.uploadNow) /\ r.uploadNow.begunOn = p.uploadNow.begunOn
            /\ p.session.active => InStep(r.uploadNow, r.session)
   BY <1>0, <1>1, <1>3, <2>2, SentIsSending DEF SentOK, SessionOK
 <2> QED  BY <1>1, <2>1, <2>2
<1>9. uploadNow' = NotSending \/ uploadNow'.offset > p.uploadNow.offset => backlog' <= MaxBacklog
  BY <1>0, <1>1
<1> QED  BY <1>5, <1>6, <1>7, <1>8, <1>9 DEF LinkInv

LEMMA QueueUploadOK ==
    ASSUME LinkInv, NEW size \in 1 .. MaxFileSize, QueueUpload(size)
    PROVE  LinkInv'
<1> DEFINE u == [request |-> queued + 1, size |-> size, offset |-> 0, next |-> 1,
                 begunOn |-> socket]
           s == Begun(queued + 1, 1, size)
           p == [uploadNow |-> u, backlog |-> backlog + 1, session |-> s, refused |-> FALSE]
<1>a. LinkTypeOK /\ SocketsOK /\ SessionOK  BY DEF LinkInv
<1>1. /\ link = "Connected" /\ uploadNow = NotSending /\ queued < MaxUploads /\ backlog <= MaxBacklog
      /\ queued' = queued + 1 /\ UNCHANGED <<link, socket, tcp, silence>>
      /\ socket \in Links /\ tcp[socket] = "connected"
      /\ backlog \in Nat /\ queued \in Nat
  BY <1>a DEF QueueUpload, MayQueue, SocketsOK, LinkTypeOK
<1>2. BeginValid(session, 1, size)  BY <1>1, <1>a DEF SessionOK, BeginValid
<1>3. Pump(p)  BY <1>2 DEF QueueUpload
<1>4. UploadOK(s) /\ s \in Uploads /\ s.active = TRUE /\ s.chain = 1 /\ s.request = queued + 1
      /\ s.size = size /\ s.next = 1 /\ Len(s.bytes) = 0
  BY <1>1, BegunOK DEF Begun, UploadOK
<1>5. u \in Sent /\ u.offset = 0 /\ u.size = size /\ u.next = 1 /\ u.begunOn = socket
      /\ u.request = queued + 1
  BY <1>1 DEF Sent
<1> HIDE DEF u, s
<1>6. p \in PumpStates /\ p.uploadNow = u /\ p.session = s /\ p.backlog = backlog + 1
      /\ p.refused = FALSE
  BY <1>1, <1>4, <1>5 DEF PumpStates
<1>7. SentOK(u)  BY <1>5, LinkNumbers DEF SentOK, Lesser
<1>8. InStep(u, s)  BY <1>4, <1>5 DEF InStep
<1>9. backlog + 1 <= MaxBacklog + MaxFileSize + 2 /\ queued' \in 0 .. MaxUploads
  BY <1>1, LinkNumbers
<1> HIDE DEF p
<1> QED  BY <1>1, <1>3, <1>4, <1>5, <1>6, <1>7, <1>8, <1>9, PumpStep

\* bytesWritten, with what it says of the backlog.
LEMMA BytesWrittenOK ==
    ASSUME LinkInv, BytesWritten
    PROVE  /\ LinkInv'
           /\ /\ uploadNow # NotSending
              /\ uploadNow' = NotSending \/ uploadNow'.offset > uploadNow.offset
              => backlog' <= MaxBacklog
<1>a. LinkTypeOK /\ SocketsOK /\ SessionOK /\ SendingOK /\ NoOrphanSocket  BY DEF LinkInv
<1>1. PICK left \in 0 .. backlog - 1 : Written(left)  BY DEF BytesWritten
<1>2. link = "Connected" /\ UNCHANGED <<link, socket, tcp, silence, queued>>
      /\ socket \in Links /\ tcp[socket] = "connected" /\ session \in Uploads
      /\ queued \in 0 .. MaxUploads
  BY <1>a DEF BytesWritten, SocketsOK, SessionOK, LinkTypeOK
<1>3. left \in Nat /\ left <= MaxBacklog + MaxFileSize + 2
  BY <1>1, <1>a, LinkNumbers DEF LinkTypeOK
<1> DEFINE p == [uploadNow |-> uploadNow, backlog |-> left, session |-> session, refused |-> FALSE]
<1>4. Pump(p)  BY <1>1 DEF Written
<1>5. p.uploadNow = uploadNow /\ p.backlog = left /\ p.session = session /\ p.refused = FALSE
  OBVIOUS
<1>6. CASE uploadNow = NotSending
 <2>1. Pumped(p, WriteChunks(p, Chunks(p))) = p  BY <1>6, <1>5 DEF Pumped
 <2>2. /\ uploadNow' = uploadNow /\ backlog' = left /\ session' = session
       /\ refusedOwn' = refusedOwn
  <3> HIDE DEF p
  <3> QED  BY <1>4, <1>5, <1>a, <2>1 DEF Pump, SessionOK
 <2>3. LinkTypeOK'  BY <1>2, <1>3, <1>a, <2>2, LinkNumbers DEF LinkTypeOK, Links
 <2>4. NoOrphanSocket' /\ SocketsOK' /\ SendingOK' /\ SessionOK'
   BY <1>2, <1>6, <1>a, <2>2 DEF NoOrphanSocket, SocketsOK, SendingOK, SessionOK, Links
 <2> QED  BY <1>6, <2>3, <2>4 DEF LinkInv
<1>7. CASE uploadNow # NotSending
 <2>1. SentOK(uploadNow) /\ tcp[uploadNow.begunOn] \in {"connected", "closed"}
   BY <1>7, <1>a DEF SendingOK
 <2>2. uploadNow \in Sent  BY <2>1 DEF SentOK
 <2>3. p \in PumpStates  BY <1>2, <1>3, <2>2 DEF PumpStates
 <2>4. uploadNow.begunOn = socket <=> session.active  BY <1>7, <1>a DEF SessionOK, InStep
 <2>5. session.active => InStep(uploadNow, session)  BY <1>7, <1>a, <2>4 DEF SessionOK
 <2> HIDE DEF p
 <2>6. /\ LinkInv'
       /\ uploadNow' = NotSending \/ uploadNow'.offset > p.uploadNow.offset => backlog' <= MaxBacklog
   BY <1>2, <1>3, <1>4, <1>5, <2>1, <2>3, <2>4, <2>5, PumpStep
 <2> QED  BY <1>5, <2>6
<1> QED  BY <1>6, <1>7

LEMMA ConnectEndpointOK ==
    ASSUME LinkInv, ConnectEndpoint
    PROVE  LinkInv'
<1>a. LinkTypeOK /\ NoOrphanSocket /\ SocketsOK /\ SendingOK /\ SessionOK  BY DEF LinkInv
<1>1. PICK c \in Links : tcp[c] = "new" /\ tcp' = [tcp EXCEPT ![c] = "connecting"] /\ socket' = c
  BY DEF ConnectEndpoint
<1>2. link = "Disconnected" /\ link' = "Connecting"
      /\ UNCHANGED <<backlog, uploadNow, session, silence, queued, refusedOwn>>
  BY DEF ConnectEndpoint
<1>3. tcp \in [Links -> {"new", "connecting", "connected", "closed"}]  BY <1>a DEF LinkTypeOK
<1>4. /\ tcp' \in [Links -> {"new", "connecting", "connected", "closed"}]
      /\ tcp'[c] = "connecting" /\ \A k \in Links \ {c} : tcp'[k] = tcp[k]
  BY <1>1, <1>3
<1>5. c \in 0 .. MaxLinks  BY LinkNumbers DEF Links
<1>6. LinkTypeOK'  BY <1>1, <1>2, <1>4, <1>5, <1>a DEF LinkTypeOK, Links
<1>7. NoOrphanSocket' /\ SocketsOK'  BY <1>1, <1>2, <1>4, <1>a DEF NoOrphanSocket, SocketsOK, Links
<1>8. uploadNow # NotSending => uploadNow.begunOn # c /\ uploadNow.begunOn \in Links
  BY <1>1, <1>a DEF SendingOK, SentOK, Sent
<1>9. SendingOK'  BY <1>2, <1>4, <1>8, <1>a DEF SendingOK
<1>10. SessionOK'  BY <1>1, <1>2, <1>8, <1>a DEF SessionOK
<1> QED  BY <1>6, <1>7, <1>9, <1>10 DEF LinkInv

LEMMA EstablishedOK ==
    ASSUME LinkInv, Established
    PROVE  LinkInv'
<1>a. LinkTypeOK /\ NoOrphanSocket /\ SocketsOK /\ SendingOK /\ SessionOK  BY DEF LinkInv
<1>1. /\ socket \in Links /\ tcp[socket] = "connecting" /\ tcp' = [tcp EXCEPT ![socket] = "connected"]
      /\ link' = "Connected" /\ backlog' = 2 /\ session' = NoUpload
      /\ UNCHANGED <<socket, uploadNow, silence, queued, refusedOwn>>
  BY DEF Established, Alive
<1>2. tcp \in [Links -> {"new", "connecting", "connected", "closed"}]  BY <1>a DEF LinkTypeOK
<1>3. /\ tcp' \in [Links -> {"new", "connecting", "connected", "closed"}]
      /\ tcp'[socket] = "connected" /\ \A k \in Links \ {socket} : tcp'[k] = tcp[k]
  BY <1>1, <1>2
<1>4. 2 \in 0 .. MaxBacklog + MaxFileSize + 2  BY LinkNumbers
<1>5. LinkTypeOK'  BY <1>1, <1>3, <1>4, <1>a DEF LinkTypeOK, Links
<1>6. NoOrphanSocket' /\ SocketsOK'  BY <1>1, <1>3, <1>a DEF NoOrphanSocket, SocketsOK, Links
<1>7. uploadNow # NotSending => uploadNow.begunOn # socket /\ uploadNow.begunOn \in Links
  BY <1>1, <1>a DEF SendingOK, SentOK, Sent
<1>8. SendingOK'  BY <1>1, <1>3, <1>7, <1>a DEF SendingOK
<1>9. SessionOK'  BY <1>1, <1>7, <1>a, NothingSent DEF SessionOK
<1> QED  BY <1>5, <1>6, <1>8, <1>9 DEF LinkInv

\* Where the socket is let go of, or closed while an attempt was under way.
LEMMA SocketGoneOK ==
    ASSUME LinkInv, LinkLost \/ DisconnectAll \/ CheckOffline
    PROVE  LinkInv' /\ (UNCHANGED <<uploadNow, socket>> \/ uploadNow' = uploadNow \/ socket' # socket)
<1>a. LinkTypeOK /\ NoOrphanSocket /\ SocketsOK /\ SendingOK /\ SessionOK  BY DEF LinkInv
<1>0. link \in {"Disconnected", "Connecting", "Connected"}  BY <1>a DEF LinkTypeOK
<1>1. /\ tcp' = Closed(socket) /\ link' = "Disconnected" /\ backlog' = 0 /\ session' = NoUpload
      /\ UNCHANGED <<silence, queued, refusedOwn>>
      /\ \/ socket' = 0 /\ uploadNow' = NotSending /\ socket \in Links
         \/ socket' = 0 /\ uploadNow' = uploadNow
         \/ link = "Connecting" /\ socket' = socket /\ uploadNow' = uploadNow
 <2>1. CASE LinkLost  BY <2>1 DEF LinkLost, Alive
 <2>2. CASE DisconnectAll  BY <2>2 DEF DisconnectAll, AfterAbort
 <2>3. CASE CheckOffline  BY <1>0, <1>a, <2>3 DEF CheckOffline, NodeTimedOut, SocketsOK
 <2> QED  BY <2>1, <2>2, <2>3
<1>2. tcp \in [Links -> {"new", "connecting", "connected", "closed"}]  BY <1>a DEF LinkTypeOK
<1>3. /\ tcp' \in [Links -> {"new", "connecting", "connected", "closed"}]
      /\ \A k \in Links : tcp'[k] = IF k = socket THEN "closed" ELSE tcp[k]
  BY <1>1, <1>2 DEF Closed
<1>4. socket' \in 0 .. MaxLinks /\ 0 \notin Links  BY <1>1, <1>a, LinkNumbers DEF LinkTypeOK, Links
<1>5. uploadNow' = NotSending \/ uploadNow' = uploadNow  BY <1>1
<1>6. uploadNow = NotSending \/ SentOK(uploadNow)  BY <1>a DEF SendingOK
<1>7. LinkTypeOK'
  BY <1>1, <1>3, <1>4, <1>5, <1>6, <1>a, SendingTypes, LinkNumbers DEF LinkTypeOK, Links
<1>8. NoOrphanSocket' /\ SocketsOK'
 <2>1. \A k \in Links : tcp'[k] \notin {"connecting", "connected"}
  <3> SUFFICES ASSUME NEW k \in Links, tcp'[k] \in {"connecting", "connected"} PROVE FALSE  OBVIOUS
  <3>1. k # socket /\ tcp[k] \in {"connecting", "connected"}  BY <1>3
  <3> QED  BY <1>a, <3>1 DEF NoOrphanSocket
 <2> QED  BY <1>1, <2>1 DEF NoOrphanSocket, SocketsOK, Links
<1>9. uploadNow # NotSending => uploadNow.begunOn \in Links  BY <1>6 DEF SentOK, Sent
<1>10. SendingOK'
 <2>1. CASE uploadNow' = NotSending  BY <2>1 DEF SendingOK
 <2>2. CASE uploadNow' = uploadNow /\ uploadNow # NotSending
   BY <1>3, <1>9, <1>a, <2>2 DEF SendingOK
 <2> QED  BY <1>5, <2>1, <2>2
<1>11. uploadNow' # NotSending => uploadNow'.begunOn # socket'
 <2> SUFFICES ASSUME uploadNow' # NotSending PROVE uploadNow'.begunOn # socket'  OBVIOUS
 <2>1. uploadNow' = uploadNow /\ uploadNow # NotSending  BY <1>5
 <2>2. CASE socket' = 0  BY <1>4, <1>9, <2>1, <2>2
 <2>3. CASE link = "Connecting" /\ socket' = socket  BY <1>a, <2>1, <2>3 DEF SocketsOK, SendingOK
 <2> QED  BY <1>1, <2>2, <2>3
<1>12. SessionOK'  BY <1>1, <1>11, <1>a, NothingSent DEF SessionOK
<1>13. uploadNow' = uploadNow \/ socket' # socket  BY <1>1, <1>4
<1> QED  BY <1>7, <1>8, <1>10, <1>12, <1>13 DEF LinkInv

LEMMA SmallStepOK ==
    ASSUME LinkInv, SendControl \/ Present \/ TimePasses \/ UNCHANGED linkVars
    PROVE  LinkInv' /\ uploadNow' = uploadNow
<1>a. LinkTypeOK /\ NoOrphanSocket /\ SocketsOK /\ SendingOK /\ SessionOK  BY DEF LinkInv
<1>1. UNCHANGED <<link, socket, tcp, uploadNow, session, queued, refusedOwn>>
  BY DEF SendControl, Present, TimePasses, linkVars
<1>2. backlog' \in 0 .. MaxBacklog + MaxFileSize + 2 /\ silence' \in 0 .. OfflineTimeout
 <2>1. backlog \in 0 .. MaxBacklog + MaxFileSize + 2 /\ silence \in 0 .. OfflineTimeout
   BY <1>a DEF LinkTypeOK
 <2>2. CASE SendControl  BY <2>1, <2>2, LinkNumbers DEF SendControl
 <2>3. CASE Present \/ TimePasses \/ UNCHANGED linkVars
   BY <2>1, <2>3, LinkNumbers DEF Present, TimePasses, linkVars
 <2> QED  BY <2>2, <2>3
<1>3. LinkTypeOK'  BY <1>1, <1>2, <1>a DEF LinkTypeOK, Links
<1>4. NoOrphanSocket' /\ SocketsOK' /\ SendingOK' /\ SessionOK'
  BY <1>1, <1>a DEF NoOrphanSocket, SocketsOK, SendingOK, SessionOK, Links
<1> QED  BY <1>1, <1>3, <1>4 DEF LinkInv

LEMMA LinkStep ==
    ASSUME LinkInv, [LinkNext]_linkVars
    PROVE  LinkInv'
  BY QueueUploadOK, BytesWrittenOK, ConnectEndpointOK, EstablishedOK, SocketGoneOK, SmallStepOK
     DEF LinkNext

LEMMA LinkKeepsBacklog ==
    ASSUME LinkInv, [LinkNext]_linkVars, uploadNow # NotSending, socket' = socket,
           uploadNow' = NotSending \/ uploadNow'.offset > uploadNow.offset
    PROVE  backlog' <= MaxBacklog
<1>1. uploadNow' # uploadNow
 <2> SUFFICES ASSUME uploadNow' = uploadNow PROVE FALSE  OBVIOUS
 <2>1. SentOK(uploadNow)  BY DEF LinkInv, SendingOK
 <2>2. uploadNow.offset \in Nat  BY <2>1 DEF SentOK, Sent
 <2> QED  BY <2>2
<1>2. CASE \E size \in 1 .. MaxFileSize : QueueUpload(size)  BY <1>2 DEF QueueUpload, MayQueue
<1>3. CASE BytesWritten  BY <1>3, BytesWrittenOK
<1>4. CASE ConnectEndpoint \/ Established  BY <1>1, <1>4 DEF ConnectEndpoint, Established
<1>5. CASE LinkLost \/ DisconnectAll \/ CheckOffline  BY <1>1, <1>5, SocketGoneOK
<1>6. CASE SendControl \/ Present \/ TimePasses \/ UNCHANGED linkVars  BY <1>1, <1>6, SmallStepOK
<1> QED  BY <1>2, <1>3, <1>4, <1>5, <1>6 DEF LinkNext

LEMMA LinkSays ==
    ASSUME LinkInv
    PROVE  LinkTypeOK /\ NoOrphanSocket /\ OwnUploadsFit
  BY DEF LinkInv, OwnUploadsFit, SessionOK, InStep

\* No connection outlives its endpoint and the state shown is the socket's, the
\* node refuses no frame of an upload begun on the connection it reads, and what
\* an upload writes never brings the backlog above its limit, for every size of
\* chunks, files and backlog.
THEOREM LinkSafe ==
    LinkSpec => [](LinkTypeOK /\ NoOrphanSocket /\ OwnUploadsFit) /\ BacklogKept
<1>1. LinkInit => LinkInv  BY LinkInitOK
<1>2. LinkInv /\ [LinkNext]_linkVars => LinkInv'  BY LinkStep
<1>3. LinkInv => LinkTypeOK /\ NoOrphanSocket /\ OwnUploadsFit  BY LinkSays
<1>4. LinkInv /\ [LinkNext]_linkVars =>
        [(/\ uploadNow # NotSending /\ socket' = socket
          /\ uploadNow' = NotSending \/ uploadNow'.offset > uploadNow.offset)
         => backlog' <= MaxBacklog]_linkVars
  BY LinkKeepsBacklog
<1> QED  BY <1>1, <1>2, <1>3, <1>4, PTL DEF LinkSpec, BacklogKept
=============================================================================
