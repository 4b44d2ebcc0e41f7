----------------------------- MODULE ManagerLink -----------------------------
(***************************************************************************)
(* One endpoint of ManagerNetworkController: the TCP connection the        *)
(* manager keeps to a node, the presence that keeps it alive, and the      *)
(* upload of a file in chunks that are written while the socket's backlog  *)
(* is small.  All of it runs on the Qt thread; an action is one slot, the  *)
(* signals it causes synchronously included.  Every endpoint is handled    *)
(* alike and on its own, the loops over m_mapEndpoints take each in turn.  *)
(*                                                                         *)
(* A connection is numbered; number 0 stands for a null pSocket.  A socket *)
(* that is connected takes every write into its buffer.  session is what   *)
(* the node's FileUploadSession is once it has read what was written.      *)
(***************************************************************************)
EXTENDS FileUpload

CONSTANTS
    MaxBacklog,      \* MAXIMUM_FILE_UPLOAD_SOCKET_BACKLOG
    EndReserve,      \* FILE_UPLOAD_END_FRAME_RESERVE
    OfflineTimeout,  \* m_durOfflineTimeout, in checks of the offline timer
    MaxLinks,        \* bound of the model: connections made
    MaxUploads       \* bound of the model: uploads queued

ASSUME LinkParameters ==
    /\ EndReserve \in Nat \ {0} /\ MaxBacklog \in Nat
    /\ ChunkSize + 1 <= MaxBacklog - EndReserve
    /\ OfflineTimeout \in Nat \ {0} /\ MaxLinks \in Nat /\ MaxUploads \in Nat

Links == 1 .. MaxLinks

VARIABLES
    link,         \* stateConnection
    socket,       \* pSocket
    tcp,          \* state of each connection
    backlog,      \* bytesToWrite() of the connected socket
    uploadNow,    \* optFileUpload, with the connection its begin was written to
    session,      \* the node's upload session of this connection
    silence,      \* time since nLastPresenceMilliseconds
    queued,       \* bound: uploads queued
    refusedOwn    \* history: the node refused a frame of an upload begun on its connection

linkVars == <<link, socket, tcp, backlog, uploadNow, session, silence, queued, refusedOwn>>

NotSending == [request |-> 0, size |-> 0, offset |-> 0, next |-> 1, begunOn |-> 0]

LinkTypeOK ==
    /\ link \in {"Disconnected", "Connecting", "Connected"}
    /\ socket \in 0 .. MaxLinks
    /\ tcp \in [Links -> {"new", "connecting", "connected", "closed"}]
    /\ backlog \in 0 .. MaxBacklog + MaxFileSize + 2
    /\ uploadNow.offset \in 0 .. uploadNow.size /\ uploadNow.begunOn \in 0 .. MaxLinks
    /\ silence \in 0 .. OfflineTimeout /\ queued \in 0 .. MaxUploads
    /\ refusedOwn \in BOOLEAN

LinkInit ==
    /\ link = "Disconnected" /\ socket = 0 /\ tcp = [c \in Links |-> "new"]
    /\ backlog = 0 /\ uploadNow = NotSending /\ session = NoUpload
    /\ silence = 0 /\ queued = 0 /\ refusedOwn = FALSE

Alive(c) == c \in Links /\ tcp[c] \in {"connecting", "connected"}
Closed(c) == [k \in Links |-> IF k = c THEN "closed" ELSE tcp[k]]

-----------------------------------------------------------------------------
(* The upload.  A chunk's frame is one unit longer than the chunk, a JSON   *)
(* frame is one unit long, and every upload uses chain 1.                  *)

\* Offset and backlog once the pump has written k more chunks.
OffsetAfter(p, k) == Lesser(p.uploadNow.size, p.uploadNow.offset + k * ChunkSize)
BacklogAfter(p, k) == p.backlog + (OffsetAfter(p, k) - p.uploadNow.offset) + k

\* Whether the k-th chunk is written: an empty backlog takes any frame, for
\* without it no bytesWritten would come.
RoomForChunk(p, k) ==
    /\ BacklogAfter(p, k - 1) < MaxBacklog
    /\ BacklogAfter(p, k - 1) = 0 \/ BacklogAfter(p, k) <= MaxBacklog

Writes(p, k) == OffsetAfter(p, k - 1) < p.uploadNow.size /\ RoomForChunk(p, k)

Chunks(p) ==
    CHOOSE k \in 0 .. MaxFileSize :
        /\ ~Writes(p, k + 1) /\ \A j \in 1 .. k : Writes(p, j)

\* The node appends the chunks, or drops its upload and reports an error; they
\* follow each other, so it takes all of them or none.
WriteChunks(p, k) ==
    LET length == Lesser(ChunkSize, p.uploadNow.size - p.uploadNow.offset)
        fits == k = 0 \/ AppendValid(p.session, 1, p.uploadNow.next, length)
        read == [p.session EXCEPT !.next = @ + k,
                     !.bytes = @ \o ChunkUnits(1, p.uploadNow.next,
                                               OffsetAfter(p, k) - p.uploadNow.offset)]
    IN  [p EXCEPT !.uploadNow.offset = OffsetAfter(p, k), !.uploadNow.next = @ + k,
                  !.backlog = BacklogAfter(p, k), !.refused = @ \/ ~fits,
                  !.session = IF fits THEN read ELSE NoUpload]

WriteEnd(p) ==
    LET fits == CompleteValid(p.session, p.uploadNow.request, 1, p.uploadNow.next - 1,
                              p.uploadNow.size)
    IN  [p EXCEPT !.uploadNow = NotSending, !.backlog = @ + 1, !.session = NoUpload,
                  !.refused = @ \/ ~fits]

\* The whole of bPumpFileUpload: as many chunks as there is room for, and the
\* end once all are written and the backlog leaves room for it.
Pumped(p, q) ==
    IF p.uploadNow = NotSending THEN p
    ELSE IF q.uploadNow.offset = q.uploadNow.size /\ q.backlog <= MaxBacklog - EndReserve
    THEN WriteEnd(q) ELSE q

Pump(before) ==
    \E p \in {before} : \E k \in {Chunks(p)} : \E w \in {WriteChunks(p, k)} :
        \E q \in {Pumped(p, w)} :
        /\ uploadNow' = q.uploadNow /\ backlog' = q.backlog /\ session' = q.session
        /\ refusedOwn' = (refusedOwn \/ (q.refused /\ p.uploadNow.begunOn = socket))

MayQueue == link = "Connected" /\ socket # 0 /\ uploadNow = NotSending

QueueUpload(size) ==
    /\ MayQueue
    /\ queued < MaxUploads /\ backlog <= MaxBacklog /\ size \in 1 .. MaxFileSize
    /\ queued' = queued + 1
    /\ Pump([uploadNow |-> [request |-> queued + 1, size |-> size, offset |-> 0,
                          next |-> 1, begunOn |-> socket],
             backlog |-> backlog + 1,
             session |-> IF BeginValid(session, 1, size) THEN Begun(queued + 1, 1, size)
                         ELSE NoUpload,
             refused |-> ~BeginValid(session, 1, size)])
    /\ UNCHANGED <<link, socket, tcp, silence>>

-----------------------------------------------------------------------------
(* The connection.                                                         *)

\* Mutant: bytesWritten is not connected to the pump.
WrittenUnnoticed(left) ==
    backlog' = left /\ UNCHANGED <<uploadNow, session, refusedOwn>>

\* bytesWritten: some of the backlog has left; the pump goes on.
Written(left) ==
    Pump([uploadNow |-> uploadNow, backlog |-> left, session |-> session, refused |-> FALSE])

BytesWritten ==
    /\ Alive(socket) /\ link = "Connected" /\ backlog > 0
    /\ \E left \in 0 .. backlog - 1 : Written(left)
    /\ UNCHANGED <<link, socket, tcp, silence, queued>>

ConnectEndpoint ==
    /\ link = "Disconnected"
    /\ \E c \in Links :
        /\ tcp[c] = "new" /\ \A k \in 1 .. c - 1 : tcp[k] # "new"
        /\ tcp' = [tcp EXCEPT ![c] = "connecting"] /\ socket' = c
    /\ link' = "Connecting"
    /\ UNCHANGED <<backlog, uploadNow, session, silence, queued, refusedOwn>>

\* connected: CLIENT_HELLO and STATUS_REQUEST are written.
Established ==
    /\ Alive(socket) /\ tcp[socket] = "connecting"
    /\ tcp' = [tcp EXCEPT ![socket] = "connected"] /\ link' = "Connected"
    /\ backlog' = 2 /\ session' = NoUpload
    /\ UNCHANGED <<socket, uploadNow, silence, queued, refusedOwn>>

\* errorOccurred and disconnected of the endpoint's socket, a frame that cannot
\* be decoded and is answered with abort() included.
LinkLost ==
    /\ Alive(socket)
    /\ tcp' = Closed(socket) /\ socket' = 0 /\ link' = "Disconnected"
    /\ backlog' = 0 /\ uploadNow' = NotSending /\ session' = NoUpload
    /\ UNCHANGED <<silence, queued, refusedOwn>>

\* abort() of the socket that disconnectAll has already detached.
AfterAbort == Closed(socket)

\* The callback finds another pSocket, so what disconnectAll does not reset stays.
DisconnectAll ==
    /\ tcp' = AfterAbort /\ socket' = 0 /\ link' = "Disconnected"
    /\ backlog' = 0 /\ session' = NoUpload
    /\ UNCHANGED <<uploadNow, silence, queued, refusedOwn>>

\* bSendNodeControl, refreshStatus: a JSON frame in between.
SendControl ==
    /\ link = "Connected" /\ Alive(socket) /\ backlog <= MaxBacklog
    /\ backlog' = backlog + 1
    /\ UNCHANGED <<link, socket, tcp, uploadNow, session, silence, queued, refusedOwn>>

-----------------------------------------------------------------------------
(* Presence.                                                               *)

\* A heartbeat, or any control message the node sends over the connection.
Present ==
    /\ silence' = 0
    /\ UNCHANGED <<link, socket, tcp, backlog, uploadNow, session, queued, refusedOwn>>

TimePasses ==
    /\ silence < OfflineTimeout /\ silence' = silence + 1
    /\ UNCHANGED <<link, socket, tcp, backlog, uploadNow, session, queued, refusedOwn>>

NodeTimedOut == silence >= OfflineTimeout /\ link # "Disconnected"

\* abort() of an established connection emits disconnected, whose handler lets
\* go of the socket and of the upload; that of an attempt emits nothing.
CheckOffline ==
    /\ NodeTimedOut
    /\ tcp' = Closed(socket) /\ link' = "Disconnected" /\ backlog' = 0
    /\ session' = NoUpload
    /\ IF link = "Connected" THEN socket' = 0 /\ uploadNow' = NotSending
                             ELSE UNCHANGED <<socket, uploadNow>>
    /\ UNCHANGED <<silence, queued, refusedOwn>>

LinkNext ==
    \/ \E size \in 1 .. MaxFileSize : QueueUpload(size)
    \/ BytesWritten \/ ConnectEndpoint \/ Established \/ LinkLost
    \/ DisconnectAll \/ SendControl \/ Present \/ TimePasses \/ CheckOffline

\* All that waits in a socket is written in the end, and the offline timer runs.
LinkFairness ==
    /\ WF_linkVars(/\ Alive(socket) /\ link = "Connected" /\ backlog > 0 /\ Written(0)
                   /\ UNCHANGED <<link, socket, tcp, silence, queued>>)
    /\ WF_linkVars(CheckOffline)

LinkSpec == LinkInit /\ [][LinkNext]_linkVars /\ LinkFairness

-----------------------------------------------------------------------------
(* Properties.                                                             *)

\* No connection outlives its endpoint: a socket that is connecting or connected
\* is the endpoint's, and the state the manager shows is the socket's.
NoOrphanSocket ==
    \A c \in Links :
        /\ tcp[c] = "connecting" => socket = c /\ link = "Connecting"
        /\ tcp[c] = "connected" => socket = c /\ link = "Connected"

\* An upload that was begun on the endpoint's connection is where the node's
\* session is, and the node refuses none of its frames, its end included.
OwnUploadsFit ==
    /\ ~refusedOwn
    /\ uploadNow # NotSending /\ uploadNow.begunOn = socket =>
        /\ session.active /\ session.request = uploadNow.request
        /\ session.next = uploadNow.next /\ Len(session.bytes) = uploadNow.offset

\* What an upload writes into a connection, once begun, never brings the backlog
\* above its limit, whatever was written in between.
BacklogKept ==
    [][(/\ uploadNow # NotSending /\ socket' = socket
        /\ uploadNow' = NotSending \/ uploadNow'.offset > uploadNow.offset)
       => backlog' <= MaxBacklog]_linkVars

\* On a connection that stays, an upload comes to its end.
UploadEnds ==
    (uploadNow # NotSending /\ link = "Connected")
        ~> (uploadNow = NotSending \/ link # "Connected")

\* A node that stays silent is not shown as connected or connecting for ever.
SilentNodeDropped ==
    (silence = OfflineTimeout /\ link # "Disconnected")
        ~> (silence < OfflineTimeout \/ link = "Disconnected")

\* A connection of the manager, its upload and its heartbeats.
LinkServes ==
    /\ [](LinkTypeOK /\ NoOrphanSocket /\ OwnUploadsFit)
    /\ BacklogKept /\ UploadEnds /\ SilentNodeDropped
=============================================================================
