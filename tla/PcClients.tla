------------------------------- MODULE PcClients -------------------------------
(***************************************************************************)
(* The clients of the PC node's management port: one Qt thread accepts     *)
(* them, handles their frames and runs posted events, and each client has  *)
(* a thread of its own while the file it uploaded is prepared.  A Qt       *)
(* socket emits disconnected from within abort(); it is deleted, and with  *)
(* it the ClientState its slots hold, when the event loop gets to it.      *)
(***************************************************************************)
EXTENDS FileUpload, FiniteSets

CONSTANTS
    PcMaxClients,      \* MAX_CLIENT_COUNT
    PcConnections,     \* bound of the model: connections made, a set 1 .. n
    MaxPcFrames        \* bound of the model: frames handled

ASSUME PcParameters ==
    /\ PcMaxClients \in Nat \ {0} /\ PcConnections \subseteq Nat \ {0}
    /\ MaxPcFrames \in Nat

VARIABLES
    pcOn,             \* m_bRunning
    pcSocket,         \* state of each connection
    inMap,            \* m_mapClients
    deleting,         \* sockets with a deleteLater() to come
    alive,            \* connections whose ClientState exists
    greeting,         \* role, once CLIENT_HELLO came
    pcUpload,         \* uplFile
    preparing,        \* bFilePreparationRunning
    preparation,      \* thrFilePreparation and the request it prepares
    answers,          \* answers posted to the Qt thread
    joining,          \* the client whose thread the Qt thread waits for, or 0
    runtimeStopped,   \* m_ptrAuthenticationRuntime->stop() has been called
    handled,          \* bound: frames handled
    \* History: requests accepted and answers written, per connection.
    acceptedFiles, answered

pcVars == <<pcOn, pcSocket, inMap, deleting, alive, greeting, pcUpload, preparing,
            preparation, answers, joining, runtimeStopped, handled, acceptedFiles,
            answered>>

PcRoles == {"manager", "monitor"}
NoPreparation == [state |-> "none", request |-> 0]
Requests == 1 .. MaxPcFrames

PcFrames ==
    [kind : {"hello"}, role : PcRoles] \union [kind : {"control", "bad"}]
    \union [kind : {"begin"}, size : 1 .. MaxFileSize]
    \union [kind : {"chunk"}, index : 1 .. 2, length : 1 .. ChunkSize]
    \union [kind : {"end"}, total : 1 .. MaxFileSize]

PcTypeOK ==
    /\ pcOn \in BOOLEAN /\ runtimeStopped \in BOOLEAN
    /\ pcSocket \in [PcConnections -> {"new", "open", "closing", "closed"}]
    /\ inMap \subseteq PcConnections /\ Cardinality(inMap) <= PcMaxClients
    /\ deleting \subseteq PcConnections /\ alive \subseteq PcConnections
    /\ greeting \in [PcConnections -> PcRoles \union {"none"}]
    /\ preparing \in [PcConnections -> BOOLEAN]
    /\ \A c \in PcConnections :
        preparation[c].state \in {"none", "running", "ended"}
    /\ answers \in Seq([client : PcConnections, request : Requests])
    /\ joining \in PcConnections \union {0} /\ handled \in 0 .. MaxPcFrames

PcInit ==
    /\ pcOn = TRUE /\ pcSocket = [c \in PcConnections |-> "new"] /\ inMap = {}
    /\ deleting = {} /\ alive = {} /\ greeting = [c \in PcConnections |-> "none"]
    /\ pcUpload = [c \in PcConnections |-> NoUpload]
    /\ preparing = [c \in PcConnections |-> FALSE]
    /\ preparation = [c \in PcConnections |-> NoPreparation]
    /\ answers = <<>> /\ joining = 0 /\ runtimeStopped = FALSE /\ handled = 0
    /\ acceptedFiles = {} /\ answered = {}

\* The Qt thread is in its event loop.
InLoop == joining = 0

-----------------------------------------------------------------------------
(* Connections.                                                            *)

RoomForPcClient == Cardinality(inMap) < PcMaxClients

AcceptClient(c) ==
    /\ InLoop /\ pcOn /\ pcSocket[c] = "new"
    /\ IF RoomForPcClient
       THEN /\ pcSocket' = [pcSocket EXCEPT ![c] = "open"]
            /\ inMap' = inMap \union {c} /\ alive' = alive \union {c}
            /\ UNCHANGED deleting
       ELSE /\ pcSocket' = [pcSocket EXCEPT ![c] = "closed"]
            /\ deleting' = deleting \union {c} /\ UNCHANGED <<inMap, alive>>
    /\ UNCHANGED <<pcOn, greeting, pcUpload, preparing, preparation, answers, joining,
                   runtimeStopped, handled, acceptedFiles, answered>>

\* disconnected: by the peer, or after disconnectFromHost once all is written.
ClientGone(c) ==
    /\ InLoop /\ pcSocket[c] \in {"open", "closing"} /\ c \in inMap
    /\ pcSocket' = [pcSocket EXCEPT ![c] = "closed"]
    /\ inMap' = inMap \ {c} /\ deleting' = deleting \union {c}
    /\ UNCHANGED <<pcOn, alive, greeting, pcUpload, preparing, preparation, answers,
                   joining, runtimeStopped, handled, acceptedFiles, answered>>

\* The destructor of a ClientState joins its thread first.
FreedAfterThread(c) == IF preparation[c].state = "running" THEN c ELSE 0

DeleteSocket(c) ==
    /\ InLoop /\ c \in deleting
    /\ deleting' = deleting \ {c}
    /\ joining' = FreedAfterThread(c) /\ alive' = alive \ {c}
    /\ UNCHANGED <<pcOn, pcSocket, inMap, greeting, pcUpload, preparing, preparation,
                   answers, runtimeStopped, handled, acceptedFiles, answered>>

-----------------------------------------------------------------------------
(* Frames.  An upload uses chain 1 and the number of its begin as request. *)

MayUpload(c) == ~preparing[c]

Completes(c, total) ==
    CompleteValid(pcUpload[c], pcUpload[c].request, 1, pcUpload[c].next - 1, total)

\* The client's file is whole: its thread is replaced, and prepares it.
BeginPreparation(c) ==
    /\ preparing' = [preparing EXCEPT ![c] = TRUE]
    /\ acceptedFiles' = acceptedFiles \union
         {[client |-> c, request |-> pcUpload[c].request,
           size |-> pcUpload[c].size, bytes |-> pcUpload[c].bytes]}
    /\ IF preparation[c].state = "running"
       THEN joining' = c /\ UNCHANGED preparation
       ELSE /\ preparation' = [preparation EXCEPT ![c] =
                                 [state |-> "running", request |-> pcUpload[c].request]]
            /\ UNCHANGED joining
    /\ pcUpload' = [pcUpload EXCEPT ![c] = NoUpload]
    /\ UNCHANGED <<pcSocket, greeting>>

Nothing == UNCHANGED <<pcSocket, greeting, pcUpload, preparing, preparation, joining,
                       acceptedFiles>>

\* disconnectFromHost: what was written still goes out.
Hangup(c) ==
    /\ pcSocket' = [pcSocket EXCEPT ![c] = "closing"]
    /\ UNCHANGED <<greeting, pcUpload, preparing, preparation, joining, acceptedFiles>>

SetUpload(c, upload) ==
    /\ pcUpload' = [pcUpload EXCEPT ![c] = upload]
    /\ UNCHANGED <<pcSocket, greeting, preparing, preparation, joining, acceptedFiles>>

PcUploadFrame(c, f) ==
    CASE greeting[c] = "monitor" -> Nothing
      [] f.kind = "begin" /\ greeting[c] # "monitor" ->
            SetUpload(c, IF MayUpload(c) /\ BeginValid(pcUpload[c], 1, f.size)
                         THEN Begun(handled + 1, 1, f.size) ELSE NoUpload)
      [] f.kind = "chunk" /\ greeting[c] # "monitor" ->
            IF ~MayUpload(c) THEN Nothing
            ELSE SetUpload(c, IF AppendValid(pcUpload[c], 1, f.index, f.length)
                              THEN Appended(pcUpload[c], 1, f.index, f.length)
                              ELSE NoUpload)
      [] f.kind = "end" /\ greeting[c] # "monitor" ->
            IF ~MayUpload(c) THEN Nothing
            ELSE IF Completes(c, f.total) THEN BeginPreparation(c)
            ELSE /\ preparing' = [preparing EXCEPT ![c] = FALSE]
                 /\ pcUpload' = [pcUpload EXCEPT ![c] = NoUpload]
                 /\ UNCHANGED <<pcSocket, greeting, preparation, joining, acceptedFiles>>

PcHandleFrame(c) ==
    /\ InLoop /\ pcOn /\ c \in inMap /\ pcSocket[c] = "open" /\ handled < MaxPcFrames
    /\ handled' = handled + 1
    /\ \E f \in PcFrames :
        CASE f.kind = "bad" -> Hangup(c)
          [] f.kind # "bad" /\ greeting[c] = "none" ->
               IF f.kind # "hello" THEN Hangup(c)
               ELSE /\ greeting' = [greeting EXCEPT ![c] = f.role]
                    /\ UNCHANGED <<pcSocket, pcUpload, preparing, preparation, joining,
                                   acceptedFiles>>
          [] f.kind \in {"hello", "control"} /\ greeting[c] # "none" -> Nothing
          [] f.kind \in {"begin", "chunk", "end"} /\ greeting[c] # "none" ->
               PcUploadFrame(c, f)
    /\ UNCHANGED <<pcOn, inMap, deleting, alive, answers, runtimeStopped, answered>>

-----------------------------------------------------------------------------
(* Preparation.                                                            *)

\* msgApplyFilePayload has returned: the answer is posted, the thread ends.
\* Whoever joins it goes on.
PreparationEnds(c) ==
    /\ preparation[c].state = "running"
    /\ answers' = Append(answers, [client |-> c, request |-> preparation[c].request])
    /\ preparation' = [preparation EXCEPT ![c].state = "ended"]
    /\ joining' = IF joining = c THEN 0 ELSE joining
    /\ UNCHANGED <<pcOn, pcSocket, inMap, deleting, alive, greeting, pcUpload, preparing,
                   runtimeStopped, handled, acceptedFiles, answered>>

\* Mutant: the flag is not reset.
StillPreparing(c) == preparing[c]

\* The flag once the answer is there.
AfterAnswer(c) == FALSE

\* The weak pointer: whether the ClientState is still there.
StillThere(c) == c \in alive

DeliverAnswer ==
    /\ InLoop /\ answers # <<>> /\ answers' = Tail(answers)
    /\ LET a == Head(answers)
       IN  /\ preparing' = [preparing EXCEPT ![a.client] =
                              IF StillThere(a.client) THEN AfterAnswer(a.client) ELSE @]
           /\ answered' = IF StillThere(a.client) /\ pcSocket[a.client] = "open"
                          THEN answered \union {a} ELSE answered
    /\ UNCHANGED <<pcOn, pcSocket, inMap, deleting, alive, greeting, pcUpload,
                   preparation, joining, runtimeStopped, handled, acceptedFiles>>

\* stop(): abort() of every socket takes it out of m_mapClients, in the slot of its
\* disconnected signal, before the loop that joins the threads of what is left there:
\* it finds nothing, and the runtime is stopped while files are still prepared.
PcStop ==
    /\ InLoop /\ pcOn /\ pcOn' = FALSE
    /\ pcSocket' = [c \in PcConnections |-> IF c \in inMap THEN "closed" ELSE pcSocket[c]]
    /\ deleting' = deleting \union inMap /\ inMap' = {}
    /\ runtimeStopped' = TRUE
    /\ UNCHANGED <<alive, greeting, pcUpload, preparing, preparation, answers, joining,
                   handled, acceptedFiles, answered>>

PcNext ==
    \/ \E c \in PcConnections :
        \/ AcceptClient(c) \/ ClientGone(c) \/ DeleteSocket(c) \/ PcHandleFrame(c)
        \/ PreparationEnds(c)
    \/ DeliverAnswer \/ PcStop

\* Preparations end, and the event loop turns.
PcFairness ==
    /\ \A c \in PcConnections :
        WF_pcVars(PreparationEnds(c)) /\ WF_pcVars(DeleteSocket(c))
    /\ WF_pcVars(DeliverAnswer)

PcSpec == PcInit /\ [][PcNext]_pcVars /\ PcFairness

-----------------------------------------------------------------------------
(* Properties.                                                             *)

\* A file goes to the authentication runtime whole, and no answer about a file
\* is written to a client that did not upload it.
PcFilesWhole ==
    /\ \A f \in acceptedFiles : f.bytes = WholeFile(1, f.size)
    /\ \A a \in answered : \E f \in acceptedFiles :
        f.client = a.client /\ f.request = a.request

\* A client's frames never make the Qt thread, and the window with it, wait for
\* a preparation that is still running.
FramesDoNotBlock == joining # 0 => joining \notin alive

\* No preparation runs for a ClientState that has been destroyed, except while
\* its destructor waits for it.
ThreadHasOwner ==
    \A c \in PcConnections :
        preparation[c].state = "running" => c \in alive \/ joining = c

\* What docs/stage7-file-authentication.md and the comment in stop() say: stop() waits
\* for the preparations and then stops the runtime.  It does not (see PcStop).
RuntimeStopsLast ==
    runtimeStopped => \A c \in PcConnections : preparation[c].state # "running"

\* A client that stays gets its answer and may upload again.
PreparationAnswered ==
    \A c \in PcConnections :
        preparing[c] ~> (~preparing[c] \/ c \notin alive)

\* The clients of the PC node: files whole, no thread without an owner, all answered.
ClientsServed ==
    /\ [](PcTypeOK /\ PcFilesWhole /\ FramesDoNotBlock /\ ThreadHasOwner)
    /\ PreparationAnswered
=============================================================================
