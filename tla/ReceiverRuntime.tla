--------------------------- MODULE ReceiverRuntime ---------------------------
(***************************************************************************)
(* AuthenticationReceiverRuntime with native TESLA: one ReceiverState for  *)
(* every sender, a bounded queue that the network thread fills, the        *)
(* persistent worker that takes one datagram per critical section, and the *)
(* control calls.  Results are collected under m_mtxState and handed over  *)
(* after it is released, by the thread that collected them.                *)
(*                                                                         *)
(* The network hands over any datagram that a sender following the same    *)
(* timeline may have sent by now, its clock being at most Tolerance ahead: *)
(* late, lost, repeated, reordered or altered on the way.                  *)
(***************************************************************************)
EXTENDS ReceiverTimeline, FiniteSets

CONSTANTS
    Senders,        \* the contexts: (source address, chain)
    Contents,       \* what became of a datagram: [mac, key : BOOLEAN], Malformed
    QueueLimit,     \* MAX_QUEUED_DATAGRAMS
    MaxVersions,    \* MAX_CANDIDATE_VERSIONS_PER_PACKET
    StartLead,      \* the 100 ms a start or resume must lie in the future
    CallTimes,      \* time stamps that commands may carry
    Expiries,       \* expiry times that attack source mappings may carry
    MaxTime,        \* bound of the model: the clock stops here
    MaxRounds,      \* bound of the model: accepted starts
    MaxArrivals,    \* bound of the model: datagrams in a round
    MaxCommands     \* bound of the model: pauses and resumes in a round

Genuine == [mac |-> TRUE, key |-> TRUE]
Malformed == [malformed |-> TRUE]  \* refused by the context-aware decoder
Readable == Contents \ {Malformed}

ASSUME ReceiverParameters ==
    /\ IsFiniteSet(Senders)
    /\ Genuine \in Contents
    /\ Readable \subseteq [mac : BOOLEAN, key : BOOLEAN]
    /\ QueueLimit \in Nat \ {0} /\ MaxVersions \in Nat \ {0}
    /\ StartLead \in Nat /\ CallTimes \subseteq Nat /\ Expiries \subseteq Nat
    /\ MaxTime \in Nat /\ MaxRounds \in Nat
    /\ MaxArrivals \in Nat /\ MaxCommands \in Nat

Packets == 1 .. TotalPackets
Empty == [status |-> "Empty"]
PacketRecord == {Empty} \union
    [status : {"Pending", "Passed", "Failed"}, content : Readable,
     source : {"normal", "attack"}, at : Nat]

ReceiverState ==
    [active : BOOLEAN, reported : BOOLEAN, incomplete : BOOLEAN,
     records : [Packets -> PacketRecord],
     candidates : [Packets -> SUBSET Readable],
     received : Nat,              \* u32ReceivedPacketCount
     keys : SUBSET ChainKeys,     \* mapDisclosedKeys
     verified : SUBSET ChainKeys, \* setVerifiedIntervals
     timeline : Seq(Segment),
     pauseAfter : 0 .. LastInterval, pauseTs : Nat]

\* A context as the control calls leave it: before a round, and at its start.
FreshState(isActive, timeline) ==
    [active |-> isActive, reported |-> FALSE, incomplete |-> FALSE,
     records |-> [k \in Packets |-> Empty], candidates |-> [k \in Packets |-> {}],
     received |-> 0, keys |-> {}, verified |-> {}, timeline |-> timeline,
     pauseAfter |-> NoInterval, pauseTs |-> 0]

Datagram == [sender : Senders, interval : Intervals, n : 1 .. TotalPackets,
             content : Contents, source : {"normal", "attack"}, at : Nat]

ResultStatus == {"Completed", "AuthenticationFailed", "ProtocolIncomplete",
                 "VerificationTimeout", "Stopped"}
Result == [sender : Senders, round : Nat, status : ResultStatus,
           received : Nat, passed : Nat, failed : Nat, missing : Int]

VARIABLES
    now,
    configured, running, paused,
    state,        \* m_mapStates
    queue,        \* m_deqDatagrams
    mapping,      \* expiry of a sender's attack source mapping, 0 if none
    outbox,       \* the worker's vecResults, still to be handed over
    \* History.
    delivered,    \* results the handler was given, in order
    round, arrivals, commands,
    firstKey,     \* when a datagram with K_i or a later key first came, 0 = never
    blemished     \* an altered, injected or late datagram came for the context

vars == <<now, configured, running, paused, state, queue, mapping, outbox,
          delivered, round, arrivals, commands, firstKey, blemished>>

TypeOK ==
    /\ now \in Nat
    /\ configured \in BOOLEAN /\ running \in BOOLEAN /\ paused \in BOOLEAN
    /\ state \in [Senders -> ReceiverState]
    /\ queue \in Seq(Datagram) /\ Len(queue) <= QueueLimit
    /\ mapping \in [Senders -> Nat]
    /\ outbox \in Seq(Result) /\ delivered \in Seq(Result)
    /\ round \in Nat /\ arrivals \in Nat /\ commands \in Nat
    /\ firstKey \in [Senders -> [ChainKeys -> Nat]]
    /\ blemished \in [Senders -> BOOLEAN]

NothingSeen == [s \in Senders |-> [j \in ChainKeys |-> 0]]

Init ==
    /\ now = 0
    /\ configured = FALSE /\ running = FALSE /\ paused = FALSE
    /\ state = [s \in Senders |-> FreshState(FALSE, <<>>)]
    /\ queue = <<>> /\ mapping = [s \in Senders |-> 0]
    /\ outbox = <<>> /\ delivered = <<>>
    /\ round = 0 /\ arrivals = 0 /\ commands = 0
    /\ firstKey = NothingSeen /\ blemished = [s \in Senders |-> FALSE]

-----------------------------------------------------------------------------
(* What processing a datagram makes of a context st.                       *)

\* verifyNativeIntervalLocked: the verdict of the MAC under the disclosed key.
Verdict(record) ==
    [record EXCEPT !.status = IF record.content.mac THEN "Passed" ELSE "Failed"]

\* verifyIntervalLocked for a set of intervals: each is judged once, when its
\* key is there, with the packets that have been stored by then.
Verify(st, intervals) ==
    LET due == (intervals \intersect st.keys) \ st.verified
        judged(k) == st.records[k] # Empty /\ \E i \in due : k \in PacketsOf(i)
    IN  [st EXCEPT
            !.records = [k \in Packets |-> IF judged(k) THEN Verdict(st.records[k])
                                                        ELSE st.records[k]],
            !.verified = @ \union due]

Spoiled(st) == [st EXCEPT !.incomplete = TRUE]

\* Mutant: a key does not verify the earlier intervals whose key was lost.
WithKeyOnly(st, i, keyIsRight) ==
    LET j     == i - DisclosureDelay
        known == [st EXCEPT !.keys = @ \union (1 .. j)]
    IN  IF j \notin ChainKeys \/ ~keyIsRight THEN Spoiled(st)
        ELSE IF j < DataIntervals THEN Verify(known, {j})
        ELSE [Verify(known, {j}) EXCEPT !.active = FALSE, !.reported = TRUE]

\* Mutant: the disclosed key is not hashed down to the commitment.
WithKeyUnchecked(st, i, keyIsRight) ==
    LET j     == i - DisclosureDelay
        known == [st EXCEPT !.keys = @ \union (1 .. j)]
    IN  IF j \notin ChainKeys THEN Spoiled(st)
        ELSE IF j < DataIntervals THEN Verify(known, 1 .. j)
        ELSE [Verify(known, ChainKeys) EXCEPT !.active = FALSE, !.reported = TRUE]

\* processDisclosedKeyLocked: a wrong key spoils the round; a right one yields
\* every earlier key too, and the last one ends the round (finalizeLocked).
WithKey(st, i, keyIsRight) ==
    LET j     == i - DisclosureDelay
        known == [st EXCEPT !.keys = @ \union (1 .. j)]
    IN  IF j \notin ChainKeys \/ ~keyIsRight THEN Spoiled(st)
        ELSE IF j < DataIntervals THEN Verify(known, 1 .. j)
        ELSE [Verify(known, ChainKeys) EXCEPT !.active = FALSE, !.reported = TRUE]

PacketIndex(dg) == FirstPacket(dg.interval) + dg.n - 1

\* A conflicting datagram is kept beside the baseline, up to the version limit.
AsCandidate(st, k, content) ==
    IF Cardinality(st.candidates[k]) + 1 >= MaxVersions THEN st
    ELSE [st EXCEPT !.candidates[k] = @ \union {content}]

AsBaseline(st, k, dg) ==
    LET stored == [st EXCEPT
                      !.records[k] = [status |-> "Pending", content |-> dg.content,
                                      source |-> dg.source, at |-> dg.at],
                      !.received = @ + 1]
    IN  IF KeyIn(dg.interval, dg.n) = NoKey THEN stored
        ELSE WithKey(stored, dg.interval, dg.content.key)

\* processDatagramLocked.
Processed(st, dg) ==
    LET k == PacketIndex(dg) IN
    IF ~st.active \/ st.reported THEN st
    ELSE IF dg.content = Malformed THEN Spoiled(st)
    ELSE IF ~IsData(dg.interval) THEN WithKey(st, dg.interval, dg.content.key)
    ELSE IF ~TimeSafe(st.timeline, st.pauseAfter, dg.interval, dg.at) THEN Spoiled(st)
    ELSE IF st.records[k] # Empty /\ st.records[k].content = dg.content THEN st
    ELSE IF st.records[k] # Empty \/ dg.source = "attack"
         THEN AsCandidate(st, k, dg.content)
    ELSE AsBaseline(st, k, dg)

-----------------------------------------------------------------------------
(* Results.                                                                *)

Count(st, status) == Cardinality({k \in Packets : st.records[k].status = status})

ResultOf(s, st, status) ==
    [sender |-> s, round |-> round, status |-> status, received |-> st.received,
     passed |-> Count(st, "Passed"), failed |-> Count(st, "Failed"),
     missing |-> TotalPackets - st.received]

\* finalizeLocked: the outcome of a round whose last key has come.
FinalStatus(st) ==
    IF st.incomplete THEN "ProtocolIncomplete"
    ELSE IF Count(st, "Passed") = TotalPackets /\ st.received = TotalPackets
         THEN "Completed" ELSE "AuthenticationFailed"

Live(st) == st.active /\ ~st.reported

-----------------------------------------------------------------------------
(* The worker thread.                                                      *)

\* checkPauseAndTimeoutsLocked for one context.
AtPause(st) ==
    /\ Live(st) /\ st.pauseAfter # NoInterval
    /\ Last(st.timeline).first <= st.pauseAfter
    /\ now >= st.pauseTs

\* Mutant: a context that was ever paused never times out.
TimedOutUnpaused(st) ==
    LET deadline == RoundDeadline(st.timeline, st.pauseAfter)
    IN  Live(st) /\ st.pauseAfter = NoInterval /\ deadline # Unknown /\ now > deadline

TimedOut(st) ==
    LET deadline == RoundDeadline(st.timeline, st.pauseAfter)
    IN  Live(st) /\ deadline # Unknown /\ now > deadline

\* One turn of workerLoop under the lock: a datagram if there is one, then the
\* pause and the deadline of every live context.
WorkerTurn ==
    /\ outbox = <<>>
    /\ queue' = IF queue = <<>> THEN queue ELSE Tail(queue)
    /\ \E after \in {[s \in Senders |->
                        IF queue # <<>> /\ Head(queue).sender = s
                        THEN Processed(state[s], Head(queue)) ELSE state[s]]} :
       LET done  == {s \in Senders : Live(state[s]) /\ ~Live(after[s])}
           late  == {s \in Senders : TimedOut(after[s])}
           final == {ResultOf(s, after[s], FinalStatus(after[s])) : s \in done}
           timeouts == {ResultOf(s, after[s], "VerificationTimeout") : s \in late}
       IN  /\ state' = [s \in Senders |->
                  IF s \in late
                  THEN [after[s] EXCEPT !.active = FALSE, !.reported = TRUE]
                  ELSE after[s]]
           /\ paused' = \E s \in Senders : AtPause(after[s])
           /\ running' = \E s \in Senders : after[s].active /\ s \notin late
           /\ \E f \in SetToSeqs(final), t \in SetToSeqs(timeouts) : outbox' = f \o t
    /\ UNCHANGED <<now, configured, mapping, delivered, round, arrivals, commands,
                   firstKey, blemished>>

\* emitResults, after the lock is released.
EmitResults ==
    /\ outbox # <<>>
    /\ delivered' = delivered \o outbox /\ outbox' = <<>>
    /\ UNCHANGED <<now, configured, running, paused, state, queue, mapping, round,
                   arrivals, commands, firstKey, blemished>>

Worker == WorkerTurn \/ EmitResults

-----------------------------------------------------------------------------
(* The network thread.                                                     *)

\* A sender may be in interval i, its clock at most Tolerance ahead of ours.
MaySend(s, i) ==
    LET start == IntervalStartAt(state[s].timeline, state[s].pauseAfter, i)
    IN  start # Unknown /\ now + Tolerance >= start

Discloses(dg, j) ==
    dg.content # Malformed /\ dg.content.key /\ KeyIn(dg.interval, dg.n) >= j

Blemish(dg) ==
    \/ dg.content # Genuine \/ dg.source = "attack"
    \/ /\ IsData(dg.interval)
       /\ ~TimeSafe(state[dg.sender].timeline, state[dg.sender].pauseAfter,
                    dg.interval, dg.at)

HasRoom == Len(queue) < QueueLimit

\* bEnqueueDatagram: dropped unless the context is active and there is room.
Receive(dg) ==
    LET s == dg.sender
        accepted == running /\ state[s].active /\ HasRoom
    IN  /\ arrivals < MaxArrivals /\ arrivals' = arrivals + 1
        /\ MaySend(s, dg.interval)
        /\ dg.source = "attack" => mapping[s] # 0 /\ mapping[s] >= dg.at
        /\ queue' = IF accepted THEN Append(queue, dg) ELSE queue
        /\ firstKey' = [firstKey EXCEPT ![s] = [j \in ChainKeys |->
               IF @[j] = 0 /\ Discloses(dg, j) THEN dg.at ELSE @[j]]]
        /\ blemished' = [blemished EXCEPT ![s] = @ \/ Blemish(dg)]
        /\ UNCHANGED <<now, configured, running, paused, state, mapping, outbox,
                       delivered, round, commands>>

Network ==
    \E s \in Senders, x \in AllDatagrams, content \in Contents,
       source \in {"normal", "attack"} :
        Receive([sender |-> s, interval |-> x[1], n |-> x[2], content |-> content,
                 source |-> source, at |-> now])

-----------------------------------------------------------------------------
(* Control calls.                                                          *)

\* Mutant: stop() reports every context without a result, at work or not.
StopReportsUnreported(st) == ~st.reported

StopReports(st) == Live(st)

\* stop(): contexts that have not reported do so now, on the calling thread.
StopRound(report) ==
    LET stopped == {s \in Senders : report /\ StopReports(state[s])}
    IN  /\ \E order \in SetToSeqs({ResultOf(s, state[s], "Stopped") : s \in stopped}) :
              delivered' = delivered \o order
        /\ running' = FALSE /\ paused' = FALSE /\ queue' = <<>>
        /\ mapping' = [s \in Senders |-> 0]

Stop ==
    /\ StopRound(TRUE)
    /\ state' = [s \in Senders |-> [state[s] EXCEPT
                    !.active = FALSE, !.reported = @ \/ Live(state[s])]]
    /\ UNCHANGED <<now, configured, outbox, round, arrivals, commands, firstKey, blemished>>

\* configure: stop(false), then fresh contexts or an exception.
Configure ==
    /\ StopRound(FALSE)
    /\ \/ /\ configured' = TRUE
          /\ state' = [s \in Senders |-> FreshState(FALSE, <<>>)]
       \/ /\ state' = [s \in Senders |-> [state[s] EXCEPT !.active = FALSE]]
          /\ UNCHANGED configured
    /\ UNCHANGED <<now, outbox, round, arrivals, commands, firstKey, blemished>>

\* start: whatever ran before is overwritten; the queue keeps what it holds.
Start(ts) ==
    /\ configured /\ ts > now + StartLead /\ round < MaxRounds
    /\ state' = [s \in Senders |-> FreshState(TRUE, <<[first |-> 1, start |-> ts]>>)]
    /\ running' = TRUE /\ paused' = FALSE
    /\ round' = round + 1 /\ arrivals' = 0 /\ commands' = 0
    /\ firstKey' = NothingSeen /\ blemished' = [s \in Senders |-> FALSE]
    /\ UNCHANGED <<now, configured, queue, mapping, outbox, delivered>>

\* requestPause: every active context takes the boundary.
RequestPause(i, ts) ==
    /\ running /\ commands < MaxCommands /\ commands' = commands + 1
    /\ i > 0 /\ ts > now /\ i < LastInterval
    /\ state' = [s \in Senders |->
           IF state[s].active THEN [state[s] EXCEPT !.pauseAfter = i, !.pauseTs = ts]
                              ELSE state[s]]
    /\ UNCHANGED <<now, configured, running, paused, queue, mapping, outbox,
                   delivered, round, arrivals, firstKey, blemished>>

\* resume: every active context must be waiting for exactly this interval.
Resume(i, ts) ==
    /\ running /\ commands < MaxCommands /\ commands' = commands + 1
    /\ \A s \in Senders : state[s].active =>
          /\ state[s].pauseAfter # NoInterval /\ i = state[s].pauseAfter + 1
          /\ ts > state[s].pauseTs
    /\ ts > now + StartLead
    /\ state' = [s \in Senders |->
           IF state[s].active
           THEN [state[s] EXCEPT !.timeline = Append(@, [first |-> i, start |-> ts])]
           ELSE state[s]]
    /\ paused' = FALSE
    /\ UNCHANGED <<now, configured, running, queue, mapping, outbox, delivered,
                   round, arrivals, firstKey, blemished>>

\* applyAttackSourceMapping: installed before the start only, cleared any time.
MapAttackSource(s, expires) ==
    /\ configured
    /\ \/ ~running /\ expires > now /\ mapping[s] = 0
          /\ mapping' = [mapping EXCEPT ![s] = expires]
       \/ mapping' = [mapping EXCEPT ![s] = 0]
    /\ UNCHANGED <<now, configured, running, paused, state, queue, outbox, delivered,
                   round, arrivals, commands, firstKey, blemished>>

Control ==
    \/ Configure \/ Stop
    \/ \E ts \in CallTimes : Start(ts)
    \/ \E i \in Intervals, ts \in CallTimes : RequestPause(i, ts)
    \/ \E i \in Intervals, ts \in CallTimes : Resume(i, ts)
    \/ \E s \in Senders, expires \in Expiries : MapAttackSource(s, expires)

Tick ==
    /\ now < MaxTime /\ now' = now + 1
    /\ UNCHANGED <<configured, running, paused, state, queue, mapping, outbox,
                   delivered, round, arrivals, commands, firstKey, blemished>>

Next == Worker \/ Network \/ Control \/ Tick

Spec == Init /\ [][Next]_vars

\* The worker thread is scheduled and the clock goes on.
FairSpec == Spec /\ WF_vars(Worker) /\ WF_vars(Tick)

\* The commands of the manager: a round starts when the datagrams of the last one
\* have been worked off; a pause is aimed at the end of an interval of the current
\* segment on the timeline all nodes share, early enough for a sender whose clock
\* is ahead, and the next command of the round is the resume from it.
StartOf(s, i) == IntervalStartAt(state[s].timeline, state[s].pauseAfter, i)

TimelyStart == queue = <<>>

TimelyPause(i, ts) ==
    \A s \in Senders : state[s].active =>
        /\ StartOf(s, i + 1) = ts /\ now + Tolerance < ts
        /\ Last(state[s].timeline).first <= i

TimelyResume(i) == \A s \in Senders : state[s].active => StartOf(s, i) = Unknown

TimelyControl ==
    \/ Configure \/ Stop
    \/ \E ts \in CallTimes : TimelyStart /\ Start(ts)
    \/ \E i \in Intervals, ts \in CallTimes : TimelyPause(i, ts) /\ RequestPause(i, ts)
    \/ \E i \in Intervals, ts \in CallTimes : TimelyResume(i) /\ Resume(i, ts)
    \/ \E s \in Senders, expires \in Expiries : MapAttackSource(s, expires)

TimelyNext == Worker \/ Network \/ TimelyControl \/ Tick

TimelySpec == Init /\ [][TimelyNext]_vars

-----------------------------------------------------------------------------
(* Properties.                                                             *)

NewResults == {r \in Range(outbox' \o delivered') :
                  r \notin Range(outbox \o delivered)}

IntervalOf(k) == CHOOSE i \in 1 .. DataIntervals : k \in PacketsOf(i)

\* What a Completed result promises: every expected packet came from the sender
\* itself, carries a valid MAC, and was here before any datagram that discloses
\* its key or a later one, whatever was queued, paused or resumed in between.
CompletedIsAuthentic ==
    [][\A r \in NewResults : r.status = "Completed" =>
           \A k \in Packets :
               LET record == state'[r.sender].records[k]
                   seen   == firstKey[r.sender][IntervalOf(k)]
               IN  /\ record.status = "Passed" /\ record.content.mac
                   /\ record.source = "normal"
                   /\ record.at < seen]_vars

\* An interval is verified once, when its key comes: no packet may be stored for
\* it afterwards, it would stay Pending and the round could never complete.
NothingLeftPending ==
    \A s \in Senders : \A i \in state[s].verified : \A k \in PacketsOf(i) :
        state[s].records[k].status # "Pending"

ResultsOf(s) ==
    {k \in 1 .. Len(delivered \o outbox) :
        (delivered \o outbox)[k].sender = s /\ (delivered \o outbox)[k].round = round}

\* The worker's last key, its timeout and stop() on another thread compete for
\* the result of a context: exactly one wins, and none is issued while the
\* context is still at work.
OneResultPerRound ==
    \A s \in Senders :
        /\ Cardinality(ResultsOf(s)) <= 1
        /\ state[s].reported => ResultsOf(s) # {}
        /\ Live(state[s]) => ResultsOf(s) = {}

\* A round is not spoiled for nothing: without an altered, injected or late
\* datagram it never ends ProtocolIncomplete, and when it ends
\* AuthenticationFailed, packets are missing but every packet that came has
\* passed, also when the datagram with its own key was lost.
FailureHasCause ==
    [][\A r \in NewResults : ~blemished[r.sender] =>
           /\ r.status # "ProtocolIncomplete"
           /\ r.status = "AuthenticationFailed" =>
                  r.missing > 0 /\ r.passed = r.received]_vars

\* A round that is on the clock of the model is reported by itself: with the
\* last key or by its timeout, also after a pause that was resumed.
RoundIsReported ==
    \A s \in Senders :
        state[s].active ~>
            \/ ~state[s].active
            \/ RoundDeadline(state[s].timeline, state[s].pauseAfter) = Unknown
            \/ RoundDeadline(state[s].timeline, state[s].pauseAfter) >= MaxTime

\* The invariant of the records: their types, and nothing left behind in them.
RecordsInOrder == TypeOK /\ NothingLeftPending
=============================================================================
