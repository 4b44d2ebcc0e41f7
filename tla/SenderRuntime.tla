---------------------------- MODULE SenderRuntime ----------------------------
(***************************************************************************)
(* AuthenticationSenderRuntime: a control thread that configures, starts,  *)
(* pauses, resumes and stops a round, and the worker thread that sends the *)
(* prepared datagrams of every interval at absolute times.  They share the *)
(* fields under m_mtxState.  One action is one critical section or one     *)
(* step between two of them; time passes between any two actions, so a     *)
(* slow worker overruns its interval.                                      *)
(***************************************************************************)
EXTENDS RoundSchedule, Sequences, FiniteSets

CONSTANTS
    IntervalLength,  \* u32IntervalMilliseconds, in ticks
    StartLead,       \* the 100 ms a start or resume must lie in the future
    FaultDelay,      \* delay of the FixedDelay / RandomDelay fault policies
    UIntModulus,     \* 2^32: the interval arithmetic of the worker is unsigned
    CallTimes,       \* time stamps a start, pause or resume command may carry
    MaxTime,         \* bound of the model: the clock stops here
    MaxRounds,       \* bound of the model: accepted starts
    MaxCommands      \* bound of the model: accepted pauses and resumes a round

ASSUME SenderParameters ==
    /\ IntervalLength \in Nat \ {0}
    /\ StartLead \in Nat
    /\ FaultDelay \in Nat
    /\ UIntModulus \in Nat /\ UIntModulus > LastInterval + 1
    /\ CallTimes \subseteq Nat
    /\ MaxTime \in Nat /\ MaxRounds \in Nat /\ MaxCommands \in Nat

NoInterval == 0  \* an empty std::optional interval; intervals start at 1

VARIABLES
    now,              \* the clock, steady and wall alike
    \* Fields guarded by m_mtxState.
    configured, running, paused, stopRequested,
    fault,            \* m_optFaultDetails has a value
    startTs, currentInterval, sentDataCount,
    pauseAfter, pauseTs, resumeAt, resumeTs,
    \* The worker thread: run() and its locals.
    wpc, interval, datagram, segmentStart, segmentFirst, waitTs, resumeLocal,
    delayed,          \* durFaultDelay of the datagram in hand
    overrun,
    \* The control thread: its place in a call, the call, bWasRunning.
    cpc, call, callTs, wasRunning,
    \* History of the current round.
    round, commands, wire, dropped, results, acceptedPause, promisedPause,
    sentAfterStop

sharedVars == <<configured, running, paused, stopRequested, fault, startTs,
                currentInterval, sentDataCount, pauseAfter, pauseTs, resumeAt,
                resumeTs>>
workerVars == <<wpc, interval, datagram, segmentStart, segmentFirst, waitTs,
                resumeLocal, delayed, overrun>>
controlVars == <<cpc, call, callTs, wasRunning>>
historyVars == <<round, commands, wire, dropped, results, acceptedPause,
                 promisedPause, sentAfterStop>>
vars == <<now, sharedVars, workerVars, controlVars, historyVars>>

Results == {"Completed", "InvalidSchedulingOverrun", "Stopped"}
WorkerSteps == {"waitStart", "loop", "waitInterval", "waitSend", "delay", "send",
                "measure", "afterSends", "pauseCheck", "waitPause", "enterPause",
                "paused", "waitResume", "decide", "emit", "finish"}

FlagsOK ==
    /\ configured \in BOOLEAN /\ running \in BOOLEAN /\ paused \in BOOLEAN
    /\ stopRequested \in BOOLEAN /\ fault \in BOOLEAN
    /\ delayed \in BOOLEAN /\ overrun \in BOOLEAN /\ wasRunning \in BOOLEAN

TypeOK ==
    /\ FlagsOK
    /\ now \in Nat
    /\ startTs \in Nat /\ pauseTs \in Nat /\ resumeTs \in Nat
    /\ currentInterval \in 0 .. LastInterval
    /\ sentDataCount \in Nat
    /\ pauseAfter \in 0 .. LastInterval
    /\ resumeAt \in 0 .. LastInterval + 1
    /\ wpc \in WorkerSteps \union {"none"}
    /\ interval \in 1 .. LastInterval + 1
    /\ datagram \in Nat \ {0}
    /\ segmentStart \in Nat /\ waitTs \in Nat
    /\ segmentFirst \in 0 .. LastInterval + 1
    /\ resumeLocal \in 0 .. LastInterval + 1
    /\ cpc \in {"idle", "stop", "join", "act"}
    /\ call \in {"none", "configure", "reset", "start", "stop"}
    /\ callTs \in Nat
    /\ round \in Nat /\ commands \in Nat
    /\ wire \subseteq AllDatagrams /\ dropped \subseteq AllDatagrams
    /\ results \in Seq(Results)
    /\ acceptedPause \in 0 .. LastInterval
    /\ promisedPause \in 0 .. LastInterval
    /\ sentAfterStop \in Nat

Init ==
    /\ now = 0
    /\ configured = FALSE /\ running = FALSE /\ paused = FALSE
    /\ stopRequested = FALSE /\ fault = FALSE
    /\ startTs = 0 /\ currentInterval = 0 /\ sentDataCount = 0
    /\ pauseAfter = NoInterval /\ pauseTs = 0
    /\ resumeAt = NoInterval /\ resumeTs = 0
    /\ wpc = "none" /\ interval = 1 /\ datagram = 1
    /\ segmentStart = 0 /\ segmentFirst = 1 /\ waitTs = 0
    /\ resumeLocal = NoInterval /\ delayed = FALSE /\ overrun = FALSE
    /\ cpc = "idle" /\ call = "none" /\ callTs = 0 /\ wasRunning = FALSE
    /\ round = 0 /\ commands = 0 /\ wire = {} /\ dropped = {} /\ results = <<>>
    /\ acceptedPause = NoInterval /\ promisedPause = NoInterval
    /\ sentAfterStop = 0

-----------------------------------------------------------------------------
(* The worker's timetable.                                                 *)

\* tpIntervalStart: the offset from the segment's first interval is unsigned.
IntervalStart ==
    segmentStart + IntervalLength * ((interval - segmentFirst) % UIntModulus)

IntervalEnd == IntervalStart + IntervalLength

\* tpSendTarget: datagrams are spread evenly over their interval.
SendTarget ==
    IntervalStart + (IntervalLength \div DatagramCount(interval)) * (datagram - 1)

DelayOfDatagram == IF delayed THEN FaultDelay ELSE 0

\* The condition variable waits of the worker return early only for a stop.
WakesAt(time) == stopRequested \/ now >= time

-----------------------------------------------------------------------------
(* The worker thread, run().                                               *)

BeginRound ==
    /\ wpc = "waitStart" /\ WakesAt(startTs)
    /\ IF stopRequested
       THEN wpc' = "finish" /\ UNCHANGED <<interval, segmentStart, segmentFirst, overrun>>
       ELSE /\ wpc' = "loop" /\ interval' = 1 /\ overrun' = FALSE
            /\ segmentStart' = now /\ segmentFirst' = 1
    /\ UNCHANGED <<now, sharedVars, controlVars, historyVars, datagram, waitTs,
                   resumeLocal, delayed>>

\* Mutants: the loop runs once too often, or leaves out the tail intervals.
RoundOverLate == interval > LastInterval + 1 \/ stopRequested
RoundOverAtTail == interval > DataIntervals \/ stopRequested

\* The loop condition, with the break at its head.
RoundOver == interval > LastInterval \/ stopRequested

EnterInterval ==
    /\ wpc = "loop"
    /\ IF RoundOver
       THEN wpc' = "decide" /\ UNCHANGED currentInterval
       ELSE wpc' = "waitInterval" /\ currentInterval' = interval
    /\ UNCHANGED <<now, configured, running, paused, stopRequested, fault, startTs,
                   sentDataCount, pauseAfter, pauseTs, resumeAt, resumeTs,
                   controlVars, historyVars, interval, datagram, segmentStart,
                   segmentFirst, waitTs, resumeLocal, delayed, overrun>>

AwaitInterval ==
    /\ wpc = "waitInterval" /\ WakesAt(IntervalStart)
    /\ wpc' = IF stopRequested THEN "decide" ELSE "waitSend"
    /\ datagram' = 1
    /\ UNCHANGED <<now, sharedVars, controlVars, historyVars, interval,
                   segmentStart, segmentFirst, waitTs, resumeLocal, delayed, overrun>>

\* The head of the datagram loop: the interval is exhausted, a stop breaks the
\* loop, or the datagram is due and the fault policy decides about it.
LeaveSendLoop ==
    /\ wpc = "waitSend"
    /\ datagram > DatagramCount(interval) \/ stopRequested
    /\ wpc' = "afterSends"
    /\ UNCHANGED <<now, sharedVars, controlVars, historyVars, interval, datagram,
                   segmentStart, segmentFirst, waitTs, resumeLocal, delayed, overrun>>

\* Mutant: the stop flag is not tested before a datagram.
DatagramDueUnstopped ==
    wpc = "waitSend" /\ datagram <= DatagramCount(interval) /\ now >= SendTarget

DatagramDue ==
    /\ wpc = "waitSend" /\ datagram <= DatagramCount(interval)
    /\ ~stopRequested /\ now >= SendTarget

DecideToSend ==
    /\ DatagramDue
    /\ \E late \in (IF fault THEN BOOLEAN ELSE {FALSE}) :
          delayed' = late /\ wpc' = IF late THEN "delay" ELSE "send"
    /\ UNCHANGED <<now, sharedVars, controlVars, historyVars, interval, datagram,
                   segmentStart, segmentFirst, waitTs, resumeLocal, overrun>>

DropDatagram ==
    /\ DatagramDue /\ fault
    /\ dropped' = dropped \union {<<interval, datagram>>}
    /\ datagram' = datagram + 1
    /\ UNCHANGED <<now, sharedVars, controlVars, wpc, interval, segmentStart,
                   segmentFirst, waitTs, resumeLocal, delayed, overrun, round,
                   commands, wire, results, acceptedPause, promisedPause,
                   sentAfterStop>>

AwaitFaultDelay ==
    /\ wpc = "delay" /\ WakesAt(SendTarget + FaultDelay)
    /\ wpc' = IF stopRequested THEN "afterSends" ELSE "send"
    /\ UNCHANGED <<now, sharedVars, controlVars, historyVars, interval, datagram,
                   segmentStart, segmentFirst, waitTs, resumeLocal, delayed, overrun>>

\* m_fnDatagramSender; a socket error ends the round like an overrun.
SendDatagram ==
    /\ wpc = "send"
    /\ \/ /\ wire' = wire \union {<<interval, datagram>>}
          /\ sentAfterStop' = sentAfterStop + (IF stopRequested THEN 1 ELSE 0)
          /\ wpc' = "measure" /\ UNCHANGED overrun
       \/ /\ overrun' = TRUE /\ wpc' = "afterSends"
          /\ UNCHANGED <<wire, sentAfterStop>>
    /\ UNCHANGED <<now, sharedVars, controlVars, interval, datagram, segmentStart,
                   segmentFirst, waitTs, resumeLocal, delayed, round, commands,
                   dropped, results, acceptedPause, promisedPause>>

\* The deadline test after the send; only a datagram that met it is counted.
MeasureSend ==
    /\ wpc = "measure"
    /\ IF now >= IntervalEnd + DelayOfDatagram
       THEN /\ overrun' = TRUE /\ wpc' = "afterSends"
            /\ UNCHANGED <<datagram, sentDataCount>>
       ELSE /\ wpc' = "waitSend" /\ datagram' = datagram + 1
            /\ sentDataCount' = sentDataCount + (IF IsData(interval) THEN 1 ELSE 0)
            /\ UNCHANGED overrun
    /\ UNCHANGED <<now, configured, running, paused, stopRequested, fault, startTs,
                   currentInterval, pauseAfter, pauseTs, resumeAt, resumeTs,
                   controlVars, historyVars, interval, segmentStart, segmentFirst,
                   waitTs, resumeLocal, delayed>>

AfterSends ==
    /\ wpc = "afterSends"
    /\ wpc' = IF overrun \/ stopRequested THEN "decide" ELSE "pauseCheck"
    /\ UNCHANGED <<now, sharedVars, controlVars, historyVars, interval, datagram,
                   segmentStart, segmentFirst, waitTs, resumeLocal, delayed, overrun>>

\* Mutant: the boundary is found one interval late.
PauseReachedLate == pauseAfter # NoInterval /\ interval > pauseAfter

\* The critical section in which the worker looks for its pause boundary.  The
\* lock is free again before the next interval is entered.
PauseReached == interval = pauseAfter

CheckPause ==
    /\ wpc = "pauseCheck"
    /\ IF PauseReached
       THEN wpc' = "waitPause" /\ waitTs' = pauseTs /\ UNCHANGED interval
       ELSE wpc' = "loop" /\ interval' = interval + 1 /\ UNCHANGED waitTs
    /\ UNCHANGED <<now, sharedVars, controlVars, historyVars, datagram,
                   segmentStart, segmentFirst, resumeLocal, delayed, overrun>>

AwaitPauseBoundary ==
    /\ wpc = "waitPause" /\ WakesAt(waitTs)
    /\ wpc' = IF stopRequested THEN "decide" ELSE "enterPause"
    /\ UNCHANGED <<now, sharedVars, controlVars, historyVars, interval, datagram,
                   segmentStart, segmentFirst, waitTs, resumeLocal, delayed, overrun>>

\* Mutant: the new segment is labelled with the interval that was paused.
EndPauseAtBoundary ==
    IF stopRequested
    THEN wpc' = "decide" /\ paused' = TRUE /\ UNCHANGED <<resumeLocal, waitTs>>
    ELSE /\ wpc' = "waitResume" /\ paused' = FALSE
         /\ resumeLocal' = pauseAfter /\ waitTs' = resumeTs

\* What the worker does once the wait for a resume command is over.
EndPause ==
    IF stopRequested
    THEN wpc' = "decide" /\ paused' = TRUE /\ UNCHANGED <<resumeLocal, waitTs>>
    ELSE /\ wpc' = "waitResume" /\ paused' = FALSE
         /\ resumeLocal' = resumeAt /\ waitTs' = resumeTs

\* Mutant: the predicate of the wait forgets the stop flag.
MayLeavePauseResumedOnly == resumeAt # NoInterval

MayLeavePause == stopRequested \/ resumeAt # NoInterval

\* A resume command that is already there is taken without giving up the lock.
EnterPause ==
    /\ wpc = "enterPause"
    /\ IF MayLeavePause
       THEN EndPause
       ELSE wpc' = "paused" /\ paused' = TRUE /\ UNCHANGED <<resumeLocal, waitTs>>
    /\ UNCHANGED <<now, configured, running, stopRequested, fault, startTs,
                   currentInterval, sentDataCount, pauseAfter, pauseTs, resumeAt,
                   resumeTs, controlVars, historyVars, interval, datagram,
                   segmentStart, segmentFirst, delayed, overrun>>

LeavePause ==
    /\ wpc = "paused" /\ MayLeavePause
    /\ EndPause
    /\ UNCHANGED <<now, configured, running, stopRequested, fault, startTs,
                   currentInterval, sentDataCount, pauseAfter, pauseTs, resumeAt,
                   resumeTs, controlVars, historyVars, interval, datagram,
                   segmentStart, segmentFirst, delayed, overrun>>

\* The new segment starts when the worker wakes up; the command slots are reset
\* whatever they hold by now.
BeginSegment ==
    /\ wpc = "waitResume" /\ WakesAt(waitTs)
    /\ IF stopRequested
       THEN /\ wpc' = "decide"
            /\ UNCHANGED <<interval, segmentStart, segmentFirst, pauseAfter, resumeAt>>
       ELSE /\ wpc' = "loop" /\ interval' = interval + 1
            /\ segmentStart' = now /\ segmentFirst' = resumeLocal
            /\ pauseAfter' = NoInterval /\ resumeAt' = NoInterval
    /\ UNCHANGED <<now, configured, running, paused, stopRequested, fault, startTs,
                   currentInterval, sentDataCount, pauseTs, resumeTs, controlVars,
                   historyVars, datagram, waitTs, resumeLocal, delayed, overrun>>

\* After the loop: an overrun is reported even when a stop was requested.
Decide ==
    /\ wpc = "decide"
    /\ wpc' = IF overrun \/ ~stopRequested THEN "emit" ELSE "finish"
    /\ UNCHANGED <<now, sharedVars, controlVars, historyVars, interval, datagram,
                   segmentStart, segmentFirst, waitTs, resumeLocal, delayed, overrun>>

\* emitResult on the worker thread, outside the lock.
EmitResult ==
    /\ wpc = "emit"
    /\ results' = Append(results, IF overrun THEN "InvalidSchedulingOverrun"
                                             ELSE "Completed")
    /\ wpc' = "finish"
    /\ UNCHANGED <<now, sharedVars, controlVars, interval, datagram, segmentStart,
                   segmentFirst, waitTs, resumeLocal, delayed, overrun, round,
                   commands, wire, dropped, acceptedPause, promisedPause,
                   sentAfterStop>>

\* finishWithoutDuplicateResult; then run() returns and its locals are gone.
Finish ==
    /\ wpc = "finish" /\ wpc' = "none"
    /\ running' = FALSE /\ paused' = FALSE
    /\ interval' = 1 /\ datagram' = 1 /\ segmentStart' = 0 /\ segmentFirst' = 1
    /\ waitTs' = 0 /\ resumeLocal' = NoInterval /\ delayed' = FALSE
    /\ overrun' = FALSE
    /\ UNCHANGED <<now, configured, stopRequested, fault, startTs, currentInterval,
                   sentDataCount, pauseAfter, pauseTs, resumeAt, resumeTs,
                   controlVars, historyVars>>

Worker ==
    \/ BeginRound \/ EnterInterval \/ AwaitInterval \/ LeaveSendLoop
    \/ DecideToSend \/ DropDatagram \/ AwaitFaultDelay \/ SendDatagram
    \/ MeasureSend \/ AfterSends \/ CheckPause \/ AwaitPauseBoundary
    \/ EnterPause \/ LeavePause \/ BeginSegment \/ Decide \/ EmitResult \/ Finish

-----------------------------------------------------------------------------
(* The control thread.  configure, resetConfiguration, start and stop all  *)
(* begin with stop(): request, join, and only then their own work.         *)

BeginCall(op, ts) ==
    /\ cpc = "idle" /\ (op = "start" => round < MaxRounds)
    /\ cpc' = "stop" /\ call' = op /\ callTs' = ts
    /\ UNCHANGED <<now, sharedVars, workerVars, historyVars, wasRunning>>

ReturnFromCall == cpc' = "idle" /\ call' = "none" /\ callTs' = 0 /\ wasRunning' = FALSE

RequestStop ==
    /\ cpc = "stop" /\ cpc' = "join"
    /\ wasRunning' = running
    /\ stopRequested' = TRUE
    /\ UNCHANGED <<now, configured, running, paused, fault, startTs, currentInterval,
                   sentDataCount, pauseAfter, pauseTs, resumeAt, resumeTs,
                   workerVars, historyVars, call, callTs>>

\* Mutants: the thread is detached instead of joined; every stop() reports.
WorkerGoneDetached == TRUE
ReportsStopAlways == call = "stop"

\* join() returns once the thread function has; the report and the final reset
\* of the flags follow with no other thread left to see the steps between.
WorkerGone == wpc = "none"

ReportsStop == call = "stop" /\ wasRunning

JoinWorker ==
    /\ cpc = "join" /\ WorkerGone
    /\ results' = IF ReportsStop THEN Append(results, "Stopped") ELSE results
    /\ running' = FALSE /\ paused' = FALSE
    /\ IF call = "stop" THEN ReturnFromCall
                        ELSE cpc' = "act" /\ UNCHANGED <<call, callTs, wasRunning>>
    /\ acceptedPause' = NoInterval /\ promisedPause' = NoInterval
    /\ UNCHANGED <<now, configured, stopRequested, fault, startTs, currentInterval,
                   sentDataCount, pauseAfter, pauseTs, resumeAt, resumeTs, workerVars,
                   round, commands, wire, dropped, sentAfterStop>>

\* configure after stop(false): the workload, the key chain or the schedule is
\* refused by an exception and the old configuration stays, or it is replaced.
InstallConfiguration ==
    /\ cpc = "act" /\ call = "configure" /\ ReturnFromCall
    /\ \/ TailKeysExist /\ configured' = TRUE
       \/ UNCHANGED configured
    /\ UNCHANGED <<now, running, paused, stopRequested, fault, startTs,
                   currentInterval, sentDataCount, pauseAfter, pauseTs, resumeAt,
                   resumeTs, workerVars, historyVars>>

ResetConfiguration ==
    /\ cpc = "act" /\ call = "reset" /\ ReturnFromCall
    /\ configured' = FALSE /\ fault' = FALSE
    /\ UNCHANGED <<now, running, paused, stopRequested, startTs, currentInterval,
                   sentDataCount, pauseAfter, pauseTs, resumeAt, resumeTs,
                   workerVars, historyVars>>

\* start after stop(false): throws, or resets the round and spawns the worker.
StartRefused ==
    /\ cpc = "act" /\ call = "start" /\ ReturnFromCall
    /\ ~configured \/ callTs <= now + StartLead
    /\ UNCHANGED <<now, sharedVars, workerVars, historyVars>>

StartRound ==
    /\ cpc = "act" /\ call = "start" /\ ReturnFromCall
    /\ configured /\ callTs > now + StartLead
    /\ startTs' = callTs
    /\ stopRequested' = FALSE /\ running' = TRUE /\ paused' = FALSE
    /\ pauseAfter' = NoInterval /\ resumeAt' = NoInterval
    /\ currentInterval' = 0 /\ sentDataCount' = 0
    /\ wpc' = "waitStart"
    /\ round' = round + 1 /\ commands' = 0 /\ sentAfterStop' = 0
    /\ wire' = {} /\ dropped' = {} /\ results' = <<>>
    /\ UNCHANGED <<now, configured, fault, pauseTs, resumeTs, interval, datagram,
                   segmentStart, segmentFirst, waitTs, resumeLocal, delayed, overrun,
                   acceptedPause, promisedPause>>

\* requestPause: one critical section; a refused request changes nothing.
PauseValid(i, ts) ==
    running /\ i # 0 /\ i >= currentInterval /\ i <= LastInterval /\ ts > now

RequestPause(i, ts) ==
    /\ cpc = "idle" /\ PauseValid(i, ts) /\ commands < MaxCommands
    /\ pauseAfter' = i /\ pauseTs' = ts
    /\ commands' = commands + 1
    /\ acceptedPause' = i
    /\ promisedPause' =
           IF i > currentInterval /\ pauseAfter = NoInterval THEN i ELSE NoInterval
    /\ UNCHANGED <<now, configured, running, paused, stopRequested, fault, startTs,
                   currentInterval, sentDataCount, resumeAt, resumeTs, workerVars,
                   controlVars, round, wire, dropped, results, sentAfterStop>>

\* resume: it needs a pause request, not a sender that has reached it.
ResumeValid(i, ts) ==
    /\ running /\ pauseAfter # NoInterval /\ i = pauseAfter + 1
    /\ ts > now + StartLead /\ ts > pauseTs

Resume(i, ts) ==
    /\ cpc = "idle" /\ ResumeValid(i, ts) /\ commands < MaxCommands
    /\ resumeAt' = i /\ resumeTs' = ts
    /\ commands' = commands + 1
    /\ acceptedPause' = NoInterval /\ promisedPause' = NoInterval
    /\ UNCHANGED <<now, configured, running, paused, stopRequested, fault, startTs,
                   currentInterval, sentDataCount, pauseAfter, pauseTs, workerVars,
                   controlVars, round, wire, dropped, results, sentAfterStop>>

\* configureFault and clearFault: both require that no round runs.
FaultValid(on) == ~running /\ (on => configured)

SetFault(on) ==
    /\ cpc = "idle" /\ FaultValid(on)
    /\ fault' = on
    /\ UNCHANGED <<now, configured, running, paused, stopRequested, startTs,
                   currentInterval, sentDataCount, pauseAfter, pauseTs, resumeAt,
                   resumeTs, workerVars, controlVars, historyVars>>

Control ==
    \/ RequestStop \/ JoinWorker \/ InstallConfiguration \/ ResetConfiguration
    \/ StartRefused \/ StartRound

Caller ==
    \/ \E op \in {"configure", "reset", "stop"} : BeginCall(op, 0)
    \/ \E ts \in CallTimes : BeginCall("start", ts)
    \/ \E i \in Intervals, ts \in CallTimes : RequestPause(i, ts)
    \/ \E i \in 2 .. LastInterval + 1, ts \in CallTimes : Resume(i, ts)
    \/ \E on \in BOOLEAN : SetFault(on)

Tick ==
    /\ now < MaxTime /\ now' = now + 1
    /\ UNCHANGED <<sharedVars, workerVars, controlVars, historyVars>>

Next == Worker \/ Control \/ Caller \/ Tick

Spec == Init /\ [][Next]_vars

\* The scheduler runs both threads and the clock goes on; nobody has to call.
FairSpec == Spec /\ WF_vars(Worker) /\ WF_vars(Control) /\ WF_vars(Tick)

-----------------------------------------------------------------------------
(* Properties.                                                             *)

Outcomes == {results[k] : k \in 1 .. Len(results)}

\* TESLA's condition on the sender: a data packet of interval i never leaves
\* once K_i, or a later key from which K_i follows by hashing, is on the wire
\* (run(): whatever is paused, resumed, delayed or dropped in between).
DataPrecedesKey ==
    [][\A x \in wire' \ wire : IsData(x[1]) =>
           \A y \in wire : KeyIn(y[1], y[2]) < x[1]]_vars

\* A round reported Completed has passed every datagram of every interval, the
\* tail that discloses the last key included, to the socket or to the fault
\* policy, and the packet count of its result is what really left.
CompletedRoundIsWhole ==
    "Completed" \in Outcomes =>
        /\ wire \union dropped = AllDatagrams
        /\ sentDataCount = Cardinality({x \in wire : IsData(x[1])})

\* The worker reports at most one outcome of its own, and a Stopped report of
\* stop() can only follow it: no result is issued for a round that goes on.
WorkerReportsOnce ==
    results \in {<<>>} \union {<<r>> : r \in Results}
                  \union {<<r, "Stopped">> : r \in Results \ {"Stopped"}}

\* Nothing is sent for a round whose result is out (until the next start).
SilentAfterResult == [][results # <<>> => wire' \subseteq wire]_vars

\* After stop() has raised its flag at most the datagram in hand still leaves:
\* the flag is tested before every datagram and in every wait.
StopIsPrompt == sentAfterStop <= 1

\* A pause that was asked for ahead of time (its interval not yet entered, no
\* other pause pending) is kept: nothing of a later interval leaves until a
\* resume is accepted or another pause replaces it.
PromisedPauseHonoured ==
    [][promisedPause # NoInterval =>
           \A x \in wire' \ wire : x[1] <= promisedPause]_vars

\* docs/stage6-text-authentication.md:13, "a pause takes effect after the given
\* logical interval": of every request that requestPause accepts.
PauseHonoured ==
    [][acceptedPause # NoInterval =>
           \A x \in wire' \ wire : x[1] <= acceptedPause]_vars

\* docs/stage6-text-authentication.md:13, "a resume continues from the next
\* logical interval": the new segment begins at the interval the worker enters.
ResumesAtNextInterval ==
    wpc = "waitResume" /\ wpc' = "loop" => segmentFirst' = interval'

ResumeAtNextInterval == [][ResumesAtNextInterval]_vars

\* The fault policy that the worker uses without the lock is never replaced
\* under it: configureFault and clearFault run only when no worker is alive.
FaultPolicyStable == [][(wpc \in WorkerSteps) => fault' = fault]_vars

\* Every call that joins the worker returns, wherever the worker is: waiting
\* for a time stamp, paused for ever, or about to report.
StopReturns == cpc = "join" ~> cpc # "join"

\* The time the worker waits for, 0 where it does not wait for the clock.
Deadline ==
    CASE wpc = "waitStart" -> startTs
      [] wpc = "waitInterval" -> IntervalStart
      [] wpc = "waitSend" /\ datagram <= DatagramCount(interval) -> SendTarget
      [] wpc = "delay" -> SendTarget + FaultDelay
      [] wpc \in {"waitPause", "waitResume"} -> waitTs
      [] OTHER -> 0

\* A round ends by itself, completed or overrun, unless an accepted pause holds
\* it, if only the clock of the model reaches the worker's deadlines.
RoundEnds ==
    running ~> \/ ~running
               \/ wpc = "paused" /\ pauseAfter # NoInterval
               \/ Deadline > MaxTime

\* The two together: what is asked of the worker is done in the end.
SenderServes == StopReturns /\ RoundEnds
=============================================================================
