---------------------------- MODULE RoundControl ----------------------------
(***************************************************************************)
(* One round from the manager's button to the wire.  The manager           *)
(* (ManagerAuthenticationController) computes the boundaries of start,     *)
(* pause and resume on its own timeline and broadcasts them over one TCP   *)
(* connection per node; the sending node drives AuthenticationSender-      *)
(* Runtime, a receiving node the timeline of its AuthenticationReceiver-   *)
(* Runtime (msgApplyRoundCommand).  Nothing else keeps the two in step.    *)
(* All clocks are equal here; ReceiverRuntime has their tolerance.         *)
(***************************************************************************)
EXTENDS SenderRuntime

CONSTANTS
    ManagerLead,  \* the 2000 ms the manager puts before a start or a resume
    MaxPauses     \* bound of the model: pauses the operator asks for

ASSUME ManagerParameters == ManagerLead \in Nat /\ MaxPauses \in Nat

R == INSTANCE ReceiverTimeline WITH Tolerance <- 0

VARIABLES
    roundRunning, roundPaused,      \* m_bRoundRunning, m_bRoundPaused
    timelineFirst, timelineStart,   \* the manager's current timeline segment
    managerPauseAfter, managerPauseTs,
    pauses,                         \* pauses asked for so far
    toSender, toReceiver,           \* commands in flight, in order
    rRunning, rTimeline, rPauseAfter, rPauseTs,  \* the receiving node
    refused                         \* commands a node has rejected

managerVars == <<roundRunning, roundPaused, timelineFirst, timelineStart,
                 managerPauseAfter, managerPauseTs, pauses>>
receiverVars == <<rRunning, rTimeline, rPauseAfter, rPauseTs>>
controlPlane == <<managerVars, toSender, toReceiver, receiverVars, refused>>
allVars == <<vars, controlPlane>>

Command == [op : {"start", "pause", "resume", "stop"}, ts : Nat, i : Nat]

ControlTypeOK ==
    /\ TypeOK
    /\ roundRunning \in BOOLEAN /\ roundPaused \in BOOLEAN
    /\ timelineFirst \in Intervals /\ timelineStart \in Nat
    /\ managerPauseAfter \in 0 .. LastInterval - 1 /\ managerPauseTs \in Nat
    /\ pauses \in 0 .. MaxPauses
    /\ toSender \in Seq(Command) /\ toReceiver \in Seq(Command)
    /\ rRunning \in BOOLEAN /\ rTimeline \in Seq(R!Segment)
    /\ rPauseAfter \in 0 .. LastInterval - 1 /\ rPauseTs \in Nat
    /\ refused \subseteq Command

ControlInit ==
    /\ Init
    /\ roundRunning = FALSE /\ roundPaused = FALSE
    /\ timelineFirst = 1 /\ timelineStart = 0
    /\ managerPauseAfter = NoInterval /\ managerPauseTs = 0 /\ pauses = 0
    /\ toSender = <<>> /\ toReceiver = <<>>
    /\ rRunning = FALSE /\ rTimeline = <<>>
    /\ rPauseAfter = NoInterval /\ rPauseTs = 0
    /\ refused = {}

-----------------------------------------------------------------------------
(* The manager.                                                            *)

\* bBroadcastRoundCommand, every connection being up.
Broadcast(op, ts, i) ==
    LET command == [op |-> op, ts |-> ts, i |-> i]
    IN  /\ toSender' = Append(toSender, command)
        /\ toReceiver' = Append(toReceiver, command)
        /\ UNCHANGED <<vars, receiverVars, refused>>

\* bStartRound, once every node has confirmed its configuration.
StartRoundAt ==
    /\ configured /\ cpc = "idle" /\ ~roundRunning /\ round = 0 /\ toSender = <<>>
    /\ timelineFirst' = 1 /\ timelineStart' = now + ManagerLead
    /\ managerPauseAfter' = NoInterval /\ managerPauseTs' = 0
    /\ roundRunning' = TRUE /\ roundPaused' = FALSE
    /\ Broadcast("start", timelineStart', 1)
    /\ UNCHANGED pauses

ManagerInterval ==
    timelineFirst +
        (IF now > timelineStart THEN (now - timelineStart) \div IntervalLength ELSE 0)

MayPauseAfter(after) == after < LastInterval

\* bPauseRound: the boundary is the end of the next interval but never the last.
PauseRound ==
    LET after == ManagerInterval + 1
        ts    == timelineStart + (after - timelineFirst + 1) * IntervalLength
    IN  /\ roundRunning /\ ~roundPaused /\ pauses < MaxPauses
        /\ MayPauseAfter(after)
        /\ Broadcast("pause", ts, after)
        /\ managerPauseAfter' = after /\ managerPauseTs' = ts
        /\ roundPaused' = TRUE /\ pauses' = pauses + 1
        /\ UNCHANGED <<roundRunning, timelineFirst, timelineStart>>

\* Mutant: the resume names the interval that was paused after.
NextIntervalSame == managerPauseAfter

NextInterval == managerPauseAfter + 1

\* bResumeRound: the round counts as running again as soon as the command is out.
ResumeRound ==
    LET ts == ManagerLead + (IF now > managerPauseTs THEN now ELSE managerPauseTs)
    IN  /\ roundRunning /\ roundPaused /\ managerPauseAfter # NoInterval
        /\ Broadcast("resume", ts, NextInterval)
        /\ timelineFirst' = managerPauseAfter + 1 /\ timelineStart' = ts
        /\ roundPaused' = FALSE
        /\ UNCHANGED <<roundRunning, managerPauseAfter, managerPauseTs, pauses>>

\* bStopRound.
StopRound ==
    /\ roundRunning
    /\ Broadcast("stop", 0, 0)
    /\ roundRunning' = FALSE /\ roundPaused' = FALSE
    /\ UNCHANGED <<timelineFirst, timelineStart, managerPauseAfter, managerPauseTs,
                   pauses>>

\* processNodeControlJson: a result of the sender and one of the receiver, which
\* has none to give when it refused the start.
AllResultsIn ==
    /\ roundRunning /\ results # <<>>
    /\ ~rRunning /\ rTimeline # <<>> /\ toReceiver = <<>>
    /\ roundRunning' = FALSE /\ roundPaused' = FALSE
    /\ UNCHANGED <<vars, timelineFirst, timelineStart, managerPauseAfter,
                   managerPauseTs, pauses, toSender, toReceiver, receiverVars, refused>>

Manager == StartRoundAt \/ PauseRound \/ ResumeRound \/ StopRound \/ AllResultsIn

-----------------------------------------------------------------------------
(* The sending node: one thread per connection, a command at a time.       *)

\* Before a round the manager has the node prepare its schedule.
PrepareSender ==
    /\ round = 0 /\ ~configured /\ BeginCall("configure", 0)
    /\ UNCHANGED controlPlane

Refuse(command) == refused' = refused \union {command} /\ UNCHANGED vars

\* msgApplyRoundCommand; a runtime that does not run is passed over in silence.
\* The handler's other calls change nothing here: the stop() after a refused
\* start finds a stopped runtime, the clearFault() after a stop no fault plan.
SenderCommand ==
    /\ cpc = "idle" /\ toSender # <<>>
    /\ LET c == Head(toSender) IN
       \/ /\ c.op \in {"start", "stop"} /\ BeginCall(c.op, c.ts)
          /\ UNCHANGED refused
       \/ /\ c.op = "pause" /\ RequestPause(c.i, c.ts) /\ UNCHANGED refused
       \/ /\ c.op = "resume" /\ Resume(c.i, c.ts) /\ UNCHANGED refused
       \/ /\ c.op = "pause" /\ running /\ ~PauseValid(c.i, c.ts) /\ Refuse(c)
       \/ /\ c.op = "resume" /\ running /\ ~ResumeValid(c.i, c.ts) /\ Refuse(c)
       \/ /\ c.op \in {"pause", "resume"} /\ ~running /\ UNCHANGED <<vars, refused>>
    /\ toSender' = Tail(toSender)
    /\ UNCHANGED <<managerVars, toReceiver, receiverVars>>

SenderStep == (Worker \/ Control) /\ UNCHANGED controlPlane

-----------------------------------------------------------------------------
(* The receiving node.                                                     *)

ReceiverStart(ts) ==
    /\ rRunning' = TRUE /\ rTimeline' = <<[first |-> 1, start |-> ts]>>
    /\ rPauseAfter' = NoInterval /\ rPauseTs' = 0

ReceiverStop == rRunning' = FALSE /\ UNCHANGED <<rTimeline, rPauseAfter, rPauseTs>>

ReceiverPauseValid(i, ts) == i # 0 /\ ts > now /\ i < LastInterval

ReceiverPause(i, ts) ==
    /\ ReceiverPauseValid(i, ts)
    /\ rPauseAfter' = i /\ rPauseTs' = ts /\ UNCHANGED <<rRunning, rTimeline>>

ReceiverResumeValid(i, ts) ==
    rPauseAfter # NoInterval /\ i = rPauseAfter + 1 /\ ts > rPauseTs /\ ts > now + StartLead

\* Mutant: the new segment is labelled with the interval that was paused.
ReceiverResumeAtBoundary(i, ts) ==
    /\ ReceiverResumeValid(i, ts)
    /\ rTimeline' = Append(rTimeline, [first |-> rPauseAfter, start |-> ts])
    /\ UNCHANGED <<rRunning, rPauseAfter, rPauseTs>>

ReceiverResume(i, ts) ==
    /\ ReceiverResumeValid(i, ts)
    /\ rTimeline' = Append(rTimeline, [first |-> i, start |-> ts])
    /\ UNCHANGED <<rRunning, rPauseAfter, rPauseTs>>

ReceiverCommand ==
    /\ toReceiver # <<>>
    /\ LET c == Head(toReceiver)
           startValid == c.ts > now + StartLead
       IN
       \/ c.op = "start" /\ startValid /\ ReceiverStart(c.ts) /\ UNCHANGED refused
       \/ /\ c.op = "start" /\ ~startValid /\ ReceiverStop
          /\ refused' = refused \union {c}
       \/ c.op = "stop" /\ ReceiverStop /\ UNCHANGED refused
       \/ c.op = "pause" /\ rRunning /\ ReceiverPause(c.i, c.ts) /\ UNCHANGED refused
       \/ c.op = "resume" /\ rRunning /\ ReceiverResume(c.i, c.ts) /\ UNCHANGED refused
       \/ /\ \/ c.op = "pause" /\ rRunning /\ ~ReceiverPauseValid(c.i, c.ts)
             \/ c.op = "resume" /\ rRunning /\ ~ReceiverResumeValid(c.i, c.ts)
          /\ refused' = refused \union {c} /\ UNCHANGED receiverVars
       \/ /\ c.op \in {"pause", "resume"} /\ ~rRunning
          /\ UNCHANGED <<receiverVars, refused>>
    /\ toReceiver' = Tail(toReceiver)
    /\ UNCHANGED <<vars, managerVars, toSender>>

\* The last key has come, or the deadline has passed.
ReceiverEnds ==
    /\ rRunning
    /\ \/ <<LastInterval, 1>> \in wire
       \/ LET deadline == R!RoundDeadline(rTimeline, rPauseAfter)
          IN  deadline # R!Unknown /\ now > deadline
    /\ ReceiverStop
    /\ UNCHANGED <<vars, managerVars, toSender, toReceiver, refused>>

ControlTick == Tick /\ UNCHANGED controlPlane

ControlNext ==
    \/ Manager \/ PrepareSender \/ SenderCommand \/ SenderStep
    \/ ReceiverCommand \/ ReceiverEnds \/ ControlTick

ControlSpec == ControlInit /\ [][ControlNext]_allVars

\* Commands arrive within a tick, and a call that is being made returns within one.
Prompt == now' # now => toSender = <<>> /\ toReceiver = <<>> /\ cpc = "idle"

PromptSpec == ControlInit /\ [][ControlNext /\ Prompt]_allVars

\* The operator asks for the next pause only when the sender has carried out the
\* last resume and started the new segment.
Unhurried == pauses' # pauses => toSender = <<>> /\ resumeAt = NoInterval

-----------------------------------------------------------------------------
(* Properties.                                                             *)

\* What every receiver takes for granted when it judges whether a packet is
\* safe: the sender never sends a datagram before the start of its interval on
\* the receiver's timeline, and nothing while that timeline is paused.
KeepsTimeline ==
    rRunning =>
        \A x \in wire' \ wire :
            LET start == R!IntervalStartAt(rTimeline, rPauseAfter, x[1])
            IN  start # R!Unknown /\ now >= start

SenderKeepsTimeline == [][KeepsTimeline]_allVars

\* However late the commands arrive: a receiver that has rejected none and has
\* none on the way judges packets by the very segment the manager has begun.
TimelinesAgree ==
    rRunning /\ toReceiver = <<>> /\ refused = {} =>
        rTimeline[Len(rTimeline)] = [first |-> timelineFirst, start |-> timelineStart]

\* The manager and the receivers go by one timeline at any delay.
ControlInvariant == ControlTypeOK /\ TimelinesAgree

\* No node rejects what the manager asks for: the boundaries the manager
\* computes are valid on the timelines the nodes have built.
CommandsFit == refused = {}
=============================================================================
