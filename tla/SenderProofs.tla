---------------------------- MODULE SenderProofs ----------------------------
(***************************************************************************)
(* What holds of AuthenticationSenderRuntime for every round: any number   *)
(* of packets, any interval length, disclosure delay, fault delay and any  *)
(* sequence of calls.  First its types; then its safety: no key leaves     *)
(* before the data it authenticates, a stop is prompt, no outcome is       *)
(* reported twice by the worker; last, that a sender that reports          *)
(* Completed has handled every datagram of the schedule, and that its      *)
(* packet count is the number of data packets that left.  Spec sets no     *)
(* fairness; everything here is safety.                                    *)
(***************************************************************************)
EXTENDS RoundControl, SequenceTheorems, FiniteSetTheorems, TLAPS

-----------------------------------------------------------------------------
(* The timetable, for every number of packets, interval size and disclosure *)
(* delay that the constructor accepts.                                      *)

\* DataIntervals is at least one: the round has a first interval to send.
LEMMA DataIntervalsType == DataIntervals \in Nat \ {0}
<1>1. (TotalPackets - 1) \div PacketsPerInterval \in Nat
  BY RoundParameters, SMT
<1> QED BY <1>1 DEF DataIntervals

LEMMA LastIntervalType ==
    LastInterval \in Nat \ {0} /\ DataIntervals < LastInterval
  BY DataIntervalsType, RoundParameters DEF LastInterval

\* The first packet of an interval has a positive number.
LEMMA FirstPacketPositive ==
    ASSUME NEW i \in Nat \ {0}
    PROVE  FirstPacket(i) \in Nat \ {0}
<1>1. \A a, b \in Nat : a * b \in Nat
  BY SMT
<1>2. (i - 1) * PacketsPerInterval \in Nat
  BY <1>1, RoundParameters
<1> QED BY <1>2 DEF FirstPacket

LEMMA LastPacketBounded ==
    ASSUME NEW i \in Nat \ {0}
    PROVE  LastPacket(i) \in Nat /\ LastPacket(i) <= TotalPackets
<1>1. \A a, b \in Nat : a * b \in Nat
  BY SMT
<1>2. i * PacketsPerInterval \in Nat
  BY <1>1, RoundParameters
<1> QED BY <1>2, RoundParameters DEF LastPacket

\* No interval carries more datagrams than the round has packets.
LEMMA DatagramCountBounded ==
    ASSUME NEW i \in Intervals
    PROVE  DatagramCount(i) \in Int /\ DatagramCount(i) <= TotalPackets
<1>1. i \in Nat \ {0}
  BY LastIntervalType DEF Intervals
<1> QED BY <1>1, FirstPacketPositive, LastPacketBounded, RoundParameters
        DEF DatagramCount

\* A datagram never discloses the key of its own interval or of a later one.
LEMMA KeyBeforeInterval ==
    ASSUME NEW i \in Nat \ {0}, NEW n \in Nat
    PROVE  KeyIn(i, n) \in Int /\ KeyIn(i, n) < i
  BY RoundParameters DEF KeyIn, NoKey

-----------------------------------------------------------------------------
(* Types.                                                                  *)

\* The steps between the head of run()'s loop and its end: interval is one of
\* the round's intervals there, whereas "loop" may find it exhausted.
InInterval == WorkerSteps \ {"waitStart", "loop", "decide", "emit", "finish"}

\* The datagram in hand is one of the interval's datagrams.
HasDatagram == {"delay", "send", "measure"}

LoopBounds ==
    /\ wpc \in InInterval => interval \in Intervals
    /\ wpc \in HasDatagram => datagram <= DatagramCount(interval)

TypeInv == TypeOK /\ LoopBounds

USE DEF sharedVars, workerVars, controlVars, historyVars, vars

LEMMA TypeInit == Init => TypeInv
<1> SUFFICES ASSUME Init PROVE TypeInv
  OBVIOUS
<1>1. FlagsOK
  BY Zenon DEF Init, FlagsOK
<1>2. LoopBounds
 <2>1. wpc = "none" /\ "none" \notin InInterval /\ "none" \notin HasDatagram
  BY DEF Init, InInterval, HasDatagram, WorkerSteps
 <2> QED  BY <2>1 DEF LoopBounds
<1> QED
  BY <1>1, <1>2, LastIntervalType
  DEF Init, TypeInv, TypeOK, WorkerSteps, NoInterval

\* Booleans are assigned nothing but Booleans.
LEMMA FlagsNext == FlagsOK /\ Next => FlagsOK'
<1> SUFFICES ASSUME FlagsOK, Next PROVE FlagsOK'
  OBVIOUS
<1> USE DEF FlagsOK
<1>1. CASE Worker
 <2>1. CASE BeginRound  BY <2>1, Zenon DEF BeginRound
 <2>2. CASE EnterInterval  BY <2>2, Zenon DEF EnterInterval, RoundOver
 <2>3. CASE AwaitInterval  BY <2>3, Zenon DEF AwaitInterval
 <2>4. CASE LeaveSendLoop  BY <2>4, Zenon DEF LeaveSendLoop
 <2>5. CASE DecideToSend  BY <2>5, Zenon DEF DecideToSend
 <2>6. CASE DropDatagram  BY <2>6, Zenon DEF DropDatagram
 <2>7. CASE AwaitFaultDelay  BY <2>7, Zenon DEF AwaitFaultDelay
 <2>8. CASE SendDatagram  BY <2>8, Zenon DEF SendDatagram
 <2>9. CASE MeasureSend  BY <2>9, Zenon DEF MeasureSend
 <2>10. CASE AfterSends  BY <2>10, Zenon DEF AfterSends
 <2>11. CASE CheckPause  BY <2>11, Zenon DEF CheckPause, PauseReached
 <2>12. CASE AwaitPauseBoundary  BY <2>12, Zenon DEF AwaitPauseBoundary
 <2>13. CASE EnterPause  BY <2>13, Zenon DEF EnterPause, MayLeavePause, EndPause
 <2>14. CASE LeavePause  BY <2>14, Zenon DEF LeavePause, MayLeavePause, EndPause
 <2>15. CASE BeginSegment  BY <2>15, Zenon DEF BeginSegment
 <2>16. CASE Decide  BY <2>16, Zenon DEF Decide
 <2>17. CASE EmitResult  BY <2>17, Zenon DEF EmitResult
 <2>18. CASE Finish  BY <2>18, Zenon DEF Finish
 <2> QED  BY <1>1, <2>1, <2>2, <2>3, <2>4, <2>5, <2>6, <2>7, <2>8, <2>9, <2>10, <2>11,
      <2>12, <2>13, <2>14, <2>15, <2>16, <2>17, <2>18 DEF Worker
<1>2. CASE Control
 <2>1. CASE RequestStop  BY <2>1, Zenon DEF RequestStop
 <2>2. CASE JoinWorker  BY <2>2, Zenon DEF JoinWorker, WorkerGone, ReportsStop, ReturnFromCall
 <2>3. CASE InstallConfiguration  BY <2>3, Zenon DEF InstallConfiguration, ReturnFromCall
 <2>4. CASE ResetConfiguration  BY <2>4, Zenon DEF ResetConfiguration, ReturnFromCall
 <2>5. CASE StartRefused  BY <2>5, Zenon DEF StartRefused, ReturnFromCall
 <2>6. CASE StartRound  BY <2>6, Zenon DEF StartRound, ReturnFromCall
 <2> QED  BY <1>2, <2>1, <2>2, <2>3, <2>4, <2>5, <2>6 DEF Control
<1>3. CASE Caller
 <2>1. ASSUME NEW op, NEW ts, BeginCall(op, ts) PROVE FlagsOK'  BY <2>1, Zenon DEF BeginCall
 <2>2. ASSUME NEW i, NEW ts, RequestPause(i, ts) PROVE FlagsOK'  BY <2>2, Zenon DEF RequestPause
 <2>3. ASSUME NEW i, NEW ts, Resume(i, ts) PROVE FlagsOK'  BY <2>3, Zenon DEF Resume
 <2>4. ASSUME NEW on \in BOOLEAN, SetFault(on) PROVE FlagsOK'
  BY <2>4, Zenon DEF SetFault, FaultValid
 <2> QED  BY <1>3, <2>1, <2>2, <2>3, <2>4, Zenon DEF Caller
<1>4. CASE Tick
  BY <1>4, Zenon DEF Tick
<1> QED
  BY <1>1, <1>2, <1>3, <1>4 DEF Next

\* A step of the worker keeps the types and stays inside the schedule.
LEMMA TypeWorker == TypeInv /\ Worker /\ FlagsOK' => TypeInv'
<1> SUFFICES ASSUME TypeInv, Worker, FlagsOK' PROVE TypeInv'
  OBVIOUS
<1> USE LastIntervalType, RoundParameters, SenderParameters
    DEF TypeInv, TypeOK, LoopBounds, InInterval, HasDatagram, WorkerSteps,
        NoInterval, Intervals
<1>1. CASE BeginRound
  BY <1>1 DEF BeginRound
<1>2. CASE EnterInterval
  BY <1>2 DEF EnterInterval, RoundOver
<1>3. CASE AwaitInterval
  BY <1>3 DEF AwaitInterval
<1>4. CASE LeaveSendLoop
  BY <1>4 DEF LeaveSendLoop
<1>5. CASE DecideToSend
  BY <1>5 DEF DecideToSend, DatagramDue
<1>6. CASE DropDatagram
  BY <1>6, DatagramCountBounded DEF DropDatagram, DatagramDue, AllDatagrams
<1>7. CASE AwaitFaultDelay
  BY <1>7 DEF AwaitFaultDelay
<1>8. CASE SendDatagram
  BY <1>8, DatagramCountBounded DEF SendDatagram, AllDatagrams
<1>9. CASE MeasureSend
  BY <1>9 DEF MeasureSend
<1>10. CASE AfterSends
  BY <1>10 DEF AfterSends
<1>11. CASE CheckPause
  BY <1>11 DEF CheckPause, PauseReached
<1>12. CASE AwaitPauseBoundary
  BY <1>12 DEF AwaitPauseBoundary
<1>13. CASE EnterPause
  BY <1>13 DEF EnterPause, MayLeavePause, EndPause
<1>14. CASE LeavePause
  BY <1>14 DEF LeavePause, MayLeavePause, EndPause
<1>15. CASE BeginSegment
  BY <1>15 DEF BeginSegment
<1>16. CASE Decide
  BY <1>16 DEF Decide
<1>17. CASE EmitResult
  BY <1>17 DEF EmitResult, Results
<1>18. CASE Finish
  BY <1>18 DEF Finish
<1> QED
  BY <1>1, <1>2, <1>3, <1>4, <1>5, <1>6, <1>7, <1>8, <1>9, <1>10, <1>11, <1>12,
     <1>13, <1>14, <1>15, <1>16, <1>17, <1>18 DEF Worker

\* So does every step of the control thread, of a caller and of the clock.
LEMMA TypeOthers == TypeInv /\ (Control \/ Caller \/ Tick) /\ FlagsOK' => TypeInv'
<1> SUFFICES ASSUME TypeInv, Control \/ Caller \/ Tick, FlagsOK' PROVE TypeInv'
  OBVIOUS
<1> USE LastIntervalType, RoundParameters, SenderParameters
    DEF TypeInv, TypeOK, LoopBounds, InInterval, HasDatagram, WorkerSteps,
        NoInterval, Intervals
<1>1. CASE RequestStop
  BY <1>1 DEF RequestStop
<1>2. CASE JoinWorker
  BY <1>2 DEF JoinWorker, WorkerGone, ReportsStop, ReturnFromCall, Results
<1>3. CASE InstallConfiguration
  BY <1>3 DEF InstallConfiguration, ReturnFromCall
<1>4. CASE ResetConfiguration
  BY <1>4 DEF ResetConfiguration, ReturnFromCall
<1>5. CASE StartRefused
  BY <1>5 DEF StartRefused, ReturnFromCall
<1>6. CASE StartRound
  BY <1>6 DEF StartRound, ReturnFromCall
<1>7. ASSUME NEW op \in {"configure", "reset", "stop", "start"}, NEW ts \in Nat,
             BeginCall(op, ts)
      PROVE  TypeInv'
  BY <1>7 DEF BeginCall
<1>8. ASSUME NEW i \in Intervals, NEW ts \in CallTimes, RequestPause(i, ts)
      PROVE  TypeInv'
  BY <1>8 DEF RequestPause
<1>9. ASSUME NEW i \in 2 .. LastInterval + 1, NEW ts \in CallTimes, Resume(i, ts)
      PROVE  TypeInv'
  BY <1>9 DEF Resume
<1>10. ASSUME NEW on \in BOOLEAN, SetFault(on) PROVE TypeInv'
  BY <1>10 DEF SetFault, FaultValid
<1>11. CASE Tick
  BY <1>11 DEF Tick
<1>12. CASE Control
  BY <1>1, <1>2, <1>3, <1>4, <1>5, <1>6, <1>12 DEF Control
<1>13. CASE Caller
  BY <1>7, <1>8, <1>9, <1>10, <1>13 DEF Caller
<1> QED
  BY <1>11, <1>12, <1>13

LEMMA TypeStutter == TypeInv /\ UNCHANGED vars => TypeInv'
<1> SUFFICES ASSUME TypeInv, UNCHANGED vars PROVE TypeInv'
  OBVIOUS
<1>1. FlagsOK'
  BY Zenon DEF FlagsOK, TypeInv, TypeOK
<1> QED
  BY <1>1 DEF TypeInv, TypeOK, LoopBounds

LEMMA TypeNext == TypeInv /\ [Next]_vars => TypeInv'
    BY FlagsNext, TypeWorker, TypeOthers, TypeStutter, Zenon DEF Next, TypeInv, TypeOK

\* The fields, the worker's locals and the control thread's place in a call
\* keep their types in every round.
THEOREM TypeCorrect == Spec => []TypeOK
<1>1. TypeInv => TypeOK
  BY DEF TypeInv
<1> QED
  BY <1>1, TypeInit, TypeNext, PTL DEF Spec

-----------------------------------------------------------------------------
(* Safety.                                                                 *)

USE DEF sharedVars, workerVars, controlVars, historyVars, vars

\* Everything on the wire belongs to an interval the worker has reached.
SentSoFar ==
    /\ wpc \in WorkerSteps => \A y \in wire : y[1] <= interval
    /\ wpc = "waitStart" => wire = {}

LEMMA SentTypes ==
    ASSUME TypeInv
    PROVE  /\ interval \in Nat \ {0}
           /\ \A y \in wire : y[1] \in Nat \ {0} /\ y[2] \in Nat
<1>1. interval \in Nat \ {0}
  BY LastIntervalType DEF TypeInv, TypeOK
<1>2. \A y \in AllDatagrams : y[1] \in Nat \ {0} /\ y[2] \in Nat
  BY RoundParameters, LastIntervalType DEF AllDatagrams, Intervals
<1> QED
  BY <1>1, <1>2 DEF TypeInv, TypeOK

LEMMA SentSoFarNext == TypeInv /\ TypeInv' /\ SentSoFar /\ [Next]_vars => SentSoFar'
<1> SUFFICES ASSUME TypeInv, TypeInv', SentSoFar, [Next]_vars PROVE SentSoFar'
  OBVIOUS
<1>0. interval \in Nat /\ \A y \in wire : y[1] \in Nat
  BY SentTypes
<1> USE <1>0 DEF SentSoFar, WorkerSteps
<1>1. CASE BeginRound
  BY <1>1 DEF BeginRound
<1>2. CASE EnterInterval \/ AwaitInterval \/ LeaveSendLoop \/ DecideToSend
  BY <1>2 DEF EnterInterval, RoundOver, AwaitInterval, LeaveSendLoop,
     DecideToSend, DatagramDue
<1>3. CASE DropDatagram \/ AwaitFaultDelay
  BY <1>3 DEF DropDatagram, AwaitFaultDelay, DatagramDue
<1>4. CASE SendDatagram
  BY <1>4 DEF SendDatagram
<1>5. CASE MeasureSend \/ AfterSends \/ CheckPause \/ AwaitPauseBoundary
  BY <1>5 DEF MeasureSend, AfterSends, CheckPause, PauseReached, AwaitPauseBoundary
<1>6. CASE EnterPause \/ LeavePause \/ BeginSegment \/ Decide
  BY <1>6 DEF EnterPause, LeavePause, MayLeavePause, EndPause, BeginSegment,
     Decide
<1>7. CASE EmitResult \/ Finish
  BY <1>7 DEF EmitResult, Finish
<1>8. CASE Control
  BY <1>8 DEF Control, RequestStop, JoinWorker, WorkerGone, ReportsStop,
     InstallConfiguration, ResetConfiguration, StartRefused, StartRound,
     ReturnFromCall
<1>9. CASE Caller
  BY <1>9 DEF Caller, BeginCall, RequestPause, Resume, SetFault, FaultValid
<1>10. CASE Tick \/ UNCHANGED vars
  BY <1>10 DEF Tick
<1> QED
  BY <1>1, <1>2, <1>3, <1>4, <1>5, <1>6, <1>7, <1>8, <1>9, <1>10 DEF Next, Worker

\* The wire grows in one place, by the datagram in hand.
LEMMA OnlySendFillsWire ==
    [Next]_vars =>
        \A x \in wire' \ wire : wpc = "send" /\ x = <<interval, datagram>>
    BY DEF Next, Worker, Control, Caller, Tick, BeginRound, EnterInterval,
       AwaitInterval, LeaveSendLoop, DecideToSend, DropDatagram, AwaitFaultDelay,
       SendDatagram, MeasureSend, AfterSends, CheckPause, AwaitPauseBoundary,
       EnterPause, LeavePause, BeginSegment, Decide, EmitResult, Finish, RequestStop,
       JoinWorker, InstallConfiguration, ResetConfiguration, StartRefused,
       StartRound, BeginCall, RequestPause, Resume, SetFault

LEMMA KeyStep == TypeInv /\ SentSoFar /\ [Next]_vars =>
    \A x \in wire' \ wire : IsData(x[1]) => \A y \in wire : KeyIn(y[1], y[2]) < x[1]
<1> SUFFICES ASSUME TypeInv, SentSoFar, [Next]_vars, NEW x \in wire' \ wire,
                    NEW y \in wire
             PROVE  KeyIn(y[1], y[2]) < x[1]
  OBVIOUS
<1>1. wpc = "send" /\ x = <<interval, datagram>>
  BY OnlySendFillsWire
<1>2. y[1] <= interval
  BY <1>1 DEF SentSoFar, WorkerSteps
<1>3. KeyIn(y[1], y[2]) \in Int /\ KeyIn(y[1], y[2]) < y[1]
  BY KeyBeforeInterval, SentTypes
<1> QED
  BY <1>1, <1>2, <1>3, SentTypes

LEMMA SentSoFarInit == Init => SentSoFar
    BY DEF Init, SentSoFar

\* TESLA's condition on the sender, whatever is paused, resumed, dropped,
\* delayed or sent late: data of an interval never follows its key.
THEOREM KeysFollowData == Spec => DataPrecedesKey
<1>1. TypeInv /\ [Next]_vars => TypeInv'
  BY TypeNext
<1>2. Spec => [](TypeInv /\ SentSoFar)
  BY TypeInit, <1>1, SentSoFarInit, SentSoFarNext, PTL DEF Spec
<1>3. TypeInv /\ SentSoFar /\ [Next]_vars =>
          [\A x \in wire' \ wire : IsData(x[1]) =>
               \A y \in wire : KeyIn(y[1], y[2]) < x[1]]_vars
  BY KeyStep
<1> QED
  BY <1>2, <1>3, PTL DEF Spec, DataPrecedesKey

-----------------------------------------------------------------------------
(* Stopping.                                                               *)

\* One datagram may be in the socket call when the flag is raised; the worker
\* is behind it then and cannot come back to a send without testing the flag.
StopInv ==
    sentAfterStop = 0 \/ (sentAfterStop = 1 /\ stopRequested /\ wpc # "send")

LEMMA StopInvNext == StopInv /\ [Next]_vars => StopInv'
<1> SUFFICES ASSUME StopInv, [Next]_vars PROVE StopInv'
  OBVIOUS
<1> USE DEF StopInv
<1>1. CASE BeginRound
  BY <1>1 DEF BeginRound
<1>2. CASE EnterInterval \/ AwaitInterval
  BY <1>2 DEF EnterInterval, RoundOver, AwaitInterval
<1>3. CASE LeaveSendLoop \/ DecideToSend \/ DropDatagram
  BY <1>3 DEF LeaveSendLoop, DecideToSend, DropDatagram, DatagramDue
<1>4. CASE AwaitFaultDelay \/ SendDatagram
  BY <1>4 DEF AwaitFaultDelay, SendDatagram
<1>5. CASE MeasureSend \/ AfterSends
  BY <1>5 DEF MeasureSend, AfterSends
<1>6. CASE CheckPause \/ AwaitPauseBoundary
  BY <1>6 DEF CheckPause, PauseReached, AwaitPauseBoundary
<1>7. CASE EnterPause \/ LeavePause
  BY <1>7 DEF EnterPause, LeavePause, MayLeavePause, EndPause
<1>8. CASE BeginSegment
  BY <1>8 DEF BeginSegment
<1>9. CASE Decide \/ EmitResult \/ Finish
  BY <1>9 DEF Decide, EmitResult, Finish
<1>10. CASE RequestStop \/ JoinWorker
  BY <1>10 DEF RequestStop, JoinWorker, WorkerGone, ReportsStop, ReturnFromCall
<1>11. CASE InstallConfiguration \/ ResetConfiguration
  BY <1>11 DEF InstallConfiguration, ResetConfiguration,
     ReturnFromCall
<1>12. CASE StartRefused \/ StartRound
  BY <1>12 DEF StartRefused, StartRound, ReturnFromCall
<1>13. CASE Caller
  BY <1>13 DEF Caller, BeginCall, RequestPause, PauseValid,
     Resume, ResumeValid, SetFault, FaultValid
<1>14. CASE Tick \/ UNCHANGED vars
  BY <1>14 DEF Tick
<1> QED
  BY <1>1, <1>2, <1>3, <1>4, <1>5, <1>6, <1>7,
     <1>8, <1>9, <1>10, <1>11, <1>12, <1>13, <1>14 DEF Next, Worker, Control

\* At most one datagram leaves after the stop flag is up.
THEOREM StopTakesEffect == Spec => []StopIsPrompt
<1>1. Init => StopInv
  BY DEF Init, StopInv
<1>2. StopInv => StopIsPrompt
  BY DEF StopInv, StopIsPrompt
<1> QED
  BY <1>1, <1>2, StopInvNext, PTL DEF Spec

-----------------------------------------------------------------------------
(* Reporting.                                                              *)

\* The worker reports before "finish" and never again; a Stopped report needs a
\* thread that was running when the call began, and leaves none.
ReportInv ==
    /\ wpc \in WorkerSteps \ {"finish"} => results = <<>>
    /\ \/ results = <<>>
       \/ \E r \in Results \ {"Stopped"} : results = <<r>>
       \/ /\ ~running /\ ~wasRunning
          /\ \/ results = <<"Stopped">>
             \/ \E r \in Results \ {"Stopped"} : results = <<r, "Stopped">>

LEMMA TwoResults == \A r \in Results : Append(<<r>>, "Stopped") = <<r, "Stopped">>
<1> SUFFICES ASSUME NEW r \in Results
             PROVE  Append(<<r>>, "Stopped") = <<r, "Stopped">>
  OBVIOUS
<1>1. "Stopped" \in Results
  BY DEF Results
<1>2. <<r>> \in Seq(Results) /\ Len(<<r>>) = 1 /\ <<r>>[1] = r
  OBVIOUS
<1>3. <<r, "Stopped">> \in Seq(Results) /\ Len(<<r, "Stopped">>) = 2
  BY <1>1
<1>4. /\ Append(<<r>>, "Stopped") \in Seq(Results)
      /\ Len(Append(<<r>>, "Stopped")) = 2
      /\ Append(<<r>>, "Stopped")[1] = r /\ Append(<<r>>, "Stopped")[2] = "Stopped"
  BY <1>1, <1>2, AppendProperties
<1>5. Len(Append(<<r>>, "Stopped")) = Len(<<r, "Stopped">>)
  BY <1>3, <1>4
<1>6. \A i \in 1 .. Len(Append(<<r>>, "Stopped")) :
          Append(<<r>>, "Stopped")[i] = <<r, "Stopped">>[i]
  BY <1>4
<1> QED
  BY <1>3, <1>4, <1>5, <1>6, SeqEqual, Zenon

LEMMA ReportInvNext == ReportInv /\ [Next]_vars => ReportInv'
<1> SUFFICES ASSUME ReportInv, [Next]_vars PROVE ReportInv'
  OBVIOUS
<1> USE DEF ReportInv, Results, WorkerSteps
<1>1. CASE BeginRound
  BY <1>1 DEF BeginRound
<1>2. CASE EnterInterval \/ AwaitInterval
  BY <1>2 DEF EnterInterval, RoundOver, AwaitInterval
<1>3. CASE LeaveSendLoop \/ DecideToSend \/ DropDatagram
  BY <1>3 DEF LeaveSendLoop, DecideToSend, DropDatagram, DatagramDue
<1>4. CASE AwaitFaultDelay \/ SendDatagram
  BY <1>4 DEF AwaitFaultDelay, SendDatagram
<1>5. CASE MeasureSend \/ AfterSends
  BY <1>5 DEF MeasureSend, AfterSends
<1>6. CASE CheckPause \/ AwaitPauseBoundary
  BY <1>6 DEF CheckPause, PauseReached, AwaitPauseBoundary
<1>7. CASE EnterPause \/ LeavePause
  BY <1>7 DEF EnterPause, LeavePause, MayLeavePause, EndPause
<1>8. CASE BeginSegment
  BY <1>8 DEF BeginSegment
<1>9. CASE Decide \/ EmitResult \/ Finish
  BY <1>9 DEF Decide, EmitResult, Finish
<1>10. CASE RequestStop \/ JoinWorker
 <2>1. CASE RequestStop  BY <2>1 DEF RequestStop
 <2>2. CASE JoinWorker
  <3>1. wpc' \notin WorkerSteps /\ ~running' /\ (call = "stop" => ~wasRunning')
  BY <2>2 DEF JoinWorker, WorkerGone, ReportsStop, ReturnFromCall
  <3>2. CASE call = "stop" /\ wasRunning
   <4>1. results' = Append(results, "Stopped")
   BY <2>2, <3>2 DEF JoinWorker, WorkerGone, ReportsStop
   <4>2. Append(<<>>, "Stopped") = <<"Stopped">>  OBVIOUS
   <4>3. \A r \in Results : Append(<<r>>, "Stopped") = <<r, "Stopped">>  BY TwoResults
   <4>4. results = <<>> \/ \E r \in Results \ {"Stopped"} : results = <<r>>  BY <3>2
   <4>5. results' = <<"Stopped">>
             \/ \E r \in Results \ {"Stopped"} : results' = <<r, "Stopped">>
   BY <4>1, <4>2, <4>3, <4>4
   <4> QED  BY <3>1, <3>2, <4>5
  <3>3. CASE ~(call = "stop" /\ wasRunning)
   <4>1. results' = results /\ (call # "stop" => wasRunning' = wasRunning)
   BY <2>2, <3>3 DEF JoinWorker, WorkerGone, ReportsStop, ReturnFromCall
   <4> QED  BY <3>1, <4>1
  <3> QED  BY <3>2, <3>3
 <2> QED  BY <1>10, <2>1, <2>2
<1>11. CASE InstallConfiguration \/ ResetConfiguration
  BY <1>11 DEF InstallConfiguration, ResetConfiguration,
     ReturnFromCall
<1>12. CASE StartRefused \/ StartRound
  BY <1>12 DEF StartRefused, StartRound, ReturnFromCall
<1>13. CASE Caller
  BY <1>13 DEF Caller, BeginCall, RequestPause, PauseValid,
     Resume, ResumeValid, SetFault, FaultValid
<1>14. CASE Tick \/ UNCHANGED vars
  BY <1>14 DEF Tick
<1> QED
  BY <1>1, <1>2, <1>3, <1>4, <1>5, <1>6, <1>7,
     <1>8, <1>9, <1>10, <1>11, <1>12, <1>13, <1>14 DEF Next, Worker, Control

\* The worker reports one outcome; what stop() adds can only come after it.
THEOREM OutcomeOnce == Spec => []WorkerReportsOnce
<1>1. Init => ReportInv
  BY DEF Init, ReportInv, WorkerSteps
<1>2. ReportInv => WorkerReportsOnce
  BY DEF ReportInv, WorkerReportsOnce, Results
<1> QED
  BY <1>1, <1>2, ReportInvNext, PTL DEF Spec

\* Nothing of a round leaves after its result.
THEOREM SilenceAfterResult == Spec => SilentAfterResult
<1>1. Init => ReportInv
  BY DEF Init, ReportInv, WorkerSteps
<1>2. ReportInv /\ [Next]_vars => [results # <<>> => wire' \subseteq wire]_vars
  BY OnlySendFillsWire DEF ReportInv, WorkerSteps
<1> QED
  BY <1>1, <1>2, ReportInvNext, PTL DEF Spec, SilentAfterResult

-----------------------------------------------------------------------------
(* Pausing.                                                                *)

\* The worker is between the check that found its pause and the new segment.
Pausing == {"waitPause", "enterPause", "paused", "waitResume"}

\* currentInterval follows interval with the delay in which a request for the
\* interval just left is still accepted.
Position ==
    /\ wpc = "none" => interval = 1 /\ ~running
    /\ wpc \in WorkerSteps => running
    /\ cpc = "act" => wpc = "none" /\ promisedPause = NoInterval
    /\ wpc = "waitStart" => interval = 1 /\ currentInterval = 0
    /\ wpc \in WorkerSteps => interval <= currentInterval + 1
    /\ wpc \in InInterval => interval = currentInterval

\* A pending resume needs a pending pause, and so does a pausing worker.
Slots ==
    /\ pauseAfter = NoInterval => resumeAt = NoInterval
    /\ wpc \in Pausing => pauseAfter # NoInterval

\* A promised pause is still in its slot and ahead of the worker, or here.
Promise ==
    wpc \in WorkerSteps /\ promisedPause # NoInterval =>
        /\ pauseAfter = promisedPause /\ resumeAt = NoInterval
        /\ interval <= promisedPause /\ wpc # "waitResume"

PauseInv == Position /\ Slots /\ Promise

LEMMA PauseInvNext == TypeInv /\ PauseInv /\ [Next]_vars => PauseInv'
<1> SUFFICES ASSUME TypeInv, PauseInv, [Next]_vars PROVE PauseInv'
  OBVIOUS
<1>0. /\ interval \in Nat \ {0} /\ currentInterval \in Nat /\ pauseAfter \in Nat
      /\ resumeAt \in Nat /\ promisedPause \in Nat
      /\ Intervals \subseteq Nat \ {0}
  BY LastIntervalType DEF TypeInv, TypeOK, Intervals
<1> USE <1>0 DEF PauseInv, Position, Slots, Promise, Pausing, WorkerSteps,
        NoInterval, InInterval
<1>1. CASE BeginRound
  BY <1>1 DEF BeginRound
<1>2. CASE EnterInterval \/ AwaitInterval
  BY <1>2 DEF EnterInterval, RoundOver, AwaitInterval
<1>3. CASE LeaveSendLoop \/ DecideToSend \/ DropDatagram
  BY <1>3 DEF LeaveSendLoop, DecideToSend, DropDatagram, DatagramDue
<1>4. CASE AwaitFaultDelay \/ SendDatagram
  BY <1>4 DEF AwaitFaultDelay, SendDatagram
<1>5. CASE MeasureSend \/ AfterSends
  BY <1>5 DEF MeasureSend, AfterSends
<1>6. CASE CheckPause \/ AwaitPauseBoundary
  BY <1>6 DEF CheckPause, PauseReached, AwaitPauseBoundary
<1>7. CASE EnterPause \/ LeavePause
  BY <1>7 DEF EnterPause, LeavePause, MayLeavePause, EndPause
<1>8. CASE BeginSegment
  BY <1>8 DEF BeginSegment
<1>9. CASE Decide \/ EmitResult \/ Finish
  BY <1>9 DEF Decide, EmitResult, Finish
<1>10. CASE RequestStop \/ JoinWorker
  BY <1>10 DEF RequestStop, JoinWorker, WorkerGone, ReportsStop, ReturnFromCall
<1>11. CASE InstallConfiguration \/ ResetConfiguration
  BY <1>11 DEF InstallConfiguration, ResetConfiguration,
     ReturnFromCall
<1>12. CASE StartRefused \/ StartRound
  BY <1>12 DEF StartRefused, StartRound, ReturnFromCall
<1>13. CASE Caller
  BY <1>13 DEF Caller, BeginCall, RequestPause, PauseValid,
     Resume, ResumeValid, SetFault, FaultValid
<1>14. CASE Tick \/ UNCHANGED vars
  BY <1>14 DEF Tick
<1> QED
  BY <1>1, <1>2, <1>3, <1>4, <1>5, <1>6, <1>7,
     <1>8, <1>9, <1>10, <1>11, <1>12, <1>13, <1>14 DEF Next, Worker, Control

LEMMA PauseInvInit == Init => PauseInv
<1>1. Init => /\ wpc = "none" /\ interval = 1 /\ ~running /\ cpc = "idle"
                /\ resumeAt = NoInterval
  BY DEF Init
<1>2. "none" \notin WorkerSteps /\ "none" \notin Pausing
  BY DEF Pausing, WorkerSteps
<1> QED
  BY <1>1, <1>2 DEF PauseInv, Position, Slots, Promise, InInterval

\* Until its resume, nothing of a later interval leaves a sender that accepted
\* a pause ahead of time.
THEOREM PauseKept == Spec => PromisedPauseHonoured
<1>1. PauseInv /\ [Next]_vars =>
          [promisedPause # NoInterval =>
               \A x \in wire' \ wire : x[1] <= promisedPause]_vars
  BY OnlySendFillsWire DEF PauseInv, Promise, WorkerSteps
<1>2. Spec => [](TypeInv /\ PauseInv)
  BY PauseInvInit, TypeInit, TypeNext, PauseInvNext, PTL DEF Spec
<1> QED
  BY <1>1, <1>2, PTL DEF Spec, PromisedPauseHonoured

\* The worker reads the fault policy without the lock; nobody replaces it then.
THEOREM FaultPolicyKept == Spec => FaultPolicyStable
<1>1. TypeInv /\ PauseInv /\ [Next]_vars =>
          [(wpc \in WorkerSteps) => fault' = fault]_vars
 <2> SUFFICES ASSUME TypeInv, PauseInv, Next, wpc \in WorkerSteps
              PROVE  fault' = fault
  OBVIOUS
 <2>1. running /\ cpc # "act"  BY DEF PauseInv, Position, WorkerSteps
 <2>2. CASE Worker
  BY <2>2 DEF Worker, BeginRound, EnterInterval, AwaitInterval, LeaveSendLoop,
    DecideToSend, DropDatagram, AwaitFaultDelay, SendDatagram, MeasureSend,
    AfterSends, CheckPause, AwaitPauseBoundary, EnterPause, LeavePause,
    BeginSegment, Decide, EmitResult, Finish
 <2>3. CASE Control
  BY <2>1, <2>3 DEF Control, RequestStop, JoinWorker, InstallConfiguration,
    ResetConfiguration, StartRefused, StartRound
 <2>4. CASE Caller  BY <2>1, <2>4 DEF Caller, BeginCall, RequestPause, Resume, SetFault, FaultValid
 <2>5. CASE Tick  BY <2>5 DEF Tick
 <2> QED  BY <2>2, <2>3, <2>4, <2>5 DEF Next
<1>2. Spec => [](TypeInv /\ PauseInv)
  BY PauseInvInit, TypeInit, TypeNext, PauseInvNext, PTL DEF Spec
<1> QED
  BY <1>1, <1>2, PTL DEF Spec, FaultPolicyStable

-----------------------------------------------------------------------------
(* Completion.                                                             *)

\* What has been passed to the socket or to the fault policy.
Handled == wire \union dropped

Before(i) == {x \in AllDatagrams : x[1] < i}

\* The first n datagrams of interval i.
Leading(i, n) == {x \in AllDatagrams : x[1] = i /\ x[2] <= n}

Whole(i) == {x \in AllDatagrams : x[1] = i}

\* How far the schedule has been handled at each place of the worker.
Progress ==
    /\ wpc \in InInterval \union {"loop"} => Before(interval) \subseteq Handled
    /\ wpc \in {"waitSend", "delay", "send"} =>
           Leading(interval, datagram - 1) \subseteq Handled
    /\ wpc = "measure" => Leading(interval, datagram) \subseteq Handled
    /\ wpc = "afterSends" => overrun \/ stopRequested \/ Whole(interval) \subseteq Handled
    /\ wpc \in {"pauseCheck"} \union Pausing => Whole(interval) \subseteq Handled
    /\ wpc = "decide" => overrun \/ stopRequested \/ AllDatagrams \subseteq Handled
    /\ wpc = "emit" => overrun \/ AllDatagrams \subseteq Handled

LEMMA ScheduleParts ==
    /\ Before(1) = {}
    /\ \A i \in Intervals : Leading(i, 0) = {}
    /\ \A i \in Nat : i > LastInterval => Before(i) = AllDatagrams
    /\ \A i \in Nat : Before(i + 1) = Before(i) \union Whole(i)
    /\ \A i \in Intervals, n \in Nat : n >= DatagramCount(i) =>
          Leading(i, n) = Whole(i)
    /\ \A i \in Intervals, n \in Nat \ {0} :
          Leading(i, n) \subseteq Leading(i, n - 1) \union {<<i, n>>}
<1>1. \A x \in AllDatagrams :
          /\ x[1] \in Nat \ {0} /\ x[1] <= LastInterval /\ x[2] \in Nat \ {0}
          /\ x[2] <= DatagramCount(x[1]) /\ x = <<x[1], x[2]>>
  BY LastIntervalType, RoundParameters DEF AllDatagrams, Intervals
<1>2. \A i \in Intervals : DatagramCount(i) \in Int
  BY DatagramCountBounded
<1>3. LastInterval \in Nat /\ Intervals \subseteq Nat
  BY LastIntervalType DEF Intervals
<1>4. Before(1) = {}
  BY <1>1 DEF Before
<1>5. ASSUME NEW i \in Intervals PROVE Leading(i, 0) = {}
  BY <1>1 DEF Leading
<1>6. ASSUME NEW i \in Nat, i > LastInterval PROVE Before(i) = AllDatagrams
  BY <1>1, <1>3, <1>6 DEF Before
<1>7. ASSUME NEW i \in Nat PROVE Before(i + 1) = Before(i) \union Whole(i)
  BY <1>1 DEF Before, Whole
<1>8. ASSUME NEW i \in Intervals, NEW n \in Nat, n >= DatagramCount(i)
      PROVE  Leading(i, n) = Whole(i)
  BY <1>1, <1>2, <1>8 DEF Leading, Whole
<1>9. ASSUME NEW i \in Intervals, NEW n \in Nat \ {0}
      PROVE  Leading(i, n) \subseteq Leading(i, n - 1) \union {<<i, n>>}
  BY <1>1 DEF Leading
<1> QED
  BY <1>4, <1>5, <1>6, <1>7, <1>8, <1>9

\* What has been handled stays handled while the worker lives.
LEMMA HandledGrows ==
    PauseInv /\ wpc \in WorkerSteps /\ [Next]_vars =>
        wire \subseteq wire' /\ dropped \subseteq dropped'
<1> SUFFICES ASSUME PauseInv, wpc \in WorkerSteps, [Next]_vars
             PROVE  wire \subseteq wire' /\ dropped \subseteq dropped'
  OBVIOUS
<1>1. cpc # "act"
  BY DEF PauseInv, Position, WorkerSteps
<1> QED
  BY <1>1 DEF Next, Worker, Control, Caller, Tick, BeginRound, EnterInterval,
     AwaitInterval, LeaveSendLoop, DecideToSend, DropDatagram, AwaitFaultDelay,
     SendDatagram, MeasureSend, AfterSends, CheckPause, AwaitPauseBoundary,
     EnterPause, LeavePause, BeginSegment, Decide, EmitResult, Finish,
     RequestStop, JoinWorker, InstallConfiguration, ResetConfiguration,
     StartRefused, StartRound, BeginCall, RequestPause, Resume, SetFault

LEMMA ProgressWorker == TypeInv /\ PauseInv /\ Progress /\ Worker => Progress'
<1> SUFFICES ASSUME TypeInv, PauseInv, Progress, Worker PROVE Progress'
  OBVIOUS
<1>0. /\ interval \in Nat \ {0} /\ datagram \in Nat \ {0} /\ LastInterval \in Nat
      /\ wpc \in InInterval => interval \in Intervals
      /\ \A i \in Intervals : DatagramCount(i) \in Int
  BY LastIntervalType, DatagramCountBounded DEF TypeInv, TypeOK, LoopBounds
<1>a. wpc \in WorkerSteps => Handled \subseteq Handled'
  BY HandledGrows DEF Handled, Next
<1>b. wpc \in {"waitSend", "send"} => Leading(interval, datagram) \subseteq
          Leading(interval, datagram - 1) \union {<<interval, datagram>>}
  BY <1>0, ScheduleParts DEF InInterval, WorkerSteps
<1> USE <1>0 DEF Progress, InInterval, WorkerSteps, Pausing
<1>1. CASE BeginRound
  BY <1>1, <1>a, ScheduleParts DEF BeginRound
<1>2. CASE EnterInterval
  BY <1>2, <1>a, ScheduleParts DEF EnterInterval, RoundOver
<1>3. CASE AwaitInterval
  BY <1>3, <1>a, ScheduleParts DEF AwaitInterval
<1>4. CASE LeaveSendLoop
  BY <1>4, <1>a, ScheduleParts DEF LeaveSendLoop
<1>5. CASE DecideToSend
  BY <1>5, <1>a, ScheduleParts DEF DecideToSend, DatagramDue
<1>6. CASE DropDatagram
 <2>1. /\ wpc = "waitSend" /\ wpc' = wpc /\ interval' = interval
       /\ datagram' = datagram + 1 /\ <<interval, datagram>> \in Handled'
  BY <1>6 DEF DropDatagram, DatagramDue, Handled
 <2>2. Leading(interval, datagram) \subseteq Handled'  BY <2>1, <1>a, <1>b
 <2> QED  BY <2>1, <2>2, <1>a
<1>7. CASE AwaitFaultDelay
  BY <1>7, <1>a, ScheduleParts DEF AwaitFaultDelay
<1>8. CASE SendDatagram
 <2>1. CASE wpc' = "measure"
  <3>1. /\ wpc = "send" /\ interval' = interval /\ datagram' = datagram
        /\ <<interval, datagram>> \in Handled'
  BY <1>8, <2>1 DEF SendDatagram, Handled
  <3>2. Leading(interval, datagram) \subseteq Handled'  BY <3>1, <1>a, <1>b
  <3> QED  BY <2>1, <3>1, <3>2, <1>a
 <2>2. CASE wpc' # "measure"  BY <1>8, <2>2, <1>a DEF SendDatagram
 <2> QED  BY <2>1, <2>2
<1>9. CASE MeasureSend
  BY <1>9, <1>a, ScheduleParts DEF MeasureSend
<1>10. CASE AfterSends
  BY <1>10, <1>a, ScheduleParts DEF AfterSends
<1>11. CASE CheckPause
  BY <1>11, <1>a, ScheduleParts DEF CheckPause, PauseReached
<1>12. CASE AwaitPauseBoundary
  BY <1>12, <1>a, ScheduleParts DEF AwaitPauseBoundary
<1>13. CASE EnterPause
  BY <1>13, <1>a, ScheduleParts DEF EnterPause, MayLeavePause, EndPause
<1>14. CASE LeavePause
  BY <1>14, <1>a, ScheduleParts DEF LeavePause, MayLeavePause, EndPause
<1>15. CASE BeginSegment
  BY <1>15, <1>a, ScheduleParts DEF BeginSegment
<1>16. CASE Decide
  BY <1>16, <1>a, ScheduleParts DEF Decide
<1>17. CASE EmitResult
  BY <1>17, <1>a, ScheduleParts DEF EmitResult
<1>18. CASE Finish
  BY <1>18, <1>a, ScheduleParts DEF Finish
<1> QED
  BY <1>1, <1>2, <1>3, <1>4, <1>5, <1>6, <1>7, <1>8, <1>9, <1>10, <1>11, <1>12,
     <1>13, <1>14, <1>15, <1>16, <1>17, <1>18 DEF Worker

LEMMA ProgressNext == TypeInv /\ PauseInv /\ Progress /\ [Next]_vars => Progress'
<1> SUFFICES ASSUME TypeInv, PauseInv, Progress, [Next]_vars PROVE Progress'
  OBVIOUS
<1> USE DEF Progress, Handled, Pausing, InInterval, WorkerSteps
<1>1. CASE Worker
  BY <1>1, ProgressWorker
<1>2. CASE Control
  BY <1>2 DEF Control, RequestStop, JoinWorker, InstallConfiguration,
     ResetConfiguration, StartRefused, StartRound, WorkerGone
<1>3. CASE Caller
  BY <1>3 DEF Caller, BeginCall, RequestPause, Resume, SetFault
<1>4. CASE Tick \/ UNCHANGED vars
  BY <1>4 DEF Tick
<1> QED
  BY <1>1, <1>2, <1>3, <1>4 DEF Next

-----------------------------------------------------------------------------
(* The packet count of the result.                                         *)

DataSent == {x \in wire : IsData(x[1])}

\* The datagram in hand has not been sent yet.
Fresh ==
    /\ wpc \in {"loop", "waitInterval"} => \A y \in wire : y[1] < interval
    /\ wpc \in {"waitSend", "delay", "send"} =>
           \A y \in wire : y[1] < interval \/ (y[1] = interval /\ y[2] < datagram)
    /\ wpc = "measure" =>
           \A y \in wire : y[1] < interval \/ (y[1] = interval /\ y[2] <= datagram)

\* Every data packet on the wire has been counted, but for the one just sent.
Counted ==
    /\ IsFiniteSet(wire)
    /\ wpc = "waitStart" => sentDataCount = 0
    /\ wpc \in WorkerSteps \ {"waitStart", "measure", "finish"} =>
           overrun \/ sentDataCount = Cardinality(DataSent)
    /\ wpc = "measure" =>
           overrun \/ sentDataCount + (IF IsData(interval) THEN 1 ELSE 0)
                         = Cardinality(DataSent)

LEMMA FreshNext == TypeInv /\ PauseInv /\ SentSoFar /\ Fresh /\ [Next]_vars => Fresh'
<1> SUFFICES ASSUME TypeInv, PauseInv, SentSoFar, Fresh, [Next]_vars PROVE Fresh'
  OBVIOUS
<1>0. /\ interval \in Nat \ {0} /\ datagram \in Nat \ {0}
      /\ \A y \in wire : y[1] \in Nat \ {0} /\ y[2] \in Nat
  BY SentTypes DEF TypeInv, TypeOK
<1> USE <1>0 DEF Fresh, SentSoFar, WorkerSteps
<1>1. CASE BeginRound
  BY <1>1 DEF BeginRound
<1>2. CASE EnterInterval \/ AwaitInterval
  BY <1>2 DEF EnterInterval, RoundOver, AwaitInterval
<1>3. CASE LeaveSendLoop \/ DecideToSend \/ DropDatagram
 <2>1. CASE LeaveSendLoop  BY <2>1 DEF LeaveSendLoop
 <2>2. CASE DecideToSend  BY <2>2 DEF DecideToSend, DatagramDue
 <2>3. CASE DropDatagram  BY <2>3 DEF DropDatagram, DatagramDue
 <2> QED  BY <1>3, <2>1, <2>2, <2>3
<1>4. CASE AwaitFaultDelay \/ SendDatagram
  BY <1>4 DEF AwaitFaultDelay, SendDatagram
<1>5. CASE MeasureSend \/ AfterSends
  BY <1>5 DEF MeasureSend, AfterSends
<1>6. CASE CheckPause \/ AwaitPauseBoundary
  BY <1>6 DEF CheckPause, PauseReached, AwaitPauseBoundary
<1>7. CASE EnterPause \/ LeavePause
  BY <1>7 DEF EnterPause, LeavePause, MayLeavePause, EndPause
<1>8. CASE BeginSegment
  BY <1>8 DEF BeginSegment
<1>9. CASE Decide \/ EmitResult \/ Finish
  BY <1>9 DEF Decide, EmitResult, Finish
<1>10. CASE RequestStop \/ JoinWorker
  BY <1>10 DEF RequestStop, JoinWorker, WorkerGone, ReportsStop, ReturnFromCall
<1>11. CASE InstallConfiguration \/ ResetConfiguration
  BY <1>11 DEF InstallConfiguration, ResetConfiguration,
     ReturnFromCall
<1>12. CASE StartRefused \/ StartRound
  BY <1>12 DEF StartRefused, StartRound, ReturnFromCall
<1>13. CASE Caller
  BY <1>13 DEF Caller, BeginCall, RequestPause, PauseValid,
     Resume, ResumeValid, SetFault, FaultValid
<1>14. CASE Tick \/ UNCHANGED vars
  BY <1>14 DEF Tick
<1> QED
  BY <1>1, <1>2, <1>3, <1>4, <1>5, <1>6, <1>7,
     <1>8, <1>9, <1>10, <1>11, <1>12, <1>13, <1>14 DEF Next, Worker, Control

\* Sending a datagram that is not on the wire yet counts it exactly once.
LEMMA SendCounted == TypeInv /\ Fresh /\ Counted /\ SendDatagram => Counted'
<1> SUFFICES ASSUME TypeInv, Fresh, Counted, SendDatagram PROVE Counted'
  OBVIOUS
<1> DEFINE x == <<interval, datagram>>
<1>1. CASE wpc' = "afterSends"
 <2>1. wire' = wire /\ overrun'  BY <1>1 DEF SendDatagram
 <2> QED  BY <1>1, <2>1 DEF Counted, WorkerSteps
<1>2. CASE wpc' # "afterSends"
 <2>1. wire' = wire \union {x} /\ wpc = "send" /\ wpc' = "measure"
       /\ UNCHANGED <<interval, overrun, sentDataCount>>
  BY <1>2 DEF SendDatagram
 <2>2. IsFiniteSet(wire) /\ (overrun \/ sentDataCount = Cardinality(DataSent))
  BY <2>1 DEF Counted, WorkerSteps
 <2>3. IsFiniteSet(wire')
  <3>1. IsFiniteSet(wire \union {x})  BY <2>2, FS_AddElement
  <3> QED  BY <2>1, <3>1
 <2>4. IsFiniteSet(DataSent) /\ x \notin wire
  <3>1. DataSent \in SUBSET wire  BY DEF DataSent
  <3>2. interval \in Nat /\ datagram \in Nat  BY DEF TypeInv, TypeOK
  <3>3. x \notin wire  BY <2>1, <3>2 DEF Fresh
  <3> QED  BY <2>2, <3>1, <3>3, FS_Subset
 <2>5. CASE IsData(interval)
  <3>1. DataSent' = DataSent \union {x}  BY <2>1, <2>5 DEF DataSent, IsData
  <3>2. Cardinality(DataSent') = Cardinality(DataSent) + 1
  BY <2>4, <3>1, FS_AddElement DEF DataSent
  <3> QED  BY <2>1, <2>2, <2>3, <2>5, <3>2 DEF Counted, WorkerSteps, IsData
 <2>6. CASE ~IsData(interval)
  <3>1. DataSent' = DataSent  BY <2>1, <2>6 DEF DataSent, IsData
  <3>2. sentDataCount + 0 = sentDataCount  BY DEF TypeInv, TypeOK
  <3> QED  BY <2>1, <2>2, <2>3, <2>6, <3>1, <3>2 DEF Counted, WorkerSteps, IsData
 <2> QED  BY <2>5, <2>6
<1> QED
  BY <1>1, <1>2 DEF SendDatagram

LEMMA CountedNext ==
    TypeInv /\ PauseInv /\ SentSoFar /\ Fresh /\ Counted /\ [Next]_vars => Counted'
<1> SUFFICES ASSUME TypeInv, PauseInv, SentSoFar, Fresh, Counted, [Next]_vars
             PROVE  Counted'
  OBVIOUS
<1>0. sentDataCount \in Nat
  BY DEF TypeInv, TypeOK
<1>a. Cardinality({}) = 0 /\ IsFiniteSet({})
  BY FS_EmptySet
<1> USE <1>0 DEF Counted, DataSent, WorkerSteps, IsData
<1>1. CASE BeginRound
  BY <1>1, <1>a DEF BeginRound, SentSoFar
<1>2. CASE EnterInterval \/ AwaitInterval
  BY <1>2 DEF EnterInterval, RoundOver, AwaitInterval
<1>3. CASE LeaveSendLoop \/ DecideToSend \/ DropDatagram
  BY <1>3 DEF LeaveSendLoop, DecideToSend, DropDatagram, DatagramDue
<1>4. CASE AwaitFaultDelay \/ SendDatagram
 <2>1. CASE AwaitFaultDelay  BY <2>1 DEF AwaitFaultDelay
 <2> QED  BY <1>4, <2>1, SendCounted
<1>5. CASE MeasureSend \/ AfterSends
  BY <1>5 DEF MeasureSend, AfterSends
<1>6. CASE CheckPause \/ AwaitPauseBoundary
  BY <1>6 DEF CheckPause, PauseReached, AwaitPauseBoundary
<1>7. CASE EnterPause \/ LeavePause
  BY <1>7 DEF EnterPause, LeavePause, MayLeavePause, EndPause
<1>8. CASE BeginSegment
  BY <1>8 DEF BeginSegment
<1>9. CASE Decide \/ EmitResult \/ Finish
  BY <1>9 DEF Decide, EmitResult, Finish
<1>10. CASE RequestStop \/ JoinWorker
  BY <1>10 DEF RequestStop, JoinWorker, WorkerGone, ReportsStop, ReturnFromCall
<1>11. CASE InstallConfiguration \/ ResetConfiguration
  BY <1>11 DEF InstallConfiguration, ResetConfiguration,
     ReturnFromCall
<1>12. CASE StartRefused \/ StartRound
  BY <1>12, <1>a DEF StartRefused, StartRound, ReturnFromCall
<1>13. CASE Caller
  BY <1>13 DEF Caller, BeginCall, RequestPause, PauseValid,
     Resume, ResumeValid, SetFault, FaultValid
<1>14. CASE Tick \/ UNCHANGED vars
  BY <1>14 DEF Tick
<1> QED
  BY <1>1, <1>2, <1>3, <1>4, <1>5, <1>6, <1>7,
     <1>8, <1>9, <1>10, <1>11, <1>12, <1>13, <1>14 DEF Next, Worker, Control

-----------------------------------------------------------------------------

\* What a Completed result stands for, until the next round.
Complete == AllDatagrams \subseteq Handled /\ sentDataCount = Cardinality(DataSent)

OutcomeInv == "Completed" \in Outcomes => Complete

WholeInv ==
    TypeInv /\ PauseInv /\ ReportInv /\ SentSoFar /\ Progress /\ Fresh /\ Counted

LEMMA NoOutcome == results = <<>> => Outcomes = {}
    BY DEF Outcomes

\* The worker reports Completed from "emit" only, with everything handled.
LEMMA EmitComplete == WholeInv /\ EmitResult => OutcomeInv'
<1> SUFFICES ASSUME WholeInv, EmitResult, "Completed" \in Outcomes'
             PROVE  Complete'
  BY DEF OutcomeInv
<1>1. results = <<>> /\ wpc = "emit"
  BY DEF WholeInv, ReportInv, WorkerSteps, EmitResult
<1>2. CASE overrun
 <2>1. results' = Append(<<>>, "InvalidSchedulingOverrun")  BY <1>1, <1>2 DEF EmitResult
 <2>2. Append(<<>>, "InvalidSchedulingOverrun") = <<"InvalidSchedulingOverrun">>  OBVIOUS
 <2>3. Outcomes' = {"InvalidSchedulingOverrun"}  BY <2>1, <2>2 DEF Outcomes
 <2> QED  BY <2>3
<1>3. CASE ~overrun
 <2>1. Complete  BY <1>1, <1>3 DEF WholeInv, Progress, Counted, Complete, WorkerSteps
 <2>2. UNCHANGED <<wire, dropped, sentDataCount>>  BY DEF EmitResult
 <2> QED  BY <2>1, <2>2 DEF Complete, Handled, DataSent
<1> QED
  BY <1>2, <1>3

\* A Stopped report after the join makes no round complete.
LEMMA JoinComplete == TypeInv /\ OutcomeInv /\ JoinWorker => OutcomeInv'
<1> SUFFICES ASSUME TypeInv, OutcomeInv, JoinWorker, "Completed" \in Outcomes'
             PROVE  Complete'
  BY DEF OutcomeInv
<1>1. results \in Seq(Results) /\ "Stopped" \in Results
  BY DEF TypeInv, TypeOK, Results
<1>2. PICK k \in 1 .. Len(results') : results'[k] = "Completed"
  BY DEF Outcomes
<1>3. results' = results \/ results' = Append(results, "Stopped")
  BY DEF JoinWorker
<1>4. \E n \in 1 .. Len(results) : results[n] = "Completed"
  BY <1>1, <1>2, <1>3, AppendProperties
<1>5. Complete
  BY <1>4 DEF OutcomeInv, Outcomes
<1>6. UNCHANGED <<wire, dropped, sentDataCount>>
  BY DEF JoinWorker
<1> QED
  BY <1>5, <1>6 DEF Complete, Handled, DataSent

LEMMA OutcomeNext == WholeInv /\ OutcomeInv /\ [Next]_vars => OutcomeInv'
<1> SUFFICES ASSUME WholeInv, OutcomeInv, [Next]_vars PROVE OutcomeInv'
  OBVIOUS
<1>1. CASE EmitResult
  BY <1>1, EmitComplete
<1>2. CASE JoinWorker
  BY <1>2, JoinComplete DEF WholeInv
<1>3. CASE StartRound
 <2>1. Outcomes' = {}  BY <1>3 DEF StartRound, Outcomes
 <2> QED  BY <2>1 DEF OutcomeInv
<1>4. CASE UNCHANGED <<results, wire, dropped, sentDataCount>>
  BY <1>4 DEF OutcomeInv, Outcomes, Complete, Handled, DataSent
<1>5. CASE Worker /\ ~EmitResult /\ ~Finish
 <2>1. results = <<>> /\ results' = results
  <3>1. wpc \in WorkerSteps \ {"finish"} /\ results' = results
  BY <1>5 DEF Worker, BeginRound, EnterInterval, AwaitInterval, LeaveSendLoop,
     DecideToSend, DropDatagram, DatagramDue, AwaitFaultDelay, SendDatagram,
     MeasureSend, AfterSends, CheckPause, AwaitPauseBoundary, EnterPause,
     LeavePause, BeginSegment, Decide, WorkerSteps
  <3> QED  BY <3>1 DEF WholeInv, ReportInv
 <2>2. Outcomes' = {}  BY <2>1 DEF Outcomes
 <2> QED  BY <2>2 DEF OutcomeInv
<1>6. CASE Finish \/ RequestStop \/ InstallConfiguration \/ ResetConfiguration
               \/ StartRefused \/ Caller \/ Tick
 <2>1. UNCHANGED <<results, wire, dropped, sentDataCount>>
  BY <1>6 DEF Finish, RequestStop, InstallConfiguration, ResetConfiguration,
    StartRefused, Caller, BeginCall, RequestPause, Resume, SetFault, Tick
 <2> QED  BY <1>4, <2>1
<1> QED
  BY <1>1, <1>2, <1>3, <1>4, <1>5, <1>6 DEF Next, Worker, Control

LEMMA WholeInit == Init => WholeInv /\ OutcomeInv
<1> SUFFICES ASSUME Init PROVE WholeInv /\ OutcomeInv
  OBVIOUS
<1>1. /\ wpc = "none" /\ wire = {} /\ results = <<>>
  BY DEF Init
<1>2. "none" \notin WorkerSteps
  BY DEF WorkerSteps
<1>3. SentSoFar /\ Fresh /\ Progress
  BY <1>1, <1>2 DEF SentSoFar, Fresh, Progress, InInterval, Pausing
<1>4. Counted
  BY <1>1, <1>2, FS_EmptySet DEF Counted
<1>5. ReportInv /\ OutcomeInv
  BY <1>1, <1>2 DEF ReportInv, OutcomeInv, Outcomes
<1> QED
  BY <1>3, <1>4, <1>5, TypeInit, PauseInvInit DEF WholeInv

LEMMA WholeNext == WholeInv /\ [Next]_vars => WholeInv'
    BY TypeNext, PauseInvNext, ReportInvNext, SentSoFarNext, ProgressNext, FreshNext,
       CountedNext DEF WholeInv

\* A round that ends Completed has passed every datagram of every interval to
\* the socket or to the fault policy, and its packet count is the truth.
THEOREM CompletedMeansWhole == Spec => []CompletedRoundIsWhole
<1>1. WholeInv /\ OutcomeInv => CompletedRoundIsWhole
 <2> SUFFICES ASSUME WholeInv, OutcomeInv, "Completed" \in Outcomes
              PROVE  /\ wire \union dropped = AllDatagrams
                     /\ sentDataCount = Cardinality({x \in wire : IsData(x[1])})
  BY DEF CompletedRoundIsWhole
 <2>1. wire \subseteq AllDatagrams /\ dropped \subseteq AllDatagrams
  BY DEF WholeInv, TypeInv, TypeOK
 <2> QED  BY <2>1 DEF OutcomeInv, Complete, Handled, DataSent
<1> QED
  BY <1>1, WholeInit, WholeNext, OutcomeNext, PTL DEF Spec

-----------------------------------------------------------------------------
(* The manager's commands, the sender and a receiver (RoundControl).       *)

\* The commands that set a timeline anew.
SetsTimeline(c) == c.op \in {"start", "resume"}

\* No command from place k of a queue on sets a timeline.
NoneSetsFrom(queue, k) == \A m \in k .. Len(queue) : ~SetsTimeline(queue[m])

CommandsFormed(queue) ==
    \A k \in 1 .. Len(queue) :
        /\ queue[k].op = "start" => queue[k].i = 1
        /\ queue[k].op = "stop" => queue[k].ts = 0

\* The last command on the way to the receiver that sets its timeline carries
\* the manager's segment; with none on the way the receiver has it already.
TimelineOnTheWay ==
    refused = {} =>
        /\ \A k \in 1 .. Len(toReceiver) :
               SetsTimeline(toReceiver[k]) /\ NoneSetsFrom(toReceiver, k + 1) =>
                   toReceiver[k].i = timelineFirst /\ toReceiver[k].ts = timelineStart
        /\ rRunning /\ NoneSetsFrom(toReceiver, 1) =>
               rTimeline[Len(rTimeline)] = [first |-> timelineFirst, start |-> timelineStart]

ControlInv ==
    /\ TypeInv
    /\ ControlTypeOK
    /\ CommandsFormed(toSender) /\ CommandsFormed(toReceiver)
    /\ rRunning => rTimeline # <<>>
    /\ TimelineOnTheWay

USE DEF managerVars, receiverVars, controlPlane, allVars

\* The receiver's timetable is the sender's.
LEMMA SegmentType == R!Segment = [first : 1 .. LastInterval + 1, start : Nat]
<1>1. R!LastInterval = LastInterval
  BY DEF R!LastInterval, R!DataIntervals, LastInterval, DataIntervals
<1> QED
  BY <1>1, Zenon DEF R!Segment

\* What the boundaries of the manager are made of.
LEMMA ManagerIntervalType ==
    ControlTypeOK => ManagerInterval \in Nat /\ ManagerInterval >= timelineFirst
<1> SUFFICES ASSUME ControlTypeOK
             PROVE  ManagerInterval \in Nat /\ ManagerInterval >= timelineFirst
  OBVIOUS
<1>1. now \in Nat /\ timelineStart \in Nat /\ timelineFirst \in Nat
  BY LastIntervalType DEF ControlTypeOK, TypeOK, Intervals
<1>2. IntervalLength \in Nat \ {0}
  BY SenderParameters
<1>3. now > timelineStart => (now - timelineStart) \div IntervalLength \in Nat
  BY <1>1, <1>2
<1> QED
  BY <1>1, <1>3 DEF ManagerInterval

\* A command on the way from the manager is one the sender's interface knows.
LEMMA HeadAndTail ==
    ASSUME NEW queue \in Seq(Command), queue # <<>>
    PROVE  /\ Head(queue) \in Command /\ Head(queue) = queue[1]
           /\ Tail(queue) \in Seq(Command) /\ Len(Tail(queue)) = Len(queue) - 1
           /\ \A k \in 1 .. Len(Tail(queue)) : Tail(queue)[k] = queue[k + 1]
    OBVIOUS

LEMMA TailFormed ==
    ASSUME NEW queue \in Seq(Command), queue # <<>>, CommandsFormed(queue)
    PROVE  CommandsFormed(Tail(queue))
<1> SUFFICES ASSUME NEW k \in 1 .. Len(Tail(queue))
             PROVE  /\ Tail(queue)[k].op = "start" => Tail(queue)[k].i = 1
                    /\ Tail(queue)[k].op = "stop" => Tail(queue)[k].ts = 0
  BY DEF CommandsFormed
<1>1. Tail(queue)[k] = queue[k + 1] /\ k + 1 \in 1 .. Len(queue)
  BY HeadAndTail
<1> QED
  BY <1>1 DEF CommandsFormed

LEMMA TailSets ==
    ASSUME NEW queue \in Seq(Command), queue # <<>>, NEW k \in Nat \ {0}
    PROVE  NoneSetsFrom(Tail(queue), k) = NoneSetsFrom(queue, k + 1)
<1>1. ASSUME NoneSetsFrom(Tail(queue), k), NEW m \in k + 1 .. Len(queue)
      PROVE  ~SetsTimeline(queue[m])
 <2>1. m - 1 \in k .. Len(Tail(queue)) /\ Tail(queue)[m - 1] = queue[m]  OBVIOUS
 <2> QED  BY <1>1, <2>1 DEF NoneSetsFrom
<1>2. ASSUME NoneSetsFrom(queue, k + 1), NEW m \in k .. Len(Tail(queue))
      PROVE  ~SetsTimeline(Tail(queue)[m])
 <2>1. m + 1 \in k + 1 .. Len(queue) /\ Tail(queue)[m] = queue[m + 1]  BY HeadAndTail
 <2> QED  BY <1>2, <2>1 DEF NoneSetsFrom
<1>3. NoneSetsFrom(Tail(queue), k) => NoneSetsFrom(queue, k + 1)
  BY <1>1 DEF NoneSetsFrom
<1>4. NoneSetsFrom(queue, k + 1) => NoneSetsFrom(Tail(queue), k)
  BY <1>2 DEF NoneSetsFrom
<1> QED
  BY <1>3, <1>4 DEF NoneSetsFrom

LEMMA AppendFormed ==
    ASSUME NEW queue \in Seq(Command), CommandsFormed(queue), NEW c \in Command,
           c.op = "start" => c.i = 1, c.op = "stop" => c.ts = 0
    PROVE  CommandsFormed(Append(queue, c))
<1> SUFFICES ASSUME NEW k \in 1 .. Len(Append(queue, c))
             PROVE  /\ Append(queue, c)[k].op = "start" => Append(queue, c)[k].i = 1
                    /\ Append(queue, c)[k].op = "stop" => Append(queue, c)[k].ts = 0
  BY DEF CommandsFormed
<1>1. CASE k = Len(queue) + 1
  BY <1>1
<1>2. CASE k # Len(queue) + 1
 <2>1. k \in 1 .. Len(queue) /\ Append(queue, c)[k] = queue[k]  BY <1>2
 <2> QED  BY <2>1 DEF CommandsFormed
<1> QED
  BY <1>1, <1>2

\* Behind a queue, a command that sets a timeline is the last that does; another
\* changes nothing of it.
LEMMA AppendSets ==
    ASSUME NEW queue \in Seq(Command), NEW c \in Command
    PROVE  /\ \A k \in 1 .. Len(queue) + 1 :
                  NoneSetsFrom(Append(queue, c), k) =
                      (NoneSetsFrom(queue, k) /\ ~SetsTimeline(c))
           /\ Len(Append(queue, c)) = Len(queue) + 1
           /\ Append(queue, c)[Len(queue) + 1] = c
           /\ \A k \in 1 .. Len(queue) : Append(queue, c)[k] = queue[k]
<1>1. /\ Len(Append(queue, c)) = Len(queue) + 1
      /\ Append(queue, c)[Len(queue) + 1] = c
      /\ \A k \in 1 .. Len(queue) : Append(queue, c)[k] = queue[k]
  OBVIOUS
<1> SUFFICES ASSUME NEW k \in 1 .. Len(queue) + 1
             PROVE  NoneSetsFrom(Append(queue, c), k) =
                        (NoneSetsFrom(queue, k) /\ ~SetsTimeline(c))
  BY <1>1
<1>2. NoneSetsFrom(Append(queue, c), k) => NoneSetsFrom(queue, k)
 <2> SUFFICES ASSUME NoneSetsFrom(Append(queue, c), k), NEW m \in k .. Len(queue)
              PROVE  ~SetsTimeline(queue[m])
  BY DEF NoneSetsFrom
 <2>1. m \in k .. Len(Append(queue, c)) /\ Append(queue, c)[m] = queue[m]  BY <1>1
 <2> QED  BY <2>1 DEF NoneSetsFrom
<1>3. NoneSetsFrom(Append(queue, c), k) => ~SetsTimeline(c)
 <2>1. Len(queue) + 1 \in k .. Len(Append(queue, c))  BY <1>1
 <2> QED  BY <1>1, <2>1 DEF NoneSetsFrom
<1>4. ASSUME NoneSetsFrom(queue, k), ~SetsTimeline(c)
      PROVE  NoneSetsFrom(Append(queue, c), k)
 <2> SUFFICES ASSUME NEW m \in k .. Len(Append(queue, c))
              PROVE  ~SetsTimeline(Append(queue, c)[m])
  BY DEF NoneSetsFrom
 <2>1. CASE m = Len(queue) + 1  BY <1>1, <1>4, <2>1
 <2>2. CASE m # Len(queue) + 1
  <3>1. m \in k .. Len(queue) /\ Append(queue, c)[m] = queue[m]  BY <1>1, <2>2
  <3> QED  BY <1>4, <3>1 DEF NoneSetsFrom
 <2> QED  BY <2>1, <2>2
<1> QED
  BY <1>2, <1>3, <1>4 DEF NoneSetsFrom

\* A broadcast keeps the two sides together if it carries the segment it begins.
LEMMA BroadcastFits ==
    ASSUME ControlInv,
           NEW op \in {"start", "pause", "resume", "stop"}, NEW ts \in Nat, NEW i \in Nat,
           Broadcast(op, ts, i),
           op = "start" => i = 1, op = "stop" => ts = 0,
           IF op \in {"start", "resume"} THEN timelineFirst' = i /\ timelineStart' = ts
           ELSE UNCHANGED <<timelineFirst, timelineStart>>
    PROVE  /\ TypeInv'
           /\ toSender' \in Seq(Command) /\ toReceiver' \in Seq(Command)
           /\ CommandsFormed(toSender') /\ CommandsFormed(toReceiver')
           /\ rRunning' => rTimeline' # <<>>
           /\ TimelineOnTheWay'
<1> DEFINE c == [op |-> op, ts |-> ts, i |-> i]
<1>1. c \in Command /\ c.op = op /\ c.ts = ts /\ c.i = i
  BY DEF Command
<1>2. toSender \in Seq(Command) /\ toReceiver \in Seq(Command)
  BY DEF ControlInv, ControlTypeOK
<1>3. /\ toSender' = Append(toSender, c) /\ toReceiver' = Append(toReceiver, c)
      /\ UNCHANGED vars /\ UNCHANGED receiverVars /\ UNCHANGED refused
  BY Zenon DEF Broadcast
<1>4. CommandsFormed(toSender') /\ CommandsFormed(toReceiver')
 <2>1. CommandsFormed(toSender) /\ CommandsFormed(toReceiver)  BY DEF ControlInv
 <2> HIDE DEF c
 <2> QED  BY <1>1, <1>2, <1>3, <2>1, AppendFormed
<1>5. toSender' \in Seq(Command) /\ toReceiver' \in Seq(Command)
  BY <1>1, <1>2, <1>3
<1>6. TypeInv'
  BY <1>3, TypeStutter, Zenon DEF ControlInv
<1>7. rRunning' => rTimeline' # <<>>
  BY <1>3, Zenon DEF ControlInv
<1>8. TimelineOnTheWay'
 <2> SUFFICES ASSUME refused' = {} PROVE TimelineOnTheWay'  BY Zenon DEF TimelineOnTheWay
 <2>1. refused = {}  BY <1>3, Zenon
 <2> DEFINE n == Len(toReceiver) + 1
 <2>2. /\ Len(toReceiver') = n /\ toReceiver'[n] = c /\ n \in Nat \ {0}
       /\ \A k \in 1 .. n - 1 : toReceiver'[k] = toReceiver[k]
  <3> HIDE DEF c
  <3> QED  BY <1>1, <1>2, <1>3
 <2>3. \A k \in 1 .. n : NoneSetsFrom(toReceiver', k) =
                              (NoneSetsFrom(toReceiver, k) /\ ~SetsTimeline(c))
  <3> HIDE DEF c
  <3> QED  BY <1>1, <1>2, <1>3, AppendSets
 <2> HIDE DEF c, n
 <2>4. CASE SetsTimeline(c)
  <3>1. timelineFirst' = c.i /\ timelineStart' = c.ts  BY <1>1, <2>4 DEF SetsTimeline
  <3>2. \A k \in 1 .. n : ~NoneSetsFrom(toReceiver', k)  BY <2>3, <2>4, Zenon
  <3>3. 1 \in 1 .. n /\ \A k \in 1 .. n : k # n => k + 1 \in 1 .. n  BY <2>2
  <3>4. ASSUME NEW k \in 1 .. Len(toReceiver'), NoneSetsFrom(toReceiver', k + 1)
        PROVE  toReceiver'[k].i = timelineFirst' /\ toReceiver'[k].ts = timelineStart'
   <4>1. k \in 1 .. n  BY <2>2, <3>4, Zenon
   <4>2. k = n  BY <3>2, <3>3, <3>4, <4>1, Zenon
   <4> QED  BY <2>2, <3>1, <4>2, Zenon
  <3>5. ~NoneSetsFrom(toReceiver', 1)  BY <3>2, <3>3, Zenon
  <3> QED  BY <3>4, <3>5, Zenon DEF TimelineOnTheWay
 <2>5. CASE ~SetsTimeline(c)
  <3>1. timelineFirst' = timelineFirst /\ timelineStart' = timelineStart
  BY <1>1, <2>5, Zenon DEF SetsTimeline
  <3>2. \A k \in 1 .. n : NoneSetsFrom(toReceiver', k) => NoneSetsFrom(toReceiver, k)
  BY <2>3, Zenon
  <3>3. /\ 1 \in 1 .. n
        /\ \A k \in 1 .. n : k # n => k \in 1 .. n - 1 /\ k + 1 \in 1 .. n
  BY <2>2
  <3>4. ASSUME NEW k \in 1 .. Len(toReceiver'), NoneSetsFrom(toReceiver', k + 1),
               SetsTimeline(toReceiver'[k])
        PROVE  toReceiver'[k].i = timelineFirst' /\ toReceiver'[k].ts = timelineStart'
   <4>1. k \in 1 .. n  BY <2>2, <3>4, Zenon
   <4>2. k # n  BY <2>2, <2>5, <3>4, Zenon
   <4>3. /\ k \in 1 .. n - 1 /\ toReceiver'[k] = toReceiver[k]
         /\ NoneSetsFrom(toReceiver, k + 1)
   BY <2>2, <3>2, <3>3, <3>4, <4>1, <4>2, Zenon
   <4>4. k \in 1 .. Len(toReceiver)  BY <4>3, <1>2 DEF n
   <4> QED  BY <2>1, <3>1, <3>4, <4>3, <4>4, Zenon DEF ControlInv, TimelineOnTheWay
  <3>5. ASSUME rRunning', NoneSetsFrom(toReceiver', 1)
        PROVE  rTimeline'[Len(rTimeline')] =
                   [first |-> timelineFirst', start |-> timelineStart']
   <4>1. rRunning /\ NoneSetsFrom(toReceiver, 1) /\ rTimeline' = rTimeline
   BY <1>3, <3>2, <3>3, <3>5, Zenon
   <4> QED  BY <2>1, <3>1, <4>1, Zenon DEF ControlInv, TimelineOnTheWay
  <3> QED  BY <3>4, <3>5, Zenon DEF TimelineOnTheWay
 <2> QED  BY <2>4, <2>5
<1> QED
  BY <1>4, <1>5, <1>6, <1>7, <1>8

\* Nothing else the manager, the sender or the clock does touches the commands
\* on the way to the receiver, its timeline or the manager's.
LEMMA ElsewhereFits ==
    ASSUME ControlInv, UNCHANGED <<toReceiver, receiverVars, timelineFirst, timelineStart>>,
           refused \subseteq refused'
    PROVE  /\ CommandsFormed(toReceiver') /\ TimelineOnTheWay'
           /\ rRunning' => rTimeline' # <<>>
<1>1. refused' = {} => refused = {}
  OBVIOUS
<1> QED
  BY <1>1, Zenon DEF ControlInv, TimelineOnTheWay

LEMMA ManagerStep == ControlInv /\ Manager => ControlInv'
<1> SUFFICES ASSUME ControlInv, Manager PROVE ControlInv'
  OBVIOUS
<1>1. ControlTypeOK /\ TypeInv
  BY DEF ControlInv
<1> USE LastIntervalType, ManagerParameters
<1>2. CASE StartRoundAt
 <2>1. now + ManagerLead \in Nat /\ 1 \in Intervals  BY <1>1 DEF ControlTypeOK, TypeOK, Intervals
 <2>2. Broadcast("start", timelineStart', 1) /\ timelineStart' \in Nat
  BY <1>2, <2>1 DEF StartRoundAt
 <2>3. timelineFirst' = 1  BY <1>2 DEF StartRoundAt
 <2>4. /\ TypeInv'
       /\ toSender' \in Seq(Command) /\ toReceiver' \in Seq(Command)
       /\ CommandsFormed(toSender') /\ CommandsFormed(toReceiver')
       /\ rRunning' => rTimeline' # <<>>
       /\ TimelineOnTheWay'
  BY <2>2, <2>3, BroadcastFits
 <2>5. roundRunning' \in BOOLEAN /\ roundPaused' \in BOOLEAN  BY <1>2, Zenon DEF StartRoundAt
 <2>6. rRunning' \in BOOLEAN  BY <1>1, <2>2, Zenon DEF Broadcast, ControlTypeOK
 <2>7. ControlTypeOK'
  BY <1>1, <1>2, <2>1, <2>2, <2>3, <2>4, <2>5, <2>6
  DEF StartRoundAt, Broadcast, ControlTypeOK, NoInterval, Intervals, TypeInv
 <2> QED  BY <2>4, <2>7 DEF ControlInv
<1>3. CASE PauseRound
 <2> DEFINE after == ManagerInterval + 1
            ts == timelineStart + (after - timelineFirst + 1) * IntervalLength
 <2>1. /\ Broadcast("pause", ts, after) /\ MayPauseAfter(after)
       /\ managerPauseAfter' = after /\ managerPauseTs' = ts
       /\ roundPaused' = TRUE /\ pauses' = pauses + 1 /\ pauses < MaxPauses
       /\ UNCHANGED <<roundRunning, timelineFirst, timelineStart>>
  BY <1>3, Zenon DEF PauseRound
 <2>2. after \in Nat /\ after < LastInterval  BY <1>1, <2>1, ManagerIntervalType DEF MayPauseAfter
 <2>3. ts \in Nat
  <3>1. after - timelineFirst + 1 \in Nat
  BY <1>1, ManagerIntervalType DEF ControlTypeOK, Intervals
  <3>2. IntervalLength \in Nat /\ timelineStart \in Nat
  BY <1>1, SenderParameters DEF ControlTypeOK
  <3>3. (after - timelineFirst + 1) * IntervalLength \in Nat
   <4> HIDE DEF after
   <4> QED  BY <3>1, <3>2
  <3> QED  BY <3>2, <3>3
 <2> HIDE DEF after, ts
 <2>4. /\ TypeInv'
       /\ toSender' \in Seq(Command) /\ toReceiver' \in Seq(Command)
       /\ CommandsFormed(toSender') /\ CommandsFormed(toReceiver')
       /\ rRunning' => rTimeline' # <<>>
       /\ TimelineOnTheWay'
  BY <2>1, <2>2, <2>3, BroadcastFits
 <2>5. roundRunning' \in BOOLEAN /\ roundPaused' \in BOOLEAN
  BY <1>1, <2>1, Zenon DEF ControlTypeOK
 <2>6. rRunning' \in BOOLEAN  BY <1>1, <2>1, Zenon DEF Broadcast, ControlTypeOK
 <2>7. ControlTypeOK'
  BY <1>1, <2>1, <2>2, <2>3, <2>4, <2>5, <2>6
  DEF Broadcast, ControlTypeOK, TypeInv
 <2> QED  BY <2>4, <2>7 DEF ControlInv
<1>4. CASE ResumeRound
 <2> DEFINE ts == ManagerLead + (IF now > managerPauseTs THEN now ELSE managerPauseTs)
 <2>1. /\ Broadcast("resume", ts, NextInterval) /\ managerPauseAfter # NoInterval
       /\ timelineFirst' = managerPauseAfter + 1 /\ timelineStart' = ts
       /\ roundPaused' = FALSE
       /\ UNCHANGED <<roundRunning, managerPauseAfter, managerPauseTs, pauses>>
  BY <1>4, Zenon DEF ResumeRound
 <2>2. /\ NextInterval \in Nat /\ NextInterval = managerPauseAfter + 1
       /\ NextInterval \in Intervals /\ ts \in Nat
  BY <1>1, <2>1
  DEF NextInterval, ControlTypeOK, TypeOK, NoInterval, Intervals
 <2> HIDE DEF ts
 <2>4. /\ TypeInv'
       /\ toSender' \in Seq(Command) /\ toReceiver' \in Seq(Command)
       /\ CommandsFormed(toSender') /\ CommandsFormed(toReceiver')
       /\ rRunning' => rTimeline' # <<>>
       /\ TimelineOnTheWay'
  BY <2>1, <2>2, BroadcastFits
 <2>5. roundRunning' \in BOOLEAN /\ roundPaused' \in BOOLEAN
  BY <1>1, <2>1, Zenon DEF ControlTypeOK
 <2>6. rRunning' \in BOOLEAN  BY <1>1, <2>1, Zenon DEF Broadcast, ControlTypeOK
 <2>7. ControlTypeOK'  BY <1>1, <2>1, <2>2, <2>4, <2>5, <2>6 DEF Broadcast, ControlTypeOK, TypeInv
 <2> QED  BY <2>4, <2>7 DEF ControlInv
<1>5. CASE StopRound
 <2>1. Broadcast("stop", 0, 0) /\ UNCHANGED <<timelineFirst, timelineStart>>
  BY <1>5, Zenon DEF StopRound
 <2>4. /\ TypeInv'
       /\ toSender' \in Seq(Command) /\ toReceiver' \in Seq(Command)
       /\ CommandsFormed(toSender') /\ CommandsFormed(toReceiver')
       /\ rRunning' => rTimeline' # <<>>
       /\ TimelineOnTheWay'
  BY <2>1, BroadcastFits
 <2>5. roundRunning' \in BOOLEAN /\ roundPaused' \in BOOLEAN  BY <1>5, Zenon DEF StopRound
 <2>6. rRunning' \in BOOLEAN  BY <1>1, <2>1, Zenon DEF Broadcast, ControlTypeOK
 <2>7. ControlTypeOK'
  BY <1>1, <1>5, <2>4, <2>5, <2>6 DEF StopRound, Broadcast, ControlTypeOK, TypeInv
 <2> QED  BY <2>4, <2>7 DEF ControlInv
<1>6. CASE AllResultsIn
 <2>1. /\ UNCHANGED <<vars, toSender, toReceiver, receiverVars, refused>>
       /\ UNCHANGED <<timelineFirst, timelineStart, managerPauseAfter, managerPauseTs,
                      pauses>>
       /\ roundRunning' \in BOOLEAN /\ roundPaused' \in BOOLEAN
  BY <1>6, Zenon DEF AllResultsIn
 <2>2. TypeInv'  BY <1>1, <2>1, TypeStutter, Zenon
 <2>3. /\ CommandsFormed(toReceiver') /\ TimelineOnTheWay'
       /\ rRunning' => rTimeline' # <<>>
  BY <2>1, ElsewhereFits
 <2>4. CommandsFormed(toSender')  BY <2>1, Zenon DEF ControlInv
 <2>5. rRunning' \in BOOLEAN  BY <1>1, <2>1, Zenon DEF ControlTypeOK
 <2>6. ControlTypeOK'  BY <1>1, <2>1, <2>2, <2>5 DEF ControlTypeOK, TypeInv
 <2> QED  BY <2>2, <2>3, <2>4, <2>6 DEF ControlInv
<1> QED
  BY <1>2, <1>3, <1>4, <1>5, <1>6 DEF Manager

\* The calls a command makes keep the sender's types: its time stamp is any.
LEMMA CallTypes ==
    ASSUME TypeInv, NEW op \in {"configure", "start", "stop"}, NEW ts \in Nat,
           BeginCall(op, ts)
    PROVE  TypeInv'
<1>1. FlagsOK'
  BY Zenon DEF BeginCall, TypeInv, TypeOK, FlagsOK
<1> QED
  BY <1>1 DEF BeginCall, TypeInv, TypeOK, LoopBounds

LEMMA PauseTypes ==
    ASSUME TypeInv, NEW i \in Nat, NEW ts \in Nat, RequestPause(i, ts)
    PROVE  TypeInv' /\ i \in Intervals
<1>1. FlagsOK'
  BY Zenon DEF RequestPause, TypeInv, TypeOK, FlagsOK
<1>2. i \in Intervals
  BY LastIntervalType DEF RequestPause, PauseValid, Intervals
<1> QED
  BY <1>1, <1>2, LastIntervalType
  DEF RequestPause, TypeInv, TypeOK, LoopBounds, Intervals, NoInterval

LEMMA ResumeTypes ==
    ASSUME TypeInv, NEW i \in Nat, NEW ts \in Nat, Resume(i, ts)
    PROVE  TypeInv' /\ i \in 2 .. LastInterval + 1
<1>1. FlagsOK'
  BY Zenon DEF Resume, TypeInv, TypeOK, FlagsOK
<1>2. i \in 2 .. LastInterval + 1
  BY LastIntervalType DEF Resume, ResumeValid, TypeInv, TypeOK, NoInterval
<1> QED
  BY <1>1, <1>2, LastIntervalType DEF Resume, TypeInv, TypeOK, LoopBounds, NoInterval

\* What a command taken from the connection makes the sender do.
LEMMA SenderCommandParts ==
    ASSUME ControlInv, SenderCommand
    PROVE  LET c == Head(toSender) IN
           /\ c \in Command /\ (c.op = "stop" => c.ts = 0)
           /\ \/ c.op \in {"start", "stop"} /\ BeginCall(c.op, c.ts)
              \/ RequestPause(c.i, c.ts)
              \/ Resume(c.i, c.ts)
              \/ UNCHANGED vars
           /\ refused \subseteq refused' /\ refused' \subseteq Command
<1> DEFINE c == Head(toSender)
<1>1. toSender \in Seq(Command) /\ toSender # <<>> /\ refused \subseteq Command
  BY DEF ControlInv, ControlTypeOK, SenderCommand
<1>2. c \in Command /\ c = toSender[1] /\ 1 \in 1 .. Len(toSender)
  BY <1>1
<1>3. c.op = "stop" => c.ts = 0
  BY <1>2, Zenon DEF ControlInv, CommandsFormed
<1> HIDE DEF c
<1>4. /\ \/ c.op \in {"start", "stop"} /\ BeginCall(c.op, c.ts)
         \/ RequestPause(c.i, c.ts)
         \/ Resume(c.i, c.ts)
         \/ UNCHANGED vars
      /\ refused' = refused \/ refused' = refused \union {c}
  BY Zenon DEF SenderCommand, Refuse, c
<1> QED
  BY <1>1, <1>2, <1>3, <1>4 DEF c

LEMMA SenderSideStep ==
    ControlInv /\ (PrepareSender \/ SenderCommand \/ SenderStep \/ ControlTick) => ControlInv'
<1> SUFFICES ASSUME ControlInv, PrepareSender \/ SenderCommand \/ SenderStep \/ ControlTick
             PROVE  ControlInv'
  OBVIOUS
<1>1. TypeInv /\ ControlTypeOK
  BY DEF ControlInv
<1>2. ASSUME TypeInv', UNCHANGED controlPlane PROVE ControlInv'
 <2>1. /\ CommandsFormed(toReceiver') /\ TimelineOnTheWay'
       /\ rRunning' => rTimeline' # <<>>
  BY <1>2, ElsewhereFits
 <2>2. CommandsFormed(toSender')  BY <1>2, Zenon DEF ControlInv
 <2>3. rRunning' \in BOOLEAN /\ roundRunning' \in BOOLEAN /\ roundPaused' \in BOOLEAN
  BY <1>1, <1>2, Zenon DEF ControlTypeOK
 <2>4. ControlTypeOK'  BY <1>1, <1>2, <2>3 DEF ControlTypeOK, TypeInv
 <2> QED  BY <1>2, <2>1, <2>2, <2>4 DEF ControlInv
<1>3. CASE PrepareSender
 <2>1. BeginCall("configure", 0) /\ UNCHANGED controlPlane  BY <1>3, Zenon DEF PrepareSender
 <2> QED  BY <1>1, <1>2, <2>1, CallTypes
<1>4. CASE SenderCommand
 <2> DEFINE c == Head(toSender)
 <2>1. /\ c \in Command
       /\ \/ c.op \in {"start", "stop"} /\ BeginCall(c.op, c.ts)
          \/ RequestPause(c.i, c.ts)
          \/ Resume(c.i, c.ts)
          \/ UNCHANGED vars
       /\ refused \subseteq refused' /\ refused' \subseteq Command
  BY <1>4, SenderCommandParts
 <2>2. c.i \in Nat /\ c.ts \in Nat  BY <2>1 DEF Command
 <2>3. /\ toSender' = Tail(toSender) /\ toSender # <<>>
       /\ UNCHANGED <<managerVars, toReceiver, receiverVars>>
  BY <1>4, Zenon DEF SenderCommand
 <2> HIDE DEF c
 <2>4. TypeInv'
  <3>1. CASE c.op \in {"start", "stop"} /\ BeginCall(c.op, c.ts)  BY <1>1, <2>2, <3>1, CallTypes
  <3>2. CASE RequestPause(c.i, c.ts)  BY <1>1, <2>2, <3>2, PauseTypes
  <3>3. CASE Resume(c.i, c.ts)  BY <1>1, <2>2, <3>3, ResumeTypes
  <3>4. CASE UNCHANGED vars  BY <1>1, <3>4, TypeStutter
  <3> QED  BY <2>1, <3>1, <3>2, <3>3, <3>4
 <2>5. /\ CommandsFormed(toReceiver') /\ TimelineOnTheWay'
       /\ rRunning' => rTimeline' # <<>>
  BY <2>1, <2>3, ElsewhereFits
 <2>6. toSender \in Seq(Command) /\ CommandsFormed(toSender)
  BY <1>1, Zenon DEF ControlTypeOK, ControlInv
 <2>7. CommandsFormed(toSender') /\ toSender' \in Seq(Command)
  BY <2>3, <2>6, TailFormed, HeadAndTail
 <2>8. rRunning' \in BOOLEAN /\ roundRunning' \in BOOLEAN /\ roundPaused' \in BOOLEAN
  BY <1>1, <2>3, Zenon DEF ControlTypeOK
 <2>9. ControlTypeOK'  BY <1>1, <2>1, <2>3, <2>4, <2>7, <2>8 DEF ControlTypeOK, TypeInv
 <2> QED  BY <2>4, <2>5, <2>7, <2>9 DEF ControlInv
<1>5. CASE SenderStep
 <2>1. (Worker \/ Control) /\ UNCHANGED controlPlane  BY <1>5, Zenon DEF SenderStep
 <2>2. FlagsOK'  BY <1>1, <2>1, FlagsNext, Zenon DEF Next, TypeInv, TypeOK
 <2> QED  BY <1>1, <1>2, <2>1, <2>2, TypeWorker, TypeOthers
<1>6. CASE ControlTick
 <2>1. Tick /\ UNCHANGED controlPlane  BY <1>6, Zenon DEF ControlTick
 <2>2. FlagsOK'  BY <1>1, <2>1, FlagsNext, Zenon DEF Next, TypeInv, TypeOK
 <2> QED  BY <1>1, <1>2, <2>1, <2>2, TypeOthers
<1> QED
  BY <1>3, <1>4, <1>5, <1>6

\* The receiver takes a command: the first of those on the way is gone, and if
\* it was the last that sets a timeline, the receiver's is now the manager's.
LEMMA ReceiverCommandStep == ControlInv /\ ReceiverCommand => ControlInv'
<1> SUFFICES ASSUME ControlInv, ReceiverCommand PROVE ControlInv'
  OBVIOUS
<1> DEFINE c == Head(toReceiver)
<1>1. TypeInv /\ ControlTypeOK
  BY DEF ControlInv
<1>2. toReceiver \in Seq(Command) /\ CommandsFormed(toReceiver) /\ toReceiver # <<>>
  BY DEF ControlInv, ControlTypeOK, ReceiverCommand
<1>3. /\ c \in Command /\ c = toReceiver[1] /\ 1 \in 1 .. Len(toReceiver)
      /\ c.i \in Nat /\ c.ts \in Nat
 <2>1. c \in Command /\ c = toReceiver[1] /\ 1 \in 1 .. Len(toReceiver)  BY <1>2
 <2> QED  BY <2>1 DEF Command
<1>4. c.op = "start" => c.i = 1
  BY <1>2, <1>3, Zenon DEF CommandsFormed
<1>5. /\ toReceiver' = Tail(toReceiver)
      /\ UNCHANGED <<vars, managerVars, toSender>>
  BY Zenon DEF ReceiverCommand
<1>6. toReceiver' \in Seq(Command) /\ CommandsFormed(toReceiver')
  BY <1>2, <1>5, TailFormed, HeadAndTail
<1>7. TypeInv' /\ CommandsFormed(toSender')
  BY <1>1, <1>5, TypeStutter, Zenon DEF ControlInv
<1> HIDE DEF c
<1>8. \/ c.op = "start" /\ ReceiverStart(c.ts) /\ UNCHANGED refused
      \/ c.op = "stop" /\ ReceiverStop /\ UNCHANGED refused
      \/ c.op = "pause" /\ ReceiverPause(c.i, c.ts) /\ UNCHANGED refused
      \/ c.op = "resume" /\ rRunning /\ ReceiverResume(c.i, c.ts) /\ UNCHANGED refused
      \/ refused' = refused \union {c} /\ (ReceiverStop \/ UNCHANGED receiverVars)
      \/ /\ c.op \in {"pause", "resume"} /\ ~rRunning
         /\ UNCHANGED <<receiverVars, refused>>
  BY Zenon DEF ReceiverCommand, c
<1>9. rRunning' \in BOOLEAN /\ roundRunning' \in BOOLEAN /\ roundPaused' \in BOOLEAN
 <2>1. roundRunning' \in BOOLEAN /\ roundPaused' \in BOOLEAN
  BY <1>1, <1>5, Zenon DEF ControlTypeOK
 <2>2. rRunning' \in BOOLEAN
  BY <1>1, <1>8, Zenon
  DEF ControlTypeOK, ReceiverStart, ReceiverStop, ReceiverPause, ReceiverResume
 <2> QED  BY <2>1, <2>2
<1>10. /\ refused' \subseteq Command
       /\ rTimeline' \in Seq(R!Segment)
       /\ rPauseAfter' \in 0 .. LastInterval - 1 /\ rPauseTs' \in Nat
 <2> USE <1>1, <1>3, LastIntervalType DEF ControlTypeOK
 <2>1. CASE c.op = "start" /\ ReceiverStart(c.ts) /\ UNCHANGED refused
  <3>1. [first |-> 1, start |-> c.ts] \in R!Segment  BY SegmentType
  <3> QED  BY <2>1, <3>1 DEF ReceiverStart, NoInterval
 <2>2. CASE c.op = "stop" /\ ReceiverStop /\ UNCHANGED refused  BY <2>2 DEF ReceiverStop
 <2>3. CASE c.op = "pause" /\ ReceiverPause(c.i, c.ts) /\ UNCHANGED refused
  BY <2>3 DEF ReceiverPause, ReceiverPauseValid
 <2>4. CASE c.op = "resume" /\ rRunning /\ ReceiverResume(c.i, c.ts) /\ UNCHANGED refused
  <3>1. [first |-> c.i, start |-> c.ts] \in R!Segment
  BY <2>4, SegmentType DEF ReceiverResume, ReceiverResumeValid, NoInterval
  <3> QED  BY <2>4, <3>1 DEF ReceiverResume
 <2>5. CASE refused' = refused \union {c} /\ (ReceiverStop \/ UNCHANGED receiverVars)
  BY <2>5 DEF ReceiverStop
 <2>6. CASE UNCHANGED <<receiverVars, refused>>  BY <2>6
 <2> QED  BY <1>8, <2>1, <2>2, <2>3, <2>4, <2>5, <2>6
<1>11. ControlTypeOK'
  BY <1>1, <1>5, <1>6, <1>7, <1>9, <1>10 DEF ControlTypeOK, TypeInv
<1>12. rRunning' => rTimeline' # <<>>
 <2>1. (rRunning => rTimeline # <<>>) /\ rTimeline \in Seq(R!Segment)
  BY DEF ControlInv, ControlTypeOK
 <2>2. CASE ReceiverStart(c.ts)  BY <2>2 DEF ReceiverStart
 <2>3. CASE ReceiverStop  BY <2>3, Zenon DEF ReceiverStop
 <2>4. CASE ReceiverPause(c.i, c.ts) \/ UNCHANGED receiverVars
  BY <2>1, <2>4, Zenon DEF ReceiverPause
 <2>5. CASE ReceiverResume(c.i, c.ts)
  <3>1. rTimeline' = Append(rTimeline, [first |-> c.i, start |-> c.ts])
  BY <2>5, Zenon DEF ReceiverResume
  <3> QED  BY <2>1, <3>1
 <2> QED  BY <1>8, <2>2, <2>3, <2>4, <2>5, Zenon
<1>13. TimelineOnTheWay'
 <2> SUFFICES ASSUME refused' = {} PROVE TimelineOnTheWay'  BY Zenon DEF TimelineOnTheWay
 <2>1. refused = {} /\ c \notin refused'  BY <1>8
 <2>2. timelineFirst' = timelineFirst /\ timelineStart' = timelineStart  BY <1>5
 <2>3. /\ \A k \in Nat \ {0} :
              NoneSetsFrom(toReceiver', k) = NoneSetsFrom(toReceiver, k + 1)
       /\ \A k \in 1 .. Len(toReceiver') :
              /\ k + 1 \in 1 .. Len(toReceiver) /\ k + 1 \in Nat \ {0}
              /\ toReceiver'[k] = toReceiver[k + 1]
  BY <1>2, <1>5, TailSets, HeadAndTail
 <2>4. ASSUME NEW k \in 1 .. Len(toReceiver'), SetsTimeline(toReceiver'[k]),
              NoneSetsFrom(toReceiver', k + 1)
       PROVE  toReceiver'[k].i = timelineFirst' /\ toReceiver'[k].ts = timelineStart'
  <3>1. /\ k + 1 \in 1 .. Len(toReceiver) /\ toReceiver'[k] = toReceiver[k + 1]
        /\ NoneSetsFrom(toReceiver, (k + 1) + 1)
  BY <2>3, <2>4, Zenon
  <3> QED  BY <2>1, <2>2, <2>4, <3>1, Zenon DEF ControlInv, TimelineOnTheWay
 <2>5. ASSUME rRunning', NoneSetsFrom(toReceiver', 1)
       PROVE  rTimeline'[Len(rTimeline')] =
                  [first |-> timelineFirst', start |-> timelineStart']
  <3>1. NoneSetsFrom(toReceiver, 1 + 1)
   <4>1. 1 \in Nat \ {0}  OBVIOUS
   <4> QED  BY <2>3, <2>5, <4>1, Zenon
  <3>2. SetsTimeline(c) => c.i = timelineFirst /\ c.ts = timelineStart
  BY <1>3, <2>1, <3>1, Zenon DEF ControlInv, TimelineOnTheWay
  <3>3. CASE c.op = "start" /\ ReceiverStart(c.ts) /\ UNCHANGED refused
  BY <1>4, <2>2, <3>2, <3>3 DEF SetsTimeline, ReceiverStart
  <3>4. CASE c.op = "resume" /\ rRunning /\ ReceiverResume(c.i, c.ts) /\ UNCHANGED refused
   <4>1. rTimeline' = Append(rTimeline, [first |-> c.i, start |-> c.ts])  BY <3>4 DEF ReceiverResume
   <4>2. [first |-> c.i, start |-> c.ts] \in R!Segment /\ rTimeline \in Seq(R!Segment)
   BY <1>1, <1>3, <3>4, LastIntervalType, SegmentType
   DEF ControlTypeOK, ReceiverResume, ReceiverResumeValid, NoInterval
   <4>3. rTimeline'[Len(rTimeline')] = [first |-> c.i, start |-> c.ts]  BY <4>1, <4>2
   <4> QED  BY <2>2, <3>2, <3>4, <4>3 DEF SetsTimeline
  <3>5. CASE c.op = "pause" /\ ReceiverPause(c.i, c.ts)
   <4>1. rRunning /\ rTimeline' = rTimeline  BY <2>5, <3>5, Zenon DEF ReceiverPause
   <4>2. ~SetsTimeline(c)  BY <3>5 DEF SetsTimeline
   <4>3. NoneSetsFrom(toReceiver, 1)  BY <1>2, <1>3, <3>1, <4>2 DEF NoneSetsFrom
   <4> QED  BY <2>1, <2>2, <4>1, <4>3, Zenon DEF ControlInv, TimelineOnTheWay
  <3>6. ~ReceiverStop /\ ~(~rRunning /\ UNCHANGED receiverVars)  BY <2>5, Zenon DEF ReceiverStop
  <3> QED  BY <1>8, <2>1, <3>3, <3>4, <3>5, <3>6
 <2> QED  BY <2>4, <2>5, Zenon DEF TimelineOnTheWay
<1> QED
  BY <1>6, <1>7, <1>11, <1>12, <1>13 DEF ControlInv

LEMMA ReceiverEndsStep == ControlInv /\ ReceiverEnds => ControlInv'
<1> SUFFICES ASSUME ControlInv, ReceiverEnds PROVE ControlInv'
  OBVIOUS
<1>1. TypeInv /\ ControlTypeOK
  BY DEF ControlInv
<1>2. /\ rRunning' = FALSE
      /\ UNCHANGED <<rTimeline, rPauseAfter, rPauseTs>>
      /\ UNCHANGED <<vars, managerVars, toSender, toReceiver, refused>>
  BY Zenon DEF ReceiverEnds, ReceiverStop
<1>3. TypeInv'
  BY <1>1, <1>2, TypeStutter, Zenon
<1>4. rRunning' \in BOOLEAN /\ roundRunning' \in BOOLEAN /\ roundPaused' \in BOOLEAN
  BY <1>1, <1>2, Zenon DEF ControlTypeOK
<1>5. ControlTypeOK'
  BY <1>1, <1>2, <1>3, <1>4 DEF ControlTypeOK, TypeInv
<1>6. CommandsFormed(toSender') /\ CommandsFormed(toReceiver')
  BY <1>2, Zenon DEF ControlInv
<1>7. TimelineOnTheWay'
  BY <1>2, Zenon DEF ControlInv, TimelineOnTheWay
<1> QED
  BY <1>2, <1>3, <1>5, <1>6, <1>7, Zenon DEF ControlInv

LEMMA ControlStutter == ControlInv /\ UNCHANGED allVars => ControlInv'
<1> SUFFICES ASSUME ControlInv, UNCHANGED allVars PROVE ControlInv'
  OBVIOUS
<1>1. TypeInv /\ ControlTypeOK
  BY DEF ControlInv
<1>2. TypeInv'
  BY <1>1, TypeStutter, Zenon
<1>3. rRunning' \in BOOLEAN /\ roundRunning' \in BOOLEAN /\ roundPaused' \in BOOLEAN
  BY <1>1, Zenon DEF ControlTypeOK
<1>4. ControlTypeOK'
  BY <1>1, <1>2, <1>3 DEF ControlTypeOK, TypeInv
<1> QED
  BY <1>2, <1>4, Zenon DEF ControlInv, TimelineOnTheWay

LEMMA ControlNextKeeps == ControlInv /\ [ControlNext]_allVars => ControlInv'
    BY ManagerStep, SenderSideStep, ReceiverCommandStep, ReceiverEndsStep, ControlStutter,
       Zenon DEF ControlNext

LEMMA ControlBegins == ControlInit => ControlInv
<1> SUFFICES ASSUME ControlInit PROVE ControlInv
  OBVIOUS
<1>1. TypeInv
  BY TypeInit DEF ControlInit
<1>2. /\ toSender = <<>> /\ toReceiver = <<>> /\ rTimeline = <<>>
      /\ refused = {} /\ rRunning = FALSE
  BY Zenon DEF ControlInit
<1>3. rRunning \in BOOLEAN /\ roundRunning \in BOOLEAN /\ roundPaused \in BOOLEAN
  BY Zenon DEF ControlInit
<1>4. ControlTypeOK
  BY <1>1, <1>2, <1>3, LastIntervalType, ManagerParameters
  DEF ControlInit, ControlTypeOK, TypeInv, Intervals, NoInterval
<1>5. CommandsFormed(toSender) /\ CommandsFormed(toReceiver)
  BY <1>2 DEF CommandsFormed
<1>6. TimelineOnTheWay
 <2>1. \A k \in 1 .. Len(toReceiver) : FALSE  BY <1>2
 <2> QED  BY <1>2, <2>1, Zenon DEF TimelineOnTheWay
<1> QED
  BY <1>1, <1>2, <1>4, <1>5, <1>6, Zenon DEF ControlInv

\* At any delay of the commands: a receiver that has rejected none and has none
\* on the way judges packets by the manager's own timeline segment
\* (bStartRound, bResumeRound, msgApplyRoundCommand).
THEOREM ControlInvariantHolds == ControlSpec => []ControlInvariant
<1>1. ControlInv => ControlInvariant
 <2> SUFFICES ASSUME ControlInv PROVE ControlInvariant  OBVIOUS
 <2>1. toReceiver = <<>> => NoneSetsFrom(toReceiver, 1)  BY DEF NoneSetsFrom
 <2>2. TimelinesAgree  BY <2>1, Zenon DEF TimelinesAgree, ControlInv, TimelineOnTheWay
 <2> QED  BY <2>2 DEF ControlInvariant, ControlInv
<1> QED
  BY <1>1, ControlBegins, ControlNextKeeps, PTL DEF ControlSpec

\* Every step of the composition is, for the sender, a step of its own
\* specification or none: the manager's commands are calls it allows.
LEMMA SenderFollows ==
    CallTimes = Nat => (ControlInv /\ [ControlNext]_allVars => [Next]_vars)
<1> SUFFICES ASSUME CallTimes = Nat, ControlInv, [ControlNext]_allVars PROVE [Next]_vars
  OBVIOUS
<1>1. CASE Manager
 <2>1. UNCHANGED vars
  BY <1>1, Zenon
  DEF Manager, StartRoundAt, PauseRound, ResumeRound, StopRound, AllResultsIn, Broadcast
 <2> QED  BY <2>1
<1>2. CASE PrepareSender
 <2>1. Caller  BY <1>2 DEF PrepareSender, Caller
 <2> QED  BY <2>1 DEF Next
<1>3. CASE SenderCommand
 <2> DEFINE c == Head(toSender)
 <2>1. /\ c \in Command /\ (c.op = "stop" => c.ts = 0)
       /\ \/ c.op \in {"start", "stop"} /\ BeginCall(c.op, c.ts)
          \/ RequestPause(c.i, c.ts)
          \/ Resume(c.i, c.ts)
          \/ UNCHANGED vars
  BY <1>3, SenderCommandParts
 <2>2. c.i \in Nat /\ c.ts \in Nat /\ c.ts \in CallTimes  BY <2>1 DEF Command
 <2>3. TypeInv  BY DEF ControlInv
 <2> HIDE DEF c
 <2>4. CASE c.op \in {"start", "stop"} /\ BeginCall(c.op, c.ts)
  <3>1. \/ c.op = "start" /\ BeginCall("start", c.ts)
        \/ c.op = "stop" /\ BeginCall("stop", 0)
  BY <2>1, <2>4
  <3>2. Caller  BY <2>2, <3>1 DEF Caller
  <3> QED  BY <3>2 DEF Next
 <2>5. CASE RequestPause(c.i, c.ts)
  <3>1. c.i \in Intervals  BY <2>2, <2>3, <2>5, PauseTypes
  <3> QED  BY <2>2, <2>5, <3>1, Zenon DEF Next, Caller
 <2>6. CASE Resume(c.i, c.ts)
  <3>1. c.i \in 2 .. LastInterval + 1  BY <2>2, <2>3, <2>6, ResumeTypes
  <3> QED  BY <2>2, <2>6, <3>1, Zenon DEF Next, Caller
 <2>7. CASE UNCHANGED vars  BY <2>7
 <2> QED  BY <2>1, <2>4, <2>5, <2>6, <2>7
<1>4. CASE SenderStep
  BY <1>4 DEF SenderStep, Next
<1>5. CASE ReceiverCommand \/ ReceiverEnds
 <2>1. UNCHANGED vars  BY <1>5, Zenon DEF ReceiverCommand, ReceiverEnds
 <2> QED  BY <2>1
<1>6. CASE ControlTick
  BY <1>6 DEF ControlTick, Next
<1>7. CASE UNCHANGED allVars
  BY <1>7
<1> QED
  BY <1>1, <1>2, <1>3, <1>4, <1>5, <1>6, <1>7 DEF ControlNext

\* The composition implements the specification of the sender: with calls at
\* any time, what is proved of SenderRuntime holds under the manager's commands.
THEOREM ManagedSenderImplements == CallTimes = Nat => (ControlSpec => Spec)
<1> SUFFICES ASSUME CallTimes = Nat PROVE ControlSpec => Spec
  OBVIOUS
<1>1. ControlInit => Init
  BY DEF ControlInit
<1>2. ControlInv /\ [ControlNext]_allVars => [Next]_vars
  BY SenderFollows
<1> QED
  BY <1>1, <1>2, ControlBegins, ControlNextKeeps, PTL DEF ControlSpec, Spec
=============================================================================
