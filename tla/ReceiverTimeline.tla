-------------------------- MODULE ReceiverTimeline --------------------------
(***************************************************************************)
(* What a receiver knows of the round's clock: the timeline segments that  *)
(* the start and resume commands gave it, and a pause that may still be    *)
(* open.  Pure operators over those values (optIntervalStartTimestamp and  *)
(* bIsPacketTimeSafe).                                                     *)
(***************************************************************************)
EXTENDS RoundSchedule, SequencesExt

CONSTANTS
    IntervalLength,  \* u32IntervalMilliseconds, in ticks
    Tolerance        \* u32ClockToleranceMilliseconds

ASSUME TimelineParameters == IntervalLength \in Nat \ {0} /\ Tolerance \in Nat

NoInterval == 0
Unknown == -1  \* std::nullopt: the start time lies in an open pause

Segment == [first : 1 .. LastInterval + 1, start : Nat]

\* The last segment before the first one that begins after interval i.
Reaching(timeline, i) ==
    {k \in 1 .. Len(timeline) : \A m \in 1 .. k : timeline[m].first <= i}

IntervalStartAt(timeline, pauseAfter, i) ==
    LET reaching == Reaching(timeline, i)
        segment  == timeline[Max(reaching)]
    IN  IF reaching = {} THEN Unknown
        ELSE IF pauseAfter # NoInterval /\ i > pauseAfter /\ segment.first <= pauseAfter
             THEN Unknown
             ELSE segment.start + (i - segment.first) * IntervalLength

\* Mutant: the tolerance is forgotten.
TimeSafeExact(timeline, pauseAfter, i, at) ==
    LET disclosure == IntervalStartAt(timeline, pauseAfter, i + DisclosureDelay)
    IN  disclosure = Unknown \/ at < disclosure

\* A data packet of interval i is safe while the receiver's clock, widened by
\* the tolerance, is before the interval that discloses K_i; an interval whose
\* start is not known yet counts as not reached.
TimeSafe(timeline, pauseAfter, i, at) ==
    LET disclosure == IntervalStartAt(timeline, pauseAfter, i + DisclosureDelay)
    IN  disclosure = Unknown \/ at + Tolerance < disclosure

\* The instant after which a receiver gives up waiting for the last key.
RoundDeadline(timeline, pauseAfter) ==
    LET lastStart == IntervalStartAt(timeline, pauseAfter, LastInterval)
    IN  IF lastStart = Unknown THEN Unknown
        ELSE lastStart + IntervalLength + Tolerance
=============================================================================
