---------------------------- MODULE ReceiverProofs ----------------------------
(***************************************************************************)
(* For every number of senders, every queue and every round.               *)
(*                                                                         *)
(* Under any commands: the receiver's state keeps its types, and a context *)
(* reports a round once, whoever comes first, the worker with the last key *)
(* or the deadline, or stop().                                             *)
(*                                                                         *)
(* Under the commands of the manager: a stored packet was there before its *)
(* key could be known.  The argument compares two places in time, where a  *)
(* datagram arrives and where the worker judges it, over a timeline that   *)
(* pauses and resumes in between: a command may not change which intervals *)
(* have been reached, so what held when a datagram came holds when it is   *)
(* taken from the queue.                                                   *)
(***************************************************************************)
EXTENDS ReceiverRuntime, DataInduction, FiniteSetTheorems, SequenceTheorems, TLAPS

USE DEF vars

-----------------------------------------------------------------------------
(* The timetable, for every number of packets, interval size and disclosure *)
(* delay that the constructor accepts.                                      *)

\* DataIntervals is at least one: the round has a first interval to send.
LEMMA DataIntervalsType == DataIntervals \in Nat \ {0}
<1>1. (TotalPackets - 1) \div PacketsPerInterval \in Nat
  BY RoundParameters, SMT
<1> QED BY <1>1 DEF DataIntervals

LEMMA LastIntervalType ==
    LastInterval \in Nat \ {0} /\ DataIntervals < LastInterval
  BY DataIntervalsType, RoundParameters DEF LastInterval

\* The first packet of an interval has a positive number.
LEMMA FirstPacketPositive ==
    ASSUME NEW i \in Nat \ {0}
    PROVE  FirstPacket(i) \in Nat \ {0}
<1>1. \A a, b \in Nat : a * b \in Nat
  BY SMT
<1>2. (i - 1) * PacketsPerInterval \in Nat
  BY <1>1, RoundParameters
<1> QED BY <1>2 DEF FirstPacket

LEMMA LastPacketBounded ==
    ASSUME NEW i \in Nat \ {0}
    PROVE  LastPacket(i) \in Nat /\ LastPacket(i) <= TotalPackets
<1>1. \A a, b \in Nat : a * b \in Nat
  BY SMT
<1>2. i * PacketsPerInterval \in Nat
  BY <1>1, RoundParameters
<1> QED BY <1>2, RoundParameters DEF LastPacket

-----------------------------------------------------------------------------
(* What processing a datagram leaves in a context.                         *)

LEMMA VerdictType ==
    ASSUME NEW record \in PacketRecord, record # Empty
    PROVE  Verdict(record) \in PacketRecord
<1>1. record \in [status : {"Pending", "Passed", "Failed"}, content : Readable,
                  source : {"normal", "attack"}, at : Nat]
  BY DEF PacketRecord
<1> HIDE DEF Readable
<1> QED BY <1>1 DEF Verdict, PacketRecord

LEMMA VerifyType ==
    ASSUME NEW st \in ReceiverState, NEW intervals \in SUBSET ChainKeys
    PROVE  Verify(st, intervals) \in ReceiverState
<1> DEFINE due == (intervals \intersect st.keys) \ st.verified
           judged(k) == st.records[k] # Empty /\ \E i \in due : k \in PacketsOf(i)
           records == [k \in Packets |-> IF judged(k) THEN Verdict(st.records[k])
                                                      ELSE st.records[k]]
<1>1. \A k \in Packets : st.records[k] \in PacketRecord
  BY DEF ReceiverState
<1>2. records \in [Packets -> PacketRecord]
  BY <1>1, VerdictType
<1>3. st.verified \union due \in SUBSET ChainKeys
  BY DEF ReceiverState
<1>4. Verify(st, intervals) = [st EXCEPT !.records = records, !.verified = @ \union due]
  BY DEF Verify
<1> HIDE DEF records, due
<1> QED BY <1>2, <1>3, <1>4 DEF ReceiverState

LEMMA WithKeyType ==
    ASSUME NEW st \in ReceiverState, NEW i \in Intervals, NEW right \in BOOLEAN
    PROVE  WithKey(st, i, right) \in ReceiverState
<1> DEFINE j == i - DisclosureDelay
           known == [st EXCEPT !.keys = @ \union (1 .. j)]
<1>1. CASE j \notin ChainKeys \/ ~right
  BY <1>1 DEF WithKey, Spoiled, ReceiverState
<1>2. CASE j \in ChainKeys /\ right
 <2>1. 1 .. j \subseteq ChainKeys  BY <1>2, DataIntervalsType DEF ChainKeys
 <2>2. known \in ReceiverState  BY <2>1 DEF ReceiverState
 <2> HIDE DEF known
 <2>3. Verify(known, 1 .. j) \in ReceiverState /\ Verify(known, ChainKeys) \in ReceiverState
  BY <2>1, <2>2, VerifyType
 <2>4. [Verify(known, ChainKeys) EXCEPT !.active = FALSE, !.reported = TRUE] \in ReceiverState
  BY <2>3 DEF ReceiverState
 <2>5. WithKey(st, i, right) \in
         {Verify(known, 1 .. j),
          [Verify(known, ChainKeys) EXCEPT !.active = FALSE, !.reported = TRUE]}
  BY <1>2 DEF WithKey, known
 <2> QED BY <2>3, <2>4, <2>5
<1> QED BY <1>1, <1>2

LEMMA AsCandidateType ==
    ASSUME NEW st \in ReceiverState, NEW k, NEW content \in Readable
    PROVE  AsCandidate(st, k, content) \in ReceiverState
<1>1. [st.candidates EXCEPT ![k] = @ \union {content}] \in [Packets -> SUBSET Readable]
  BY DEF ReceiverState
<1> QED BY <1>1 DEF AsCandidate, ReceiverState

LEMMA AsBaselineType ==
    ASSUME NEW st \in ReceiverState, NEW dg \in Datagram, dg.content # Malformed, NEW k
    PROVE  AsBaseline(st, k, dg) \in ReceiverState
<1> DEFINE record == [status |-> "Pending", content |-> dg.content,
                      source |-> dg.source, at |-> dg.at]
           stored == [st EXCEPT !.records[k] = record, !.received = @ + 1]
<1>1. dg.content \in Readable /\ dg.interval \in Intervals
  BY DEF Datagram, Readable
<1>2. record \in PacketRecord
  BY <1>1 DEF PacketRecord, Datagram
<1> HIDE DEF record
<1>3. [st.records EXCEPT ![k] = record] \in [Packets -> PacketRecord]
  BY <1>2 DEF ReceiverState
<1>4. stored \in ReceiverState
 <2> DEFINE records == [st.records EXCEPT ![k] = record]
 <2>1. stored = [st EXCEPT !.records = records, !.received = @ + 1]  BY DEF ReceiverState
 <2> HIDE DEF stored, records
 <2>2. records \in [Packets -> PacketRecord]  BY <1>3 DEF records
 <2>3. st.received + 1 \in Nat  BY DEF ReceiverState
 <2> QED BY <2>1, <2>2, <2>3 DEF ReceiverState
<1>5. dg.content.key \in BOOLEAN
  BY <1>1, ReceiverParameters
<1>6. AsBaseline(st, k, dg) \in {stored, WithKey(stored, dg.interval, dg.content.key)}
  BY DEF AsBaseline, record
<1> HIDE DEF stored
<1> QED BY <1>1, <1>4, <1>5, <1>6, WithKeyType

\* A context keeps its shape, and one that is not at work is left alone.
LEMMA ProcessedContext ==
    ASSUME NEW st \in ReceiverState, NEW dg \in Datagram
    PROVE  /\ Processed(st, dg) \in ReceiverState
           /\ ~Live(st) => Processed(st, dg) = st
<1> DEFINE k == PacketIndex(dg)
<1>1. ~Live(st) => Processed(st, dg) = st
  BY DEF Processed, Live, ReceiverState
<1>2. Spoiled(st) \in ReceiverState
  BY DEF Spoiled, ReceiverState
<1>3. CASE dg.content = Malformed
 <2>1. Processed(st, dg) = st \/ Processed(st, dg) = Spoiled(st)  BY <1>3, Zenon DEF Processed
 <2> QED BY <1>1, <1>2, <2>1
<1>4. CASE dg.content # Malformed
 <2>1. dg.content \in Readable /\ dg.interval \in Intervals  BY <1>4 DEF Datagram, Readable
 <2>2. dg.content.key \in BOOLEAN  BY <2>1, ReceiverParameters
 <2>3. WithKey(st, dg.interval, dg.content.key) \in ReceiverState  BY <2>1, <2>2, WithKeyType
 <2>4. AsCandidate(st, k, dg.content) \in ReceiverState  BY <2>1, AsCandidateType
 <2>5. AsBaseline(st, k, dg) \in ReceiverState  BY <1>4, AsBaselineType
 <2>6. \/ Processed(st, dg) = st
       \/ Processed(st, dg) = Spoiled(st)
       \/ Processed(st, dg) = WithKey(st, dg.interval, dg.content.key)
       \/ Processed(st, dg) = AsCandidate(st, k, dg.content)
       \/ Processed(st, dg) = AsBaseline(st, k, dg)
  BY <1>4, Zenon DEF Processed
 <2> QED BY <1>1, <1>2, <2>3, <2>4, <2>5, <2>6
<1> QED BY <1>1, <1>3, <1>4

-----------------------------------------------------------------------------
(* Results, and the orders in which a thread may collect them.             *)

\* IssuedIn(q, s, r): where sequence q has the result of context s and round r.
IssuedIn(q, s, r) == {k \in 1 .. Len(q) : q[k].sender = s /\ q[k].round = r}
SomeIn(q, s, r) == IssuedIn(q, s, r) # {}
OneIn(q, s, r) == \A a, b \in IssuedIn(q, s, r) : a = b
NotAhead(q, r) == \A k \in 1 .. Len(q) : q[k].round <= r

LEMMA ConcatResults ==
    ASSUME NEW p \in Seq(Result), NEW q \in Seq(Result), NEW s, NEW r
    PROVE  /\ p \o q \in Seq(Result)
           /\ SomeIn(p \o q, s, r) <=> SomeIn(p, s, r) \/ SomeIn(q, s, r)
           /\ OneIn(p, s, r) /\ OneIn(q, s, r) /\ ~(SomeIn(p, s, r) /\ SomeIn(q, s, r))
                => OneIn(p \o q, s, r)
           /\ NotAhead(p, r) /\ NotAhead(q, r) => NotAhead(p \o q, r)
           /\ \A x : Contains(p \o q, x) <=> Contains(p, x) \/ Contains(q, x)
<1> DEFINE pq == p \o q
<1>1. Len(p) \in Nat /\ Len(q) \in Nat /\ pq \in Seq(Result) /\ Len(pq) = Len(p) + Len(q)
  BY ConcatProperties, LenProperties
<1>2. \A k \in 1 .. Len(p) + Len(q) : pq[k] = IF k <= Len(p) THEN p[k] ELSE q[k - Len(p)]
  BY ConcatProperties
<1> HIDE DEF pq
<1>3. \A k \in IssuedIn(pq, s, r) :
        \/ k \in IssuedIn(p, s, r)
        \/ k > Len(p) /\ k - Len(p) \in IssuedIn(q, s, r)
  BY <1>1, <1>2 DEF IssuedIn
<1>4. \A k \in IssuedIn(p, s, r) : k \in IssuedIn(pq, s, r)
  BY <1>1, <1>2 DEF IssuedIn
<1>5. \A k \in IssuedIn(q, s, r) : k + Len(p) \in IssuedIn(pq, s, r)
  BY <1>1, <1>2 DEF IssuedIn
<1>6. SomeIn(pq, s, r) <=> SomeIn(p, s, r) \/ SomeIn(q, s, r)
  BY <1>3, <1>4, <1>5 DEF SomeIn
<1>7. ASSUME OneIn(p, s, r), OneIn(q, s, r), ~(SomeIn(p, s, r) /\ SomeIn(q, s, r)),
             NEW a \in IssuedIn(pq, s, r), NEW b \in IssuedIn(pq, s, r)
      PROVE  a = b
 <2>1. a \in Int /\ b \in Int  BY <1>1 DEF IssuedIn
 <2>2. CASE SomeIn(p, s, r)  BY <1>3, <1>7, <2>2 DEF SomeIn, OneIn
 <2>3. CASE ~SomeIn(p, s, r)
  <3>1. a - Len(p) \in IssuedIn(q, s, r) /\ b - Len(p) \in IssuedIn(q, s, r)
  BY <1>3, <2>3 DEF SomeIn
  <3>2. a - Len(p) = b - Len(p)  BY <1>7, <3>1 DEF OneIn
  <3> QED BY <1>1, <2>1, <3>2
 <2> QED BY <2>2, <2>3
<1>8. NotAhead(p, r) /\ NotAhead(q, r) => NotAhead(pq, r)
  BY <1>1, <1>2 DEF NotAhead
<1>9. ASSUME NEW x
      PROVE  Contains(pq, x) <=> Contains(p, x) \/ Contains(q, x)
 <2>1. Contains(pq, x) => Contains(p, x) \/ Contains(q, x)
  <3> SUFFICES ASSUME NEW k \in 1 .. Len(pq), pq[k] = x
               PROVE  Contains(p, x) \/ Contains(q, x)
  BY DEF Contains
  <3>1. CASE k <= Len(p)  BY <1>1, <1>2, <3>1 DEF Contains
  <3>2. CASE ~(k <= Len(p))
   <4>1. k - Len(p) \in 1 .. Len(q) /\ q[k - Len(p)] = x  BY <1>1, <1>2, <3>2
   <4> QED BY <4>1 DEF Contains
  <3> QED BY <3>1, <3>2
 <2>2. Contains(p, x) => Contains(pq, x)
  <3> SUFFICES ASSUME NEW k \in 1 .. Len(p), p[k] = x PROVE Contains(pq, x)  BY DEF Contains
  <3>1. k \in 1 .. Len(pq) /\ pq[k] = x  BY <1>1, <1>2
  <3> QED BY <3>1 DEF Contains
 <2>3. Contains(q, x) => Contains(pq, x)
  <3> SUFFICES ASSUME NEW k \in 1 .. Len(q), q[k] = x PROVE Contains(pq, x)  BY DEF Contains
  <3>1. k + Len(p) \in 1 .. Len(pq) /\ ~(k + Len(p) <= Len(p)) /\ (k + Len(p)) - Len(p) = k
  BY <1>1
  <3>2. pq[k + Len(p)] = x  BY <1>1, <1>2, <3>1
  <3> QED BY <3>1, <3>2 DEF Contains
 <2> QED BY <2>1, <2>2, <2>3
<1> QED BY <1>1, <1>6, <1>7, <1>8, <1>9 DEF OneIn, pq

\* Whatever the order, it has the result of each of its contexts exactly once.
LEMMA OrderOfResults ==
    ASSUME NEW D \in SUBSET Senders, NEW R \in [D -> Result], NEW r \in Nat,
           \A s \in D : R[s].sender = s /\ R[s].round = r,
           NEW q \in SetToSeqs({R[s] : s \in D})
    PROVE  /\ q \in Seq(Result) /\ NotAhead(q, r)
           /\ \A s : OneIn(q, s, r) /\ (SomeIn(q, s, r) <=> s \in D)
           /\ \A x : Contains(q, x) => \E s \in D : x = R[s]
<1> DEFINE S == {R[s] : s \in D}
           n == Cardinality(S)
<1>1. IsFiniteSet(D)
  BY FS_Subset, ReceiverParameters
<1>2. R \in Surjection(D, S)
  BY DEF Surjection
<1> HIDE DEF S
<1>3. IsFiniteSet(S)
  BY <1>1, <1>2, FS_Surjection
<1>4. n \in Nat
  BY <1>3, FS_CardinalityType
<1>5. q \in [1 .. n -> S] /\ \A a, b \in 1 .. n : a # b => q[a] # q[b]
  BY DEF SetToSeqs, S
<1>6. q \in Injection(1 .. n, S)
  BY <1>5 DEF Injection, IsInjective
<1>7. Cardinality(1 .. n) = n
  BY <1>4, FS_Interval
<1>8. q \in Surjection(1 .. n, S)
  BY <1>3, <1>6, <1>7, FS_Injection
<1>9. S \subseteq Result
  BY DEF S
<1>10. q \in Seq(Result) /\ Len(q) = n
  BY <1>4, <1>5, <1>9, SMT
<1>11. \A k \in 1 .. n : \E s \in D : q[k] = R[s]
  BY <1>5 DEF S
<1>12. NotAhead(q, r)
  BY <1>10, <1>11 DEF NotAhead
<1>13. ASSUME NEW s
       PROVE  OneIn(q, s, r) /\ (SomeIn(q, s, r) <=> s \in D)
 <2>1. \A k \in IssuedIn(q, s, r) : s \in D /\ q[k] = R[s]  BY <1>10, <1>11 DEF IssuedIn
 <2>2. OneIn(q, s, r)  BY <1>5, <1>10, <2>1 DEF OneIn, IssuedIn
 <2>3. ASSUME s \in D PROVE SomeIn(q, s, r)
  <3>1. PICK k \in 1 .. n : q[k] = R[s]  BY <1>8, <2>3 DEF Surjection, S
  <3> QED BY <1>10, <2>3, <3>1 DEF SomeIn, IssuedIn
 <2> QED BY <2>1, <2>2, <2>3 DEF SomeIn
<1>14. \A x : Contains(q, x) => \E s \in D : x = R[s]
  BY <1>10, <1>11 DEF Contains
<1> QED BY <1>10, <1>12, <1>13, <1>14

LEMMA CountType ==
    ASSUME NEW st, NEW status
    PROVE  Count(st, status) \in Nat
<1>1. IsFiniteSet(Packets)
  BY RoundParameters, FS_Interval DEF Packets
<1>2. IsFiniteSet({k \in Packets : st.records[k].status = status})
  BY <1>1, FS_Subset
<1> QED BY <1>2, FS_CardinalityType DEF Count

LEMMA ResultType ==
    ASSUME NEW s \in Senders, NEW st \in ReceiverState, NEW status \in ResultStatus, round \in Nat
    PROVE  /\ ResultOf(s, st, status) \in Result
           /\ ResultOf(s, st, status).sender = s
           /\ ResultOf(s, st, status).round = round
<1>1. Count(st, "Passed") \in Nat /\ Count(st, "Failed") \in Nat
  BY CountType
<1>2. st.received \in Nat /\ TotalPackets - st.received \in Int
  BY RoundParameters DEF ReceiverState
<1> QED BY <1>1, <1>2 DEF ResultOf, Result

LEMMA FinalStatusType == \A st : FinalStatus(st) \in ResultStatus
  BY DEF FinalStatus, ResultStatus

-----------------------------------------------------------------------------
(* The invariant.  A result is either with the handler or still in the     *)
(* worker's hands, and a context has one in exactly one of the two places  *)
(* from the moment it is reported.                                         *)

OneInv ==
    /\ NotAhead(delivered, round) /\ NotAhead(outbox, round)
    /\ \A s \in Senders :
        /\ OneIn(delivered, s, round) /\ OneIn(outbox, s, round)
        /\ ~(SomeIn(delivered, s, round) /\ SomeIn(outbox, s, round))
        /\ state[s].reported => SomeIn(delivered, s, round) \/ SomeIn(outbox, s, round)
        /\ Live(state[s]) => ~SomeIn(delivered, s, round) /\ ~SomeIn(outbox, s, round)

IInv == TypeOK /\ OneInv

LEMMA NothingIn ==
    /\ <<>> \in Seq(Result)
    /\ \A s, r : OneIn(<<>>, s, r) /\ ~SomeIn(<<>>, s, r)
    /\ \A r : NotAhead(<<>>, r)
  BY EmptySeq DEF IssuedIn, OneIn, SomeIn, NotAhead

LEMMA FreshStateType ==
    ASSUME NEW isActive \in BOOLEAN, NEW timeline \in Seq(Segment)
    PROVE  FreshState(isActive, timeline) \in ReceiverState
<1>1. [k \in Packets |-> Empty] \in [Packets -> PacketRecord]
  BY DEF PacketRecord
<1>2. NoInterval \in 0 .. LastInterval
  BY LastIntervalType DEF NoInterval
<1> HIDE DEF Readable
<1> QED BY <1>1, <1>2 DEF FreshState, ReceiverState

\* stop() reports every context at work, or nobody when it is told so.
LEMMA StopRoundReports ==
    ASSUME TypeOK, NEW report \in BOOLEAN, StopRound(report)
    PROVE  \E order \in Seq(Result) :
             /\ delivered' = delivered \o order
             /\ NotAhead(order, round)
             /\ \A s \in Senders :
                  /\ OneIn(order, s, round)
                  /\ SomeIn(order, s, round) <=> report /\ Live(state[s])
             /\ \A x : Contains(order, x) => x.status = "Stopped"
<1> DEFINE stopped == {s \in Senders : report /\ StopReports(state[s])}
           R == [s \in stopped |-> ResultOf(s, state[s], "Stopped")]
<1>1. PICK order \in SetToSeqs({ResultOf(s, state[s], "Stopped") : s \in stopped}) :
        delivered' = delivered \o order
  BY DEF StopRound
<1>2. \A s \in stopped : /\ ResultOf(s, state[s], "Stopped") \in Result
                         /\ ResultOf(s, state[s], "Stopped").sender = s
                         /\ ResultOf(s, state[s], "Stopped").round = round
                         /\ ResultOf(s, state[s], "Stopped").status = "Stopped"
  BY ResultType DEF TypeOK, ResultStatus, ResultOf
<1>3. /\ R \in [stopped -> Result]
      /\ \A s \in stopped : /\ R[s].sender = s /\ R[s].round = round
                             /\ R[s].status = "Stopped"
  BY <1>2
<1>4. {ResultOf(s, state[s], "Stopped") : s \in stopped} = {R[s] : s \in stopped}
  OBVIOUS
<1>5. stopped \in SUBSET Senders /\ \A s \in Senders : s \in stopped <=> report /\ Live(state[s])
  BY DEF StopReports
<1> HIDE DEF stopped, R
<1>6. order \in SetToSeqs({R[s] : s \in stopped})
  BY <1>1, <1>4
<1>7. /\ order \in Seq(Result) /\ NotAhead(order, round)
      /\ \A s : OneIn(order, s, round) /\ (SomeIn(order, s, round) <=> s \in stopped)
      /\ \A x : Contains(order, x) => \E s \in stopped : x = R[s]
 <2>1. round \in Nat /\ stopped \in SUBSET Senders  BY <1>5 DEF TypeOK
 <2>2. \A s \in stopped : R[s].sender = s /\ R[s].round = round  BY <1>3
 <2> QED BY <1>3, <1>6, <2>1, <2>2, OrderOfResults
<1>8. \A x : Contains(order, x) => x.status = "Stopped"
  BY <1>3, <1>7
<1> QED BY <1>1, <1>5, <1>7, <1>8

\* The contexts after the datagram of a turn, and those that end in it.
After == [s \in Senders |-> IF queue # <<>> /\ Head(queue).sender = s
                            THEN Processed(state[s], Head(queue)) ELSE state[s]]
Done == {s \in Senders : Live(state[s]) /\ ~Live(After[s])}
Late == {s \in Senders : TimedOut(After[s])}
Finals == [s \in Done |-> ResultOf(s, After[s], FinalStatus(After[s]))]
Timeouts == [s \in Late |-> ResultOf(s, After[s], "VerificationTimeout")]

LEMMA AfterType ==
    ASSUME TypeOK
    PROVE  /\ After \in [Senders -> ReceiverState]
           /\ \A s \in Senders : ~Live(state[s]) => After[s] = state[s]
<1>1. queue # <<>> => Head(queue) \in Datagram
  BY HeadTailProperties DEF TypeOK
<1>2. \A s \in Senders : state[s] \in ReceiverState
  BY DEF TypeOK
<1> QED BY <1>1, <1>2, ProcessedContext DEF After

\* The worker reports the contexts that its datagram or the deadline ends.
LEMMA TurnReports ==
    ASSUME TypeOK, WorkerTurn
    PROVE  /\ state' = [s \in Senders |->
                  IF s \in Late THEN [After[s] EXCEPT !.active = FALSE, !.reported = TRUE]
                  ELSE After[s]]
           /\ running' \in BOOLEAN /\ paused' \in BOOLEAN
           /\ outbox' \in Seq(Result) /\ NotAhead(outbox', round)
           /\ \A s \in Senders :
                /\ OneIn(outbox', s, round)
                /\ SomeIn(outbox', s, round) <=> s \in Done \union Late
           /\ \A x : Contains(outbox', x) =>
                \/ \E s \in Done : x = Finals[s]
                \/ \E s \in Late : x = Timeouts[s]
<1> DEFINE final == {ResultOf(s, After[s], FinalStatus(After[s])) : s \in Done}
           timeouts == {ResultOf(s, After[s], "VerificationTimeout") : s \in Late}
<1>1. /\ state' = [s \in Senders |->
            IF s \in Late THEN [After[s] EXCEPT !.active = FALSE, !.reported = TRUE]
            ELSE After[s]]
      /\ running' \in BOOLEAN /\ paused' \in BOOLEAN
      /\ \E f \in SetToSeqs(final), t \in SetToSeqs(timeouts) : outbox' = f \o t
 <2> DEFINE Step(after) ==
       LET done  == {s \in Senders : Live(state[s]) /\ ~Live(after[s])}
           late  == {s \in Senders : TimedOut(after[s])}
           ended == {ResultOf(s, after[s], FinalStatus(after[s])) : s \in done}
           timedOut == {ResultOf(s, after[s], "VerificationTimeout") : s \in late}
       IN  /\ state' = [s \in Senders |->
                  IF s \in late
                  THEN [after[s] EXCEPT !.active = FALSE, !.reported = TRUE]
                  ELSE after[s]]
           /\ paused' = \E s \in Senders : AtPause(after[s])
           /\ running' = \E s \in Senders : after[s].active /\ s \notin late
           /\ \E f \in SetToSeqs(ended), t \in SetToSeqs(timedOut) : outbox' = f \o t
 <2>1. \E after \in {After} : Step(after)  BY Zenon DEF WorkerTurn, After
 <2> HIDE DEF Step
 <2>2. Step(After)  BY <2>1, Zenon
 <2> USE DEF Step
 <2>3. running' \in BOOLEAN /\ paused' \in BOOLEAN  BY <2>2, Zenon
 <2> QED BY <2>2, <2>3, Zenon DEF Done, Late
<1>2. PICK f \in SetToSeqs(final), t \in SetToSeqs(timeouts) : outbox' = f \o t
  BY <1>1
<1>3. \A s \in Senders : After[s] \in ReceiverState
  BY AfterType
<1>4. /\ Finals \in [Done -> Result]
      /\ \A s \in Done : Finals[s].sender = s /\ Finals[s].round = round
  BY <1>3, ResultType, FinalStatusType DEF Finals, Done, TypeOK
<1>5. /\ Timeouts \in [Late -> Result]
      /\ \A s \in Late : Timeouts[s].sender = s /\ Timeouts[s].round = round
  BY <1>3, ResultType DEF Timeouts, Late, TypeOK, ResultStatus
<1>6. Done \in SUBSET Senders /\ Late \in SUBSET Senders /\ round \in Nat
  BY DEF Done, Late, TypeOK
<1>7. final = {Finals[s] : s \in Done} /\ timeouts = {Timeouts[s] : s \in Late}
  BY DEF Finals, Timeouts
<1> HIDE DEF final, timeouts
<1>8. /\ f \in Seq(Result) /\ NotAhead(f, round)
      /\ \A s : OneIn(f, s, round) /\ (SomeIn(f, s, round) <=> s \in Done)
      /\ \A x : Contains(f, x) => \E s \in Done : x = Finals[s]
  BY <1>2, <1>4, <1>6, <1>7, OrderOfResults
<1>9. /\ t \in Seq(Result) /\ NotAhead(t, round)
      /\ \A s : OneIn(t, s, round) /\ (SomeIn(t, s, round) <=> s \in Late)
      /\ \A x : Contains(t, x) => \E s \in Late : x = Timeouts[s]
  BY <1>2, <1>5, <1>6, <1>7, OrderOfResults
<1>10. \A s \in Senders : ~(s \in Done /\ s \in Late)
  BY DEF Done, Late, TimedOut
<1> QED BY <1>1, <1>2, <1>8, <1>9, <1>10, ConcatResults

-----------------------------------------------------------------------------
(* Every step keeps the invariant.                                         *)

LEMMA InitInv == Init => IInv
<1> SUFFICES ASSUME Init PROVE IInv
  OBVIOUS
<1>1. <<>> \in Seq(Segment) /\ <<>> \in Seq(Datagram) /\ Len(<<>>) = 0
  BY EmptySeq
<1>2. FreshState(FALSE, <<>>) \in ReceiverState
  BY <1>1, FreshStateType
<1>3. TypeOK
 <2>1. QueueLimit \in Nat \ {0}  BY ReceiverParameters
 <2>2. state \in [Senders -> ReceiverState]  BY <1>2 DEF Init
 <2>3. /\ mapping \in [Senders -> Nat] /\ blemished \in [Senders -> BOOLEAN]
       /\ firstKey \in [Senders -> [ChainKeys -> Nat]]
  BY DEF Init, NothingSeen
 <2>4. outbox \in Seq(Result) /\ delivered \in Seq(Result)  BY NothingIn DEF Init
 <2>5. queue \in Seq(Datagram) /\ Len(queue) <= QueueLimit  BY <1>1, <2>1 DEF Init
 <2> QED BY <2>2, <2>3, <2>4, <2>5 DEF Init, TypeOK
<1>4. OneInv
  BY NothingIn DEF Init, OneInv, FreshState, Live
<1> QED BY <1>3, <1>4 DEF IInv

LEMMA WorkerTurnInv ==
    ASSUME IInv, WorkerTurn
    PROVE  IInv'
<1> USE DEF IInv
<1>1. After \in [Senders -> ReceiverState]
  BY AfterType
<1>2. \A s \in Senders : [After[s] EXCEPT !.active = FALSE, !.reported = TRUE] \in ReceiverState
  BY <1>1 DEF ReceiverState
<1>3. state' \in [Senders -> ReceiverState]
  BY <1>1, <1>2, TurnReports
<1>4. queue' \in Seq(Datagram) /\ Len(queue') <= QueueLimit
 <2>1. CASE queue = <<>>  BY <2>1 DEF WorkerTurn, TypeOK
 <2>2. CASE queue # <<>>
  <3>1. queue' = Tail(queue)  BY <2>2 DEF WorkerTurn
  <3>2. Tail(queue) \in Seq(Datagram) /\ Len(Tail(queue)) = Len(queue) - 1
  BY <2>2, HeadTailProperties DEF TypeOK
  <3>3. Len(queue) \in Nat  BY LenProperties DEF TypeOK
  <3> QED BY <3>1, <3>2, <3>3, ReceiverParameters DEF TypeOK
 <2> QED BY <2>1, <2>2
<1>5. UNCHANGED <<now, configured, mapping, delivered, round, arrivals, commands,
                  firstKey, blemished>>
  BY DEF WorkerTurn
<1>6. outbox = <<>>
  BY DEF WorkerTurn
<1>7. TypeOK'
  BY <1>3, <1>4, <1>5, TurnReports DEF TypeOK
<1>8. ASSUME NEW s \in Senders
      PROVE  /\ s \in Done \union Late => Live(state[s]) /\ ~Live(state'[s])
             /\ s \notin Done \union Late => Live(state'[s]) = Live(state[s])
             /\ s \notin Done \union Late /\ state'[s].reported => state[s].reported
 <2>1. After[s] \in ReceiverState /\ state[s] \in ReceiverState  BY <1>1 DEF TypeOK
 <2>2. ~Live(state[s]) => After[s] = state[s]  BY AfterType
 <2>3. CASE s \in Late
  <3>1. state'[s] = [After[s] EXCEPT !.active = FALSE, !.reported = TRUE]  BY <2>3, TurnReports
  <3>2. Live(After[s])  BY <2>3 DEF Late, TimedOut
  <3>3. ~Live(state'[s])  BY <2>1, <3>1 DEF Live, ReceiverState
  <3> QED BY <2>2, <2>3, <3>2, <3>3
 <2>4. CASE s \notin Late
  <3>1. state'[s] = After[s]  BY <2>4, TurnReports
  <3>2. s \in Done <=> Live(state[s]) /\ ~Live(After[s])  BY DEF Done
  <3>3. s \notin Done => Live(After[s]) = Live(state[s])
  BY <2>1, <2>2, <3>2 DEF Live, ReceiverState
  <3>4. s \notin Done /\ After[s].reported => state[s].reported
  BY <2>1, <2>2, <3>2 DEF Live, ReceiverState
  <3> QED BY <2>4, <3>1, <3>2, <3>3, <3>4
 <2> QED BY <2>3, <2>4
<1>9. \A s \in Senders : ~SomeIn(outbox, s, round)
  BY <1>6, NothingIn
<1>10. OneInv'
 <2>1. NotAhead(delivered', round') /\ NotAhead(outbox', round')  BY <1>5, TurnReports DEF OneInv
 <2>2. ASSUME NEW s \in Senders
       PROVE  /\ OneIn(delivered', s, round') /\ OneIn(outbox', s, round')
              /\ ~(SomeIn(delivered', s, round') /\ SomeIn(outbox', s, round'))
              /\ state'[s].reported => SomeIn(delivered', s, round') \/ SomeIn(outbox', s, round')
              /\ Live(state'[s]) => ~SomeIn(delivered', s, round') /\ ~SomeIn(outbox', s, round')
  <3>1. /\ OneIn(outbox', s, round)
        /\ SomeIn(outbox', s, round) <=> s \in Done \union Late
  BY TurnReports
  <3>2. /\ OneIn(delivered, s, round)
        /\ state[s].reported => SomeIn(delivered, s, round)
        /\ Live(state[s]) => ~SomeIn(delivered, s, round)
  BY <1>9 DEF OneInv
  <3> QED BY <1>5, <1>8, <3>1, <3>2
 <2> QED BY <2>1, <2>2 DEF OneInv
<1> QED BY <1>7, <1>10

LEMMA EmitResultsInv ==
    ASSUME IInv, EmitResults
    PROVE  IInv'
<1> USE DEF IInv
<1>1. delivered \in Seq(Result) /\ outbox \in Seq(Result)
  BY DEF TypeOK
<1>2. delivered' = delivered \o outbox /\ outbox' = <<>> /\ state' = state /\ round' = round
  BY DEF EmitResults
<1>3. TypeOK'
  BY <1>1, <1>2, NothingIn, ConcatResults DEF EmitResults, TypeOK
<1>4. OneInv'
 <2>1. NotAhead(delivered', round') /\ NotAhead(outbox', round')
  BY <1>1, <1>2, NothingIn, ConcatResults DEF OneInv
 <2>2. ASSUME NEW s \in Senders
       PROVE  /\ OneIn(delivered', s, round')
              /\ SomeIn(delivered', s, round') <=>
                   SomeIn(delivered, s, round) \/ SomeIn(outbox, s, round)
              /\ OneIn(outbox', s, round') /\ ~SomeIn(outbox', s, round')
  BY <1>1, <1>2, NothingIn, ConcatResults DEF OneInv
 <2> QED BY <1>2, <2>1, <2>2 DEF OneInv
<1> QED BY <1>3, <1>4

\* stop() and configure(): what they report, and what they leave of a context.
LEMMA StopRoundInv ==
    ASSUME IInv, NEW report \in BOOLEAN, StopRound(report),
           configured' \in BOOLEAN, state' \in [Senders -> ReceiverState],
           UNCHANGED <<now, outbox, round, arrivals, commands, firstKey, blemished>>,
           \A s \in Senders : /\ ~Live(state'[s])
                              /\ state'[s].reported =>
                                   state[s].reported \/ (report /\ Live(state[s]))
    PROVE  IInv'
<1> USE DEF IInv
<1>1. PICK order \in Seq(Result) :
        /\ delivered' = delivered \o order
        /\ NotAhead(order, round)
        /\ \A s \in Senders : /\ OneIn(order, s, round)
                              /\ SomeIn(order, s, round) <=> report /\ Live(state[s])
  BY StopRoundReports
<1>2. delivered \in Seq(Result) /\ outbox \in Seq(Result)
  BY DEF TypeOK
<1>3. TypeOK'
 <2>1. queue' \in Seq(Datagram) /\ Len(queue') <= QueueLimit
  BY EmptySeq, ReceiverParameters DEF StopRound
 <2>2. running' \in BOOLEAN /\ paused' \in BOOLEAN /\ mapping' \in [Senders -> Nat]
  BY DEF StopRound
 <2>3. delivered' \in Seq(Result)  BY <1>1, <1>2, ConcatResults
 <2> QED BY <2>1, <2>2, <2>3 DEF TypeOK
<1>4. NotAhead(delivered', round') /\ NotAhead(outbox', round')
  BY <1>1, <1>2, ConcatResults DEF OneInv
<1>5. ASSUME NEW s \in Senders
      PROVE  /\ OneIn(delivered', s, round') /\ OneIn(outbox', s, round')
             /\ ~(SomeIn(delivered', s, round') /\ SomeIn(outbox', s, round'))
             /\ state'[s].reported => SomeIn(delivered', s, round') \/ SomeIn(outbox', s, round')
 <2>1. /\ OneIn(delivered, s, round) /\ OneIn(outbox, s, round)
       /\ ~(SomeIn(delivered, s, round) /\ SomeIn(outbox, s, round))
       /\ state[s].reported => SomeIn(delivered, s, round) \/ SomeIn(outbox, s, round)
       /\ Live(state[s]) => ~SomeIn(delivered, s, round) /\ ~SomeIn(outbox, s, round)
  BY DEF OneInv
 <2>2. /\ SomeIn(delivered', s, round) <=> SomeIn(delivered, s, round) \/ SomeIn(order, s, round)
       /\ ~(SomeIn(delivered, s, round) /\ SomeIn(order, s, round)) => OneIn(delivered', s, round)
  <3>1. /\ SomeIn(delivered \o order, s, round) <=>
             SomeIn(delivered, s, round) \/ SomeIn(order, s, round)
        /\ OneIn(delivered, s, round) /\ OneIn(order, s, round)
            /\ ~(SomeIn(delivered, s, round) /\ SomeIn(order, s, round))
            => OneIn(delivered \o order, s, round)
  BY <1>2, ConcatResults
  <3> QED BY <1>1, <2>1, <3>1, Zenon
 <2>3. SomeIn(order, s, round) <=> report /\ Live(state[s])  BY <1>1, Zenon
 <2>4. state'[s].reported => state[s].reported \/ (report /\ Live(state[s]))  OBVIOUS
 <2>5. round' = round /\ outbox' = outbox  OBVIOUS
 <2> QED BY <2>1, <2>2, <2>3, <2>4, <2>5, Zenon
<1>6. OneInv'
  BY <1>4, <1>5 DEF OneInv
<1> QED BY <1>3, <1>6

LEMMA StopInv ==
    ASSUME IInv, Stop
    PROVE  IInv'
<1>1. \A s \in Senders : state[s] \in ReceiverState
  BY DEF IInv, TypeOK
<1>2. \A s \in Senders : state'[s] =
        [state[s] EXCEPT !.active = FALSE, !.reported = @ \/ Live(state[s])]
  BY DEF Stop
<1>3. \A s \in Senders : /\ ~state'[s].active
                         /\ state'[s].reported = (state[s].reported \/ Live(state[s]))
                         /\ state'[s] \in ReceiverState
 <2> SUFFICES ASSUME NEW s \in Senders
              PROVE  /\ ~state'[s].active
                     /\ state'[s].reported = (state[s].reported \/ Live(state[s]))
                     /\ state'[s] \in ReceiverState
  OBVIOUS
 <2> DEFINE v == state[s].reported \/ Live(state[s])
 <2>1. v \in BOOLEAN  BY Zenon
 <2>2. state'[s] = [state[s] EXCEPT !.active = FALSE, !.reported = v]  BY <1>2
 <2> HIDE DEF v
 <2>3. ~state'[s].active /\ state'[s].reported = v /\ state'[s] \in ReceiverState
  BY <1>1, <2>1, <2>2 DEF ReceiverState
 <2> QED BY <2>3 DEF v
<1>4. state' \in [Senders -> ReceiverState]
  BY <1>3 DEF Stop
<1>5. \A s \in Senders : /\ ~Live(state'[s])
                         /\ state'[s].reported => state[s].reported \/ (TRUE /\ Live(state[s]))
  BY <1>3 DEF Live
<1>6. configured' \in BOOLEAN
  BY DEF Stop, IInv, TypeOK
<1>7. StopRound(TRUE) /\ UNCHANGED <<now, outbox, round, arrivals, commands, firstKey, blemished>>
  BY DEF Stop
<1> QED BY <1>4, <1>5, <1>6, <1>7, StopRoundInv

LEMMA ConfigureInv ==
    ASSUME IInv, Configure
    PROVE  IInv'
<1>1. <<>> \in Seq(Segment)
  BY EmptySeq
<1>2. FreshState(FALSE, <<>>) \in ReceiverState /\ ~FreshState(FALSE, <<>>).active
      /\ ~FreshState(FALSE, <<>>).reported
  BY <1>1, FreshStateType DEF FreshState
<1>3. \A s \in Senders : state[s] \in ReceiverState
  BY DEF IInv, TypeOK
<1>4. /\ configured' \in BOOLEAN /\ state' \in [Senders -> ReceiverState]
      /\ \A s \in Senders : ~state'[s].active /\ (state'[s].reported => state[s].reported)
 <2>1. CASE configured' = TRUE /\ state' = [s \in Senders |-> FreshState(FALSE, <<>>)]
  BY <1>2, <2>1
 <2>2. CASE /\ state' = [s \in Senders |-> [state[s] EXCEPT !.active = FALSE]]
            /\ UNCHANGED configured
  <3>1. \A s \in Senders : /\ [state[s] EXCEPT !.active = FALSE] \in ReceiverState
                           /\ ~[state[s] EXCEPT !.active = FALSE].active
                           /\ [state[s] EXCEPT !.active = FALSE].reported = state[s].reported
  BY <1>3 DEF ReceiverState
  <3> QED BY <2>2, <3>1 DEF IInv, TypeOK
 <2> QED BY <2>1, <2>2 DEF Configure
<1>5. \A s \in Senders : /\ ~Live(state'[s])
                         /\ state'[s].reported => state[s].reported \/ (FALSE /\ Live(state[s]))
  BY <1>4 DEF Live
<1>6. StopRound(FALSE) /\ UNCHANGED <<now, outbox, round, arrivals, commands, firstKey, blemished>>
  BY DEF Configure
<1> QED BY <1>4, <1>5, <1>6, StopRoundInv

\* A new round has no results yet, wherever those of earlier rounds are.
LEMMA StartInv ==
    ASSUME IInv, NEW ts \in CallTimes, Start(ts)
    PROVE  IInv'
<1> USE DEF IInv
<1> DEFINE timeline == <<[first |-> 1, start |-> ts]>>
<1>1. timeline \in Seq(Segment)
 <2>1. ts \in Nat /\ 1 \in 1 .. LastInterval + 1  BY ReceiverParameters, LastIntervalType
 <2>2. [first |-> 1, start |-> ts] \in Segment  BY <2>1 DEF Segment
 <2> QED BY <2>2
<1> HIDE DEF timeline
<1>2. FreshState(TRUE, timeline) \in ReceiverState
  BY <1>1, FreshStateType
<1>3. /\ state' = [s \in Senders |-> FreshState(TRUE, timeline)]
      /\ round' = round + 1 /\ round \in Nat
      /\ delivered' = delivered /\ outbox' = outbox
      /\ delivered \in Seq(Result) /\ outbox \in Seq(Result)
  BY DEF Start, TypeOK, timeline
<1>4. TypeOK'
 <2>1. state' \in [Senders -> ReceiverState]  BY <1>2, <1>3
 <2>2. firstKey' \in [Senders -> [ChainKeys -> Nat]] /\ blemished' \in [Senders -> BOOLEAN]
  BY DEF Start, NothingSeen
 <2>3. /\ running' \in BOOLEAN /\ paused' \in BOOLEAN
       /\ arrivals' \in Nat /\ commands' \in Nat
  BY DEF Start
 <2>4. UNCHANGED <<now, configured, queue, mapping>>  BY DEF Start
 <2>5. /\ now' \in Nat /\ configured' \in BOOLEAN /\ mapping' \in [Senders -> Nat]
       /\ queue' \in Seq(Datagram) /\ Len(queue') <= QueueLimit
  BY <2>4 DEF TypeOK
 <2>6. round' \in Nat /\ delivered' \in Seq(Result) /\ outbox' \in Seq(Result)  BY <1>3
 <2> QED BY <2>1, <2>2, <2>3, <2>5, <2>6 DEF TypeOK
<1>5. ASSUME NEW q \in Seq(Result), NotAhead(q, round), NEW s
      PROVE  /\ NotAhead(q, round + 1)
             /\ OneIn(q, s, round + 1) /\ ~SomeIn(q, s, round + 1)
 <2>1. \A k \in 1 .. Len(q) : q[k].round \in Nat /\ q[k].round <= round
  <3>1. \A k \in 1 .. Len(q) : q[k] \in Result  BY <1>5
  <3> QED BY <1>5, <3>1 DEF NotAhead, Result
 <2> QED BY <1>3, <2>1 DEF NotAhead, OneIn, SomeIn, IssuedIn
<1>6. \A s \in Senders : ~state'[s].reported
  BY <1>3 DEF FreshState
<1>7. OneInv'
  BY <1>3, <1>5, <1>6 DEF OneInv
<1> QED BY <1>4, <1>7

\* A command leaves each context at work, or not, as it was.
LEMMA CommandInv ==
    ASSUME IInv, running' \in BOOLEAN, paused' \in BOOLEAN, commands' \in Nat,
           state' \in [Senders -> ReceiverState],
           \A s \in Senders : /\ state'[s].active = state[s].active
                              /\ state'[s].reported = state[s].reported,
           UNCHANGED <<now, configured, queue, mapping, outbox, delivered, round,
                       arrivals, firstKey, blemished>>
    PROVE  IInv'
<1>1. TypeOK'
  BY DEF IInv, TypeOK
<1>2. OneInv'
  BY DEF IInv, OneInv, Live
<1> QED BY <1>1, <1>2 DEF IInv

LEMMA RequestPauseInv ==
    ASSUME IInv, NEW i \in Intervals, NEW ts \in CallTimes, RequestPause(i, ts)
    PROVE  IInv'
<1>1. \A s \in Senders : state[s] \in ReceiverState
  BY DEF IInv, TypeOK
<1>2. i \in 0 .. LastInterval /\ ts \in Nat
  BY ReceiverParameters, LastIntervalType DEF Intervals
<1>3. \A s \in Senders :
        LET st == [state[s] EXCEPT !.pauseAfter = i, !.pauseTs = ts]
        IN  st \in ReceiverState /\ st.active = state[s].active /\ st.reported = state[s].reported
  BY <1>1, <1>2 DEF ReceiverState
<1>4. /\ state' \in [Senders -> ReceiverState]
      /\ \A s \in Senders : /\ state'[s].active = state[s].active
                            /\ state'[s].reported = state[s].reported
  BY <1>1, <1>3 DEF RequestPause
<1>5. running' \in BOOLEAN /\ paused' \in BOOLEAN /\ commands' \in Nat
 <2>1. running' = running /\ paused' = paused /\ commands' = commands + 1  BY DEF RequestPause
 <2> QED BY <2>1 DEF IInv, TypeOK
<1> QED BY <1>4, <1>5, CommandInv DEF RequestPause

LEMMA ResumeInv ==
    ASSUME IInv, NEW i \in Intervals, NEW ts \in CallTimes, Resume(i, ts)
    PROVE  IInv'
<1>1. \A s \in Senders : state[s] \in ReceiverState
  BY DEF IInv, TypeOK
<1>2. [first |-> i, start |-> ts] \in Segment
  BY ReceiverParameters, LastIntervalType DEF Intervals, Segment
<1>3. \A s \in Senders : Append(state[s].timeline, [first |-> i, start |-> ts]) \in Seq(Segment)
 <2>1. \A s \in Senders : state[s].timeline \in Seq(Segment)  BY <1>1 DEF ReceiverState
 <2> QED BY <1>2, <2>1, AppendProperties
<1>4. \A s \in Senders :
        LET st == [state[s] EXCEPT !.timeline = Append(@, [first |-> i, start |-> ts])]
        IN  st \in ReceiverState /\ st.active = state[s].active /\ st.reported = state[s].reported
  BY <1>1, <1>3 DEF ReceiverState
<1>5. /\ state' \in [Senders -> ReceiverState]
      /\ \A s \in Senders : /\ state'[s].active = state[s].active
                            /\ state'[s].reported = state[s].reported
  BY <1>1, <1>4 DEF Resume
<1>6. running' \in BOOLEAN /\ paused' \in BOOLEAN /\ commands' \in Nat
 <2>1. running' = running /\ commands' = commands + 1  BY DEF Resume
 <2>2. paused' \in BOOLEAN  BY Zenon DEF Resume
 <2> QED BY <2>1, <2>2 DEF IInv, TypeOK
<1> QED BY <1>5, <1>6, CommandInv DEF Resume

LEMMA ReceiveInv ==
    ASSUME IInv, NEW dg \in Datagram, Receive(dg)
    PROVE  IInv'
<1>1. queue \in Seq(Datagram) /\ Len(queue) \in Nat /\ QueueLimit \in Nat
  BY ReceiverParameters, LenProperties DEF IInv, TypeOK
<1>2. queue' \in Seq(Datagram) /\ Len(queue') <= QueueLimit
 <2>1. CASE queue' = queue  BY <2>1 DEF IInv, TypeOK
 <2>2. CASE HasRoom /\ queue' = Append(queue, dg)  BY <1>1, <2>2, AppendProperties DEF HasRoom
 <2> QED BY <2>1, <2>2 DEF Receive
<1>3. dg.at \in Nat /\ dg.sender \in Senders
  BY DEF Datagram
<1>4. firstKey' \in [Senders -> [ChainKeys -> Nat]]
 <2>1. firstKey \in [Senders -> [ChainKeys -> Nat]]  BY DEF IInv, TypeOK
 <2>2. [j \in ChainKeys |-> IF firstKey[dg.sender][j] = 0 /\ Discloses(dg, j)
                            THEN dg.at ELSE firstKey[dg.sender][j]] \in [ChainKeys -> Nat]
  BY <1>3, <2>1
 <2> QED BY <2>1, <2>2 DEF Receive
<1>5. blemished' \in [Senders -> BOOLEAN]
 <2>1. (blemished[dg.sender] \/ Blemish(dg)) \in BOOLEAN  BY Zenon
 <2> QED BY <2>1 DEF Receive, IInv, TypeOK
<1>6. arrivals' \in Nat
  BY DEF Receive, IInv, TypeOK
<1>7. TypeOK'
  BY <1>2, <1>4, <1>5, <1>6 DEF Receive, IInv, TypeOK
<1>8. OneInv'
  BY DEF Receive, IInv, OneInv
<1> QED BY <1>7, <1>8 DEF IInv

LEMMA NetworkInv ==
    ASSUME IInv, Network
    PROVE  IInv'
<1>1. PICK s \in Senders, x \in AllDatagrams, content \in Contents,
           source \in {"normal", "attack"} :
        Receive([sender |-> s, interval |-> x[1], n |-> x[2], content |-> content,
                 source |-> source, at |-> now])
  BY DEF Network
<1>2. [sender |-> s, interval |-> x[1], n |-> x[2], content |-> content,
       source |-> source, at |-> now] \in Datagram
  BY DEF Datagram, AllDatagrams, IInv, TypeOK
<1> QED BY <1>1, <1>2, ReceiveInv

LEMMA QuietStepInv ==
    ASSUME IInv, mapping' \in [Senders -> Nat], now' \in Nat,
           UNCHANGED <<configured, running, paused, state, queue, outbox, delivered,
                       round, arrivals, commands, firstKey, blemished>>
    PROVE  IInv'
<1>1. TypeOK'
  BY DEF IInv, TypeOK
<1>2. OneInv'
  BY DEF IInv, OneInv
<1> QED BY <1>1, <1>2 DEF IInv

LEMMA MapAttackSourceInv ==
    ASSUME IInv, NEW s \in Senders, NEW expires \in Expiries, MapAttackSource(s, expires)
    PROVE  IInv'
<1>1. expires \in Nat
  BY ReceiverParameters
<1>2. mapping' \in [Senders -> Nat] /\ now' \in Nat
  BY <1>1 DEF MapAttackSource, IInv, TypeOK
<1> QED BY <1>2, QuietStepInv DEF MapAttackSource

LEMMA NextInv == IInv /\ [Next]_vars => IInv'
<1> SUFFICES ASSUME IInv, [Next]_vars PROVE IInv'
  OBVIOUS
<1>1. CASE WorkerTurn
  BY <1>1, WorkerTurnInv
<1>2. CASE EmitResults
  BY <1>2, EmitResultsInv
<1>3. CASE Network
  BY <1>3, NetworkInv
<1>4. CASE Control
 <2>1. CASE Configure  BY <2>1, ConfigureInv
 <2>2. CASE Stop  BY <2>2, StopInv
 <2>3. CASE \E ts \in CallTimes : Start(ts)  BY <2>3, StartInv
 <2>4. CASE \E i \in Intervals, ts \in CallTimes : RequestPause(i, ts)  BY <2>4, RequestPauseInv
 <2>5. CASE \E i \in Intervals, ts \in CallTimes : Resume(i, ts)  BY <2>5, ResumeInv
 <2>6. CASE \E s \in Senders, expires \in Expiries : MapAttackSource(s, expires)
  BY <2>6, MapAttackSourceInv
 <2> QED BY <1>4, <2>1, <2>2, <2>3, <2>4, <2>5, <2>6 DEF Control
<1>5. CASE Tick
  BY <1>5, QuietStepInv DEF Tick, IInv, TypeOK
<1>6. CASE UNCHANGED vars
  BY <1>6, QuietStepInv DEF IInv, TypeOK
<1> QED BY <1>1, <1>2, <1>3, <1>4, <1>5, <1>6 DEF Next, Worker

\* One list or the other: the results of a context in the whole.
LEMMA OneInvSuffices == IInv => OneResultPerRound
<1> SUFFICES ASSUME IInv, NEW s \in Senders
             PROVE  /\ Cardinality(ResultsOf(s)) <= 1
                    /\ state[s].reported => ResultsOf(s) # {}
                    /\ Live(state[s]) => ResultsOf(s) = {}
  BY DEF OneResultPerRound
<1> USE DEF IInv
<1>1. ResultsOf(s) = IssuedIn(delivered \o outbox, s, round)
  BY DEF ResultsOf, IssuedIn
<1>2. delivered \in Seq(Result) /\ outbox \in Seq(Result)
  BY DEF TypeOK
<1>3. /\ SomeIn(delivered \o outbox, s, round) <=>
           SomeIn(delivered, s, round) \/ SomeIn(outbox, s, round)
      /\ OneIn(delivered \o outbox, s, round)
  BY <1>2, ConcatResults DEF OneInv
<1>4. ResultsOf(s) # {} <=> SomeIn(delivered, s, round) \/ SomeIn(outbox, s, round)
  BY <1>1, <1>3 DEF SomeIn
<1>5. Cardinality(ResultsOf(s)) <= 1
 <2>1. CASE ResultsOf(s) = {}  BY <2>1, FS_EmptySet
 <2>2. CASE ResultsOf(s) # {}
  <3>1. PICK k : ResultsOf(s) = {k}  BY <1>1, <1>3, <2>2 DEF OneIn
  <3> QED BY <3>1, FS_Singleton
 <2> QED BY <2>1, <2>2
<1> QED BY <1>4, <1>5 DEF OneInv

-----------------------------------------------------------------------------
(* The timeline of a context.                                              *)

\* The largest member of a set of positions.
LEMMA MaxOfPositions ==
    ASSUME NEW n \in Nat, NEW S \in SUBSET (1 .. n), S # {}
    PROVE  Max(S) \in S /\ \A y \in S : y <= Max(S)
<1> DEFINE T == {m \in Nat : n - m \in S}
<1>1. T # {}
 <2>1. PICK x \in S : TRUE  OBVIOUS
 <2>2. n - x \in Nat /\ n - (n - x) = x  OBVIOUS
 <2> QED BY <2>1, <2>2
<1>2. PICK m \in T : \A y \in T : m <= y
  BY <1>1, LeastNat
<1>3. \A y \in S : n - y \in T
  OBVIOUS
<1>4. n - m \in S /\ \A y \in S : n - m >= y
  BY <1>2, <1>3
<1>5. Max(S) \in S /\ \A y \in S : Max(S) >= y
  BY <1>4 DEF Max
<1> QED BY <1>5

LEMMA Times ==
    ASSUME NEW a \in Int, NEW b \in Int
    PROVE  /\ a * IntervalLength \in Int
           /\ (a - b) * IntervalLength = a * IntervalLength - b * IntervalLength
           /\ a <= b => a * IntervalLength <= b * IntervalLength
  BY TimelineParameters, SMT

\* Segments follow each other, each no earlier than the one before runs out; the
\* first one lies so late that no clock starts ahead of it.
Follows(a, b) ==
    a.first < b.first /\ b.start >= a.start + (b.first - a.first) * IntervalLength

Formed(tl) ==
    /\ tl # <<>> /\ tl[1].first = 1 /\ tl[1].start > Tolerance
    /\ \A k, m \in 1 .. Len(tl) : k < m => Follows(tl[k], tl[m])

StartIn(st, i) == IntervalStartAt(st.timeline, st.pauseAfter, i)

\* A pause is open, or the last segment is the one that ended it.
PauseFits(st) ==
    LET last == st.timeline[Len(st.timeline)] IN
    st.pauseAfter # NoInterval =>
        \/ last.first = st.pauseAfter + 1
        \/ /\ last.first <= st.pauseAfter
           /\ st.pauseTs = last.start + ((st.pauseAfter + 1) - last.first) * IntervalLength

\* The segment of interval i, by its position.
SegmentAt(tl, i) == Max(Reaching(tl, i))

LEMMA SegmentTypes ==
    ASSUME NEW tl \in Seq(Segment), NEW k \in 1 .. Len(tl)
    PROVE  tl[k].first \in Nat \ {0} /\ tl[k].start \in Nat /\ Len(tl) \in Nat
<1>1. tl[k] \in Segment
  OBVIOUS
<1> QED BY <1>1, LastIntervalType, LenProperties DEF Segment

LEMMA SegmentPlace ==
    ASSUME NEW tl \in Seq(Segment), Formed(tl), NEW i \in Nat \ {0}
    PROVE  /\ Reaching(tl, i) # {}
           /\ SegmentAt(tl, i) \in 1 .. Len(tl)
           /\ tl[SegmentAt(tl, i)].first <= i
           /\ \A k \in 1 .. Len(tl) : k > SegmentAt(tl, i) => tl[k].first > i
<1> DEFINE S == Reaching(tl, i)
<1>1. Len(tl) \in Nat /\ Len(tl) # 0
  BY EmptySeq, LenProperties DEF Formed
<1>2. \A k \in 1 .. Len(tl) : tl[k].first \in Nat
  BY SegmentTypes
<1>3. 1 \in S
  BY <1>1 DEF Reaching, Formed
<1>4. S \in SUBSET (1 .. Len(tl))
  BY DEF Reaching
<1>5. Max(S) \in S /\ \A y \in S : y <= Max(S)
  BY <1>1, <1>3, <1>4, MaxOfPositions
<1>6. \A k \in 1 .. Len(tl) : tl[k].first <= i => k \in S
 <2> SUFFICES ASSUME NEW k \in 1 .. Len(tl), tl[k].first <= i, NEW m \in 1 .. k
              PROVE  tl[m].first <= i
  BY DEF Reaching
 <2>1. m \in 1 .. Len(tl) /\ (m = k \/ m < k)  BY <1>1
 <2>2. tl[m].first \in Nat /\ tl[k].first \in Nat  BY <1>2, <2>1
 <2>3. m < k => tl[m].first < tl[k].first  BY <2>1 DEF Formed, Follows
 <2> QED BY <2>1, <2>2, <2>3
<1>7. \A k \in 1 .. Len(tl) : k \in S => tl[k].first <= i
  BY DEF Reaching
<1> HIDE DEF S
<1>8. Max(S) \in 1 .. Len(tl) /\ tl[Max(S)].first <= i
  BY <1>4, <1>5, <1>7
<1>9. \A k \in 1 .. Len(tl) : k > Max(S) => tl[k].first > i
 <2> SUFFICES ASSUME NEW k \in 1 .. Len(tl), k > Max(S), ~(tl[k].first > i)
              PROVE  FALSE
  OBVIOUS
 <2> DEFINE x == Max(S)
 <2>1. x \in Int /\ k \in Int /\ tl[k].first \in Nat  BY <1>1, <1>2, <1>8
 <2>2. k \in S  BY <1>6, <2>1
 <2>3. k <= x /\ k > x  BY <1>5, <2>2
 <2> HIDE DEF x
 <2> QED BY <2>1, <2>3
<1> QED BY <1>3, <1>8, <1>9 DEF SegmentAt, S

\* There is one such segment.
LEMMA SegmentUnique ==
    ASSUME NEW tl \in Seq(Segment), Formed(tl), NEW i \in Nat \ {0},
           NEW m \in 1 .. Len(tl), tl[m].first <= i,
           \A k \in 1 .. Len(tl) : k > m => tl[k].first > i
    PROVE  SegmentAt(tl, i) = m
<1> DEFINE n == SegmentAt(tl, i)
<1>1. n \in 1 .. Len(tl) /\ tl[n].first <= i
      /\ \A k \in 1 .. Len(tl) : k > n => tl[k].first > i
  BY SegmentPlace
<1>2. tl[m].first \in Nat /\ tl[n].first \in Nat
  BY <1>1, SegmentTypes
<1> HIDE DEF n
<1>3. ~(m > n) /\ ~(n > m)
  BY <1>1, <1>2
<1>4. n = m
  BY <1>1, <1>3
<1> QED BY <1>4 DEF n

\* The start of interval i in segment m, unless a pause is open before it.
OpenBefore(st, m, i) ==
    st.pauseAfter # NoInterval /\ i > st.pauseAfter /\ st.timeline[m].first <= st.pauseAfter

StartBy(st, m, i) ==
    st.timeline[m].start + (i - st.timeline[m].first) * IntervalLength

LEMMA StartFromSegment ==
    ASSUME NEW st \in ReceiverState, Formed(st.timeline), NEW i \in Nat \ {0}
    PROVE  LET m == SegmentAt(st.timeline, i) IN
           /\ m \in 1 .. Len(st.timeline)
           /\ st.timeline[m].first \in Nat \ {0} /\ st.timeline[m].start \in Nat
           /\ st.timeline[m].first <= i
           /\ OpenBefore(st, m, i) => StartIn(st, i) = Unknown
           /\ ~OpenBefore(st, m, i) => StartIn(st, i) = StartBy(st, m, i)
           /\ StartBy(st, m, i) \in Nat
           /\ st.pauseAfter \in Nat /\ st.pauseTs \in Nat
<1> DEFINE m == SegmentAt(st.timeline, i)
<1>1. st.timeline \in Seq(Segment)
  BY DEF ReceiverState
<1>2. m \in 1 .. Len(st.timeline) /\ st.timeline[m].first <= i /\ Reaching(st.timeline, i) # {}
  BY <1>1, SegmentPlace
<1>3. st.timeline[m].first \in Nat \ {0} /\ st.timeline[m].start \in Nat
  BY <1>1, <1>2, SegmentTypes
<1>4. /\ OpenBefore(st, m, i) => StartIn(st, i) = Unknown
      /\ ~OpenBefore(st, m, i) => StartIn(st, i) = StartBy(st, m, i)
  BY <1>2, Zenon DEF StartIn, IntervalStartAt, SegmentAt, OpenBefore, StartBy
<1>5. StartBy(st, m, i) \in Nat
 <2>1. i - st.timeline[m].first \in Nat  BY <1>2, <1>3
 <2>2. \A a \in Nat : a * IntervalLength \in Nat  BY TimelineParameters, SMT
 <2> QED BY <1>3, <2>1, <2>2 DEF StartBy
<1>6. st.pauseAfter \in Nat /\ st.pauseTs \in Nat
  BY LastIntervalType DEF ReceiverState
<1> QED BY <1>2, <1>3, <1>4, <1>5, <1>6

TimelineFits(st) == Formed(st.timeline) /\ PauseFits(st)

\* Intervals start in their order, as far as their starts are known.
LEMMA StartsInOrder ==
    ASSUME NEW st \in ReceiverState, TimelineFits(st),
           NEW i \in Nat \ {0}, NEW j \in Nat \ {0}, i <= j, StartIn(st, j) # Unknown
    PROVE  /\ StartIn(st, i) # Unknown /\ StartIn(st, i) \in Nat /\ StartIn(st, j) \in Nat
           /\ StartIn(st, i) <= StartIn(st, j)
<1> USE DEF TimelineFits
<1> DEFINE tl == st.timeline
           m == SegmentAt(tl, i)
           n == SegmentAt(tl, j)
           fm == tl[m].first
           sm == tl[m].start
           fn == tl[n].first
           sn == tl[n].start
           p == st.pauseAfter
           last == tl[Len(tl)].first
<1>1. /\ m \in 1 .. Len(tl) /\ fm \in Nat \ {0} /\ sm \in Nat /\ fm <= i
      /\ ~(p # NoInterval /\ i > p /\ fm <= p) =>
            StartIn(st, i) = sm + (i - fm) * IntervalLength
      /\ sm + (i - fm) * IntervalLength \in Nat /\ p \in Nat
  BY StartFromSegment DEF OpenBefore, StartBy
<1>2. /\ n \in 1 .. Len(tl) /\ fn \in Nat \ {0} /\ sn \in Nat /\ fn <= j
      /\ (p # NoInterval /\ j > p /\ fn <= p) => StartIn(st, j) = Unknown
      /\ ~(p # NoInterval /\ j > p /\ fn <= p) =>
            StartIn(st, j) = sn + (j - fn) * IntervalLength
      /\ sn + (j - fn) * IntervalLength \in Nat
  BY StartFromSegment DEF OpenBefore, StartBy
<1>3. tl \in Seq(Segment) /\ Len(tl) \in Nat
  BY LenProperties DEF ReceiverState
<1>4. \A k \in 1 .. Len(tl) : (k > m => tl[k].first > i) /\ (k > n => tl[k].first > j)
  BY <1>3, SegmentPlace
<1>5. m <= n
 <2> SUFFICES ASSUME m > n PROVE FALSE  BY <1>1, <1>2
 <2>1. fm > j  BY <1>1, <1>4
 <2> QED BY <1>1, <2>1
<1>6. m < n => fm < fn /\ sn >= sm + (fn - fm) * IntervalLength /\ i < fn
 <2>1. m < n => Follows(tl[m], tl[n])  BY <1>1, <1>2 DEF Formed
 <2>2. m < n => fn > i  BY <1>2, <1>4
 <2> QED BY <1>1, <1>2, <2>1, <2>2 DEF Follows
<1>7. p # NoInterval => last = p + 1 \/ last <= p
  BY DEF PauseFits
<1>8. fn <= last /\ last \in Nat
 <2>1. Len(tl) \in 1 .. Len(tl)  BY <1>2, <1>3
 <2>2. last \in Nat  BY <1>3, <2>1, SegmentTypes
 <2>3. n < Len(tl) => Follows(tl[n], tl[Len(tl)])  BY <1>2, <2>1 DEF Formed
 <2>4. n = Len(tl) \/ n < Len(tl)  BY <1>2, <1>3
 <2> QED BY <1>2, <2>2, <2>3, <2>4 DEF Follows
<1> HIDE DEF tl, m, n, fm, sm, fn, sn, p, last
<1>9. ~(p # NoInterval /\ j > p /\ fn <= p) /\ StartIn(st, j) = sn + (j - fn) * IntervalLength
  BY <1>2
<1>10. m = n => fm = fn /\ sm = sn
  BY DEF fm, sm, fn, sn
<1>11. ~(p # NoInterval /\ i > p /\ fm <= p)
 <2> SUFFICES ASSUME p # NoInterval, i > p, fm <= p PROVE FALSE  OBVIOUS
 <2>1. j > p /\ ~(fn <= p)  BY <1>1, <1>9
 <2>2. m < n  BY <1>1, <1>2, <1>5, <1>10, <2>1
 <2> QED BY <1>1, <1>2, <1>6, <1>7, <1>8, <2>1, <2>2
<1>12. StartIn(st, i) = sm + (i - fm) * IntervalLength
  BY <1>1, <1>11
<1>13. sm + (i - fm) * IntervalLength <= sn + (j - fn) * IntervalLength
 <2>1. CASE m = n
  <3>1. i - fm \in Int /\ j - fm \in Int /\ i - fm <= j - fm  BY <1>1
  <3>2. (i - fm) * IntervalLength <= (j - fm) * IntervalLength  BY <3>1, Times
  <3>3. fn = fm /\ sn = sm  BY <1>10, <2>1
  <3> DEFINE x == (i - fm) * IntervalLength
             y == (j - fm) * IntervalLength
  <3>4. x \in Int /\ y \in Int  BY <3>1, Times
  <3>5. x <= y  BY <3>2
  <3> HIDE DEF x, y
  <3>6. sm + x <= sm + y  BY <1>1, <3>4, <3>5
  <3> QED BY <3>3, <3>6 DEF x, y
 <2>2. CASE m < n
  <3> DEFINE x == i * IntervalLength
             y == j * IntervalLength
             a == fm * IntervalLength
             b == fn * IntervalLength
  <3>1. /\ (i - fm) * IntervalLength = x - a /\ (j - fn) * IntervalLength = y - b
        /\ (fn - fm) * IntervalLength = b - a
        /\ x <= y /\ x \in Int /\ y \in Int /\ a \in Int /\ b \in Int
   <4>1. fm \in Int /\ fn \in Int /\ i \in Int /\ j \in Int  BY <1>1, <1>2
   <4>2. (i - fm) * IntervalLength = x - a  BY <4>1, Times
   <4>3. (j - fn) * IntervalLength = y - b  BY <4>1, Times
   <4>4. (fn - fm) * IntervalLength = b - a  BY <4>1, Times
   <4>5. x <= y  BY <4>1, Times
   <4>6. x \in Int /\ y \in Int /\ a \in Int /\ b \in Int  BY <4>1, Times
   <4> QED BY <4>2, <4>3, <4>4, <4>5, <4>6
  <3> HIDE DEF x, y, a, b
  <3>2. sn >= sm + (b - a)  BY <1>6, <2>2, <3>1
  <3> QED BY <1>1, <1>2, <3>1, <3>2
 <2> QED BY <1>1, <1>2, <1>5, <2>1, <2>2
<1>14. sm + (i - fm) * IntervalLength \in Nat /\ sn + (j - fn) * IntervalLength \in Nat
  BY <1>1, <1>2
<1>15. Unknown \notin Nat
  BY DEF Unknown
<1> QED BY <1>9, <1>12, <1>13, <1>14, <1>15

-----------------------------------------------------------------------------
(* What has been reached: a command changes nothing about it.              *)

\* An interval is reached at time t when a clock that is ahead may show its start.
Reached(st, j, t) == StartIn(st, j) # Unknown /\ StartIn(st, j) <= t + Tolerance

LEMMA LastSegment ==
    ASSUME NEW st \in ReceiverState, TimelineFits(st)
    PROVE  LET n == Len(st.timeline) IN
           /\ n \in Nat \ {0} /\ n \in 1 .. n
           /\ st.timeline[n].first \in Nat \ {0} /\ st.timeline[n].start \in Nat
           /\ \A k \in 1 .. n : /\ st.timeline[k].first \in Nat \ {0}
                                /\ st.timeline[k].start \in Nat
                                /\ st.timeline[k].first <= st.timeline[n].first
<1> DEFINE tl == st.timeline
           n == Len(tl)
<1>1. tl \in Seq(Segment) /\ n \in Nat
  BY LenProperties DEF ReceiverState
<1>2. n # 0
  BY <1>1, EmptySeq DEF TimelineFits, Formed
<1>3. n \in 1 .. n
  BY <1>1, <1>2
<1>4. \A k \in 1 .. n : tl[k].first \in Nat \ {0} /\ tl[k].start \in Nat
  BY <1>1, SegmentTypes
<1>5. ASSUME NEW k \in 1 .. n PROVE tl[k].first <= tl[n].first
 <2>1. k < n => Follows(tl[k], tl[n])  BY <1>3 DEF TimelineFits, Formed
 <2>2. k = n \/ k < n  BY <1>1
 <2> QED BY <1>3, <1>4, <2>1, <2>2 DEF Follows
<1> QED BY <1>1, <1>2, <1>3, <1>4, <1>5

\* A pause that comes early enough changes nothing about what has been reached.
LEMMA PauseFreezes ==
    ASSUME NEW st \in ReceiverState, TimelineFits(st), NEW i \in Nat \ {0}, NEW ts \in Nat,
           NEW t0 \in Nat, StartIn(st, i + 1) = ts, t0 + Tolerance < ts,
           st.timeline[Len(st.timeline)].first <= i,
           NEW st2 \in ReceiverState, st2.timeline = st.timeline,
           st2.pauseAfter = i, st2.pauseTs = ts
    PROVE  /\ TimelineFits(st2)
           /\ \A j \in Nat \ {0}, t \in 0 .. t0 : Reached(st2, j, t) <=> Reached(st, j, t)
<1> DEFINE tl == st.timeline
           n == Len(tl)
<1>0. ts # Unknown /\ i + 1 \in Nat \ {0} /\ i # NoInterval /\ Tolerance \in Nat
  BY TimelineParameters DEF Unknown, NoInterval
<1>1. /\ n \in Nat \ {0} /\ n \in 1 .. n
      /\ tl[n].first \in Nat \ {0} /\ tl[n].start \in Nat
      /\ \A k \in 1 .. n : tl[k].first \in Nat \ {0} /\ tl[k].first <= tl[n].first
  BY LastSegment
<1>2. tl \in Seq(Segment)
  BY DEF ReceiverState
<1>3. SegmentAt(tl, i + 1) = n
 <2>1. tl[n].first <= i + 1 /\ \A k \in 1 .. Len(tl) : k > n => tl[k].first > i + 1  BY <1>1
 <2> QED BY <1>0, <1>1, <1>2, <2>1, SegmentUnique DEF TimelineFits
<1>4. ts = tl[n].start + ((i + 1) - tl[n].first) * IntervalLength
 <2>1. StartIn(st, i + 1) # Unknown  BY <1>0
 <2>2. StartIn(st, i + 1) = StartBy(st, n, i + 1)
  BY <1>0, <1>3, <2>1, StartFromSegment DEF TimelineFits
 <2> QED BY <2>2 DEF StartBy
<1>5. TimelineFits(st2)
 <2>1. Formed(st2.timeline)  BY DEF TimelineFits
 <2>2. PauseFits(st2)  BY <1>4 DEF PauseFits
 <2> QED BY <2>1, <2>2 DEF TimelineFits
<1>6. ASSUME NEW j \in Nat \ {0}, NEW t \in 0 .. t0
      PROVE  Reached(st2, j, t) <=> Reached(st, j, t)
 <2> DEFINE m == SegmentAt(tl, j)
 <2>1. /\ m \in 1 .. n /\ tl[m].first \in Nat \ {0}
       /\ StartIn(st, j) = Unknown \/ StartIn(st, j) = StartBy(st, m, j)
  BY StartFromSegment DEF TimelineFits
 <2>2. /\ OpenBefore(st2, m, j) => StartIn(st2, j) = Unknown
       /\ ~OpenBefore(st2, m, j) => StartIn(st2, j) = StartBy(st2, m, j)
       /\ StartBy(st2, m, j) = StartBy(st, m, j)
  BY <1>5, StartFromSegment DEF TimelineFits, StartBy
 <2>3. CASE j <= i
  <3>1. StartIn(st, j) # Unknown  BY <1>0, <2>3, StartsInOrder, j <= i + 1
  <3>2. ~OpenBefore(st2, m, j)  BY <2>3 DEF OpenBefore
  <3>3. StartIn(st2, j) = StartIn(st, j)  BY <2>1, <2>2, <3>1, <3>2
  <3> QED BY <3>3 DEF Reached
 <2>4. CASE j > i
  <3>1. StartIn(st2, j) = Unknown
   <4>1. tl[m].first <= i  BY <1>1, <2>1
   <4>2. OpenBefore(st2, m, j)  BY <1>0, <2>4, <4>1 DEF OpenBefore
   <4> QED BY <2>2, <4>2
  <3>2. StartIn(st, j) # Unknown => StartIn(st, j) \in Nat /\ ts <= StartIn(st, j)
   <4>1. i + 1 <= j  BY <2>4
   <4> QED BY <1>0, <4>1, StartsInOrder
  <3>3. ~(StartIn(st, j) # Unknown /\ StartIn(st, j) <= t + Tolerance)  BY <1>0, <3>2
  <3> QED BY <3>1, <3>3 DEF Reached
 <2> QED BY <2>3, <2>4
<1> QED BY <1>5, <1>6

\* Nor does the resume that ends it, as it lies in the future by the lead.
LEMMA ResumeFreezes ==
    ASSUME NEW st \in ReceiverState, TimelineFits(st), NEW i \in Nat \ {0}, NEW ts \in Nat,
           NEW t0 \in Nat, StartIn(st, i) = Unknown, Tolerance <= StartLead,
           st.pauseAfter # NoInterval, i = st.pauseAfter + 1, ts > st.pauseTs,
           ts > t0 + StartLead,
           NEW st2 \in ReceiverState, st2.pauseAfter = st.pauseAfter,
           st2.timeline = Append(st.timeline, [first |-> i, start |-> ts])
    PROVE  /\ TimelineFits(st2)
           /\ \A j \in Nat \ {0}, t \in 0 .. t0 : Reached(st2, j, t) <=> Reached(st, j, t)
<1> DEFINE tl == st.timeline
           tl2 == st2.timeline
           n == Len(tl)
           p == st.pauseAfter
<1>0. Tolerance \in Nat /\ StartLead \in Nat /\ Unknown \notin Nat
  BY TimelineParameters, ReceiverParameters DEF Unknown
<1>1. /\ n \in Nat \ {0} /\ n \in 1 .. n
      /\ tl[n].first \in Nat \ {0} /\ tl[n].start \in Nat
      /\ \A k \in 1 .. n : tl[k].first \in Nat \ {0} /\ tl[k].start \in Nat
                           /\ tl[k].first <= tl[n].first
  BY LastSegment
<1>2. tl \in Seq(Segment) /\ tl2 \in Seq(Segment) /\ p \in Nat /\ st.pauseTs \in Nat
  BY LastIntervalType DEF ReceiverState
<1>3. /\ Len(tl2) = n + 1 /\ tl2[n + 1] = [first |-> i, start |-> ts]
      /\ \A k \in 1 .. n : tl2[k] = tl[k]
 <2>1. tl2[n + 1] \in Segment /\ Len(tl2) = n + 1
  <3>1. Len(tl2) = n + 1  BY <1>2
  <3> QED BY <1>1, <1>2, <3>1
 <2> QED BY <1>1, <1>2, <2>1
<1>4. tl[n].first <= p
 <2>1. tl[n].first = p + 1 \/ tl[n].first <= p  BY DEF TimelineFits, PauseFits
 <2> SUFFICES ASSUME tl[n].first = p + 1 PROVE FALSE  BY <2>1
 <2>2. tl[n].first <= i /\ \A k \in 1 .. Len(tl) : k > n => tl[k].first > i  BY <1>1
 <2>3. SegmentAt(tl, i) = n  BY <1>1, <1>2, <2>2, SegmentUnique DEF TimelineFits
 <2>4. /\ ~OpenBefore(st, n, i) => StartIn(st, i) = StartBy(st, n, i)
       /\ StartBy(st, n, i) \in Nat
  BY <2>3, StartFromSegment DEF TimelineFits
 <2>5. ~OpenBefore(st, n, i)  BY <1>2 DEF OpenBefore
 <2> QED BY <1>0, <2>4, <2>5
<1>5. st.pauseTs = tl[n].start + (i - tl[n].first) * IntervalLength
 <2>1. tl[n].first # p + 1  BY <1>1, <1>2, <1>4
 <2> QED BY <2>1 DEF TimelineFits, PauseFits
<1>6. ASSUME NEW k \in 1 .. n
      PROVE  tl[k].first < i /\ ts >= tl[k].start + (i - tl[k].first) * IntervalLength
 <2> DEFINE x == i * IntervalLength
            a == tl[k].first * IntervalLength
            b == tl[n].first * IntervalLength
 <2>1. tl[k].first \in Int /\ tl[n].first \in Int /\ i \in Int  BY <1>1
 <2>2. (i - tl[n].first) * IntervalLength = x - b  BY <2>1, Times
 <2>3. (i - tl[k].first) * IntervalLength = x - a  BY <2>1, Times
 <2>4. (tl[n].first - tl[k].first) * IntervalLength = b - a  BY <2>1, Times
 <2>5. x \in Int /\ a \in Int /\ b \in Int  BY <2>1, Times
 <2>6. k = n \/ k < n  BY <1>1
 <2>7. k < n => tl[n].start >= tl[k].start + (b - a)
  <3>1. k < n => Follows(tl[k], tl[n])  BY <1>1 DEF TimelineFits, Formed
  <3> QED BY <2>4, <3>1 DEF Follows
 <2>8. k = n => tl[n].start = tl[k].start /\ b = a  OBVIOUS
 <2>9. ts > tl[n].start + (x - b)  BY <1>5, <2>2
 <2>10. tl[n].start \in Nat /\ tl[k].start \in Nat  BY <1>1
 <2> HIDE DEF x, a, b
 <2>11. tl[n].start >= tl[k].start + (b - a)  BY <2>5, <2>6, <2>7, <2>8, <2>10
 <2>12. ts >= tl[k].start + (x - a)
  <3> DEFINE u == tl[n].start
             v == tl[k].start
  <3>1. u \in Nat /\ v \in Nat /\ ts > u + (x - b) /\ u >= v + (b - a)  BY <2>9, <2>10, <2>11
  <3> HIDE DEF u, v
  <3>2. ts >= v + (x - a)  BY <2>5, <3>1
  <3> QED BY <3>2 DEF v
 <2>13. tl[k].first < i  BY <1>1, <1>2, <1>4, SMTT(30)
 <2> QED BY <2>3, <2>12, <2>13
<1>7. Formed(tl2)
 <2>1. tl2 # <<>>  BY <1>1, <1>3, EmptySeq
 <2>2. tl2[1].first = 1 /\ tl2[1].start > Tolerance  BY <1>1, <1>3 DEF TimelineFits, Formed
 <2>3. ASSUME NEW k \in 1 .. Len(tl2), NEW m \in 1 .. Len(tl2), k < m
       PROVE  Follows(tl2[k], tl2[m])
  <3>1. k \in 1 .. n  BY <1>1, <1>3, <2>3
  <3>2. CASE m \in 1 .. n  BY <1>3, <2>3, <3>1, <3>2 DEF TimelineFits, Formed
  <3>3. CASE m = n + 1  BY <1>3, <1>6, <3>1, <3>3 DEF Follows
  <3> QED BY <1>1, <1>3, <3>2, <3>3
 <2> QED BY <2>1, <2>2, <2>3 DEF Formed
<1>8. TimelineFits(st2)
  BY <1>3, <1>7 DEF TimelineFits, PauseFits
<1>9. ASSUME NEW j \in Nat \ {0}, NEW t \in 0 .. t0
      PROVE  Reached(st2, j, t) <=> Reached(st, j, t)
 <2> DEFINE m == SegmentAt(tl, j)
 <2>1. /\ m \in 1 .. n /\ tl[m].first \in Nat \ {0} /\ tl[m].first <= j
       /\ \A k \in 1 .. n : k > m => tl[k].first > j
       /\ OpenBefore(st, m, j) => StartIn(st, j) = Unknown
       /\ ~OpenBefore(st, m, j) => StartIn(st, j) = StartBy(st, m, j)
  <3>1. m \in 1 .. n /\ tl[m].first <= j /\ \A k \in 1 .. n : k > m => tl[k].first > j
  BY <1>2, SegmentPlace DEF TimelineFits
  <3> QED BY <1>1, <3>1, StartFromSegment DEF TimelineFits
 <2>2. ASSUME NEW q, q = SegmentAt(tl2, j)
       PROVE  ~OpenBefore(st2, q, j) => StartIn(st2, j) = StartBy(st2, q, j)
  BY <1>7, <2>2, StartFromSegment
 <2> HIDE DEF tl2, m
 <2>3. CASE j <= p
  <3>1. m \in 1 .. Len(tl2) /\ tl2[m].first <= j  BY <1>1, <1>3, <2>1
  <3>2. \A k \in 1 .. Len(tl2) : k > m => tl2[k].first > j
   <4> SUFFICES ASSUME NEW k \in 1 .. Len(tl2), k > m PROVE tl2[k].first > j  OBVIOUS
   <4>1. k \in 1 .. n \/ k = n + 1  BY <1>1, <1>3
   <4>2. CASE k \in 1 .. n  BY <1>3, <2>1, <4>2
   <4>3. CASE k = n + 1  BY <1>2, <1>3, <2>3, <4>3
   <4> QED BY <4>1, <4>2, <4>3
  <3>3. SegmentAt(tl2, j) = m  BY <1>2, <1>7, <3>1, <3>2, SegmentUnique
  <3>4. ~OpenBefore(st2, m, j) /\ ~OpenBefore(st, m, j)  BY <1>2, <2>3 DEF OpenBefore
  <3>5. StartBy(st2, m, j) = StartBy(st, m, j)  BY <1>3, <2>1 DEF StartBy, tl2
  <3>6. StartIn(st2, j) = StartIn(st, j)  BY <2>1, <2>2, <3>3, <3>4, <3>5
  <3> QED BY <3>6 DEF Reached
 <2>4. CASE j > p
  <3>1. StartIn(st, j) = Unknown
   <4>1. tl[m].first <= p
    <5> DEFINE a == tl[m].first
               b == tl[n].first
    <5>1. m \in 1 .. n  BY <2>1
    <5>2. a \in Nat /\ b \in Nat /\ a <= b  BY <1>1, <5>1
    <5>3. b <= p /\ p \in Nat  BY <1>2, <1>4
    <5> HIDE DEF a, b, p
    <5>4. a <= p  BY <5>2, <5>3
    <5> QED BY <5>4 DEF a, p
   <4>2. OpenBefore(st, m, j)  BY <2>4, <4>1 DEF OpenBefore
   <4> QED BY <2>1, <4>2
  <3>2. n + 1 \in 1 .. Len(tl2) /\ tl2[n + 1].first <= j
        /\ \A k \in 1 .. Len(tl2) : k > n + 1 => tl2[k].first > j
  BY <1>1, <1>2, <1>3, <2>4
  <3>3. SegmentAt(tl2, j) = n + 1  BY <1>2, <1>7, <3>2, SegmentUnique
  <3>4. StartIn(st2, j) = ts + (j - i) * IntervalLength
   <4>1. ~(i <= p) /\ tl2[n + 1].first = i /\ tl2[n + 1].start = ts  BY <1>2, <1>3
   <4>2. ~OpenBefore(st2, n + 1, j)  BY <4>1 DEF OpenBefore, tl2
   <4>3. StartIn(st2, j) = StartBy(st2, n + 1, j)  BY <2>2, <3>3, <4>2
   <4> QED BY <4>1, <4>3 DEF StartBy, tl2
  <3>5. (j - i) * IntervalLength \in Nat
   <4>1. j - i \in Nat  BY <1>2, <2>4
   <4>2. \A a \in Nat : a * IntervalLength \in Nat  BY TimelineParameters, SMT
   <4> QED BY <4>1, <4>2
  <3>6. StartIn(st2, j) > t + Tolerance  BY <1>0, <3>4, <3>5
  <3>7. ~Reached(st, j, t)  BY <3>1 DEF Reached
  <3>8. ~Reached(st2, j, t)
   <4> DEFINE x == StartIn(st2, j)
   <4>1. x > t + Tolerance /\ x \in Nat  BY <3>4, <3>5, <3>6
   <4> HIDE DEF x
   <4>2. ~(x <= t + Tolerance)  BY <1>0, <4>1
   <4> QED BY <4>2 DEF Reached, x
  <3> QED BY <3>7, <3>8
 <2> QED BY <1>2, <2>3, <2>4
<1> QED BY <1>8, <1>9

-----------------------------------------------------------------------------
(* Packets and intervals.                                                  *)

LEMMA Division ==
    ASSUME NEW a \in Nat
    PROVE  LET q == a \div PacketsPerInterval IN
           /\ q \in Nat /\ q * PacketsPerInterval <= a
           /\ a < (q + 1) * PacketsPerInterval
<1> DEFINE P == PacketsPerInterval
           q == a \div P
<1>1. P \in Nat \ {0}
  BY RoundParameters
<1> HIDE DEF P
<1>2. q \in Nat /\ a = P * q + (a % P) /\ (a % P) \in 0 .. P - 1
  BY <1>1, SMT
<1> HIDE DEF q
<1>3. \A x \in 0 .. P - 1 : a = P * q + x => q * P <= a /\ a < (q + 1) * P
  BY <1>1, <1>2, SMT
<1>4. q * P <= a /\ a < (q + 1) * P
  BY <1>2, <1>3
<1> QED BY <1>2, <1>4 DEF q, P

LEMMA Multiples ==
    ASSUME NEW a \in Nat, NEW b \in Nat
    PROVE  /\ a * PacketsPerInterval \in Nat
           /\ a <= b => a * PacketsPerInterval <= b * PacketsPerInterval
  BY RoundParameters, SMT

\* A packet belongs to exactly one data interval.
LEMMA PacketInterval ==
    ASSUME NEW k \in Packets
    PROVE  /\ IntervalOf(k) \in ChainKeys /\ k \in PacketsOf(IntervalOf(k))
           /\ \A i \in ChainKeys : k \in PacketsOf(i) => i = IntervalOf(k)
<1> DEFINE P == PacketsPerInterval
           q == (k - 1) \div P
           i == q + 1
           m == (TotalPackets - 1) \div P
<1>1. k \in 1 .. TotalPackets /\ P \in Nat \ {0} /\ TotalPackets \in Nat \ {0}
  BY RoundParameters DEF Packets
<1>2. k - 1 \in Nat /\ TotalPackets - 1 \in Nat
  BY <1>1
<1>3. q \in Nat /\ q * P <= k - 1 /\ k - 1 < (q + 1) * P /\ (q + 1) * P \in Nat /\ q * P \in Nat
  BY <1>2, Division, Multiples
<1>4. m \in Nat /\ TotalPackets - 1 < (m + 1) * P /\ (m + 1) * P \in Nat
  BY <1>2, Division, Multiples
<1>5. DataIntervals = m + 1
  BY DEF DataIntervals
<1> HIDE DEF q, m
<1>6. q <= m
 <2> SUFFICES ASSUME m + 1 <= q PROVE FALSE  BY <1>3, <1>4
 <2>1. (m + 1) * P <= q * P  BY <1>3, <1>4, Multiples
 <2> QED BY <1>1, <1>3, <1>4, <2>1
<1>7. i \in ChainKeys
  BY <1>3, <1>4, <1>5, <1>6 DEF ChainKeys
<1>8. FirstPacket(i) = q * P + 1
 <2>1. i - 1 = q  BY <1>3
 <2> QED BY <2>1 DEF FirstPacket
<1>9. k \in PacketsOf(i)
 <2>1. LastPacket(i) \in {TotalPackets, (q + 1) * P}  BY DEF LastPacket
 <2> QED BY <1>1, <1>3, <1>8, <2>1 DEF PacketsOf
<1>10. ASSUME NEW x \in ChainKeys, NEW y \in ChainKeys, x < y,
              k \in PacketsOf(x), k \in PacketsOf(y)
       PROVE  FALSE
 <2>1. x \in Nat \ {0} /\ y \in Nat \ {0} /\ x <= y - 1 /\ y - 1 \in Nat
  BY <1>10, DataIntervalsType DEF ChainKeys
 <2>2. x * P <= (y - 1) * P /\ x * P \in Nat /\ (y - 1) * P \in Nat  BY <2>1, Multiples
 <2>3. LastPacket(x) <= x * P  BY <1>1, <2>2 DEF LastPacket
 <2>4. k <= LastPacket(x) /\ FirstPacket(y) <= k /\ LastPacket(x) \in Nat
  BY <1>10, <2>1, LastPacketBounded, FirstPacketPositive DEF PacketsOf
 <2>5. FirstPacket(y) = (y - 1) * P + 1  BY DEF FirstPacket
 <2> DEFINE u == x * P
            v == (y - 1) * P
 <2> HIDE DEF u, v
 <2>6. u <= v /\ u \in Nat /\ v \in Nat /\ LastPacket(x) <= u /\ FirstPacket(y) = v + 1
  BY <2>2, <2>3, <2>5 DEF u, v
 <2> QED BY <1>1, <2>4, <2>6
<1>11. \A x, y \in ChainKeys : k \in PacketsOf(x) /\ k \in PacketsOf(y) => x = y
 <2>1. \A x, y \in ChainKeys : x < y \/ y < x \/ x = y  BY DataIntervalsType DEF ChainKeys
 <2> QED BY <1>10, <2>1
<1>12. IntervalOf(k) = CHOOSE x \in ChainKeys : k \in PacketsOf(x)
  BY DEF IntervalOf, ChainKeys
<1>13. IntervalOf(k) \in ChainKeys /\ k \in PacketsOf(IntervalOf(k))
  BY <1>7, <1>9, <1>12
<1> QED BY <1>11, <1>13

LEMMA PacketsOfChainKeys ==
    ASSUME NEW i \in ChainKeys
    PROVE  PacketsOf(i) \subseteq Packets
<1>1. i \in Nat \ {0}
  BY DataIntervalsType DEF ChainKeys
<1> QED BY <1>1, FirstPacketPositive, LastPacketBounded, RoundParameters DEF PacketsOf, Packets

\* Where a datagram of the round belongs.
LEMMA DatagramPlace ==
    ASSUME NEW dg \in Datagram, <<dg.interval, dg.n>> \in AllDatagrams
    PROVE  /\ dg.interval \in Nat \ {0} /\ dg.n \in Nat \ {0}
           /\ IsData(dg.interval) => /\ dg.interval \in ChainKeys
                                     /\ PacketIndex(dg) \in Packets
                                     /\ IntervalOf(PacketIndex(dg)) = dg.interval
           /\ ~IsData(dg.interval) => dg.n = 1
<1>1. dg.interval \in Intervals /\ dg.n \in 1 .. TotalPackets /\ dg.n <= DatagramCount(dg.interval)
  BY DEF AllDatagrams
<1>2. dg.interval \in Nat \ {0} /\ dg.n \in Nat \ {0}
  BY <1>1, LastIntervalType, RoundParameters DEF Intervals
<1>3. ASSUME IsData(dg.interval)
      PROVE  /\ dg.interval \in ChainKeys /\ PacketIndex(dg) \in Packets
             /\ IntervalOf(PacketIndex(dg)) = dg.interval
 <2>1. dg.interval \in ChainKeys  BY <1>2, <1>3, DataIntervalsType DEF IsData, ChainKeys
 <2>2. FirstPacket(dg.interval) \in Nat \ {0} /\ LastPacket(dg.interval) \in Nat
  BY <1>2, FirstPacketPositive, LastPacketBounded
 <2>3. dg.n <= LastPacket(dg.interval) - FirstPacket(dg.interval) + 1
  BY <1>1, <1>3 DEF DatagramCount, IsData
 <2>4. PacketIndex(dg) \in PacketsOf(dg.interval)  BY <1>2, <2>2, <2>3 DEF PacketIndex, PacketsOf
 <2>5. PacketIndex(dg) \in Packets  BY <2>1, <2>4, PacketsOfChainKeys
 <2> QED BY <2>1, <2>4, <2>5, PacketInterval
<1>4. ~IsData(dg.interval) => dg.n = 1
  BY <1>1, <1>2 DEF DatagramCount, IsData
<1> QED BY <1>2, <1>3, <1>4

-----------------------------------------------------------------------------
(* What a context at work keeps, seen from the history of the datagrams:   *)
(* first[j] is when one with K_j or a later key came (0 = never), marked   *)
(* whether an altered, injected or late one came, t the time.              *)

\* A stored packet came from the sender before its key could be known.
RecordFits(st, k, marked, t) ==
    LET record == st.records[k] IN
    record # Empty =>
        /\ record.source = "normal" /\ record.at <= t
        /\ ~Reached(st, IntervalOf(k) + DisclosureDelay, record.at)
        /\ record.status = "Passed" => record.content.mac
        /\ ~marked => record.content = Genuine /\ record.status # "Failed"

RecordsFit(st, marked, t) == \A k \in Packets : RecordFits(st, k, marked, t)

\* No packet waits for an interval that has been verified.
Settled(st) ==
    \A k \in Packets : st.records[k].status = "Pending" => IntervalOf(k) \notin st.verified

Stored(st) == {k \in Packets : st.records[k] # Empty}

\* A key is out only when its disclosing interval may have begun.
KeysFit(st, first, t) ==
    \A j \in ChainKeys :
        /\ first[j] # 0 => first[j] <= t /\ Reached(st, j + DisclosureDelay, first[j])
        /\ j \in st.keys => first[j] # 0
        /\ j \in st.verified => j \in st.keys

ContextFits(st, first, marked, t) ==
    /\ TimelineFits(st) /\ KeysFit(st, first, t) /\ RecordsFit(st, marked, t)
    /\ ~marked /\ TailKeysExist => ~st.incomplete
    /\ st.received = Cardinality(Stored(st))

SameTimeline(a, b) == a.timeline = b.timeline /\ a.pauseAfter = b.pauseAfter

LEMMA SameReached ==
    ASSUME NEW a, NEW b, SameTimeline(a, b)
    PROVE  \A j, t : Reached(a, j, t) <=> Reached(b, j, t)
<1>1. \A j : StartIn(a, j) = StartIn(b, j)
  BY Zenon DEF StartIn, SameTimeline
<1> QED BY <1>1, Zenon DEF Reached

\* bIsPacketTimeSafe: the key of the packet is not out.
LEMMA TimeSafeMeans ==
    ASSUME NEW st \in ReceiverState, TimelineFits(st), NEW i \in Nat \ {0}, NEW at \in Nat
    PROVE  TimeSafe(st.timeline, st.pauseAfter, i, at) <=> ~Reached(st, i + DisclosureDelay, at)
<1> DEFINE x == StartIn(st, i + DisclosureDelay)
<1>1. i + DisclosureDelay \in Nat \ {0} /\ at + Tolerance \in Nat
  BY RoundParameters, TimelineParameters
<1>2. x = Unknown \/ x \in Nat
  BY <1>1, StartFromSegment DEF TimelineFits
<1>3. TimeSafe(st.timeline, st.pauseAfter, i, at) <=> x = Unknown \/ at + Tolerance < x
  BY Zenon DEF TimeSafe, StartIn
<1> HIDE DEF x
<1>4. x # Unknown => (at + Tolerance < x <=> ~(x <= at + Tolerance))
  BY <1>1, <1>2
<1>5. Reached(st, i + DisclosureDelay, at) <=> x # Unknown /\ x <= at + Tolerance
  BY Zenon DEF Reached, x
<1> QED BY <1>3, <1>4, <1>5, Zenon

LEMMA RecordKinds ==
    ASSUME NEW st \in ReceiverState, NEW k \in Packets
    PROVE  \/ st.records[k] = Empty /\ st.records[k].status = "Empty"
           \/ /\ st.records[k] # Empty
              /\ st.records[k] \in [status : {"Pending", "Passed", "Failed"},
                     content : Readable, source : {"normal", "attack"}, at : Nat]
<1>1. st.records[k] \in PacketRecord
  BY DEF ReceiverState
<1> HIDE DEF Readable
<1>2. Empty \notin [status : {"Pending", "Passed", "Failed"},
                     content : Readable, source : {"normal", "attack"}, at : Nat]
 <2>1. Empty.status = "Empty"  BY DEF Empty
 <2> QED BY <2>1
<1> QED BY <1>1, <1>2 DEF PacketRecord, Empty

\* verifyNativeIntervalLocked for some of the intervals whose keys are there.
LEMMA VerifyEffect ==
    ASSUME NEW st \in ReceiverState, NEW J \in SUBSET ChainKeys, NEW v, v = Verify(st, J)
    PROVE  /\ v \in ReceiverState /\ SameTimeline(v, st)
           /\ v.active = st.active /\ v.reported = st.reported
           /\ v.incomplete = st.incomplete /\ v.received = st.received
           /\ v.keys = st.keys /\ v.verified = st.verified \union (J \intersect st.keys)
           /\ \A k \in Packets :
                \/ v.records[k] = st.records[k]
                \/ st.records[k] # Empty /\ v.records[k] = Verdict(st.records[k])
           /\ \A k \in Packets : \A i \in (J \intersect st.keys) \ st.verified :
                st.records[k] # Empty /\ k \in PacketsOf(i) =>
                    v.records[k] = Verdict(st.records[k])
<1> DEFINE due == (J \intersect st.keys) \ st.verified
           judged(k) == st.records[k] # Empty /\ \E i \in due : k \in PacketsOf(i)
           records == [k \in Packets |-> IF judged(k) THEN Verdict(st.records[k])
                                                      ELSE st.records[k]]
           verified == st.verified \union due
<1>1. v = [st EXCEPT !.records = records, !.verified = verified]
  BY DEF Verify
<1>2. v \in ReceiverState
  BY VerifyType
<1>3. \A k \in Packets : /\ judged(k) => records[k] = Verdict(st.records[k])
                         /\ ~judged(k) => records[k] = st.records[k]
  BY Zenon
<1>4. verified = st.verified \union (J \intersect st.keys)
  OBVIOUS
<1> HIDE DEF records, verified
<1>5. /\ v.records = records /\ v.verified = verified
      /\ v.active = st.active /\ v.reported = st.reported
      /\ v.incomplete = st.incomplete /\ v.received = st.received
      /\ v.keys = st.keys /\ v.timeline = st.timeline /\ v.pauseAfter = st.pauseAfter
  BY <1>1 DEF ReceiverState
<1>6. \A k \in Packets : \/ v.records[k] = st.records[k]
                         \/ st.records[k] # Empty /\ v.records[k] = Verdict(st.records[k])
  BY <1>3, <1>5, Zenon
<1>7. \A k \in Packets : \A i \in due :
        st.records[k] # Empty /\ k \in PacketsOf(i) => v.records[k] = Verdict(st.records[k])
  BY <1>3, <1>5, Zenon
<1> QED BY <1>2, <1>4, <1>5, <1>6, <1>7 DEF SameTimeline

\* A verdict fits its packet, and leaves nothing of the interval pending.
LEMMA VerifyFits ==
    ASSUME NEW st \in ReceiverState, NEW J \in SUBSET ChainKeys, NEW v, v = Verify(st, J),
           NEW marked \in BOOLEAN, NEW t \in Nat, Settled(st)
    PROVE  /\ Settled(v) /\ Stored(v) = Stored(st)
           /\ RecordsFit(st, marked, t) => RecordsFit(v, marked, t)
<1>1. /\ v \in ReceiverState /\ SameTimeline(v, st)
      /\ v.verified = st.verified \union (J \intersect st.keys)
      /\ \A k \in Packets :
           \/ v.records[k] = st.records[k]
           \/ st.records[k] # Empty /\ v.records[k] = Verdict(st.records[k])
      /\ \A k \in Packets : \A i \in (J \intersect st.keys) \ st.verified :
           st.records[k] # Empty /\ k \in PacketsOf(i) =>
               v.records[k] = Verdict(st.records[k])
  BY VerifyEffect
<1>2. ASSUME NEW k \in Packets, st.records[k] # Empty
      PROVE  LET r == st.records[k]
                 w == Verdict(r) IN
             /\ w.source = r.source /\ w.at = r.at /\ w.content = r.content
             /\ w.status \in {"Passed", "Failed"} /\ w # Empty
             /\ w.status = "Passed" <=> r.content.mac
 <2>1. st.records[k] \in [status : {"Pending", "Passed", "Failed"},
                    content : Readable, source : {"normal", "attack"}, at : Nat]
  BY <1>2, RecordKinds
 <2>2. st.records[k].content.mac \in BOOLEAN
  <3>1. st.records[k].content \in Readable  BY <2>1
  <3> QED BY <3>1, ReceiverParameters
 <2> DEFINE r == st.records[k]
            c == IF r.content.mac THEN "Passed" ELSE "Failed"
 <2>3. Verdict(r) = [r EXCEPT !.status = c]  BY DEF Verdict
 <2>4. c \in {"Passed", "Failed"} /\ (c = "Passed" <=> r.content.mac)  BY Zenon, <2>2
 <2> HIDE DEF Readable, c
 <2>5. r \in [status : {"Pending", "Passed", "Failed"},
                    content : Readable, source : {"normal", "attack"}, at : Nat]
  BY <2>1
 <2> HIDE DEF r
 <2>6. /\ Verdict(r).source = r.source /\ Verdict(r).at = r.at
       /\ Verdict(r).content = r.content /\ Verdict(r).status = c
  BY <2>3, <2>5
 <2>7. Empty.status = "Empty"  BY DEF Empty
 <2>8. Verdict(r) # Empty  BY <2>4, <2>6, <2>7
 <2> QED BY <2>4, <2>6, <2>8 DEF r
<1>3. Stored(v) = Stored(st)
  BY <1>1, <1>2, Zenon DEF Stored
<1>4. Settled(v)
 <2> SUFFICES ASSUME NEW k \in Packets, v.records[k].status = "Pending",
                     IntervalOf(k) \in v.verified
              PROVE  FALSE
  BY DEF Settled
 <2>1. v.records[k] = st.records[k]  BY <1>1, <1>2
 <2>2. IntervalOf(k) \in (J \intersect st.keys) \ st.verified  BY <1>1, <2>1 DEF Settled
 <2>3. st.records[k] # Empty  BY <2>1, RecordKinds
 <2>4. v.records[k] = Verdict(st.records[k])  BY <1>1, <2>2, <2>3, PacketInterval
 <2> QED BY <1>2, <2>3, <2>4
<1>5. ASSUME RecordsFit(st, marked, t), NEW k \in Packets
      PROVE  RecordFits(v, k, marked, t)
 <2>1. RecordFits(st, k, marked, t)  BY <1>5 DEF RecordsFit
 <2>2. \A j, x : Reached(v, j, x) <=> Reached(st, j, x)  BY <1>1, SameReached
 <2>3. CASE v.records[k] = st.records[k]  BY <2>1, <2>2, <2>3, Zenon DEF RecordFits
 <2>4. CASE st.records[k] # Empty /\ v.records[k] = Verdict(st.records[k])
  <3> DEFINE r == st.records[k]
             w == v.records[k]
  <3>1. /\ w.source = r.source /\ w.at = r.at /\ w.content = r.content
        /\ w.status \in {"Passed", "Failed"}
        /\ w.status = "Passed" <=> r.content.mac
  BY <1>2, <2>4
  <3>2. /\ r.source = "normal" /\ r.at <= t
        /\ ~Reached(st, IntervalOf(k) + DisclosureDelay, r.at)
        /\ ~marked => r.content = Genuine
  BY <2>1, <2>4, Zenon DEF RecordFits
  <3>3. Genuine.mac  BY DEF Genuine
  <3>4. ~marked => w.status # "Failed"  BY <3>1, <3>2, <3>3
  <3>5. ~Reached(v, IntervalOf(k) + DisclosureDelay, w.at)  BY <2>2, <3>1, <3>2, Zenon
  <3> HIDE DEF r, w
  <3> QED BY <3>1, <3>2, <3>4, <3>5, Zenon DEF RecordFits, w
 <2> QED BY <1>1, <2>3, <2>4
<1> QED BY <1>3, <1>4, <1>5 DEF RecordsFit

\* Fields that the facts about a context depend on.
Alike(a, b) ==
    /\ SameTimeline(a, b) /\ a.pauseTs = b.pauseTs
    /\ a.records = b.records /\ a.received = b.received

LEMMA FitsAlike ==
    ASSUME NEW a, NEW b, Alike(a, b), NEW marked, NEW t
    PROVE  /\ TimelineFits(a) => TimelineFits(b)
           /\ RecordsFit(a, marked, t) => RecordsFit(b, marked, t)
           /\ Stored(a) = Stored(b)
<1>1. \A j, x : Reached(a, j, x) <=> Reached(b, j, x)
  BY SameReached DEF Alike
<1>2. TimelineFits(a) => TimelineFits(b)
  BY Zenon DEF TimelineFits, PauseFits, Alike, SameTimeline
<1>3. RecordsFit(a, marked, t) => RecordsFit(b, marked, t)
  BY <1>1, Zenon DEF RecordsFit, RecordFits, Alike
<1>4. Stored(a) = Stored(b)
  BY Zenon DEF Stored, Alike
<1> QED BY <1>2, <1>3, <1>4

LEMMA SpoiledFits ==
    ASSUME NEW st \in ReceiverState, NEW first, NEW marked \in BOOLEAN, NEW t,
           ContextFits(st, first, marked, t), Settled(st), ~(~marked /\ TailKeysExist)
    PROVE  LET w == Spoiled(st) IN
           /\ ContextFits(w, first, marked, t) /\ Settled(w) /\ SameTimeline(w, st)
           /\ w.keys = st.keys /\ w.active = st.active /\ w.reported = st.reported
<1> DEFINE w == Spoiled(st)
<1>1. /\ Alike(st, w) /\ SameTimeline(w, st) /\ w.keys = st.keys
      /\ w.verified = st.verified /\ w.active = st.active /\ w.reported = st.reported
  BY DEF Spoiled, ReceiverState, Alike, SameTimeline
<1>2. \A j, x : Reached(w, j, x) <=> Reached(st, j, x)
  BY <1>1, SameReached
<1> HIDE DEF w
<1>3. KeysFit(w, first, t)
  BY <1>1, <1>2, Zenon DEF KeysFit, ContextFits
<1>4. Settled(w)
  BY <1>1, Zenon DEF Settled, Alike
<1>5. TimelineFits(w) /\ RecordsFit(w, marked, t) /\ Stored(st) = Stored(w)
  BY <1>1, FitsAlike, Zenon DEF ContextFits
<1>6. w.received = Cardinality(Stored(w))
  BY <1>1, <1>5, Zenon DEF ContextFits, Alike
<1>7. ContextFits(w, first, marked, t)
  BY <1>3, <1>5, <1>6, Zenon DEF ContextFits
<1> QED BY <1>1, <1>4, <1>7 DEF w

\* A key, if it is right, verifies its interval and the earlier ones; the last
\* one leaves no interval unverified.
LEMMA WithKeyFits ==
    ASSUME NEW st \in ReceiverState, NEW i \in Intervals, NEW right \in BOOLEAN,
           NEW first \in [ChainKeys -> Nat], NEW marked \in BOOLEAN, NEW t \in Nat,
           ContextFits(st, first, marked, t), Settled(st),
           right /\ i - DisclosureDelay \in ChainKeys =>
               \A x \in 1 .. i - DisclosureDelay : first[x] # 0,
           ~marked /\ TailKeysExist => right /\ i - DisclosureDelay \in ChainKeys
    PROVE  LET w == WithKey(st, i, right) IN
           /\ ContextFits(w, first, marked, t) /\ Settled(w) /\ SameTimeline(w, st)
           /\ \A x \in ChainKeys : x \in w.keys => x \in st.keys \/
                 (right /\ i - DisclosureDelay \in ChainKeys /\ x <= i - DisclosureDelay)
           /\ Live(st) /\ ~Live(w) => w.verified = ChainKeys
<1> DEFINE j == i - DisclosureDelay
           known == [st EXCEPT !.keys = @ \union (1 .. j)]
           w == WithKey(st, i, right)
<1>1. CASE j \notin ChainKeys \/ ~right
 <2>1. w = Spoiled(st) /\ ~(~marked /\ TailKeysExist)  BY <1>1 DEF WithKey
 <2> QED BY <2>1, SpoiledFits DEF Live
<1>2. CASE j \in ChainKeys /\ right
 <2>0. j \in Nat \ {0} /\ 1 .. j \subseteq ChainKeys /\ (~(j < DataIntervals) => 1 .. j = ChainKeys)
  BY <1>2, DataIntervalsType DEF ChainKeys
 <2> HIDE DEF j
 <2>1. /\ known \in ReceiverState /\ Alike(st, known)
       /\ known.keys = st.keys \union (1 .. j) /\ known.verified = st.verified
       /\ known.active = st.active /\ known.reported = st.reported
       /\ known.incomplete = st.incomplete
  BY <2>0 DEF ReceiverState, Alike, SameTimeline
 <2> HIDE DEF known
 <2>2. TimelineFits(known) /\ RecordsFit(known, marked, t) /\ Stored(st) = Stored(known)
  BY <2>1, FitsAlike, Zenon DEF ContextFits
 <2>3. Settled(known)  BY <2>1, Zenon DEF Settled, Alike
 <2>4. PICK J \in SUBSET ChainKeys :
         /\ J \subseteq known.keys
         /\ \/ w = Verify(known, J)
            \/ /\ w = [Verify(known, J) EXCEPT !.active = FALSE, !.reported = TRUE]
               /\ J = ChainKeys
  <3>1. CASE j < DataIntervals
   <4>1. w = Verify(known, 1 .. j)  BY <1>2, <3>1, Zenon DEF WithKey, j, known
   <4> QED BY <2>0, <2>1, <4>1
  <3>2. CASE ~(j < DataIntervals)
   <4>1. w = [Verify(known, ChainKeys) EXCEPT !.active = FALSE, !.reported = TRUE]
   BY <1>2, <3>2, Zenon DEF WithKey, j, known
   <4> QED BY <2>0, <2>1, <3>2, <4>1
  <3> QED BY <3>1, <3>2
 <2> DEFINE v == Verify(known, J)
 <2>5. /\ v \in ReceiverState /\ SameTimeline(v, known)
       /\ v.active = known.active /\ v.reported = known.reported
       /\ v.incomplete = known.incomplete /\ v.received = known.received
       /\ v.keys = known.keys /\ v.verified = known.verified \union (J \intersect known.keys)
  BY <2>1, VerifyEffect
 <2>6. v.pauseTs = known.pauseTs  BY <2>1 DEF Verify, ReceiverState
 <2>7. Settled(v) /\ Stored(v) = Stored(known) /\ RecordsFit(v, marked, t)
  BY <2>1, <2>2, <2>3, VerifyFits
 <2> HIDE DEF v, w
 <2>8. /\ Alike(v, w) /\ w.keys = v.keys /\ w.verified = v.verified
       /\ w.incomplete = v.incomplete
       /\ \/ w.active = v.active /\ w.reported = v.reported
          \/ J = ChainKeys
  <3>1. w = v \/ (w = [v EXCEPT !.active = FALSE, !.reported = TRUE] /\ J = ChainKeys)
  BY <2>4 DEF v
  <3> QED BY <2>5, <3>1 DEF ReceiverState, Alike, SameTimeline
 <2>9. SameTimeline(w, st)  BY <2>1, <2>5, <2>8 DEF Alike, SameTimeline
 <2>10. TimelineFits(w)
  BY <2>2, <2>5, <2>6, <2>8, Zenon DEF TimelineFits, PauseFits, Alike, SameTimeline
 <2>11. RecordsFit(w, marked, t) /\ Stored(w) = Stored(st)
  <3>1. RecordsFit(v, marked, t) => RecordsFit(w, marked, t)  BY <2>8, FitsAlike
  <3>2. Stored(v) = Stored(w)  BY <2>8, FitsAlike
  <3> QED BY <2>2, <2>7, <3>1, <3>2
 <2>12. Settled(w)  BY <2>7, <2>8, Zenon DEF Settled, Alike
 <2>13. w.received = Cardinality(Stored(w))
  BY <2>1, <2>5, <2>8, <2>11, Zenon DEF Alike, ContextFits
 <2>14. w.keys = st.keys \union (1 .. j)  BY <2>1, <2>5, <2>8
 <2>15. w.verified \subseteq st.verified \union w.keys  BY <2>1, <2>4, <2>5, <2>8
 <2>16. KeysFit(w, first, t)
  <3>1. \A a, x : Reached(w, a, x) <=> Reached(st, a, x)  BY <2>9, SameReached
  <3>2. KeysFit(st, first, t)  BY DEF ContextFits
  <3>3. \A x \in 1 .. j : first[x] # 0  BY <1>2 DEF j
  <3> SUFFICES ASSUME NEW x \in ChainKeys
               PROVE  /\ first[x] # 0 =>
                           first[x] <= t /\ Reached(w, x + DisclosureDelay, first[x])
                      /\ x \in w.keys => first[x] # 0
                      /\ x \in w.verified => x \in w.keys
  BY DEF KeysFit
  <3>4. /\ first[x] # 0 => first[x] <= t /\ Reached(st, x + DisclosureDelay, first[x])
        /\ x \in st.keys => first[x] # 0
        /\ x \in st.verified => x \in st.keys
  BY <3>2, Zenon DEF KeysFit
  <3>5. x \in w.keys => x \in st.keys \/ x \in 1 .. j  BY <2>14
  <3>6. x \in w.verified => x \in w.keys  BY <2>14, <2>15, <3>4
  <3> QED BY <3>1, <3>3, <3>4, <3>5, <3>6, Zenon
 <2>17. ~marked /\ TailKeysExist => ~w.incomplete  BY <2>1, <2>5, <2>8, Zenon DEF ContextFits
 <2>18. ContextFits(w, first, marked, t)
  BY <2>10, <2>11, <2>13, <2>16, <2>17, Zenon DEF ContextFits
 <2>19. Live(st) /\ ~Live(w) => w.verified = ChainKeys
  <3>1. Live(st) /\ ~Live(w) => J = ChainKeys  BY <2>1, <2>5, <2>8 DEF Live
  <3>2. st.verified \subseteq ChainKeys  BY DEF ReceiverState
  <3>3. J = ChainKeys => w.verified = ChainKeys  BY <2>1, <2>4, <2>5, <2>8, <3>2
  <3> QED BY <3>1, <3>3
 <2>20. \A x \in ChainKeys : x \in w.keys => x \in st.keys \/
                (right /\ j \in ChainKeys /\ x <= j)
  BY <1>2, <2>14
 <2> QED BY <2>9, <2>12, <2>18, <2>19, <2>20 DEF j, w
<1> QED BY <1>1, <1>2

LEMMA ReachedLater ==
    ASSUME NEW st \in ReceiverState, TimelineFits(st), NEW j \in Nat \ {0},
           NEW a \in Nat, NEW b \in Nat, a <= b, Reached(st, j, a)
    PROVE  Reached(st, j, b)
<1> DEFINE x == StartIn(st, j)
<1>1. x # Unknown /\ x <= a + Tolerance
  BY DEF Reached
<1>2. x = Unknown \/ x \in Nat
  BY StartFromSegment DEF TimelineFits
<1> HIDE DEF x
<1>3. x # Unknown /\ x <= b + Tolerance
  BY <1>1, <1>2, TimelineParameters
<1> QED BY <1>3 DEF Reached, x

\* A datagram in the queue is of the round, the keys in it and in the context
\* were out when it came, and an unmarked context has only sound ones.
DatagramFits(dg, st, first, marked) ==
    /\ <<dg.interval, dg.n>> \in AllDatagrams
    /\ \A j \in ChainKeys :
        /\ Discloses(dg, j) => first[j] # 0 /\ first[j] <= dg.at
        /\ j \in st.keys => first[j] <= dg.at
    /\ ~marked =>
        /\ dg.content = Genuine /\ dg.source = "normal"
        /\ IsData(dg.interval) => ~Reached(st, dg.interval + DisclosureDelay, dg.at)

\* The key of a datagram, where it is used.
LEMMA DatagramKey ==
    ASSUME NEW dg \in Datagram, dg.content # Malformed,
           <<dg.interval, dg.n>> \in AllDatagrams, dg.n = 1
    PROVE  LET j == dg.interval - DisclosureDelay IN
           /\ dg.content.key \in BOOLEAN /\ j \in Int
           /\ dg.content.key /\ j \in ChainKeys => \A x \in 1 .. j : Discloses(dg, x)
<1> DEFINE j == dg.interval - DisclosureDelay
<1>1. dg.content.key \in BOOLEAN
 <2>1. dg.content \in Readable  BY DEF Datagram, Readable
 <2> QED BY <2>1, ReceiverParameters
<1>2. dg.interval \in Nat \ {0} /\ DisclosureDelay \in Nat
  BY DatagramPlace, RoundParameters
<1>3. ASSUME dg.content.key, j \in ChainKeys, NEW x \in 1 .. j
      PROVE  Discloses(dg, x)
 <2>1. j >= 1 /\ j \in Nat  BY <1>3, DataIntervalsType DEF ChainKeys
 <2>2. dg.interval > DisclosureDelay  BY <1>2, <2>1
 <2>3. KeyIn(dg.interval, dg.n) = j  BY <2>2 DEF KeyIn
 <2> HIDE DEF j
 <2> QED BY <1>3, <2>1, <2>3 DEF Discloses
<1> QED BY <1>1, <1>2, <1>3

\* The context with a new baseline packet.
WithPacket(st, k, dg) ==
    [st EXCEPT !.records[k] = [status |-> "Pending", content |-> dg.content,
                               source |-> dg.source, at |-> dg.at],
               !.received = @ + 1]

\* An accepted packet comes before its interval is verified, so it waits for it.
LEMMA StoredFits ==
    ASSUME NEW st \in ReceiverState, NEW dg \in Datagram, NEW first \in [ChainKeys -> Nat],
           NEW marked \in BOOLEAN, NEW t \in Nat,
           ContextFits(st, first, marked, t), Settled(st),
           DatagramFits(dg, st, first, marked), dg.at <= t, dg.content # Malformed,
           IsData(dg.interval), dg.source = "normal",
           ~Reached(st, dg.interval + DisclosureDelay, dg.at),
           NEW k, k = PacketIndex(dg), st.records[k] = Empty
    PROVE  LET w == WithPacket(st, k, dg) IN
           /\ w \in ReceiverState /\ ContextFits(w, first, marked, t) /\ Settled(w)
           /\ SameTimeline(w, st) /\ w.keys = st.keys
           /\ w.active = st.active /\ w.reported = st.reported
<1> DEFINE record == [status |-> "Pending", content |-> dg.content,
                      source |-> dg.source, at |-> dg.at]
           records == [st.records EXCEPT ![k] = record]
           w == WithPacket(st, k, dg)
<1>1. /\ dg.interval \in Nat \ {0} /\ dg.interval \in ChainKeys
      /\ k \in Packets /\ IntervalOf(k) = dg.interval
  BY DatagramPlace DEF DatagramFits
<1>2. /\ record \in PacketRecord /\ record # Empty
      /\ record.status = "Pending" /\ record.content = dg.content
      /\ record.source = "normal" /\ record.at = dg.at
 <2>1. dg.content \in Readable /\ dg.at \in Nat /\ dg.source \in {"normal", "attack"}
  BY DEF Datagram, Readable
 <2> HIDE DEF Readable
 <2>2. record \in PacketRecord  BY <2>1 DEF PacketRecord
 <2>3. Empty.status = "Empty" /\ record.status = "Pending"  BY DEF Empty
 <2> QED BY <2>2, <2>3
<1>0. w = [st EXCEPT !.records[k] = record, !.received = @ + 1]
  BY DEF WithPacket
<1> HIDE DEF record
<1>3. records \in [Packets -> PacketRecord]
      /\ records[k] = record /\ \A x \in Packets : x # k => records[x] = st.records[x]
  BY <1>1, <1>2 DEF ReceiverState
<1>4. w = [st EXCEPT !.records = records, !.received = @ + 1]
  BY <1>0 DEF ReceiverState
<1> HIDE DEF records, w
<1>5. /\ w \in ReceiverState /\ w.records = records /\ w.received = st.received + 1
      /\ SameTimeline(w, st) /\ w.pauseTs = st.pauseTs
      /\ w.keys = st.keys /\ w.verified = st.verified /\ w.incomplete = st.incomplete
      /\ w.active = st.active /\ w.reported = st.reported
 <2> DEFINE received == st.received + 1
 <2>1. received \in Nat  BY DEF ReceiverState
 <2>2. w = [st EXCEPT !.records = records, !.received = received]  BY <1>4 DEF ReceiverState
 <2>3. records \in [Packets -> PacketRecord]  BY <1>3
 <2> HIDE DEF received
 <2>4. w \in ReceiverState  BY <2>1, <2>2, <2>3 DEF ReceiverState
 <2>5. w.records = records /\ w.received = received  BY <2>2 DEF ReceiverState
 <2>6. /\ SameTimeline(w, st) /\ w.pauseTs = st.pauseTs
       /\ w.keys = st.keys /\ w.verified = st.verified /\ w.incomplete = st.incomplete
       /\ w.active = st.active /\ w.reported = st.reported
  BY <2>2 DEF ReceiverState, SameTimeline
 <2> QED BY <2>4, <2>5, <2>6 DEF received
<1>6. dg.interval \notin st.verified
 <2> SUFFICES ASSUME dg.interval \in st.verified PROVE FALSE  OBVIOUS
 <2> DEFINE f == first[dg.interval]
 <2>1. f # 0 /\ Reached(st, dg.interval + DisclosureDelay, f) /\ f <= dg.at
  BY <1>1, Zenon DEF ContextFits, KeysFit, DatagramFits
 <2>2. f \in Nat /\ dg.at \in Nat  BY <1>1 DEF Datagram
 <2>3. dg.interval + DisclosureDelay \in Nat \ {0}  BY <1>1, RoundParameters
 <2> HIDE DEF f
 <2> QED BY <2>1, <2>2, <2>3, ReachedLater DEF ContextFits
<1>7. Settled(w)
 <2> SUFFICES ASSUME NEW x \in Packets, w.records[x].status = "Pending"
              PROVE  IntervalOf(x) \notin w.verified
  BY DEF Settled
 <2>1. CASE x = k  BY <1>1, <1>5, <1>6, <2>1
 <2>2. CASE x # k  BY <1>3, <1>5, <2>2 DEF Settled
 <2> QED BY <2>1, <2>2
<1>8. \A a, b : Reached(w, a, b) <=> Reached(st, a, b)
  BY <1>5, SameReached
<1>9. RecordsFit(w, marked, t)
 <2> SUFFICES ASSUME NEW x \in Packets PROVE RecordFits(w, x, marked, t)  BY DEF RecordsFit
 <2>1. CASE x = k
  <3>1. w.records[x] = record  BY <1>3, <1>5, <2>1
  <3>2. ~marked => record.content = Genuine /\ record.status # "Failed"  BY <1>2 DEF DatagramFits
  <3>3. record.status # "Passed" /\ record.at <= t  BY <1>2
  <3>4. ~Reached(w, IntervalOf(x) + DisclosureDelay, record.at)  BY <1>1, <1>2, <1>8, <2>1, Zenon
  <3> QED BY <1>2, <3>1, <3>2, <3>3, <3>4, Zenon DEF RecordFits
 <2>2. CASE x # k
  <3>1. w.records[x] = st.records[x]  BY <1>3, <1>5, <2>2
  <3>2. RecordFits(st, x, marked, t)  BY DEF ContextFits, RecordsFit
  <3> QED BY <1>8, <3>1, <3>2, Zenon DEF RecordFits
 <2> QED BY <2>1, <2>2
<1>10. w.received = Cardinality(Stored(w))
 <2>1. Stored(w) = Stored(st) \union {k} /\ k \notin Stored(st)
  BY <1>1, <1>2, <1>3, <1>5 DEF Stored
 <2>2. IsFiniteSet(Stored(st))
  <3>1. IsFiniteSet(Packets)  BY RoundParameters, FS_Interval DEF Packets
  <3> QED BY <3>1, FS_Subset DEF Stored
 <2>3. Cardinality(Stored(w)) = Cardinality(Stored(st)) + 1  BY <2>1, <2>2, FS_AddElement
 <2> QED BY <1>5, <2>3 DEF ContextFits
<1>11. TimelineFits(w)
  BY <1>5, Zenon DEF ContextFits, TimelineFits, PauseFits, SameTimeline
<1>12. KeysFit(w, first, t)
  BY <1>5, <1>8, Zenon DEF ContextFits, KeysFit
<1>13. ContextFits(w, first, marked, t)
  BY <1>5, <1>9, <1>10, <1>11, <1>12, Zenon DEF ContextFits
<1> QED BY <1>5, <1>7, <1>13 DEF w

LEMMA FitsCarryOver ==
    ASSUME NEW a, NEW b, Alike(a, b), a.keys = b.keys, a.verified = b.verified,
           a.incomplete = b.incomplete, NEW first, NEW marked, NEW t
    PROVE  /\ Settled(a) => Settled(b)
           /\ ContextFits(a, first, marked, t) => ContextFits(b, first, marked, t)
<1>1. \A j, x : Reached(a, j, x) <=> Reached(b, j, x)
  BY SameReached DEF Alike
<1>2. Settled(a) => Settled(b)
  BY Zenon DEF Settled, Alike
<1>3. /\ TimelineFits(a) => TimelineFits(b)
      /\ RecordsFit(a, marked, t) => RecordsFit(b, marked, t)
      /\ Stored(a) = Stored(b)
  BY FitsAlike
<1>4. KeysFit(a, first, t) => KeysFit(b, first, t)
  BY <1>1, Zenon DEF KeysFit
<1>5. a.received = b.received
  BY DEF Alike
<1> QED BY <1>2, <1>3, <1>4, <1>5, Zenon DEF ContextFits

LEMMA CandidateFits ==
    ASSUME NEW st \in ReceiverState, NEW k, NEW content
    PROVE  LET w == AsCandidate(st, k, content) IN
           /\ Alike(st, w) /\ st.keys = w.keys /\ st.verified = w.verified
           /\ st.incomplete = w.incomplete /\ w.active = st.active /\ w.reported = st.reported
<1> DEFINE c == [st.candidates EXCEPT ![k] = @ \union {content}]
<1>1. \/ AsCandidate(st, k, content) = st
      \/ AsCandidate(st, k, content) = [st EXCEPT !.candidates = c]
  BY DEF AsCandidate, ReceiverState
<1> HIDE DEF c
<1> QED BY <1>1 DEF Alike, SameTimeline, ReceiverState

\* The parts of a step of a context that the steps of the program need.
StepFits(st, w, dg, first, marked, t) ==
    /\ ContextFits(w, first, marked, t) /\ Settled(w) /\ SameTimeline(w, st)
    /\ \A x \in ChainKeys : x \in w.keys => x \in st.keys \/ Discloses(dg, x)
    /\ Live(st) /\ ~Live(w) => w.verified = ChainKeys

LEMMA UnchangedKeysFit ==
    ASSUME NEW st, NEW w, NEW dg, NEW first, NEW marked, NEW t,
           ContextFits(w, first, marked, t), Settled(w), SameTimeline(w, st),
           w.keys = st.keys, w.active = st.active, w.reported = st.reported
    PROVE  StepFits(st, w, dg, first, marked, t)
  BY Zenon DEF StepFits, Live

\* The key of the first datagram of an interval.
LEMMA DatagramKeyFits ==
    ASSUME NEW st \in ReceiverState, NEW dg \in Datagram, NEW first \in [ChainKeys -> Nat],
           NEW marked \in BOOLEAN, NEW t \in Nat, NEW old,
           ContextFits(st, first, marked, t), Settled(st), DatagramFits(dg, old, first, marked),
           dg.content # Malformed, dg.n = 1,
           IsData(dg.interval) => dg.interval > DisclosureDelay
    PROVE  StepFits(st, WithKey(st, dg.interval, dg.content.key), dg, first, marked, t)
<1> DEFINE j == dg.interval - DisclosureDelay
           w == WithKey(st, dg.interval, dg.content.key)
<1>1. /\ dg.content.key \in BOOLEAN /\ j \in Int
      /\ dg.content.key /\ j \in ChainKeys => \A x \in 1 .. j : Discloses(dg, x)
  BY DatagramKey DEF DatagramFits
<1>2. dg.interval \in Intervals
  BY DEF Datagram
<1>3. j \in ChainKeys => 1 .. j \subseteq ChainKeys
  BY DataIntervalsType DEF ChainKeys
<1>4. dg.content.key /\ j \in ChainKeys => \A x \in 1 .. j : first[x] # 0
  BY <1>1, <1>3 DEF DatagramFits
<1>5. ~marked /\ TailKeysExist => dg.content.key /\ j \in ChainKeys
 <2> SUFFICES ASSUME ~marked, TailKeysExist PROVE dg.content.key /\ j \in ChainKeys  OBVIOUS
 <2>1. dg.content.key  BY DEF DatagramFits, Genuine
 <2>2. dg.interval \in 1 .. LastInterval /\ LastInterval \in Nat /\ DisclosureDelay \in Nat \ {0}
       /\ DataIntervals \in Nat \ {0}
  BY <1>2, LastIntervalType, RoundParameters, DataIntervalsType DEF Intervals
 <2>3. CASE IsData(dg.interval)  BY <2>1, <2>2, <2>3 DEF IsData, ChainKeys
 <2>4. CASE ~IsData(dg.interval)
  <3>1. dg.interval \in (DataIntervals + 1) .. LastInterval  BY <2>2, <2>4 DEF IsData
  <3> QED BY <2>1, <3>1 DEF TailKeysExist
 <2> QED BY <2>1, <2>3, <2>4
<1> HIDE DEF j
<1>6. /\ ContextFits(w, first, marked, t) /\ Settled(w) /\ SameTimeline(w, st)
      /\ \A x \in ChainKeys : x \in w.keys => x \in st.keys \/
            (dg.content.key /\ j \in ChainKeys /\ x <= j)
      /\ Live(st) /\ ~Live(w) => w.verified = ChainKeys
  BY <1>1, <1>2, <1>4, <1>5, WithKeyFits DEF j
<1>7. \A x \in ChainKeys : dg.content.key /\ j \in ChainKeys /\ x <= j => Discloses(dg, x)
 <2>1. \A x \in ChainKeys : x <= j => x \in 1 .. j  BY <1>1, DataIntervalsType DEF ChainKeys
 <2> QED BY <1>1, <2>1
<1> QED BY <1>6, <1>7, Zenon DEF StepFits

\* processDatagramLocked keeps what the context promises.
LEMMA ProcessedFits ==
    ASSUME NEW st \in ReceiverState, NEW dg \in Datagram, NEW first \in [ChainKeys -> Nat],
           NEW marked \in BOOLEAN, NEW t \in Nat,
           ContextFits(st, first, marked, t), Settled(st),
           DatagramFits(dg, st, first, marked), dg.at <= t
    PROVE  StepFits(st, Processed(st, dg), dg, first, marked, t)
<1> DEFINE k == PacketIndex(dg)
           P == Processed(st, dg)
           Fits(w) == StepFits(st, w, dg, first, marked, t)
<1>1. Fits(st)
 <2>1. SameTimeline(st, st)  BY DEF SameTimeline
 <2> QED BY <2>1, UnchangedKeysFit
<1>2. CASE dg.content = Malformed
 <2>1. marked
  <3>1. Genuine # Malformed  BY DEF Genuine, Malformed
  <3> QED BY <1>2, <3>1 DEF DatagramFits
 <2>2. Fits(Spoiled(st))  BY <2>1, SpoiledFits, UnchangedKeysFit
 <2>3. P = st \/ P = Spoiled(st)  BY <1>2, Zenon DEF Processed
 <2> QED BY <1>1, <2>2, <2>3, Zenon
<1>3. CASE dg.content # Malformed /\ ~IsData(dg.interval)
 <2>1. dg.n = 1  BY <1>3, DatagramPlace DEF DatagramFits
 <2>2. Fits(WithKey(st, dg.interval, dg.content.key))  BY <1>3, <2>1, DatagramKeyFits
 <2>3. P = st \/ P = WithKey(st, dg.interval, dg.content.key)  BY <1>3, Zenon DEF Processed
 <2> QED BY <1>1, <2>2, <2>3, Zenon
<1>4. CASE dg.content # Malformed /\ IsData(dg.interval)
 <2> DEFINE safe == TimeSafe(st.timeline, st.pauseAfter, dg.interval, dg.at)
 <2>0. /\ dg.interval \in Nat \ {0} /\ dg.at \in Nat /\ dg.n \in Nat \ {0}
  BY DatagramPlace DEF DatagramFits, Datagram
 <2>1. safe <=> ~Reached(st, dg.interval + DisclosureDelay, dg.at)
  BY <2>0, TimeSafeMeans DEF ContextFits
 <2> HIDE DEF safe
 <2>2. CASE ~safe
  <3>1. marked  BY <1>4, <2>1, <2>2, Zenon DEF DatagramFits
  <3>2. Fits(Spoiled(st))  BY <3>1, SpoiledFits, UnchangedKeysFit
  <3>3. P = st \/ P = Spoiled(st)  BY <1>4, <2>2, Zenon DEF Processed, safe
  <3> QED BY <1>1, <3>2, <3>3, Zenon
 <2>3. CASE safe /\ (st.records[k] # Empty \/ dg.source = "attack")
  <3>1. P = st \/ P = AsCandidate(st, k, dg.content)  BY <1>4, <2>3, Zenon DEF Processed, safe
  <3>2. Fits(AsCandidate(st, k, dg.content))
   <4> DEFINE w == AsCandidate(st, k, dg.content)
   <4>1. /\ Alike(st, w) /\ st.keys = w.keys /\ st.verified = w.verified
         /\ st.incomplete = w.incomplete /\ w.active = st.active /\ w.reported = st.reported
   BY CandidateFits
   <4> HIDE DEF w
   <4>2. ContextFits(w, first, marked, t) /\ Settled(w)  BY <4>1, FitsCarryOver
   <4>3. SameTimeline(w, st)  BY <4>1 DEF Alike, SameTimeline
   <4> QED BY <4>1, <4>2, <4>3, UnchangedKeysFit DEF w
  <3> QED BY <1>1, <3>1, <3>2, Zenon
 <2>4. CASE safe /\ st.records[k] = Empty /\ dg.source # "attack"
  <3> DEFINE stored == WithPacket(st, k, dg)
  <3>1. dg.source = "normal"  BY <2>4 DEF Datagram
  <3>2. ~Reached(st, dg.interval + DisclosureDelay, dg.at)  BY <2>1, <2>4
  <3>3. /\ stored \in ReceiverState /\ ContextFits(stored, first, marked, t) /\ Settled(stored)
        /\ SameTimeline(stored, st) /\ stored.keys = st.keys
        /\ stored.active = st.active /\ stored.reported = st.reported
  BY <1>4, <2>4, <3>1, <3>2, StoredFits
  <3>4. P = st \/ P = AsBaseline(st, k, dg)  BY <1>4, <2>4, Zenon DEF Processed, safe
  <3>5. \/ AsBaseline(st, k, dg) = stored
        \/ /\ AsBaseline(st, k, dg) = WithKey(stored, dg.interval, dg.content.key)
           /\ KeyIn(dg.interval, dg.n) # NoKey
  BY Zenon DEF AsBaseline, WithPacket
  <3> HIDE DEF stored
  <3>6. Fits(stored)  BY <3>3, UnchangedKeysFit
  <3>7. ASSUME KeyIn(dg.interval, dg.n) # NoKey
        PROVE  Fits(WithKey(stored, dg.interval, dg.content.key))
   <4> DEFINE w == WithKey(stored, dg.interval, dg.content.key)
   <4>1. dg.n = 1 /\ dg.interval > DisclosureDelay  BY <3>7 DEF KeyIn
   <4>2. StepFits(stored, w, dg, first, marked, t)  BY <1>4, <3>3, <4>1, DatagramKeyFits
   <4> HIDE DEF w
   <4>3. SameTimeline(w, st)  BY <3>3, <4>2 DEF StepFits, SameTimeline
   <4>4. Live(st) <=> Live(stored)  BY <3>3, Zenon DEF Live
   <4> QED BY <3>3, <4>2, <4>3, <4>4, Zenon DEF StepFits, w
  <3> QED BY <1>1, <3>4, <3>5, <3>6, <3>7, Zenon
 <2>5. dg.source = "attack" \/ dg.source # "attack"  OBVIOUS
 <2> QED BY <2>2, <2>3, <2>4
<1> QED BY <1>2, <1>3, <1>4

-----------------------------------------------------------------------------
(* The invariant under the manager's commands.                             *)

\* A context at work fits its history; no context leaves a packet pending.
SenderFits(s) ==
    /\ Settled(state[s])
    /\ state[s].active => ContextFits(state[s], firstKey[s], blemished[s], now)

\* The queue is in the order of arrival.
QueueInOrder ==
    \A k \in 1 .. Len(queue) :
        /\ queue[k].at <= now
        /\ \A m \in 1 .. Len(queue) : m < k => queue[m].at <= queue[k].at

\* What waits in it fits the context that it is for.
QueueFits ==
    \A k \in 1 .. Len(queue) : \A s \in Senders :
        queue[k].sender = s /\ state[s].active =>
            DatagramFits(queue[k], state[s], firstKey[s], blemished[s])

TimelyInv == IInv /\ QueueInOrder /\ QueueFits /\ \A s \in Senders : SenderFits(s)

\* The context after the datagram of a turn.
LEMMA AfterFits ==
    ASSUME TimelyInv, NEW s \in Senders
    PROVE  /\ After[s] \in ReceiverState /\ Settled(After[s])
           /\ After[s].active => state[s].active
           /\ state[s].active =>
                /\ ContextFits(After[s], firstKey[s], blemished[s], now)
                /\ SameTimeline(After[s], state[s])
                /\ \A x \in ChainKeys : x \in After[s].keys =>
                     \/ x \in state[s].keys
                     \/ /\ queue # <<>> /\ queue[1].sender = s
                        /\ Discloses(queue[1], x)
                /\ Live(state[s]) /\ ~Live(After[s]) => After[s].verified = ChainKeys
<1> USE DEF TimelyInv, IInv
<1>1. /\ state[s] \in ReceiverState /\ firstKey[s] \in [ChainKeys -> Nat]
      /\ blemished[s] \in BOOLEAN /\ now \in Nat /\ queue \in Seq(Datagram)
  BY DEF TypeOK
<1>2. After[s] \in ReceiverState /\ (~Live(state[s]) => After[s] = state[s])
  BY AfterType
<1>3. SenderFits(s)
  OBVIOUS
<1>4. CASE queue # <<>> /\ Head(queue).sender = s /\ state[s].active
 <2>1. 1 \in 1 .. Len(queue) /\ Head(queue) = queue[1] /\ queue[1] \in Datagram
  BY <1>1, <1>4, EmptySeq
 <2>2. After[s] = Processed(state[s], queue[1])  BY <1>4, <2>1 DEF After
 <2>3. DatagramFits(queue[1], state[s], firstKey[s], blemished[s]) /\ queue[1].at <= now
  BY <1>4, <2>1 DEF QueueFits, QueueInOrder
 <2>4. StepFits(state[s], After[s], queue[1], firstKey[s], blemished[s], now)
  BY <1>1, <1>3, <1>4, <2>1, <2>2, <2>3, ProcessedFits DEF SenderFits
 <2> QED BY <1>2, <1>4, <2>1, <2>4, Zenon DEF StepFits
<1>5. CASE ~(queue # <<>> /\ Head(queue).sender = s) \/ ~state[s].active
 <2>1. After[s] = state[s]  BY <1>2, <1>5 DEF After, Live
 <2> QED BY <1>2, <1>3, <2>1, Zenon DEF SenderFits, SameTimeline
<1> QED BY <1>4, <1>5

LEMMA WorkerTurnTimely ==
    ASSUME TimelyInv, WorkerTurn
    PROVE  TimelyInv'
<1>0. IInv /\ IInv' /\ TypeOK
  BY WorkerTurnInv DEF TimelyInv, IInv
<1>1. /\ state' = [s \in Senders |->
            IF s \in Late THEN [After[s] EXCEPT !.active = FALSE, !.reported = TRUE]
            ELSE After[s]]
      /\ UNCHANGED <<now, firstKey, blemished>>
  BY <1>0, TurnReports DEF WorkerTurn
<1>2. ASSUME NEW s \in Senders
      PROVE  /\ Settled(state'[s])
             /\ state'[s].active => state[s].active /\ state'[s] = After[s]
 <2>1. /\ After[s] \in ReceiverState /\ Settled(After[s])
       /\ After[s].active => state[s].active
  BY AfterFits
 <2>2. CASE s \in Late
  <3>1. state'[s] = [After[s] EXCEPT !.active = FALSE, !.reported = TRUE]  BY <1>1, <2>2
  <3>2. /\ state'[s].records = After[s].records /\ state'[s].verified = After[s].verified
        /\ ~state'[s].active
  BY <2>1, <3>1 DEF ReceiverState
  <3> QED BY <2>1, <3>2, Zenon DEF Settled
 <2>3. CASE s \notin Late
  <3>1. state'[s] = After[s]  BY <1>1, <2>3
  <3> QED BY <2>1, <3>1
 <2> QED BY <2>2, <2>3
<1>3. ASSUME NEW s \in Senders PROVE SenderFits(s)'
 <2>1. state'[s].active => ContextFits(state'[s], firstKey'[s], blemished'[s], now')
  BY <1>1, <1>2, AfterFits
 <2> QED BY <1>2, <2>1 DEF SenderFits
<1>4. ASSUME NEW k \in 1 .. Len(queue')
      PROVE  queue # <<>> /\ k + 1 \in 1 .. Len(queue) /\ queue'[k] = queue[k + 1]
 <2>1. queue \in Seq(Datagram) /\ Len(queue) \in Nat  BY <1>0, LenProperties DEF TypeOK
 <2>0. queue' = IF queue = <<>> THEN queue ELSE Tail(queue)  BY Zenon DEF WorkerTurn
 <2>2. queue # <<>>  BY <1>4, <2>0, EmptySeq
 <2>3. queue' = Tail(queue)  BY <2>0, <2>2
 <2> QED BY <1>4, <2>1, <2>2, <2>3, HeadTailProperties
<1>5. QueueInOrder'
 <2> SUFFICES ASSUME NEW k \in 1 .. Len(queue'), NEW m \in 1 .. Len(queue')
              PROVE  queue'[k].at <= now' /\ (m < k => queue'[m].at <= queue'[k].at)
  BY DEF QueueInOrder
 <2>1. k + 1 \in 1 .. Len(queue) /\ m + 1 \in 1 .. Len(queue)
       /\ queue'[k] = queue[k + 1] /\ queue'[m] = queue[m + 1]
  BY <1>4
 <2>2. m < k => m + 1 < k + 1  OBVIOUS
 <2> QED BY <1>1, <2>1, <2>2 DEF TimelyInv, QueueInOrder
<1>6. QueueFits'
 <2> SUFFICES ASSUME NEW k \in 1 .. Len(queue'), NEW s \in Senders,
                     queue'[k].sender = s, state'[s].active
              PROVE  DatagramFits(queue'[k], state'[s], firstKey[s], blemished[s])
  BY <1>1 DEF QueueFits
 <2> DEFINE dg == queue[k + 1]
            st == state[s]
            w == After[s]
 <2>1. /\ queue # <<>> /\ k + 1 \in 1 .. Len(queue) /\ queue'[k] = dg
       /\ st.active /\ state'[s] = w
  BY <1>2, <1>4
 <2>2. DatagramFits(dg, st, firstKey[s], blemished[s])  BY <2>1 DEF TimelyInv, QueueFits
 <2>3. /\ SameTimeline(w, st)
       /\ \A x \in ChainKeys : x \in w.keys =>
             \/ x \in st.keys
             \/ queue[1].sender = s /\ Discloses(queue[1], x)
  BY <2>1, AfterFits
 <2>4. queue \in Seq(Datagram) /\ Len(queue) \in Nat /\ firstKey[s] \in [ChainKeys -> Nat]
  BY <1>0, LenProperties DEF TypeOK
 <2>5. queue[1].at <= dg.at /\ queue[1].at \in Nat /\ dg.at \in Nat /\ 1 \in 1 .. Len(queue)
  <3>1. 1 \in 1 .. Len(queue) /\ 1 < k + 1  BY <2>1, <2>4
  <3>2. queue[1] \in Datagram /\ dg \in Datagram  BY <2>1, <2>4, <3>1
  <3>3. queue[1].at <= dg.at  BY <2>1, <3>1 DEF TimelyInv, QueueInOrder
  <3> QED BY <3>1, <3>2, <3>3 DEF Datagram
 <2>6. ASSUME NEW x \in ChainKeys, x \in w.keys
       PROVE  firstKey[s][x] <= dg.at
  <3>1. CASE x \in st.keys  BY <2>2, <3>1 DEF DatagramFits
  <3>2. CASE queue[1].sender = s /\ Discloses(queue[1], x)
   <4>1. DatagramFits(queue[1], st, firstKey[s], blemished[s])
   BY <2>1, <2>5, <3>2 DEF TimelyInv, QueueFits
   <4>2. firstKey[s][x] <= queue[1].at /\ firstKey[s][x] \in Nat
   BY <2>4, <3>2, <4>1 DEF DatagramFits
   <4> QED BY <2>5, <4>2
  <3> QED BY <2>3, <2>6, <3>1, <3>2
 <2>7. \A j, x : Reached(w, j, x) <=> Reached(st, j, x)  BY <2>3, SameReached
 <2> HIDE DEF dg, st, w
 <2>8. DatagramFits(dg, w, firstKey[s], blemished[s])  BY <2>2, <2>6, <2>7, Zenon DEF DatagramFits
 <2> QED BY <2>1, <2>8
<1> QED BY <1>0, <1>3, <1>5, <1>6 DEF TimelyInv

\* Nothing of the round is reached at time 0, which stands for never.
LEMMA ReachedPositive ==
    ASSUME NEW st \in ReceiverState, TimelineFits(st), NEW j \in Nat \ {0}, NEW t \in Nat,
           Reached(st, j, t)
    PROVE  t > 0
<1> DEFINE tl == st.timeline
           m == SegmentAt(tl, j)
           x == StartIn(st, j)
<1>1. /\ m \in 1 .. Len(tl) /\ x = StartBy(st, m, j)
      /\ tl[m].first <= j /\ tl[m].first \in Nat \ {0} /\ tl[m].start \in Nat
  BY StartFromSegment DEF TimelineFits, Reached
<1>2. tl \in Seq(Segment) /\ Len(tl) \in Nat
  BY LenProperties DEF ReceiverState
<1>3. 1 \in 1 .. Len(tl) /\ tl[1].start \in Nat /\ tl[1].first = 1 /\ tl[1].start > Tolerance
  BY <1>1, <1>2, SegmentTypes DEF TimelineFits, Formed
<1>4. \A a \in Nat : a * IntervalLength \in Nat
  BY TimelineParameters, SMT
<1>5. tl[m].start >= tl[1].start
 <2>1. CASE m = 1  BY <1>3, <2>1
 <2>2. CASE 1 < m
  <3>1. Follows(tl[1], tl[m])  BY <1>1, <1>3, <2>2 DEF TimelineFits, Formed
  <3>2. tl[m].first - 1 \in Nat  BY <1>1
  <3>3. (tl[m].first - 1) * IntervalLength \in Nat  BY <1>4, <3>2
  <3> QED BY <1>1, <1>3, <3>1, <3>3 DEF Follows
 <2> QED BY <1>1, <1>2, <2>1, <2>2
<1>6. (j - tl[m].first) * IntervalLength \in Nat
 <2>1. j - tl[m].first \in Nat  BY <1>1
 <2> QED BY <1>4, <2>1
<1>7. x >= tl[m].start /\ x \in Nat
  BY <1>1, <1>6 DEF StartBy
<1>8. x <= t + Tolerance
  BY DEF Reached
<1> HIDE DEF m, x
<1> QED BY <1>1, <1>3, <1>5, <1>7, <1>8, TimelineParameters

\* When nothing that has been reached changes, the promises are kept.
LEMMA FrozenFits ==
    ASSUME NEW a \in ReceiverState, NEW b \in ReceiverState, TimelineFits(b),
           NEW t \in Nat, NEW first \in [ChainKeys -> Nat], NEW marked \in BOOLEAN,
           \A j \in Nat \ {0}, x \in 0 .. t : Reached(b, j, x) <=> Reached(a, j, x),
           a.records = b.records, a.received = b.received, a.keys = b.keys,
           a.verified = b.verified, a.incomplete = b.incomplete
    PROVE  /\ Settled(a) => Settled(b)
           /\ ContextFits(a, first, marked, t) => ContextFits(b, first, marked, t)
           /\ \A dg \in Datagram : dg.at <= t /\ DatagramFits(dg, a, first, marked) =>
                 DatagramFits(dg, b, first, marked)
<1>0. /\ \A j \in ChainKeys : j + DisclosureDelay \in Nat \ {0}
      /\ \A j \in Intervals : j + DisclosureDelay \in Nat \ {0}
  BY RoundParameters, DataIntervalsType, LastIntervalType DEF ChainKeys, Intervals
<1>1. Settled(a) => Settled(b)
  BY Zenon DEF Settled
<1>2. ASSUME RecordsFit(a, marked, t), NEW k \in Packets PROVE RecordFits(b, k, marked, t)
 <2> SUFFICES ASSUME b.records[k] # Empty PROVE RecordFits(b, k, marked, t)
  BY Zenon DEF RecordFits
 <2>1. RecordFits(a, k, marked, t)  BY <1>2 DEF RecordsFit
 <2>2. a.records[k].at \in Nat  BY RecordKinds
 <2>3. a.records[k].at <= t  BY <2>1, Zenon DEF RecordFits
 <2>4. a.records[k].at \in 0 .. t  BY <2>2, <2>3
 <2>5. IntervalOf(k) + DisclosureDelay \in Nat \ {0}  BY <1>0, PacketInterval
 <2> QED BY <2>1, <2>4, <2>5, Zenon DEF RecordFits
<1>3. ASSUME KeysFit(a, first, t) PROVE KeysFit(b, first, t)
 <2> SUFFICES ASSUME NEW j \in ChainKeys, first[j] # 0
              PROVE  Reached(b, j + DisclosureDelay, first[j])
  BY <1>3, Zenon DEF KeysFit
 <2>1. first[j] \in 0 .. t /\ Reached(a, j + DisclosureDelay, first[j])  BY <1>3 DEF KeysFit
 <2> QED BY <1>0, <2>1, Zenon
<1>4. Stored(a) = Stored(b)
  BY Zenon DEF Stored
<1>5. ASSUME NEW dg \in Datagram, dg.at <= t, DatagramFits(dg, a, first, marked)
      PROVE  DatagramFits(dg, b, first, marked)
 <2>1. dg.interval \in Intervals /\ dg.at \in 0 .. t  BY <1>5 DEF Datagram
 <2>2. Reached(b, dg.interval + DisclosureDelay, dg.at) <=>
         Reached(a, dg.interval + DisclosureDelay, dg.at)
  BY <1>0, <2>1
 <2> QED BY <1>5, <2>2, Zenon DEF DatagramFits
<1> QED BY <1>1, <1>2, <1>3, <1>4, <1>5, Zenon DEF ContextFits, RecordsFit

\* A command to the contexts at work that freezes what they have reached.
LEMMA FreezingCommand ==
    ASSUME TimelyInv, IInv',
           \A s \in Senders : state[s].active =>
                /\ TimelineFits(state'[s])
                /\ \A j \in Nat \ {0}, x \in 0 .. now :
                      Reached(state'[s], j, x) <=> Reached(state[s], j, x)
                /\ state'[s].records = state[s].records
                /\ state'[s].received = state[s].received
                /\ state'[s].keys = state[s].keys
                /\ state'[s].verified = state[s].verified
                /\ state'[s].incomplete = state[s].incomplete,
           \A s \in Senders : ~state[s].active => state'[s] = state[s],
           UNCHANGED <<now, queue, firstKey, blemished>>
    PROVE  TimelyInv'
<1>1. \A s \in Senders :
        /\ state[s] \in ReceiverState /\ state'[s] \in ReceiverState
        /\ firstKey[s] \in [ChainKeys -> Nat] /\ blemished[s] \in BOOLEAN /\ now \in Nat
  BY DEF TimelyInv, IInv, TypeOK
<1>2. ASSUME NEW s \in Senders, state[s].active
      PROVE  /\ Settled(state[s]) => Settled(state'[s])
             /\ ContextFits(state[s], firstKey[s], blemished[s], now) =>
                   ContextFits(state'[s], firstKey[s], blemished[s], now)
             /\ \A dg \in Datagram :
                   dg.at <= now /\ DatagramFits(dg, state[s], firstKey[s], blemished[s]) =>
                     DatagramFits(dg, state'[s], firstKey[s], blemished[s])
 <2> DEFINE a == state[s]
            b == state'[s]
 <2>1. /\ a \in ReceiverState /\ b \in ReceiverState /\ TimelineFits(b)
       /\ firstKey[s] \in [ChainKeys -> Nat] /\ blemished[s] \in BOOLEAN /\ now \in Nat
       /\ \A j \in Nat \ {0}, x \in 0 .. now : Reached(b, j, x) <=> Reached(a, j, x)
       /\ a.records = b.records /\ a.received = b.received /\ a.keys = b.keys
       /\ a.verified = b.verified /\ a.incomplete = b.incomplete
  BY <1>1, <1>2, Zenon
 <2> HIDE DEF a, b
 <2>2. /\ Settled(a) => Settled(b)
       /\ ContextFits(a, firstKey[s], blemished[s], now) =>
             ContextFits(b, firstKey[s], blemished[s], now)
       /\ \A dg \in Datagram : dg.at <= now /\ DatagramFits(dg, a, firstKey[s], blemished[s]) =>
             DatagramFits(dg, b, firstKey[s], blemished[s])
  BY <2>1, FrozenFits
 <2> QED BY <2>2 DEF a, b
<1>3. ASSUME NEW s \in Senders PROVE SenderFits(s)'
 <2>1. SenderFits(s)  BY DEF TimelyInv
 <2>2. CASE state[s].active  BY <1>2, <2>1, <2>2, Zenon DEF SenderFits
 <2>3. CASE ~state[s].active  BY <2>1, <2>3, Zenon DEF SenderFits
 <2> QED BY <2>2, <2>3
<1>4. QueueInOrder'
  BY DEF TimelyInv, QueueInOrder
<1>5. QueueFits'
 <2> SUFFICES ASSUME NEW k \in 1 .. Len(queue), NEW s \in Senders,
                     queue[k].sender = s, state'[s].active
              PROVE  DatagramFits(queue[k], state'[s], firstKey[s], blemished[s])
  BY DEF QueueFits
 <2>1. state[s].active  BY Zenon
 <2>2. queue[k] \in Datagram  BY DEF TimelyInv, IInv, TypeOK
 <2>3. queue[k].at <= now /\ DatagramFits(queue[k], state[s], firstKey[s], blemished[s])
  BY <2>1 DEF TimelyInv, QueueInOrder, QueueFits
 <2> QED BY <1>2, <2>1, <2>2, <2>3
<1> QED BY <1>3, <1>4, <1>5 DEF TimelyInv

\* The keys that a datagram carries, at the moment it comes.
LEMMA ArrivalFits ==
    ASSUME NEW st \in ReceiverState, NEW dg \in Datagram, NEW first \in [ChainKeys -> Nat],
           NEW marked \in BOOLEAN, NEW t \in Nat, ContextFits(st, first, marked, t),
           dg.at = t, <<dg.interval, dg.n>> \in AllDatagrams, Reached(st, dg.interval, t),
           NEW first2, first2 = [j \in ChainKeys |->
               IF first[j] = 0 /\ Discloses(dg, j) THEN dg.at ELSE first[j]],
           NEW marked2 \in BOOLEAN, marked => marked2
    PROVE  /\ t > 0 /\ \A j \in ChainKeys : first[j] # 0 => first2[j] = first[j]
           /\ ContextFits(st, first2, marked2, t)
           /\ \A j \in ChainKeys : Discloses(dg, j) => first2[j] # 0
           /\ \A j \in ChainKeys : first2[j] <= t
<1>1. dg.interval \in Nat \ {0} /\ dg.n \in Nat \ {0}
  BY DatagramPlace
<1>2. TimelineFits(st) /\ KeysFit(st, first, t)
  BY DEF ContextFits
<1>3. t > 0
  BY <1>1, <1>2, ReachedPositive
<1>4. \A j \in ChainKeys : /\ first[j] # 0 => first2[j] = first[j]
                           /\ Discloses(dg, j) => first2[j] # 0
                           /\ first2[j] \in {first[j], t}
                           /\ first2[j] # first[j] => Discloses(dg, j) /\ first2[j] = t
  BY <1>3
<1>5. \A j \in ChainKeys : first[j] <= t
  BY <1>2, <1>3 DEF KeysFit
<1>6. \A j \in ChainKeys : first2[j] <= t
  BY <1>4, <1>5
<1>7. ASSUME NEW j \in ChainKeys, Discloses(dg, j)
      PROVE  Reached(st, j + DisclosureDelay, t)
 <2>1. j \in Nat \ {0} /\ DisclosureDelay \in Nat \ {0}
  BY RoundParameters, DataIntervalsType DEF ChainKeys
 <2>2. KeyIn(dg.interval, dg.n) >= j  BY <1>7 DEF Discloses
 <2>3. j + DisclosureDelay <= dg.interval /\ j + DisclosureDelay \in Nat \ {0}
  BY <1>1, <2>1, <2>2 DEF KeyIn, NoKey
 <2> DEFINE x == StartIn(st, j + DisclosureDelay)
            y == StartIn(st, dg.interval)
 <2>4. y # Unknown /\ y <= t + Tolerance  BY DEF Reached
 <2>5. x # Unknown /\ x \in Nat /\ y \in Nat /\ x <= y  BY <1>1, <1>2, <2>3, <2>4, StartsInOrder
 <2> HIDE DEF x, y
 <2>6. x # Unknown /\ x <= t + Tolerance  BY <2>4, <2>5, TimelineParameters
 <2> QED BY <2>6 DEF Reached, x
<1>8. KeysFit(st, first2, t)
 <2> SUFFICES ASSUME NEW j \in ChainKeys
              PROVE  /\ first2[j] # 0 =>
                          first2[j] <= t /\ Reached(st, j + DisclosureDelay, first2[j])
                     /\ j \in st.keys => first2[j] # 0
                     /\ j \in st.verified => j \in st.keys
  BY DEF KeysFit
 <2>1. /\ first[j] # 0 => Reached(st, j + DisclosureDelay, first[j])
       /\ j \in st.keys => first[j] # 0
       /\ j \in st.verified => j \in st.keys
  BY <1>2 DEF KeysFit
 <2>2. CASE first2[j] = first[j]  BY <1>6, <2>1, <2>2
 <2>3. CASE first2[j] # first[j]  BY <1>3, <1>4, <1>6, <1>7, <2>1, <2>3
 <2> QED BY <2>2, <2>3
<1>9. RecordsFit(st, marked2, t)
  BY Zenon DEF ContextFits, RecordsFit, RecordFits
<1>10. ContextFits(st, first2, marked2, t)
  BY <1>8, <1>9, Zenon DEF ContextFits
<1> QED BY <1>3, <1>4, <1>6, <1>10

LEMMA ReceiveTimely ==
    ASSUME TimelyInv, NEW dg \in Datagram, dg.at = now,
           <<dg.interval, dg.n>> \in AllDatagrams, Receive(dg)
    PROVE  TimelyInv'
<1> DEFINE d == dg.sender
<1>0. IInv /\ IInv' /\ TypeOK /\ d \in Senders
  BY ReceiveInv DEF TimelyInv, IInv, Datagram
<1>1. /\ UNCHANGED <<now, state>> /\ now \in Nat
      /\ queue \in Seq(Datagram) /\ Len(queue) \in Nat
      /\ \/ queue' = queue
         \/ queue' = Append(queue, dg) /\ state[d].active
      /\ MaySend(d, dg.interval)
  BY <1>0, LenProperties DEF Receive, TypeOK
<1>2. /\ firstKey' = [firstKey EXCEPT ![d] = [j \in ChainKeys |->
             IF firstKey[d][j] = 0 /\ Discloses(dg, j) THEN dg.at ELSE firstKey[d][j]]]
      /\ blemished' = [blemished EXCEPT ![d] = blemished[d] \/ Blemish(dg)]
      /\ firstKey \in [Senders -> [ChainKeys -> Nat]] /\ blemished \in [Senders -> BOOLEAN]
  BY <1>0 DEF Receive, TypeOK
<1>3. /\ \A s \in Senders : s # d => firstKey'[s] = firstKey[s] /\ blemished'[s] = blemished[s]
      /\ firstKey'[d] = [j \in ChainKeys |->
             IF firstKey[d][j] = 0 /\ Discloses(dg, j) THEN dg.at ELSE firstKey[d][j]]
      /\ blemished'[d] = (blemished[d] \/ Blemish(dg))
  BY <1>0, <1>2, Zenon
<1>4. blemished'[d] \in BOOLEAN /\ (blemished[d] => blemished'[d])
      /\ (~blemished'[d] => ~Blemish(dg))
  BY <1>3, Zenon
<1>5. ASSUME state[d].active
      PROVE  /\ \A j \in ChainKeys : firstKey[d][j] # 0 => firstKey'[d][j] = firstKey[d][j]
             /\ ContextFits(state[d], firstKey'[d], blemished'[d], now)
             /\ \A j \in ChainKeys : Discloses(dg, j) => firstKey'[d][j] # 0
             /\ \A j \in ChainKeys : firstKey'[d][j] <= now
 <2>1. ContextFits(state[d], firstKey[d], blemished[d], now)
  BY <1>0, <1>5 DEF TimelyInv, SenderFits
 <2>2. Reached(state[d], dg.interval, now)
  <3> DEFINE x == StartIn(state[d], dg.interval)
  <3>1. x # Unknown /\ now + Tolerance >= x  BY <1>1, Zenon DEF MaySend, StartIn
  <3>2. x = Unknown \/ x \in Nat
   <4>1. dg.interval \in Nat \ {0}  BY DatagramPlace
   <4> QED BY <1>0, <2>1, <4>1, StartFromSegment DEF ContextFits, TimelineFits, TypeOK
  <3> HIDE DEF x
  <3>3. x <= now + Tolerance  BY <1>1, <3>1, <3>2, TimelineParameters
  <3> QED BY <3>1, <3>3 DEF Reached, x
 <2>3. /\ state[d] \in ReceiverState /\ firstKey[d] \in [ChainKeys -> Nat]
       /\ blemished[d] \in BOOLEAN
  BY <1>0, <1>2 DEF TypeOK
 <2> DEFINE st == state[d]
            first == firstKey[d]
            first2 == firstKey'[d]
            marked == blemished[d]
            marked2 == blemished'[d]
 <2>4. /\ first2 = [j \in ChainKeys |-> IF first[j] = 0 /\ Discloses(dg, j) THEN dg.at
                                                                          ELSE first[j]]
       /\ marked2 \in BOOLEAN /\ (marked => marked2)
  BY <1>3, <1>4
 <2>5. now \in Nat  BY <1>1
 <2> HIDE DEF st, first, first2, marked, marked2, d
 <2>6. /\ st \in ReceiverState /\ first \in [ChainKeys -> Nat] /\ marked \in BOOLEAN
       /\ ContextFits(st, first, marked, now) /\ Reached(st, dg.interval, now)
  BY <2>1, <2>2, <2>3 DEF st, first, marked
 <2>7. /\ \A j \in ChainKeys : first[j] # 0 => first2[j] = first[j]
       /\ ContextFits(st, first2, marked2, now)
       /\ \A j \in ChainKeys : Discloses(dg, j) => first2[j] # 0
       /\ \A j \in ChainKeys : first2[j] <= now
  BY <2>4, <2>5, <2>6, ArrivalFits
 <2> QED BY <2>7 DEF st, first, first2, marked2
<1>6. ASSUME NEW s \in Senders PROVE SenderFits(s)'
 <2>1. SenderFits(s)  BY DEF TimelyInv
 <2>2. CASE s = d  BY <1>1, <1>5, <2>1, <2>2, Zenon DEF SenderFits
 <2>3. CASE s # d  BY <1>1, <1>3, <2>1, <2>3, Zenon DEF SenderFits
 <2> QED BY <2>2, <2>3
<1>7. ASSUME NEW k \in 1 .. Len(queue')
      PROVE  \/ k \in 1 .. Len(queue) /\ queue'[k] = queue[k]
             \/ k = Len(queue) + 1 /\ queue'[k] = dg /\ state[d].active
  BY <1>1, <1>7, AppendProperties
<1>8. QueueInOrder'
 <2> SUFFICES ASSUME NEW k \in 1 .. Len(queue'), NEW m \in 1 .. Len(queue')
              PROVE  queue'[k].at <= now /\ (m < k => queue'[m].at <= queue'[k].at)
  BY <1>1 DEF QueueInOrder
 <2>1. \A x \in 1 .. Len(queue) : queue[x].at <= now  BY DEF TimelyInv, QueueInOrder
 <2>2. queue'[k].at <= now  BY <1>1, <1>7, <2>1
 <2>3. ASSUME m < k PROVE queue'[m].at <= queue'[k].at
  <3>1. CASE k \in 1 .. Len(queue) /\ queue'[k] = queue[k]
   <4>1. m \in 1 .. Len(queue) /\ queue'[m] = queue[m]  BY <1>1, <1>7, <2>3, <3>1
   <4> QED BY <2>3, <3>1, <4>1 DEF TimelyInv, QueueInOrder
  <3>2. CASE k = Len(queue) + 1 /\ queue'[k] = dg
   <4>1. m \in 1 .. Len(queue) /\ queue'[m] = queue[m]  BY <1>1, <1>7, <2>3, <3>2
   <4> QED BY <2>1, <3>2, <4>1
  <3> QED BY <1>7, <3>1, <3>2
 <2> QED BY <2>2, <2>3
<1>9. QueueFits'
 <2> SUFFICES ASSUME NEW k \in 1 .. Len(queue'), NEW s \in Senders,
                     queue'[k].sender = s, state[s].active
              PROVE  DatagramFits(queue'[k], state[s], firstKey'[s], blemished'[s])
  BY <1>1 DEF QueueFits
 <2>1. CASE k \in 1 .. Len(queue) /\ queue'[k] = queue[k]
  <3>1. DatagramFits(queue[k], state[s], firstKey[s], blemished[s])
  BY <2>1 DEF TimelyInv, QueueFits
  <3>2. CASE s # d  BY <1>3, <2>1, <3>1, <3>2
  <3>3. CASE s = d
   <4>1. \A j \in ChainKeys : firstKey[s][j] # 0 => firstKey'[s][j] = firstKey[s][j]  BY <1>5, <3>3
   <4>2. \A j \in ChainKeys : j \in state[s].keys => firstKey[s][j] # 0
   BY DEF TimelyInv, SenderFits, ContextFits, KeysFit
   <4>3. blemished[s] => blemished'[s]  BY <1>4, <3>3
   <4>4. DatagramFits(queue[k], state[s], firstKey'[s], blemished'[s])
   BY <3>1, <4>1, <4>2, <4>3, Zenon DEF DatagramFits
   <4> QED BY <2>1, <4>4
  <3> QED BY <3>2, <3>3
 <2>2. CASE queue'[k] = dg
  <3>1. s = d /\ state[d].active  BY <2>2
  <3>2. \A j \in ChainKeys : /\ Discloses(dg, j) => firstKey'[d][j] # 0
                             /\ firstKey'[d][j] <= dg.at
  BY <1>5, <3>1
  <3>3. ASSUME ~blemished'[d]
        PROVE  /\ dg.content = Genuine /\ dg.source = "normal"
               /\ IsData(dg.interval) =>
                     ~Reached(state[d], dg.interval + DisclosureDelay, dg.at)
   <4>1. dg.content = Genuine /\ dg.source # "attack"
         /\ (IsData(dg.interval) =>
               TimeSafe(state[d].timeline, state[d].pauseAfter, dg.interval, dg.at))
   BY <1>4, <3>3, Zenon DEF Blemish
   <4>2. dg.source = "normal"  BY <4>1 DEF Datagram
   <4>3. /\ state[d] \in ReceiverState /\ TimelineFits(state[d])
         /\ dg.interval \in Nat \ {0} /\ dg.at \in Nat
   BY <1>0, <3>1, DatagramPlace DEF TimelyInv, SenderFits, ContextFits, TypeOK, Datagram
   <4>4. TimeSafe(state[d].timeline, state[d].pauseAfter, dg.interval, dg.at) <=>
           ~Reached(state[d], dg.interval + DisclosureDelay, dg.at)
   BY <4>3, TimeSafeMeans
   <4> QED BY <4>1, <4>2, <4>4, Zenon
  <3>4. DatagramFits(dg, state[d], firstKey'[d], blemished'[d])
  BY <3>2, <3>3, Zenon DEF DatagramFits
  <3> QED BY <2>2, <3>1, <3>4
 <2> QED BY <1>7, <2>1, <2>2
<1> QED BY <1>0, <1>6, <1>8, <1>9 DEF TimelyInv

LEMMA EmptySettled ==
    ASSUME NEW isActive \in BOOLEAN, NEW timeline
    PROVE  LET st == FreshState(isActive, timeline) IN
           /\ Settled(st) /\ st.active = isActive
           /\ Stored(st) = {} /\ \A k \in Packets : st.records[k] = Empty
<1> DEFINE st == FreshState(isActive, timeline)
<1>1. /\ st.active = isActive /\ st.verified = {}
      /\ \A k \in Packets : st.records[k] = Empty
  BY DEF FreshState
<1> HIDE DEF st
<1>2. Settled(st)
  BY <1>1 DEF Settled
<1>3. Stored(st) = {}
  BY <1>1 DEF Stored
<1> QED BY <1>1, <1>2, <1>3 DEF st

LEMMA InitTimely == Init => TimelyInv
<1> SUFFICES ASSUME Init PROVE TimelyInv
  OBVIOUS
<1>1. \A s \in Senders : Settled(state[s]) /\ ~state[s].active
  BY EmptySettled DEF Init
<1>2. Len(queue) = 0
  BY EmptySeq DEF Init
<1>3. QueueInOrder /\ QueueFits
  BY <1>2 DEF QueueInOrder, QueueFits
<1> QED BY <1>1, <1>3, InitInv DEF TimelyInv, SenderFits

\* Steps that leave the contexts, the queue and the time alone.
LEMMA QuietTimely ==
    ASSUME TimelyInv, IInv', UNCHANGED <<now, state, queue, firstKey, blemished>>
    PROVE  TimelyInv'
<1>1. \A s \in Senders : SenderFits(s)'
  BY DEF TimelyInv, SenderFits
<1>2. QueueInOrder' /\ QueueFits'
  BY DEF TimelyInv, QueueInOrder, QueueFits
<1> QED BY <1>1, <1>2 DEF TimelyInv

LEMMA TickTimely ==
    ASSUME TimelyInv, Tick
    PROVE  TimelyInv'
<1>0. IInv /\ IInv' /\ now' = now + 1 /\ now \in Nat
      /\ UNCHANGED <<state, queue, firstKey, blemished>>
 <2>1. IInv /\ TypeOK  BY DEF TimelyInv, IInv
 <2> QED BY <2>1, NextInv DEF Next, Tick, TypeOK
<1>1. ASSUME NEW s \in Senders PROVE SenderFits(s)'
 <2> DEFINE st == state[s]
 <2>1. SenderFits(s) /\ st \in ReceiverState /\ firstKey[s] \in [ChainKeys -> Nat]
  BY <1>0 DEF TimelyInv, IInv, TypeOK
 <2>2. ASSUME st.active
       PROVE  ContextFits(st, firstKey[s], blemished[s], now + 1)
  <3>1. ContextFits(st, firstKey[s], blemished[s], now)  BY <2>1, <2>2 DEF SenderFits
  <3>2. RecordsFit(st, blemished[s], now + 1)
   <4> SUFFICES ASSUME NEW k \in Packets PROVE RecordFits(st, k, blemished[s], now + 1)
   BY DEF RecordsFit
   <4>1. RecordFits(st, k, blemished[s], now)  BY <3>1 DEF ContextFits, RecordsFit
   <4>2. CASE st.records[k] = Empty  BY <4>2, Zenon DEF RecordFits
   <4>3. CASE st.records[k] # Empty
    <5>1. st.records[k].at \in Nat  BY <2>1, <4>3, RecordKinds
    <5>2. st.records[k].at <= now  BY <4>1, <4>3, Zenon DEF RecordFits
    <5>3. st.records[k].at <= now + 1  BY <1>0, <5>1, <5>2
    <5> QED BY <4>1, <4>3, <5>3, Zenon DEF RecordFits
   <4> QED BY <4>2, <4>3
  <3>3. KeysFit(st, firstKey[s], now + 1)
   <4>1. \A j \in ChainKeys : firstKey[s][j] <= now => firstKey[s][j] <= now + 1  BY <1>0, <2>1
   <4> QED BY <3>1, <4>1, Zenon DEF ContextFits, KeysFit
  <3> QED BY <3>1, <3>2, <3>3, Zenon DEF ContextFits
 <2> QED BY <1>0, <2>1, <2>2 DEF SenderFits
<1>2. QueueInOrder'
 <2>1. \A k \in 1 .. Len(queue) : queue[k].at \in Nat
  <3>1. \A k \in 1 .. Len(queue) : queue[k] \in Datagram  BY <1>0 DEF IInv, TypeOK
  <3> QED BY <3>1 DEF Datagram
 <2> QED BY <1>0, <2>1 DEF TimelyInv, QueueInOrder
<1>3. QueueFits'
  BY <1>0 DEF TimelyInv, QueueFits
<1> QED BY <1>0, <1>1, <1>2, <1>3 DEF TimelyInv

\* stop() and configure() leave no context at work and nothing in the queue.
LEMMA StopRoundTimely ==
    ASSUME TimelyInv, IInv', queue' = <<>>,
           \A s \in Senders : Settled(state'[s]) /\ ~state'[s].active
    PROVE  TimelyInv'
<1>1. Len(queue') = 0
  BY EmptySeq
<1>2. QueueInOrder' /\ QueueFits'
  BY <1>1 DEF QueueInOrder, QueueFits
<1> QED BY <1>2 DEF TimelyInv, SenderFits

LEMMA StopTimely ==
    ASSUME TimelyInv, Stop
    PROVE  TimelyInv'
<1>1. IInv' /\ queue' = <<>>
  BY StopInv DEF TimelyInv, Stop, StopRound
<1>2. ASSUME NEW s \in Senders PROVE Settled(state'[s]) /\ ~state'[s].active
 <2>1. state[s] \in ReceiverState /\ Settled(state[s])  BY DEF TimelyInv, SenderFits, IInv, TypeOK
 <2> DEFINE v == state[s].reported \/ Live(state[s])
 <2>2. state'[s] = [state[s] EXCEPT !.active = FALSE, !.reported = v]  BY DEF Stop
 <2> HIDE DEF v
 <2>3. /\ state'[s].records = state[s].records /\ state'[s].verified = state[s].verified
       /\ ~state'[s].active
  BY <2>1, <2>2 DEF ReceiverState
 <2> QED BY <2>1, <2>3, Zenon DEF Settled
<1> QED BY <1>1, <1>2, StopRoundTimely

LEMMA ConfigureTimely ==
    ASSUME TimelyInv, Configure
    PROVE  TimelyInv'
<1>1. IInv' /\ queue' = <<>>
  BY ConfigureInv DEF TimelyInv, Configure, StopRound
<1>2. ASSUME NEW s \in Senders PROVE Settled(state'[s]) /\ ~state'[s].active
 <2>1. state[s] \in ReceiverState /\ Settled(state[s])  BY DEF TimelyInv, SenderFits, IInv, TypeOK
 <2>2. CASE state' = [x \in Senders |-> FreshState(FALSE, <<>>)]  BY <2>2, EmptySettled
 <2>3. CASE state' = [x \in Senders |-> [state[x] EXCEPT !.active = FALSE]]
  <3>1. /\ state'[s].records = state[s].records /\ state'[s].verified = state[s].verified
        /\ ~state'[s].active
  BY <2>1, <2>3 DEF ReceiverState
  <3> QED BY <2>1, <3>1, Zenon DEF Settled
 <2> QED BY <2>2, <2>3 DEF Configure
<1> QED BY <1>1, <1>2, StopRoundTimely

LEMMA StartTimely ==
    ASSUME TimelyInv, Tolerance <= StartLead, NEW ts \in CallTimes, TimelyStart, Start(ts)
    PROVE  TimelyInv'
<1> DEFINE tl == <<[first |-> 1, start |-> ts]>>
           st == FreshState(TRUE, tl)
<1>0. IInv' /\ ts \in Nat /\ now \in Nat /\ StartLead \in Nat /\ Tolerance \in Nat
  BY StartInv, ReceiverParameters, TimelineParameters DEF TimelyInv, IInv, TypeOK
<1>1. /\ \A s \in Senders : state'[s] = st /\ firstKey'[s] = [j \in ChainKeys |-> 0]
                            /\ blemished'[s] = FALSE
      /\ queue' = <<>> /\ now' = now /\ ts > now + StartLead
  BY DEF Start, TimelyStart, NothingSeen
<1>2. Settled(st) /\ st.active = TRUE /\ Stored(st) = {}
      /\ \A k \in Packets : st.records[k] = Empty
  BY EmptySettled
<1>3. /\ st.timeline = tl /\ st.pauseAfter = NoInterval /\ st.keys = {} /\ st.verified = {}
      /\ st.incomplete = FALSE /\ st.received = 0
  BY DEF FreshState
<1>4. Formed(tl)
 <2>1. Len(tl) = 1 /\ tl[1] = [first |-> 1, start |-> ts]  BY <1>0
 <2>2. tl # <<>>  BY <2>1, EmptySeq
 <2>3. tl[1].first = 1 /\ tl[1].start = ts  BY <2>1
 <2>4. ts > Tolerance  BY <1>0, <1>1
 <2> HIDE DEF tl
 <2> QED BY <2>1, <2>2, <2>3, <2>4 DEF Formed
<1> HIDE DEF st, tl
<1>5. TimelineFits(st)
  BY <1>3, <1>4 DEF TimelineFits, PauseFits
<1>6. ASSUME NEW s \in Senders PROVE SenderFits(s)'
 <2> DEFINE first == [j \in ChainKeys |-> 0]
 <2>1. KeysFit(st, first, now)  BY <1>3 DEF KeysFit
 <2>2. RecordsFit(st, FALSE, now)  BY <1>2 DEF RecordsFit, RecordFits
 <2>3. st.received = Cardinality(Stored(st))  BY <1>2, <1>3, FS_EmptySet
 <2>4. ContextFits(st, first, FALSE, now)  BY <1>3, <1>5, <2>1, <2>2, <2>3 DEF ContextFits
 <2> QED BY <1>1, <1>2, <2>4 DEF SenderFits
<1>7. Len(queue') = 0
  BY <1>1, EmptySeq
<1>8. QueueInOrder' /\ QueueFits'
  BY <1>7 DEF QueueInOrder, QueueFits
<1> QED BY <1>0, <1>6, <1>8 DEF TimelyInv

LEMMA PauseTimely ==
    ASSUME TimelyInv, NEW i \in Intervals, NEW ts \in CallTimes,
           TimelyPause(i, ts), RequestPause(i, ts)
    PROVE  TimelyInv'
<1>0. IInv /\ IInv' /\ ts \in Nat /\ i \in Nat \ {0} /\ now \in Nat
  BY RequestPauseInv, ReceiverParameters DEF TimelyInv, IInv, TypeOK, Intervals
<1>1. UNCHANGED <<now, queue, firstKey, blemished>>
  BY DEF RequestPause
<1>2. \A s \in Senders : /\ state[s] \in ReceiverState /\ state'[s] \in ReceiverState
                         /\ SenderFits(s)
  BY <1>0 DEF TimelyInv, IInv, TypeOK
<1>3. \A s \in Senders : state'[s] =
        IF state[s].active THEN [state[s] EXCEPT !.pauseAfter = i, !.pauseTs = ts]
                           ELSE state[s]
  BY DEF RequestPause
<1>4. ASSUME NEW s \in Senders, state[s].active
      PROVE  /\ TimelineFits(state'[s])
             /\ \A j \in Nat \ {0}, x \in 0 .. now :
                   Reached(state'[s], j, x) <=> Reached(state[s], j, x)
             /\ state'[s].records = state[s].records
             /\ state'[s].received = state[s].received
             /\ state'[s].keys = state[s].keys
             /\ state'[s].verified = state[s].verified
             /\ state'[s].incomplete = state[s].incomplete
 <2> DEFINE a == state[s]
            b == state'[s]
 <2>1. StartIn(a, i + 1) = ts /\ now + Tolerance < ts
       /\ a.timeline[Len(a.timeline)].first <= i
  BY <1>4 DEF TimelyPause, StartOf, StartIn, Last
 <2>2. TimelineFits(a)  BY <1>2, <1>4 DEF SenderFits, ContextFits
 <2>3. a \in ReceiverState /\ b \in ReceiverState
       /\ b = [a EXCEPT !.pauseAfter = i, !.pauseTs = ts]
  BY <1>2, <1>3, <1>4
 <2> HIDE DEF a, b
 <2>4. /\ b.timeline = a.timeline /\ b.pauseAfter = i /\ b.pauseTs = ts
       /\ b.records = a.records /\ b.received = a.received /\ b.keys = a.keys
       /\ b.verified = a.verified /\ b.incomplete = a.incomplete
  BY <2>3 DEF ReceiverState
 <2>5. /\ TimelineFits(b)
       /\ \A j \in Nat \ {0}, x \in 0 .. now : Reached(b, j, x) <=> Reached(a, j, x)
  <3> DEFINE t0 == now
  <3>1. /\ i \in Nat \ {0} /\ ts \in Nat /\ t0 \in Nat
        /\ StartIn(a, i + 1) = ts /\ t0 + Tolerance < ts
        /\ a.timeline[Len(a.timeline)].first <= i
  BY <1>0, <2>1
  <3> HIDE DEF t0
  <3>2. /\ TimelineFits(b)
        /\ \A j \in Nat \ {0}, x \in 0 .. t0 : Reached(b, j, x) <=> Reached(a, j, x)
   <4>1. /\ a \in ReceiverState /\ b \in ReceiverState /\ TimelineFits(a)
         /\ b.timeline = a.timeline /\ b.pauseAfter = i /\ b.pauseTs = ts
   BY <2>2, <2>3, <2>4
   <4> QED BY <3>1, <4>1, PauseFreezes
  <3> QED BY <3>2 DEF t0
 <2> QED BY <2>4, <2>5 DEF a, b
<1>5. \A s \in Senders : ~state[s].active => state'[s] = state[s]
  BY <1>3
<1> QED BY <1>0, <1>1, <1>4, <1>5, FreezingCommand

LEMMA ResumeTimely ==
    ASSUME TimelyInv, Tolerance <= StartLead, NEW i \in Intervals, NEW ts \in CallTimes,
           TimelyResume(i), Resume(i, ts)
    PROVE  TimelyInv'
<1>0. IInv /\ IInv' /\ ts \in Nat /\ i \in Nat \ {0} /\ now \in Nat
  BY ResumeInv, ReceiverParameters DEF TimelyInv, IInv, TypeOK, Intervals
<1>1. UNCHANGED <<now, queue, firstKey, blemished>> /\ ts > now + StartLead
  BY DEF Resume
<1>2. \A s \in Senders : /\ state[s] \in ReceiverState /\ state'[s] \in ReceiverState
                         /\ SenderFits(s)
  BY <1>0 DEF TimelyInv, IInv, TypeOK
<1>3. \A s \in Senders : state'[s] =
        IF state[s].active
        THEN [state[s] EXCEPT !.timeline = Append(state[s].timeline, [first |-> i, start |-> ts])]
        ELSE state[s]
  BY DEF Resume
<1>4. ASSUME NEW s \in Senders, state[s].active
      PROVE  /\ TimelineFits(state'[s])
             /\ \A j \in Nat \ {0}, x \in 0 .. now :
                   Reached(state'[s], j, x) <=> Reached(state[s], j, x)
             /\ state'[s].records = state[s].records
             /\ state'[s].received = state[s].received
             /\ state'[s].keys = state[s].keys
             /\ state'[s].verified = state[s].verified
             /\ state'[s].incomplete = state[s].incomplete
 <2> DEFINE a == state[s]
            b == state'[s]
            tl == Append(a.timeline, [first |-> i, start |-> ts])
 <2>1. /\ StartIn(a, i) = Unknown /\ a.pauseAfter # NoInterval
       /\ i = a.pauseAfter + 1 /\ ts > a.pauseTs
  BY <1>4 DEF TimelyResume, StartOf, StartIn, Resume
 <2>2. TimelineFits(a)  BY <1>2, <1>4 DEF SenderFits, ContextFits
 <2>3. a \in ReceiverState /\ b \in ReceiverState /\ b = [a EXCEPT !.timeline = tl]
  BY <1>2, <1>3, <1>4
 <2> HIDE DEF a, b, tl
 <2>4. /\ b.timeline = tl /\ b.pauseAfter = a.pauseAfter
       /\ b.records = a.records /\ b.received = a.received /\ b.keys = a.keys
       /\ b.verified = a.verified /\ b.incomplete = a.incomplete
  BY <2>3 DEF ReceiverState
 <2>5. /\ TimelineFits(b)
       /\ \A j \in Nat \ {0}, x \in 0 .. now : Reached(b, j, x) <=> Reached(a, j, x)
  <3>1. b.timeline = Append(a.timeline, [first |-> i, start |-> ts])  BY <2>4 DEF tl
  <3> QED BY <1>0, <1>1, <2>1, <2>2, <2>3, <2>4, <3>1, ResumeFreezes
 <2> QED BY <2>4, <2>5 DEF a, b
<1>5. \A s \in Senders : ~state[s].active => state'[s] = state[s]
  BY <1>3
<1> QED BY <1>0, <1>1, <1>4, <1>5, FreezingCommand

LEMMA TimelyIsNext == TimelyNext => Next
  BY Zenon DEF TimelyNext, TimelyControl, Next, Control

LEMMA NextTimely ==
    ASSUME TimelyInv, Tolerance <= StartLead, [TimelyNext]_vars
    PROVE  TimelyInv'
<1>1. IInv'
  BY TimelyIsNext, NextInv DEF TimelyInv
<1>2. CASE WorkerTurn
  BY <1>2, WorkerTurnTimely
<1>3. CASE EmitResults
  BY <1>1, <1>3, QuietTimely DEF EmitResults
<1>4. CASE Network
 <2>1. PICK s \in Senders, x \in AllDatagrams, content \in Contents,
            source \in {"normal", "attack"} :
         Receive([sender |-> s, interval |-> x[1], n |-> x[2], content |-> content,
                  source |-> source, at |-> now])
  BY <1>4 DEF Network
 <2> DEFINE dg == [sender |-> s, interval |-> x[1], n |-> x[2], content |-> content,
                   source |-> source, at |-> now]
 <2>2. /\ dg \in Datagram /\ dg.at = now
       /\ <<dg.interval, dg.n>> \in AllDatagrams
  BY DEF Datagram, AllDatagrams, TimelyInv, IInv, TypeOK
 <2> HIDE DEF dg
 <2>3. Receive(dg)  BY <2>1 DEF dg
 <2> QED BY <2>2, <2>3, ReceiveTimely
<1>5. CASE TimelyControl
 <2>1. CASE Configure  BY <2>1, ConfigureTimely
 <2>2. CASE Stop  BY <2>2, StopTimely
 <2>3. CASE \E ts \in CallTimes : TimelyStart /\ Start(ts)  BY <2>3, StartTimely
 <2>4. CASE \E i \in Intervals, ts \in CallTimes : TimelyPause(i, ts) /\ RequestPause(i, ts)
  BY <2>4, PauseTimely
 <2>5. CASE \E i \in Intervals, ts \in CallTimes : TimelyResume(i) /\ Resume(i, ts)
  BY <2>5, ResumeTimely
 <2>6. CASE \E s \in Senders, expires \in Expiries : MapAttackSource(s, expires)
  BY <1>1, <2>6, QuietTimely DEF MapAttackSource
 <2> QED BY <1>5, <2>1, <2>2, <2>3, <2>4, <2>5, <2>6 DEF TimelyControl
<1>6. CASE Tick
  BY <1>6, TickTimely
<1>7. CASE UNCHANGED vars
  BY <1>1, <1>7, QuietTimely
<1> QED BY <1>2, <1>3, <1>4, <1>5, <1>6, <1>7 DEF TimelyNext, Worker

LEMMA TimelyInvSuffices == TimelyInv => RecordsInOrder
<1> SUFFICES ASSUME TimelyInv, NEW s \in Senders, NEW i \in state[s].verified,
                    NEW k \in PacketsOf(i)
             PROVE  state[s].records[k].status # "Pending"
  BY DEF RecordsInOrder, NothingLeftPending, TimelyInv, IInv
<1>1. i \in ChainKeys
  BY DEF TimelyInv, IInv, TypeOK, ReceiverState
<1>2. k \in Packets /\ i = IntervalOf(k)
  BY <1>1, PacketsOfChainKeys, PacketInterval
<1> QED BY <1>2 DEF TimelyInv, SenderFits, Settled

-----------------------------------------------------------------------------
(* What the results of a round tell.                                       *)

LEMMA RangeContains ==
    ASSUME NEW q \in Seq(Result), NEW x
    PROVE  x \in Range(q) <=> Contains(q, x)
<1>1. DOMAIN q = 1 .. Len(q)
  BY LenProperties
<1> QED BY <1>1, Zenon DEF Range, Contains

\* Only the worker finds out how a round ended by itself.
LEMMA RoundResults ==
    ASSUME IInv, [Next]_vars, NEW r \in NewResults,
           r.status \in {"Completed", "AuthenticationFailed", "ProtocolIncomplete"}
    PROVE  WorkerTurn /\ \E s \in Done : r = Finals[s]
<1>1. /\ delivered \in Seq(Result) /\ outbox \in Seq(Result)
      /\ delivered' \in Seq(Result) /\ outbox' \in Seq(Result) /\ TypeOK
  BY NextInv DEF IInv, TypeOK
<1>2. /\ outbox \o delivered \in Seq(Result) /\ outbox' \o delivered' \in Seq(Result)
      /\ Contains(outbox \o delivered, r) <=> Contains(outbox, r) \/ Contains(delivered, r)
      /\ Contains(outbox' \o delivered', r) <=> Contains(outbox', r) \/ Contains(delivered', r)
  BY <1>1, ConcatResults
<1>3. /\ Contains(outbox', r) \/ Contains(delivered', r)
      /\ ~Contains(outbox, r) /\ ~Contains(delivered, r)
 <2>1. r \in Range(outbox' \o delivered') /\ r \notin Range(outbox \o delivered)
  BY Zenon DEF NewResults
 <2> QED BY <1>2, <2>1, RangeContains, Zenon
<1>4. ~(UNCHANGED <<outbox, delivered>>)
  BY <1>3
<1>5. ~EmitResults
 <2> SUFFICES ASSUME EmitResults PROVE FALSE  OBVIOUS
 <2>1. outbox' = <<>> /\ delivered' = delivered \o outbox  BY DEF EmitResults
 <2>2. ~Contains(<<>>, r)  BY EmptySeq DEF Contains
 <2>3. Contains(delivered \o outbox, r)  BY <1>3, <2>1, <2>2
 <2> QED BY <1>1, <1>3, <2>3, ConcatResults
<1>6. ASSUME NEW report \in BOOLEAN, StopRound(report), outbox' = outbox
      PROVE  FALSE
 <2>1. PICK order \in Seq(Result) : /\ delivered' = delivered \o order
                                    /\ \A x : Contains(order, x) => x.status = "Stopped"
  BY <1>1, <1>6, StopRoundReports
 <2>2. Contains(delivered \o order, r)  BY <1>3, <1>6, <2>1
 <2>3. Contains(order, r)  BY <1>1, <1>3, <2>2, ConcatResults
 <2> QED BY <2>1, <2>3
<1>7. ~Control
 <2>1. ~Configure /\ ~Stop  BY <1>6 DEF Configure, Stop
 <2>2. \A ts \in CallTimes : ~Start(ts)  BY <1>4 DEF Start
 <2>3. \A i \in Intervals, ts \in CallTimes : ~RequestPause(i, ts) /\ ~Resume(i, ts)
  BY <1>4 DEF RequestPause, Resume
 <2>4. \A s \in Senders, expires \in Expiries : ~MapAttackSource(s, expires)
  BY <1>4 DEF MapAttackSource
 <2> QED BY <2>1, <2>2, <2>3, <2>4, Zenon DEF Control
<1>8. ~Network /\ ~Tick
 <2>1. \A dg : ~Receive(dg)  BY <1>4, Zenon DEF Receive
 <2>2. ~Tick  BY <1>4, Zenon DEF Tick
 <2> QED BY <2>1, <2>2, Zenon DEF Network
<1>9. WorkerTurn
  BY <1>4, <1>5, <1>7, <1>8 DEF Next, Worker, vars
<1>10. Contains(outbox', r)
 <2>1. delivered' = delivered  BY <1>9, Zenon DEF WorkerTurn
 <2> QED BY <1>3, <2>1
<1>11. ~(\E s \in Late : r = Timeouts[s])
  BY DEF Timeouts, ResultOf
<1> QED BY <1>1, <1>9, <1>10, <1>11, TurnReports, Zenon

\* The context that such a result is about.
LEMMA EndedContext ==
    ASSUME TimelyInv, WorkerTurn, NEW s \in Done
    PROVE  /\ s \in Senders /\ After[s] \in ReceiverState /\ state'[s] = After[s]
           /\ After[s].verified = ChainKeys /\ Settled(After[s])
           /\ ContextFits(After[s], firstKey[s], blemished[s], now)
           /\ Finals[s] = ResultOf(s, After[s], FinalStatus(After[s]))
<1>1. s \in Senders /\ Live(state[s]) /\ ~Live(After[s])
  BY DEF Done
<1>2. s \notin Late
  BY <1>1 DEF Late, TimedOut
<1>3. state'[s] = After[s]
  BY <1>1, <1>2, TurnReports DEF TimelyInv, IInv
<1> QED BY <1>1, <1>3, AfterFits DEF Live, Finals

LEMMA CountsOfPackets ==
    /\ IsFiniteSet(Packets) /\ Cardinality(Packets) = TotalPackets
    /\ \A S \in SUBSET Packets : /\ Cardinality(S) \in Nat /\ Cardinality(S) <= TotalPackets
                                 /\ Cardinality(S) = TotalPackets => S = Packets
<1>1. IsFiniteSet(Packets) /\ Cardinality(Packets) = TotalPackets
  BY RoundParameters, FS_Interval DEF Packets
<1>2. ASSUME NEW S \in SUBSET Packets
      PROVE  /\ Cardinality(S) \in Nat /\ Cardinality(S) <= TotalPackets
             /\ Cardinality(S) = TotalPackets => S = Packets
  BY <1>1, FS_Subset, FS_CardinalityType
<1> QED BY <1>1, <1>2

\* A packet stored in time was there before its key.
LEMMA BeforeItsKey ==
    ASSUME NEW st \in ReceiverState, NEW first \in [ChainKeys -> Nat], NEW marked \in BOOLEAN,
           NEW t \in Nat, ContextFits(st, first, marked, t), st.verified = ChainKeys,
           NEW k \in Packets, st.records[k] # Empty
    PROVE  st.records[k].source = "normal" /\ st.records[k].at < first[IntervalOf(k)]
<1> DEFINE j == IntervalOf(k)
           at == st.records[k].at
           x == StartIn(st, j + DisclosureDelay)
<1>1. j \in ChainKeys
  BY PacketInterval
<1>2. j + DisclosureDelay \in Nat \ {0}
  BY <1>1, DataIntervalsType, RoundParameters DEF ChainKeys
<1>3. at \in Nat /\ first[j] \in Nat /\ Tolerance \in Nat
  BY <1>1, RecordKinds, TimelineParameters
<1>4. st.records[k].source = "normal" /\ ~Reached(st, j + DisclosureDelay, at)
  BY DEF ContextFits, RecordsFit, RecordFits
<1>5. first[j] # 0
  BY <1>1, Zenon DEF ContextFits, KeysFit
<1>6. Reached(st, j + DisclosureDelay, first[j])
  BY <1>1, <1>5 DEF ContextFits, KeysFit
<1>7. x = Unknown \/ x \in Nat
  BY <1>2, StartFromSegment DEF ContextFits, TimelineFits
<1> HIDE DEF j, at, x
<1>8. x # Unknown /\ x <= first[j] + Tolerance /\ ~(x <= at + Tolerance)
  BY <1>4, <1>6, Zenon DEF Reached, x
<1> QED BY <1>3, <1>4, <1>7, <1>8 DEF j, at

LEMMA CompletedStep ==
    ASSUME TimelyInv, [TimelyNext]_vars, NEW r \in NewResults, r.status = "Completed",
           NEW k \in Packets
    PROVE  LET record == state'[r.sender].records[k]
               seen   == firstKey[r.sender][IntervalOf(k)]
           IN  /\ record.status = "Passed" /\ record.content.mac
               /\ record.source = "normal"
               /\ record.at < seen
<1>1. WorkerTurn /\ \E s \in Done : r = Finals[s]
  BY TimelyIsNext, RoundResults DEF TimelyInv
<1>2. PICK s \in Done : r = Finals[s]
  BY <1>1
<1> DEFINE st == After[s]
<1>3. /\ s \in Senders /\ st \in ReceiverState /\ state'[s] = st /\ st.verified = ChainKeys
      /\ ContextFits(st, firstKey[s], blemished[s], now)
      /\ r = ResultOf(s, st, FinalStatus(st))
  BY <1>1, <1>2, EndedContext
<1> HIDE DEF st
<1>4. r.sender = s /\ FinalStatus(st) = "Completed"
  BY <1>3 DEF ResultOf
<1>5. Count(st, "Passed") = TotalPackets
  BY <1>4 DEF FinalStatus
<1>6. {n \in Packets : st.records[n].status = "Passed"} = Packets
  BY <1>5, CountsOfPackets DEF Count
<1>7. st.records[k].status = "Passed" /\ st.records[k] # Empty
 <2>1. st.records[k].status = "Passed"  BY <1>6
 <2> QED BY <1>3, <2>1, RecordKinds
<1>8. st.records[k].content.mac
  BY <1>3, <1>7 DEF ContextFits, RecordsFit, RecordFits
<1>9. firstKey[s] \in [ChainKeys -> Nat] /\ blemished[s] \in BOOLEAN /\ now \in Nat
  BY <1>3 DEF TimelyInv, IInv, TypeOK
<1>10. st.records[k].source = "normal" /\ st.records[k].at < firstKey[s][IntervalOf(k)]
  BY <1>3, <1>7, <1>9, BeforeItsKey
<1> QED BY <1>3, <1>4, <1>7, <1>8, <1>10

LEMMA FailureStep ==
    ASSUME TimelyInv, TailKeysExist, [TimelyNext]_vars, NEW r \in NewResults,
           ~blemished[r.sender]
    PROVE  /\ r.status # "ProtocolIncomplete"
           /\ r.status = "AuthenticationFailed" => r.missing > 0 /\ r.passed = r.received
<1> SUFFICES ASSUME r.status \in {"AuthenticationFailed", "ProtocolIncomplete"}
             PROVE  /\ r.status = "AuthenticationFailed"
                    /\ r.missing > 0 /\ r.passed = r.received
  BY Zenon
<1>1. WorkerTurn /\ \E s \in Done : r = Finals[s]
  BY TimelyIsNext, RoundResults DEF TimelyInv
<1>2. PICK s \in Done : r = Finals[s]
  BY <1>1
<1> DEFINE st == After[s]
           passed == {k \in Packets : st.records[k].status = "Passed"}
<1>3. /\ s \in Senders /\ st \in ReceiverState /\ st.verified = ChainKeys /\ Settled(st)
      /\ ContextFits(st, firstKey[s], blemished[s], now)
      /\ r = ResultOf(s, st, FinalStatus(st))
  BY <1>1, <1>2, EndedContext
<1> HIDE DEF st
<1>4. /\ r.sender = s /\ r.status = FinalStatus(st)
      /\ r.passed = Count(st, "Passed") /\ r.received = st.received
      /\ r.missing = TotalPackets - st.received
  BY <1>3 DEF ResultOf
<1>5. ~st.incomplete /\ st.received = Cardinality(Stored(st)) /\ ~blemished[s]
  BY <1>3, <1>4 DEF ContextFits
<1>6. r.status = "AuthenticationFailed"
  BY <1>4, <1>5 DEF FinalStatus
<1>7. ASSUME NEW k \in Packets
      PROVE  st.records[k] # Empty <=> st.records[k].status = "Passed"
 <2>1. CASE st.records[k] = Empty  BY <1>3, <2>1, RecordKinds
 <2>2. CASE st.records[k] # Empty
  <3>1. st.records[k].status # "Failed"
  BY <1>3, <1>5, <2>2 DEF ContextFits, RecordsFit, RecordFits
  <3>2. st.records[k].status # "Pending"
   <4>1. IntervalOf(k) \in ChainKeys  BY PacketInterval
   <4> QED BY <1>3, <4>1 DEF Settled
  <3> QED BY <1>3, <2>2, <3>1, <3>2, RecordKinds
 <2> QED BY <2>1, <2>2
<1>8. Stored(st) = passed
  BY <1>7 DEF Stored
<1>9. Count(st, "Passed") = st.received
  BY <1>5, <1>8 DEF Count
<1>10. st.received \in Nat /\ st.received <= TotalPackets
 <2>1. Stored(st) \in SUBSET Packets  BY DEF Stored
 <2> QED BY <1>5, <2>1, CountsOfPackets
<1>11. st.received # TotalPackets
  BY <1>4, <1>5, <1>6, <1>9 DEF FinalStatus
<1>12. TotalPackets - st.received > 0
  BY <1>10, <1>11, RoundParameters
<1> QED BY <1>4, <1>6, <1>9, <1>12

-----------------------------------------------------------------------------
(* What holds of the receiver.                                             *)

\* The receiver's variables keep their types: in particular the queue its
\* bound, and a context the keys and intervals of its own chain.
THEOREM ReceiverTypeCorrect == Spec => []TypeOK
<1>1. Spec => []IInv
  BY InitInv, NextInv, PTL DEF Spec
<1> QED BY <1>1, PTL DEF IInv

\* The worker's last key, its timeout and stop() on another thread compete for
\* the result of a context (finalizeLocked, checkPauseAndTimeoutsLocked, stop):
\* for any number of senders, rounds, commands and datagrams exactly one wins.
THEOREM OneResultHolds == Spec => []OneResultPerRound
<1>1. Spec => []IInv
  BY InitInv, NextInv, PTL DEF Spec
<1> QED BY <1>1, OneInvSuffices, PTL

\* With the manager's commands (TimelyControl) and clocks that differ by less
\* than a start lies ahead: an interval is verified once, when its key or a
\* later one comes (verifyNativeIntervalLocked), and no packet is stored for it
\* afterwards (processDatagramLocked), however long it waited in the queue and
\* whichever pauses and resumes moved the timeline meanwhile.
THEOREM RecordsInOrderHolds ==
    Tolerance <= StartLead => (TimelySpec => []RecordsInOrder)
<1> SUFFICES ASSUME Tolerance <= StartLead PROVE TimelySpec => []RecordsInOrder
  OBVIOUS
<1>1. TimelyInv /\ [TimelyNext]_vars => TimelyInv'
  BY NextTimely
<1> QED BY <1>1, InitTimely, TimelyInvSuffices, PTL DEF TimelySpec

\* A round is reported Completed (finalizeLocked) only when every packet of it
\* came from the sender, has a valid MAC, and arrived before the first datagram
\* that discloses its key or a later one: what TESLA promises, for any number
\* of packets, delay, senders, pauses, and any order and loss of datagrams.
THEOREM CompletedIsAuthenticHolds ==
    Tolerance <= StartLead => (TimelySpec => CompletedIsAuthentic)
<1> SUFFICES ASSUME Tolerance <= StartLead PROVE TimelySpec => CompletedIsAuthentic
  OBVIOUS
<1>1. TimelyInv /\ [TimelyNext]_vars => TimelyInv'
  BY NextTimely
<1>2. TimelyInv /\ [TimelyNext]_vars =>
        [\A r \in NewResults : r.status = "Completed" =>
           \A k \in Packets :
               LET record == state'[r.sender].records[k]
                   seen   == firstKey[r.sender][IntervalOf(k)]
               IN  /\ record.status = "Passed" /\ record.content.mac
                   /\ record.source = "normal"
                   /\ record.at < seen]_vars
  BY CompletedStep
<1> QED BY <1>1, <1>2, InitTimely, PTL DEF TimelySpec, CompletedIsAuthentic

\* Without an altered, injected or late datagram a round is never reported
\* ProtocolIncomplete, and AuthenticationFailed only for packets that were
\* lost: every packet that came has passed.  The configuration must be one
\* whose tail keys exist; for the others the code refuses the sender's round.
THEOREM FailureHasCauseHolds ==
    TailKeysExist /\ Tolerance <= StartLead => (TimelySpec => FailureHasCause)
<1> SUFFICES ASSUME TailKeysExist, Tolerance <= StartLead
             PROVE  TimelySpec => FailureHasCause
  OBVIOUS
<1>1. TimelyInv /\ [TimelyNext]_vars => TimelyInv'
  BY NextTimely
<1>2. TimelyInv /\ [TimelyNext]_vars =>
        [\A r \in NewResults : ~blemished[r.sender] =>
           /\ r.status # "ProtocolIncomplete"
           /\ r.status = "AuthenticationFailed" =>
                  r.missing > 0 /\ r.passed = r.received]_vars
  BY FailureStep
<1> QED BY <1>1, <1>2, InitTimely, PTL DEF TimelySpec, FailureHasCause
=============================================================================
