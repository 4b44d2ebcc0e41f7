-------------------------- MODULE AuthenticatedRound --------------------------
(***************************************************************************)
(* A round from the payload at the sender to the payload at a receiver.    *)
(* The sender builds every datagram and sends them interval by interval;   *)
(* the network delivers, alters or loses each one and mixes up those of an *)
(* interval; an attack test node sends copies of datagrams it has heard,   *)
(* unchanged or altered; the receiver keeps them, verifies an interval     *)
(* when its key becomes known, and reports what it found. Sending times    *)
(* and pauses are SenderRuntime's and ReceiverRuntime's; here a copy is    *)
(* late when its interval's key may already be on the air.                 *)
(***************************************************************************)
EXTENDS TeslaStrategy

Details == INSTANCE ControlDetails

CONSTANTS
  RoundSet,      \* the rounds tried
  MaxHarm,       \* how many datagrams are altered or lost, or copies sent
  MaxVersions    \* MAX_CANDIDATE_VERSIONS_PER_PACKET

\* What the parameters of a round are, before its context is checked.
ASSUME RoundSetAssumption ==
  \A w \in RoundSet :
    /\ w.mode \in {"native", "improved"}
    /\ w.total \in Nat /\ w.perInterval \in Nat /\ w.delay \in Nat
    /\ w.shape \in Shapes
    /\ w.payload.kind \in {"text", "file"} /\ w.payload.bytes \in Seq(Nat)

VARIABLES
  rd,         \* the round
  phase,      \* "built", "refused", "sending" or "over" (nothing more comes)
  onAir,      \* the interval being sent
  flight,     \* positions of the interval's datagrams still under way
  rx,         \* the receiver's state of the round
  harm        \* what happened on the way: [altered, lost: sets of packets;
              \* keys: intervals whose key was; malformed: some block was cut;
              \* copies: the copies of the attack node, copied: their number]

authVars == <<rd, phase, onAir, flight, rx, harm>>

Packets == 1 .. rd.total
IntervalsOfData == 1 .. DataIntervalCount(rd)

NoResult == [status |-> "none"]

NothingReceived ==
  [base |-> [p \in Packets |-> <<>>],          \* <<datagram>>
   copies |-> [p \in Packets |-> <<>>],        \* [datagram, attack, count, status]
   status |-> [p \in Packets |-> "pending"],
   keys |-> {}, verified |-> {}, incomplete |-> FALSE,
   eligible |-> TRUE, blocks |-> 0, counted |-> {},
   paths |-> {}, groups |-> {}, reports |-> {}, result |-> NoResult]

AuthInit ==
  /\ rd \in RoundSet
  /\ phase = IF Buildable(rd) THEN "built" ELSE "refused"
  /\ onAir = 1
  /\ flight = {}
  /\ rx = NothingReceived
  /\ harm = [altered |-> {}, lost |-> {}, keys |-> {}, malformed |-> FALSE,
             copies |-> {}, copied |-> 0]
-----------------------------------------------------------------------------
\* A structured failure makes the round useless for comparison.
OneReport(r, kind, p) ==
  [r EXCEPT !.reports = @ \cup {[kind |-> kind, packet |-> p]}, !.eligible = FALSE]

\* Mutant: failures of a group do not count.
ReportsQuietly(r, kind, ps) ==
  [r EXCEPT !.reports = @ \cup {[kind |-> kind, packet |-> p] : p \in ps}]

Reports(r, kind, ps) ==
  [r EXCEPT !.reports = @ \cup {[kind |-> kind, packet |-> p] : p \in ps},
            !.eligible = @ /\ ps = {}]

Fields(datagram) == Decode(rd, datagram)

\* The slot of a packet in the baseline of the interval.
BaseSlot(r, p) ==
  IF r.base[p] = <<>> THEN <<>> ELSE Fields(r.base[p][1]).message

\* The tags that came with a group's last packet.
BaseTags(r, p) == IF r.base[p] = <<>> THEN <<>> ELSE Fields(r.base[p][1]).tags

\* Native mode: each packet on its own.
NativeVerified(r, i) ==
  LET first == FirstOf(rd, i)
      group == GroupWith(rd, first, [p \in Packets |-> BaseSlot(r, p)])
      macs == [n \in DOMAIN group.slots |->
                 IF group.slots[n] = <<>> THEN NoMac ELSE BaseTags(r, first + n - 1)[1]]
      present == {p \in PacketsIn(rd, i) : r.base[p] # <<>>}
      passed == {p \in present : NativePassed(group, macs, i, p - first + 1)}
  IN Reports([r EXCEPT !.status = [p \in Packets |->
                 CASE p \in passed -> "passed"
                   [] p \in present \ passed -> "failed"
                   [] OTHER -> @[p]]],
             "MacFailed", present \ passed)

\* Every further candidate is checked on its own too.
CopyPasses(r, i, copy) ==
  LET fields == Fields(copy.datagram)
  IN fields.tags[1] = PacketMac(i, i, fields.index, fields.message[1])

NativeCopiesJudged(r, i) ==
  LET Judge(copy) == [copy EXCEPT !.status = IF CopyPasses(r, i, copy) THEN "passed" ELSE "failed"]
      failed(attack) == {p \in PacketsIn(rd, i) : \E n \in DOMAIN r.copies[p] :
                           r.copies[p][n].attack = attack /\ ~CopyPasses(r, i, r.copies[p][n])}
      judged == [r EXCEPT !.copies = [p \in Packets |->
                   IF p \in PacketsIn(rd, i)
                   THEN [n \in DOMAIN @[p] |-> Judge(@[p][n])] ELSE @[p]]]
  IN Reports(Reports(judged, "TamperedVariant", failed(TRUE)), "MacFailed", failed(FALSE))

\* The first candidate of packet p that came from the attack node.
FirstAttack(r, p) == SelectInSeq(r.copies[p], LAMBDA c : c.attack)

Replaced(r, first) == {p \in first .. GroupLast(rd, first) : FirstAttack(r, p) # 0}

\* Improved mode, the group whose first packet is first.
GroupVerdict(r, first, slot) ==
  ImprovedVerify(rd, GroupWith(rd, first, slot), BaseTags(r, GroupLast(rd, first)),
                 ExpectedInterval(rd, first))

\* Mutant: a fallback is told only when it located too much.
FallbackToldExceeded(verdict, first) == IF verdict.exceeded THEN {first} ELSE {}

Located(first, bad) == {first + c : c \in bad}
FallbackTold(verdict, first) == IF verdict.path = "fallback" THEN {first} ELSE {}

BaselineJudged(r, first, verdict) ==
  LET positions(p) == p - first
      group == first .. GroupLast(rd, first)
      located == Located(first, verdict.bad)
      stated == [r EXCEPT
        !.status = [p \in Packets |->
          CASE p \in group /\ r.base[p] # <<>> /\ positions(p) \in verdict.good -> "passed"
            [] p \in group /\ r.base[p] # <<>> /\ positions(p) \in verdict.bad -> "failed"
            [] OTHER -> @[p]],
        !.incomplete = @ \/ verdict.path = "incomplete",
        !.paths = @ \cup {verdict.path},
        !.groups = @ \cup {[first |-> first, attack |-> FALSE, path |-> verdict.path,
                            located |-> located, exceeded |-> verdict.exceeded]}]
  IN Reports(Reports(Reports(stated,
       "FastGroupFailed", FallbackTold(verdict, first)),
       "IncompleteGroupTags", IF verdict.path = "incomplete" THEN {first} ELSE {}),
       "ThresholdExceeded", IF verdict.exceeded THEN {first} ELSE {})

\* A candidate of the attack node is judged in the place of its packet, and
\* only when the group passed without it.
Trial(r, first, replaced) ==
  GroupVerdict(r, first, [p \in Packets |->
    IF p \in replaced
    THEN Fields(r.copies[p][FirstAttack(r, p)].datagram).message
    ELSE BaseSlot(r, p)])

TrialFailed(r, first, replaced, trial) ==
  [r EXCEPT
     !.copies = [p \in Packets |->
        IF p \in replaced
        THEN [@[p] EXCEPT ![FirstAttack(r, p)].status = "failed"] ELSE @[p]],
     !.paths = @ \cup {"fallback"},
     !.groups = @ \cup {[first |-> first, attack |-> TRUE, path |-> "fallback",
                         located |-> Located(first, trial.bad),
                         exceeded |-> trial.exceeded]}]

AttackJudged(r, first, verdict) ==
  LET replaced == Replaced(r, first)
  IN CASE replaced = {} -> r
       [] replaced # {} /\ verdict.path # "fast" -> Reports(r, "UnverifiableMissingBaseline", replaced)
       [] OTHER -> Reports(TrialFailed(r, first, replaced, Trial(r, first, replaced)),
                           "TamperedVariant", replaced)

BothJudged(r, first, verdict) ==
  AttackJudged(BaselineJudged(r, first, verdict), first, verdict)

GroupJudged(r, first) ==
  BothJudged(r, first, GroupVerdict(r, first, [p \in Packets |-> BaseSlot(r, p)]))

ImprovedVerified(r, i) == FoldLeft(GroupJudged, r, GroupStarts(rd, i))

\* An interval is verified once, when its key is known.
VerifyInterval(r, i) ==
  IF i \in r.verified \/ i \notin r.keys
  THEN r
  ELSE [(IF rd.mode = "native" THEN NativeCopiesJudged(NativeVerified(r, i), i)
         ELSE ImprovedVerified(r, i)) EXCEPT !.verified = @ \cup {i}]
-----------------------------------------------------------------------------
Missing(r) == {p \in Packets : r.base[p] = <<>>}

Counted(r, status) == {p \in Packets : r.status[p] = status}

\* The n-th packet of a set.
InOrder(ps, n) == CHOOSE p \in ps : Cardinality({q \in ps : q <= p}) = n

\* The messages of the packets that passed, in order.
PassedMessages(r) ==
  [n \in 1 .. Cardinality(Counted(r, "passed")) |->
     BaseSlot(r, InOrder(Counted(r, "passed"), n))[1]]

\* A text is shown whatever the result, a file only when it is complete.
Recovered(r, status) ==
  CASE rd.payload.kind = "text" -> RecoveredText(PassedMessages(r))
    [] rd.payload.kind = "file" /\ status = "Completed" -> RecoveredFile(rd, PassedMessages(r))
    [] OTHER -> <<>>

PathEligible(r) ==
  rd.mode = "native" \/ ("fast" \in r.paths /\ r.paths \subseteq {"fast"})

\* A result ends the round; the summary of its costs goes with it.
Result(r, status) ==
  [r EXCEPT !.result =
     [status |-> status, received |-> rd.total - Cardinality(Missing(r)),
      authenticated |-> Cardinality(Counted(r, "passed")),
      failed |-> Cardinality(Counted(r, "failed")),
      missing |-> Cardinality(Missing(r)), payload |-> Recovered(r, status),
      comparable |-> status = "Completed" /\ r.eligible /\ PathEligible(r)]]

Whole(r) == Counted(r, "passed") = Packets /\ Missing(r) = {}

TellsMissing(r) == Reports(r, "MissingPacket", Missing(r))

Outcome(r) ==
  CASE r.incomplete -> "ProtocolIncomplete"
    [] ~r.incomplete /\ Whole(r) /\ Recovered(r, "Completed") # <<>> -> "Completed"
    [] OTHER -> "AuthenticationFailed"

Concluded(r) == Result(r, Outcome(r))

Finalized(r) ==
  Concluded(TellsMissing(FoldLeft(VerifyInterval, r, [i \in IntervalsOfData |-> i])))

\* Mutant: a key verifies its own interval only.
KeysAboveOnly(index) == <<index>>

\* A later key brings back every earlier one.
KeysDownFrom(index) == [n \in 1 .. index |-> index - n + 1]

\* The key of an interval is walked down the chain; the last one ends the
\* round. A value that is not the key asked for marks the round incomplete.
KeyIndex(interval) == interval - rd.delay

KeyFits(interval, key) ==
  /\ interval > rd.delay
  /\ KeyIndex(interval) <= DataIntervalCount(rd)
  /\ KeyVerified(key, KeyIndex(interval))

KeyCounted(r, index) ==
  [r EXCEPT !.counted = @ \cup {index}, !.blocks = IF index \in r.counted THEN @ ELSE @ + 1]

Learn(r, i) == VerifyInterval([r EXCEPT !.keys = @ \cup {i}], i)

Learnt(r, index) == FoldLeft(Learn, KeyCounted(r, index), KeysDownFrom(index))

AfterKey(r, index) == IF index = DataIntervalCount(rd) THEN Finalized(r) ELSE r

KeyProcessed(r, interval, key) ==
  IF KeyFits(interval, key)
  THEN AfterKey(Learnt(r, KeyIndex(interval)), KeyIndex(interval))
  ELSE [r EXCEPT !.incomplete = TRUE]
-----------------------------------------------------------------------------
TimeSafe(interval) == onAir < interval + rd.delay

Candidate(datagram, attack) ==
  [datagram |-> datagram, attack |-> attack, count |-> 1, status |-> "pending"]

\* A packet whose slot is taken: the same datagram again, a version of it
\* already kept, one too many, or a new version that is kept beside it.
AfterBaseline(r, datagram, attack) ==
  LET p == datagram.index
      known == SelectInSeq(r.copies[p], LAMBDA c : c.datagram = datagram)
  IN CASE r.base[p][1] = datagram -> OneReport(r, "ReplayDuplicate", p)
       [] r.base[p][1] # datagram /\ known # 0 ->
            OneReport([r EXCEPT !.copies[p][known].count = @ + 1], "ReplayDuplicate", p)
       [] r.base[p][1] # datagram /\ known = 0 /\ Len(r.copies[p]) + 1 >= MaxVersions ->
            OneReport(r, "TamperedVariant", p)
       [] OTHER ->
            OneReport([r EXCEPT !.copies[p] = Append(@, Candidate(datagram, attack))], "TamperedVariant", p)

\* A copy of the attack node that overtakes its packet waits for it.
BeforeBaseline(r, datagram) ==
  LET p == datagram.index
      known == SelectInSeq(r.copies[p], LAMBDA c : c.datagram = datagram)
  IN CASE known # 0 -> [r EXCEPT !.copies[p][known].count = @ + 1]
       [] known = 0 /\ Len(r.copies[p]) + 1 >= MaxVersions -> OneReport(r, "TamperedVariant", p)
       [] OTHER -> [r EXCEPT !.copies[p] = Append(@, Candidate(datagram, TRUE))]

DataCost(fields) == 1 + Len(fields.tags)

\* The packet takes its slot, its fields are counted, and a key in it is used.
TakesSlot(r, datagram) ==
  LET fields == Fields(datagram)
      taken == [r EXCEPT !.base[datagram.index] = <<datagram>>,
                         !.blocks = @ + DataCost(fields)]
  IN IF fields.key = <<>> THEN taken ELSE KeyProcessed(taken, fields.interval, fields.key[1])

DataArrives(r, datagram, attack) ==
  CASE ~TimeSafe(datagram.interval) ->
         OneReport([r EXCEPT !.incomplete = TRUE], "ReplayLate", datagram.index)
    [] TimeSafe(datagram.interval) /\ r.base[datagram.index] # <<>> -> AfterBaseline(r, datagram, attack)
    [] TimeSafe(datagram.interval) /\ r.base[datagram.index] = <<>> /\ attack -> BeforeBaseline(r, datagram)
    [] OTHER -> TakesSlot(r, datagram)

TailKey(r, interval, key) ==
  IF KeyFits(interval, key)
  THEN KeyProcessed(r, interval, key)
  ELSE OneReport([r EXCEPT !.incomplete = TRUE], "ProtocolError", 0)

TailArrives(r, datagram) == TailKey(r, datagram.interval, Fields(datagram).key[1])

\* A receiver that has reported its result ignores the rest.
Receive(r, datagram, attack) ==
  CASE r.result # NoResult -> r
    [] r.result = NoResult /\ ~DecodeValid(rd, datagram) ->
         OneReport([r EXCEPT !.incomplete = TRUE], "ProtocolError", 0)
    [] r.result = NoResult /\ DecodeValid(rd, datagram) /\ datagram.index = 0 -> TailArrives(r, datagram)
    [] OTHER -> DataArrives(r, datagram, attack)
-----------------------------------------------------------------------------
Start ==
  /\ phase = "built"
  /\ phase' = "sending"
  /\ flight' = DOMAIN Datagrams(rd, 1)
  /\ UNCHANGED <<rd, onAir, rx, harm>>

SentNow(n) == Datagrams(rd, onAir)[n]

\* A datagram arrives as it was sent.
Arrive(n) ==
  /\ phase = "sending"
  /\ n \in flight
  /\ flight' = flight \ {n}
  /\ rx' = Receive(rx, SentNow(n), FALSE)
  /\ UNCHANGED <<rd, phase, onAir, harm>>

Harmed == Cardinality(harm.altered) + Cardinality(harm.lost) + Cardinality(harm.keys)
            + IF harm.malformed THEN 1 ELSE 0

Lose(n) ==
  /\ phase = "sending"
  /\ n \in flight
  /\ Harmed + harm.copied < MaxHarm
  /\ flight' = flight \ {n}
  /\ harm' = IF SentNow(n).index = 0
             THEN [harm EXCEPT !.keys = @ \cup {onAir}]
             ELSE [harm EXCEPT !.lost = @ \cup {SentNow(n).index}]
  /\ UNCHANGED <<rd, phase, onAir, rx>>

\* The sending node's fault injection, or the network, changes a block. Outside
\* stands for a byte, or a key, that was not sent.
AlteredBlock(block) ==
  CASE block = "message" -> [i \in 1 .. MessageSize |-> Outside]
    [] block = "tag" -> <<Outside>>
    [] block = "tau" -> << <<Outside>> >>

WithBlock(datagram, n, value) == [datagram EXCEPT !.blocks[n] = value]

\* The number of the altered block: the message is the first, the key follows
\* it, a MAC or a group's tag is the last and its first tau is before it.
Alter(n, block) ==
  LET sent == SentNow(n)
      tagged == rd.mode = "native" \/ GroupEnd(rd, sent.index)
      keyed == sent.index = 0 \/ CarriesKey(rd, onAir, sent.index)
      altered ==
        CASE block = "message" -> WithBlock(sent, 1, AlteredBlock(block))
          [] block = "key" -> WithBlock(sent, IF sent.index = 0 THEN 1 ELSE 2, Outside)
          [] block = "tag" -> WithBlock(sent, Len(sent.blocks), AlteredBlock(block))
          [] block = "tau" -> WithBlock(sent, Len(sent.blocks) - TauCount(rd.shape), AlteredBlock(block))
  IN /\ phase = "sending"
     /\ n \in flight
     /\ Harmed + harm.copied < MaxHarm
     /\ CASE block = "message" -> sent.index # 0
          [] block = "key" -> keyed
          [] block = "tag" -> sent.index # 0 /\ tagged
          [] block = "tau" -> sent.index # 0 /\ tagged /\ rd.mode = "improved"
     /\ flight' = flight \ {n}
     /\ rx' = Receive(rx, altered, FALSE)
     /\ harm' = IF block = "key"
                THEN [harm EXCEPT !.keys = @ \cup {onAir}]
                ELSE [harm EXCEPT !.altered = @ \cup {sent.index}]
     /\ UNCHANGED <<rd, phase, onAir>>

\* A datagram of the sender's with a block too few.
Cut(n) ==
  /\ phase = "sending"
  /\ n \in flight
  /\ Harmed + harm.copied < MaxHarm
  /\ flight' = flight \ {n}
  /\ rx' = Receive(rx, [SentNow(n) EXCEPT !.blocks = Front(@)], FALSE)
  /\ harm' = [harm EXCEPT !.malformed = TRUE]
  /\ UNCHANGED <<rd, phase, onAir>>

\* A byte of the message is changed by a mask that is not zero.
ForgedMessage(message) ==
  [k \in 1 .. MessageSize |-> IF k # 1 THEN message[k] ELSE IF message[1] = 8 THEN 7 ELSE 8]

\* The attack node repeats a data packet it has heard, as it was or altered.
Copy(p, tampered) ==
  LET i == ExpectedInterval(rd, p)
      heard == Datagrams(rd, i)[p - FirstOf(rd, i) + 1]
  IN /\ phase = "sending"
     /\ i <= onAir
     /\ Harmed + harm.copied < MaxHarm
     /\ rx.result = NoResult
     /\ rx' = Receive(rx, IF tampered THEN WithBlock(heard, 1, ForgedMessage(heard.blocks[1])) ELSE heard, TRUE)
     /\ harm' = [harm EXCEPT !.copied = @ + 1,
                             !.copies = @ \cup {[packet |-> p, tampered |-> tampered,
                                                  late |-> ~TimeSafe(i), early |-> rx.base[p] = <<>>]}]
     /\ UNCHANGED <<rd, phase, onAir, flight>>

FollowingInterval ==
  /\ phase = "sending"
  /\ flight = {}
  /\ IF onAir < FinalInterval(rd)
     THEN /\ onAir' = onAir + 1
          /\ flight' = DOMAIN Datagrams(rd, onAir + 1)
          /\ UNCHANGED phase
     ELSE /\ phase' = "over"
          /\ UNCHANGED <<onAir, flight>>
  /\ UNCHANGED <<rd, rx, harm>>

\* The last key did not come in time.
Timeout ==
  /\ phase = "over"
  /\ rx.result = NoResult
  /\ rx' = Result(TellsMissing(rx), "VerificationTimeout")
  /\ UNCHANGED <<rd, phase, onAir, flight, harm>>

AuthNext ==
  \/ Start
  \/ \E n \in flight : Arrive(n) \/ Lose(n) \/ Cut(n)
  \/ \E n \in flight, block \in {"message", "key", "tag", "tau"} : Alter(n, block)
  \/ \E p \in Packets, tampered \in BOOLEAN : Copy(p, tampered)
  \/ FollowingInterval
  \/ Timeout

AuthSpec == AuthInit /\ [][AuthNext]_authVars
-----------------------------------------------------------------------------
RoundJudged(r) == r.result.status \in {"Completed", "AuthenticationFailed", "ProtocolIncomplete"}

Genuine(p) == rx.base[p] # <<>> /\ BaseSlot(rx, p)[1] = Message(rd, p)

Told(kind, p) == [kind |-> kind, packet |-> p] \in rx.reports

\* Nothing was harmed on the way. Copies may have been sent, but in time.
Clean ==
  /\ Harmed = 0
  /\ \A c \in harm.copies : ~c.late

\* The sender's packets follow the rules of the codec it shares with the
\* receiver: a round with a valid payload and context (its groups not having too
\* many tags) is refused only when the chain has no key for the first tail
\* (buildDatagrams against vecEncode).
RefusedForCause ==
  phase = "refused" =>
    ~PayloadValid(rd) \/ ~ContextValid(rd) \/ rd.delay > DataIntervalCount(rd)

\* A packet that passed has the message the sender gave it, whatever was sent
\* beside it (verifyNativeIntervalLocked, verifyImprovedIntervalLocked).
OnlyGenuinePasses == \A p \in Packets : rx.status[p] = "passed" => Genuine(p)

\* A round nobody harmed completes with exactly the sender's payload, however
\* its datagrams are reordered within an interval and whatever copies the
\* attack node sends in time (processDatagramLocked, finalizeLocked).
CleanRoundCompletes ==
  rx.result # NoResult /\ Clean =>
    rx.result.status = "Completed" /\ rx.result.payload = rd.payload.bytes

\* A Completed result is the whole payload of a round no packet of which was
\* lost, even if tags or keys were damaged and made up for (finalizeLocked).
CompletedIsWhole ==
  rx.result.status = "Completed" =>
    /\ harm.lost = {} /\ ~harm.malformed
    /\ rx.result.payload = rd.payload.bytes

\* When the last key has come every interval has been judged, those whose own
\* key was lost or altered included (the walk of processDisclosedKeyLocked).
EveryIntervalJudged == RoundJudged(rx) => rx.verified = IntervalsOfData

\* Harm never goes unreported: a missing packet has its own failure, an altered
\* one its own or its group's (queueFailureLocked's callers).
HarmIsTold ==
  RoundJudged(rx) =>
    \A p \in Packets :
      /\ rx.base[p] = <<>> => Told("MissingPacket", p)
      /\ rx.base[p] # <<>> /\ ~Genuine(p) =>
           \/ Told("MacFailed", p)
           \/ Told("FastGroupFailed", GroupFirst(rd, p))
           \/ Told("IncompleteGroupTags", GroupFirst(rd, p))

\* An altered copy is never let pass: the packet it imitates has a failure that
\* says so, also when the copy overtook it or it never came.
CopiesAreTold ==
  RoundJudged(rx) =>
    \A c \in harm.copies : c.tampered =>
      \E kind \in {"TamperedVariant", "UnverifiableMissingBaseline", "ReplayLate"} : Told(kind, c.packet)

\* What a group's observation calls located is what was harmed: with its tags
\* intact and no more harm than the threshold, exactly that. In the trial of
\* attack copies these take the place of the packets they imitate.
LocatedIsHarmed ==
  \A g \in rx.groups :
    LET group == g.first .. GroupLast(rd, g.first)
        last == GroupLast(rd, g.first)
        tagged == rx.base[last] # <<>> /\ BaseTags(rx, last) = Tags(rd, last)
        copied == {p \in group : FirstAttack(rx, p) # 0
                     /\ Fields(rx.copies[p][FirstAttack(rx, p)].datagram).message[1] # Message(rd, p)}
        harmed == IF g.attack THEN copied ELSE {p \in group : ~Genuine(p)}
    IN tagged /\ g.path = "fallback" =>
         /\ harmed \subseteq g.located
         /\ Cardinality(harmed) <= rd.shape.threshold => g.located = harmed

\* What the receiver counts as received is what the sender counts as sent when
\* the round is clean: copies and repeated keys do not count
\* (recordReceivedDataFieldsLocked against recordSentAuthenticationFields).
CostsAgree ==
  rx.result.status = "Completed" /\ Clean => rx.blocks = SentBlocks(rd)

\* A round that may enter the comparison of the two modes was completed without
\* a lost or altered packet, and without a copy other than an unchanged one that
\* overtook its packet (markNormalComparisonIneligible).
ComparableMeansClean ==
  rx.result # NoResult /\ rx.result.comparable =>
    /\ rx.result.status = "Completed"
    /\ harm.lost = {} /\ harm.altered = {} /\ ~harm.malformed
    /\ \A c \in harm.copies : ~c.tampered /\ c.early

\* The counts of a result satisfy the constructor of the message that reports
\* it; emitResult drops a result whose message cannot be built, and the manager
\* would wait for it for ever (AuthenticationRoundResultControlDetails).
ResultFitsItsMessage ==
  rx.result # NoResult =>
    Details!CountsFit(rd.total, rx.result.received, rx.result.authenticated,
                      rx.result.failed, rx.result.missing)

\* A round that can be carried out is, is judged to its last interval when its
\* last key comes, and its result can be told.
RoundsJudged == RefusedForCause /\ EveryIntervalJudged /\ ResultFitsItsMessage

\* Whatever was done to the datagrams is reported, and of the right packets.
HarmReported == HarmIsTold /\ CopiesAreTold /\ LocatedIsHarmed

\* A round that nobody harmed completes, a round that completed has the payload
\* and the costs of the sender's, and only an undisturbed one may be compared.
CompletionIsHonest ==
  CleanRoundCompletes /\ CompletedIsWhole /\ CostsAgree /\ ComparableMeansClean
===============================================================================
