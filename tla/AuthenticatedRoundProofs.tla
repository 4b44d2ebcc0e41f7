----------------------- MODULE AuthenticatedRoundProofs -----------------------
(***************************************************************************)
(* Theorems about a round at a receiver (AuthenticatedRound), for rounds   *)
(* of any size, in both modes, whatever the channel does to the datagrams  *)
(* and whatever the attack node sends beside them: what has been passed is *)
(* the sender's, every interval is judged, no loss, alteration or altered  *)
(* copy goes unreported, and what a result says of the round is true.      *)
(***************************************************************************)
EXTENDS ProtocolSideProofs, AuthenticatedRound

-----------------------------------------------------------------------------
(* AuthenticatedRound: what has been passed is the sender's, and every      *)
(* interval is judged.                                                      *)

LEMMA BuildableIsShaped ==
    ASSUME NEW w \in RoundSet, Buildable(w)
    PROVE  Shaped(w)
  BY RoundSetAssumption DEF Buildable, ContextValid, Shaped

\* What the receiver holds: datagrams as they were sent, but for the message and the
\* marks of the channel on the tags.
BaseOK(w, r) ==
    /\ DOMAIN r.base = 1 .. w.total
    /\ \A p \in 1 .. w.total : r.base[p] # <<>> => \E d : r.base[p] = <<d>> /\ AsSent(w, p, d)

Genuinely(w, r, p) ==
    /\ r.base[p] # <<>>
    /\ Decode(w, r.base[p][1]).message[1] = Message(w, p)

LEMMA SlotIs ==
    ASSUME NEW r, Shaped(rd), BaseOK(rd, r), NEW p \in 1 .. rd.total
    PROVE  /\ r.base[p] = <<>> => BaseSlot(r, p) = <<>> /\ BaseTags(r, p) = <<>>
           /\ r.base[p] # <<>> =>
                /\ BaseSlot(r, p) # <<>>
                /\ Genuinely(rd, r, p) = (BaseSlot(r, p)[1] = Message(rd, p))
                /\ IsSequence(BaseTags(r, p)) /\ Len(BaseTags(r, p)) = TagBlocks(rd, p)
                /\ \A j \in 1 .. TagBlocks(rd, p) : Plausible(rd, p, j, BaseTags(r, p)[j])
<1>1. CASE r.base[p] = <<>>  BY <1>1 DEF BaseSlot, BaseTags
<1>2. CASE r.base[p] # <<>>
 <2>1. PICK d : r.base[p] = <<d>> /\ AsSent(rd, p, d)  BY <1>2 DEF BaseOK
 <2> DEFINE m == Decode(rd, d).message
            tags == Decode(rd, d).tags
 <2>2. r.base[p][1] = d  BY <2>1
 <2>3. BaseSlot(r, p) = m /\ BaseTags(r, p) = tags  BY <1>2, <2>2 DEF BaseSlot, BaseTags, Fields
 <2>4. /\ m = <<d.blocks[1]>> /\ IsSequence(tags) /\ Len(tags) = TagBlocks(rd, p)
       /\ \A j \in 1 .. TagBlocks(rd, p) : Plausible(rd, p, j, tags[j])
   BY <2>1, DecodeIs
 <2> HIDE DEF m, tags
 <2>5. m # <<>>  BY <2>4
 <2>6. Genuinely(rd, r, p) = (m[1] = Message(rd, p))  BY <1>2, <2>2 DEF m, Genuinely
 <2> QED  BY <1>2, <2>3, <2>4, <2>5, <2>6
<1> QED  BY <1>1, <1>2

\* The slots the receiver fills for a verification.
Filled(r) == [p \in Packets |-> BaseSlot(r, p)]

LEMMA NativeVerdict ==
    ASSUME NEW r, Shaped(rd), rd.mode = "native", BaseOK(rd, r), NEW i \in Nat \ {0},
           NEW p \in PacketsIn(rd, i), NEW f, f = FirstOf(rd, i),
           NEW group, group = GroupWith(rd, f, Filled(r)),
           NEW macs, macs = [n \in DOMAIN group.slots |->
                               IF group.slots[n] = <<>> THEN NoMac ELSE BaseTags(r, f + n - 1)[1]],
           NativePassed(group, macs, i, p - f + 1)
    PROVE  Genuinely(rd, r, p)
<1> DEFINE last == LastOf(rd, i)
           k == (p - f) + 1
           own == PacketMacSlots(group, i)
<1>1. /\ p \in 1 .. rd.total /\ f \in Nat \ {0} /\ last \in Nat /\ f <= p /\ p <= last /\ last <= rd.total
      /\ p \in Nat /\ p \in f .. last /\ f <= last
  BY InInterval
<1>2. ExpectedInterval(rd, f) = i /\ GroupLast(rd, f) = last  BY NativeGroup
<1>3. p - f + 1 = k  OBVIOUS
<1>4. group.slots[k] # <<>> /\ macs[k] # NoMac /\ own[k] = macs[k]  BY <1>3 DEF NativePassed
<1> HIDE DEF last
<1>5. /\ DOMAIN group.slots = 1 .. (last - f) + 1 /\ k \in 1 .. (last - f) + 1
      /\ group.slots[k] = Filled(r)[p]
      /\ own[k] = IF Filled(r)[p] = <<>> THEN NoMac ELSE <<i, i, p, Filled(r)[p][1]>>
 <2>1. SlotsAre(group.slots, f, last, Filled(r)) /\ MacsAre(own, f, last, Filled(r), i, i)
   BY <1>1, <1>2, GroupIs
 <2> QED  BY <1>1, <2>1 DEF SlotsAre, MacsAre
<1>6. Filled(r)[p] = BaseSlot(r, p)  BY <1>1 DEF Filled, Packets
<1>7. f + k - 1 = p  BY <1>1
<1> HIDE DEF k, own
<1>8. macs[k] = BaseTags(r, p)[1] /\ own[k] = <<i, i, p, BaseSlot(r, p)[1]>> /\ BaseSlot(r, p) # <<>>
  BY <1>4, <1>5, <1>6, <1>7
<1>9. r.base[p] # <<>>  BY <1>1, <1>8, SlotIs
<1>10. TagBlocks(rd, p) = 1  BY DEF TagBlocks
<1>11. Plausible(rd, p, 1, BaseTags(r, p)[1]) /\ Genuinely(rd, r, p) = (BaseSlot(r, p)[1] = Message(rd, p))
  BY <1>1, <1>9, <1>10, SlotIs
<1>12. Tags(rd, p)[1] = <<i, i, p, Message(rd, p)>>  BY NativeTag
<1> DEFINE slot == BaseSlot(r, p)[1]
           tag == BaseTags(r, p)[1]
<1>13. tag = <<i, i, p, slot>>  BY <1>4, <1>8
<1>14. tag = <<i, i, p, Message(rd, p)>> \/ tag = << <<Outside>> >> \/ tag = <<Outside>>
  BY <1>11, <1>12 DEF Plausible
<1> HIDE DEF slot, tag
<1>15. tag = <<i, i, p, Message(rd, p)>>  BY <1>13, <1>14, MarksAreNoTags
<1>16. slot = Message(rd, p)  BY <1>13, <1>15
<1> QED  BY <1>11, <1>16 DEF slot

\* A group found whole is the sender's; a packet in a row that matches is the
\* sender's too.
LEMMA ImprovedVerdict ==
    ASSUME NEW r, Shaped(rd), rd.mode = "improved", BaseOK(rd, r), NEW i \in 1 .. DataIntervalCount(rd),
           NEW k \in DOMAIN GroupStarts(rd, i), NEW f, f = GroupStarts(rd, i)[k],
           NEW last, last = GroupLast(rd, f), NEW p \in f .. last, r.base[p] # <<>>,
           p - f \in GroupVerdict(r, f, Filled(r)).good
    PROVE  Genuinely(rd, r, p)
<1> DEFINE tags == BaseTags(r, last)
           group == GroupWith(rd, f, Filled(r))
           sent == SentGroup(rd, f)
           n == TauCount(rd.shape)
           rows == Matrices[rd.shape]
           macs == PacketMacSlots(group, i)
           sentMacs == PacketMacSlots(sent, i)
           verdict == GroupVerdict(r, f, Filled(r))
           c == p - f
           m == (last - f) + 1
<1>1. /\ f \in PacketsIn(rd, i) /\ last \in PacketsIn(rd, i) /\ f \in Nat \ {0} /\ last \in Nat /\ f <= last
      /\ p \in PacketsIn(rd, i) /\ GroupFirst(rd, last) = f
  BY ImprovedGroup
<1>2. i \in Nat \ {0}  OBVIOUS
<1>3. /\ ExpectedInterval(rd, f) = i /\ ExpectedInterval(rd, last) = i
      /\ last \in 1 .. rd.total /\ p \in 1 .. rd.total /\ last <= rd.total /\ rd.total \in Nat
  BY <1>1, <1>2, InInterval DEF Shaped
<1>4. n \in Nat /\ DOMAIN rows = 1 .. n  BY TausAre DEF Shaped
<1>5. verdict = ImprovedVerify(rd, group, tags, i)  BY <1>3 DEF GroupVerdict
<1>6. /\ group.slots[c + 1] = Filled(r)[p] /\ c + 1 \in 1 .. m
      /\ macs[c + 1] = IF Filled(r)[p] = <<>> THEN NoMac ELSE <<i, i, p, Filled(r)[p][1]>>
      /\ Len(macs) = m /\ DOMAIN group.slots = 1 .. m
 <2>1. SlotsAre(group.slots, f, last, Filled(r)) /\ MacsAre(macs, f, last, Filled(r), i, i)
   BY <1>1, <1>3, GroupIs
 <2> HIDE DEF group, macs
 <2> QED  BY <2>1 DEF SlotsAre, MacsAre
<1>7. /\ sent.slots[c + 1] = <<Message(rd, p)>>
      /\ sentMacs[c + 1] = <<i, i, p, Message(rd, p)>> /\ Len(sentMacs) = m
 <2>1. SentSlots(sent.slots, rd, f, last) /\ SentMacsAre(sentMacs, rd, f, last, i, i)
   BY <1>1, <1>3, SentGroupIs
 <2> HIDE DEF sent, sentMacs
 <2> QED  BY <2>1 DEF SentSlots, SentMacsAre
<1>8. Filled(r)[p] = BaseSlot(r, p) /\ BaseSlot(r, p) # <<>>  BY <1>3, SlotIs DEF Filled, Packets
<1>9. Genuinely(rd, r, p) = (BaseSlot(r, p)[1] = Message(rd, p))  BY <1>3, SlotIs
<1>10. c \in Nat /\ c < m /\ m \in Nat  BY <1>1
<1>11. /\ Tags(rd, last) = ImprovedTags(rd, sent, i)
       /\ \A q \in 1 .. n : Tags(rd, last)[q] = RowMacs(rows[q], sentMacs)
       /\ Tags(rd, last)[n + 1] = <<i, sent, Aggregate(rows, sentMacs)>>
 <2>1. Tags(rd, last) = ImprovedTags(rd, sent, i)  BY <1>1, <1>3 DEF Tags
 <2>2. TagsOfGroup(ImprovedTags(rd, sent, i), n, rows, sentMacs, i, sent)  BY ImprovedTagsAre
 <2> HIDE DEF sent, n, rows, sentMacs
 <2> QED  BY <2>1, <2>2 DEF TagsOfGroup
<1>12. Len(tags) = n + 1
 <2> SUFFICES ASSUME Len(tags) # n + 1 PROVE FALSE  OBVIOUS
 <2> HIDE DEF tags, n, group
 <2>1. verdict.good = {}
  <3>1. verdict = [path |-> "incomplete", good |-> {}, bad |-> {}, exceeded |-> FALSE]
   <4> HIDE DEF verdict
   <4> QED  BY <1>5, Zenon DEF ImprovedVerify, n
  <3> HIDE DEF verdict
  <3> QED  BY <3>1
 <2> QED  BY <2>1
<1>13. r.base[last] # <<>>
 <2>1. CASE r.base[last] = <<>>  BY <1>3, <1>4, <1>12, <2>1, SlotIs
 <2> QED  BY <2>1
<1>14. IsSequence(tags) /\ TagBlocks(rd, last) = n + 1 /\ \A j \in 1 .. n + 1 : Plausible(rd, last, j, tags[j])
 <2>1. /\ IsSequence(tags) /\ Len(tags) = TagBlocks(rd, last)
       /\ \A j \in 1 .. TagBlocks(rd, last) : Plausible(rd, last, j, tags[j])
   BY <1>3, <1>13, SlotIs
 <2> HIDE DEF tags
 <2> QED  BY <1>12, <2>1
<1>15. Last(tags) = tags[n + 1] /\ \A j \in 1 .. n : Front(tags)[j] = tags[j]
  BY <1>4, <1>12, <1>14, FrontIs
<1> HIDE DEF tags, group, sent, n, rows, macs, sentMacs, verdict, c, m
<1>16. CASE FastPath(group, Front(tags), Last(tags), i)
 <2>1. <<i, group, Front(tags)>> = tags[n + 1]  BY <1>15, <1>16 DEF FastPath, FastGroupTag
 <2>2. tags[n + 1] = Tags(rd, last)[n + 1] \/ tags[n + 1] = << <<Outside>> >> \/ tags[n + 1] = <<Outside>>
   BY <1>4, <1>14 DEF Plausible
 <2>3. tags[n + 1] = <<i, sent, Aggregate(rows, sentMacs)>>  BY <1>11, <2>1, <2>2, MarksAreNoTags
 <2>4. group = sent  BY <2>1, <2>3
 <2>5. BaseSlot(r, p) = <<Message(rd, p)>>  BY <1>6, <1>7, <1>8, <2>4
 <2>6. BaseSlot(r, p)[1] = Message(rd, p)  BY <2>5
 <2> QED  BY <1>9, <2>6, Zenon
<1>17. CASE ~ FastPath(group, Front(tags), Last(tags), i)
 <2> DEFINE taus == Front(tags)
            matching == {q \in DOMAIN rows : RowJudged(rows[q], macs) /\ RowMacs(rows[q], macs) = taus[q]}
            good == {x \in 0 .. Len(macs) - 1 : \E q \in matching : x \in rows[q]}
 <2>1. verdict.good = Locate(rows, rd.shape.threshold, macs, taus).good
  <3>1. verdict = Fallback(Locate(rows, rd.shape.threshold, macs, taus))
    BY <1>5, <1>12, <1>17, Zenon DEF ImprovedVerify, n, rows, macs
  <3> HIDE DEF taus
  <3> QED  BY <3>1 DEF Fallback
 <2>2. Locate(rows, rd.shape.threshold, macs, taus).good = good
  <3> HIDE DEF taus
  <3> QED  BY DEF Locate
 <2>3. c \in verdict.good  BY DEF c, verdict
 <2>4. PICK q \in DOMAIN rows : /\ RowJudged(rows[q], macs) /\ RowMacs(rows[q], macs) = taus[q]
                                /\ c \in rows[q]
   BY <2>1, <2>2, <2>3
 <2> DEFINE row == rows[q]
            present == {x \in row : x < m}
 <2>5. /\ RowMacs(row, macs) = [x \in present |-> macs[x + 1]]
       /\ RowMacs(row, sentMacs) = [x \in present |-> sentMacs[x + 1]]
   BY <1>6, <1>7 DEF RowMacs
 <2>6. c \in present  BY <1>10, <2>4
 <2>7. macs[c + 1] = <<i, i, p, BaseSlot(r, p)[1]>>  BY <1>6, <1>8
 <2>8. q \in 1 .. n /\ taus[q] = tags[q] /\ q # n + 1  BY <1>4, <1>15, <2>4
 <2>9. tags[q] = RowMacs(row, sentMacs) \/ tags[q] = << <<Outside>> >>
   BY <1>4, <1>11, <1>14, <2>8 DEF Plausible
 <2> HIDE DEF taus, present, row
 <2>10. RowMacs(row, macs) = tags[q]  BY <2>4, <2>8 DEF row
 <2>11. CASE tags[q] = RowMacs(row, sentMacs)
  <3> DEFINE g == [x \in present |-> macs[x + 1]]
             h == [x \in present |-> sentMacs[x + 1]]
  <3>1. g = h  BY <2>5, <2>10, <2>11
  <3>2. g[c] = macs[c + 1] /\ h[c] = sentMacs[c + 1]  BY <2>6
  <3>3. macs[c + 1] = sentMacs[c + 1]  BY <3>1, <3>2
  <3> DEFINE slot == BaseSlot(r, p)[1]
  <3>4. <<i, i, p, slot>> = <<i, i, p, Message(rd, p)>>  BY <1>7, <2>7, <3>3
  <3> HIDE DEF slot
  <3>5. slot = Message(rd, p)  BY <3>4
  <3> QED  BY <1>9, <3>5 DEF slot
 <2>12. CASE tags[q] = << <<Outside>> >>
  <3> DEFINE g == [x \in present |-> macs[x + 1]]
             u == <<Outside>>
  <3>1. g = <<u>>  BY <2>5, <2>10, <2>12
  <3>2. DOMAIN g = present /\ g[c] = macs[c + 1]  BY <2>6
  <3> HIDE DEF g
  <3>3. c \in {1}
   <4> HIDE DEF u
   <4>1. DOMAIN <<u>> = {1}  OBVIOUS
   <4> QED  BY <2>6, <3>1, <3>2, <4>1
  <3>4. macs[c + 1] = u
   <4> HIDE DEF u
   <4>1. g[1] = u  BY <3>1
   <4> QED  BY <3>2, <3>3, <4>1
  <3> QED  BY <2>7, <3>4, MarksAreNoTags
 <2> QED  BY <2>9, <2>11, <2>12
<1> QED  BY <1>16, <1>17

(* The loops of the receiver.                                              *)

Step(loop, r, x) ==
    CASE loop = "groups" -> GroupJudged(r, x)
      [] loop = "keys" -> Learn(r, x)
      [] loop = "intervals" -> VerifyInterval(r, x)

IsLoop(f, loop, r, s) ==
    f = [t \in SUBSET (DOMAIN s) |-> IF t = {} THEN r ELSE Step(loop, f[t \ {Max(t)}], s[Max(t)])]

LEMMA LoopExists ==
    ASSUME NEW loop, NEW r, NEW s, NEW n \in Nat, DOMAIN s = 1 .. n
    PROVE  \E f : IsLoop(f, loop, r, s)
<1> DEFINE S == 1 .. n
           Body(f, t) == IF t = {} THEN r ELSE Step(loop, f[t \ {Max(t)}], s[Max(t)])
           Right(f, k) == \A t \in SUBSET S : Cardinality(t) <= k => f[t] = Body(f, t)
           Ok(f, k) == f = [t \in SUBSET S |-> f[t]] /\ Right(f, k)
           N == {k \in Nat : \E f : Ok(f, k)}
<1>1. IsFiniteSet(S) /\ \A t \in SUBSET S : IsFiniteSet(t) /\ Cardinality(t) \in Nat
 <2>1. IsFiniteSet(S)  BY FS_Interval
 <2> HIDE DEF S
 <2> QED  BY <2>1, FS_Subset, FS_CardinalityType
<1>2. \A t \in SUBSET S : t # {} =>
        /\ t \ {Max(t)} \in SUBSET S
        /\ Cardinality(t \ {Max(t)}) = Cardinality(t) - 1
 <2> SUFFICES ASSUME NEW t \in SUBSET S, t # {}
              PROVE  /\ t \ {Max(t)} \in SUBSET S
                     /\ Cardinality(t \ {Max(t)}) = Cardinality(t) - 1
   OBVIOUS
 <2>1. Max(t) \in t  BY MaxIsLast
 <2>2. Cardinality(t \ {Max(t)}) = Cardinality(t) - 1  BY <1>1, <2>1, FS_RemoveElement
 <2> QED  BY <2>2
<1> HIDE DEF S
<1>3. 0 \in N
 <2>1. \A t \in SUBSET S : Cardinality(t) <= 0 => t = {}  BY <1>1, FS_EmptySet
 <2> DEFINE z == [t \in SUBSET S |-> r]
 <2>2. z = [t \in SUBSET S |-> z[t]]  OBVIOUS
 <2>3. Right(z, 0)  BY <2>1
 <2> HIDE DEF z, Right
 <2> QED  BY <2>2, <2>3
<1>4. ASSUME NEW k \in N PROVE k + 1 \in N
 <2>1. PICK f : Ok(f, k)  OBVIOUS
 <2> DEFINE g == [t \in SUBSET S |-> Body(f, t)]
 <2>2. g = [t \in SUBSET S |-> g[t]]  OBVIOUS
 <2>3. ASSUME NEW t \in SUBSET S, Cardinality(t) <= k + 1
       PROVE  g[t] = Body(g, t)
  <3>1. CASE t = {}  BY <3>1
  <3>2. CASE t # {}
   <4> DEFINE u == t \ {Max(t)}
   <4>1. u \in SUBSET S /\ Cardinality(u) <= k  BY <1>1, <1>2, <2>3, <3>2
   <4>2. g[u] = Body(f, u)  BY <4>1
   <4>3. f[u] = Body(f, u)  BY <2>1, <4>1
   <4>4. g[u] = f[u]  BY <4>2, <4>3
   <4>5. g[t] = Body(f, t)  OBVIOUS
   <4> HIDE DEF g
   <4>6. Body(g, t) = Step(loop, g[u], s[Max(t)]) /\ Body(f, t) = Step(loop, f[u], s[Max(t)])
     BY <3>2
   <4> QED  BY <4>4, <4>5, <4>6
  <3> QED  BY <3>1, <3>2
 <2> HIDE DEF g, Body
 <2>4. Right(g, k + 1)  BY <2>3
 <2>5. k + 1 \in Nat  OBVIOUS
 <2> HIDE DEF Right
 <2> QED  BY <2>2, <2>4, <2>5
<1>5. N \in SUBSET Nat  OBVIOUS
<1> HIDE DEF N
<1>6. Cardinality(S) \in N  BY <1>1, <1>3, <1>4, <1>5, NatSetInduction
<1>7. PICK f : Ok(f, Cardinality(S))  BY <1>6 DEF N
<1>8. \A t \in SUBSET S : f[t] = Body(f, t)
 <2>1. \A t \in SUBSET S : Cardinality(t) <= Cardinality(S)  BY <1>1, FS_Subset
 <2> HIDE DEF Body
 <2> QED  BY <1>7, <2>1
<1>9. f = [t \in SUBSET S |-> Body(f, t)]
 <2> HIDE DEF Body
 <2>1. f = [t \in SUBSET S |-> f[t]]  BY <1>7
 <2> QED  BY <1>8, <2>1
<1> QED  BY <1>9 DEF IsLoop, S

\* The states a loop goes through.
Runs(h, loop, r, n, s) ==
    h[0] = r /\ \A k \in 1 .. n : h[k] = Step(loop, h[k - 1], s[k])

LEMMA LoopRuns ==
    ASSUME NEW loop, NEW r, NEW s, NEW n \in Nat, DOMAIN s = 1 .. n, NEW f, IsLoop(f, loop, r, s)
    PROVE  \E h : Runs(h, loop, r, n, s) /\ f[DOMAIN s] = h[n]
<1> DEFINE h == [k \in 0 .. n |-> f[1 .. k]]
<1>1. h[0] = r  BY DEF IsLoop
<1>2. ASSUME NEW k \in 1 .. n
      PROVE  h[k] = Step(loop, h[k - 1], s[k])
 <2>1. /\ (1 .. k) \in SUBSET (DOMAIN s) /\ (1 .. k) # {}
       /\ Max(1 .. k) = k /\ (1 .. k) \ {k} = 1 .. (k - 1)
   BY MaxOfInterval
 <2> DEFINE t == 1 .. k
            u == 1 .. (k - 1)
 <2>2. h[k] = f[t] /\ h[k - 1] = f[u]  OBVIOUS
 <2> HIDE DEF h, t, u
 <2>3. t \in SUBSET (DOMAIN s) /\ t # {} /\ Max(t) = k /\ t \ {k} = u  BY <2>1 DEF t, u
 <2>4. f[t] = Step(loop, f[t \ {Max(t)}], s[Max(t)])  BY <2>3 DEF IsLoop
 <2> QED  BY <2>2, <2>3, <2>4
<1>3. f[DOMAIN s] = h[n]  OBVIOUS
<1> HIDE DEF h
<1> QED  BY <1>1, <1>2, <1>3 DEF Runs

LEMMA GroupsLoop ==
    ASSUME NEW r, NEW s, NEW n \in Nat, DOMAIN s = 1 .. n
    PROVE  \E h : Runs(h, "groups", r, n, s) /\ FoldLeft(GroupJudged, r, s) = h[n]
<1> DEFINE Is(f) == f = [t \in SUBSET (DOMAIN s) |->
                           IF t = {} THEN r ELSE GroupJudged(f[t \ {Max(t)}], s[Max(t)])]
           g == CHOOSE f : Is(f)
<1>1. FoldLeft(GroupJudged, r, s) = g[DOMAIN s]  BY DEF FoldLeft, MapThenFoldSet
<1>2. \A f : Is(f) <=> IsLoop(f, "groups", r, s)  BY DEF Step, IsLoop
<1>3. \E f : Is(f)  BY <1>2, LoopExists
<1> HIDE DEF Is
<1>4. Is(g)  BY <1>3
<1> HIDE DEF g
<1>5. IsLoop(g, "groups", r, s)  BY <1>2, <1>4
<1> QED  BY <1>1, <1>5, LoopRuns

LEMMA KeysLoop ==
    ASSUME NEW r, NEW s, NEW n \in Nat, DOMAIN s = 1 .. n
    PROVE  \E h : Runs(h, "keys", r, n, s) /\ FoldLeft(Learn, r, s) = h[n]
<1> DEFINE Is(f) == f = [t \in SUBSET (DOMAIN s) |->
                           IF t = {} THEN r ELSE Learn(f[t \ {Max(t)}], s[Max(t)])]
           g == CHOOSE f : Is(f)
<1>1. FoldLeft(Learn, r, s) = g[DOMAIN s]  BY DEF FoldLeft, MapThenFoldSet
<1>2. \A f : Is(f) <=> IsLoop(f, "keys", r, s)  BY DEF Step, IsLoop
<1>3. \E f : Is(f)  BY <1>2, LoopExists
<1> HIDE DEF Is
<1>4. Is(g)  BY <1>3
<1> HIDE DEF g
<1>5. IsLoop(g, "keys", r, s)  BY <1>2, <1>4
<1> QED  BY <1>1, <1>5, LoopRuns

LEMMA IntervalsLoop ==
    ASSUME NEW r, NEW s, NEW n \in Nat, DOMAIN s = 1 .. n
    PROVE  \E h : Runs(h, "intervals", r, n, s) /\ FoldLeft(VerifyInterval, r, s) = h[n]
<1> DEFINE Is(f) == f = [t \in SUBSET (DOMAIN s) |->
                           IF t = {} THEN r ELSE VerifyInterval(f[t \ {Max(t)}], s[Max(t)])]
           g == CHOOSE f : Is(f)
<1>1. FoldLeft(VerifyInterval, r, s) = g[DOMAIN s]  BY DEF FoldLeft, MapThenFoldSet
<1>2. \A f : Is(f) <=> IsLoop(f, "intervals", r, s)  BY DEF Step, IsLoop
<1>3. \E f : Is(f)  BY <1>2, LoopExists
<1> HIDE DEF Is
<1>4. Is(g)  BY <1>3
<1> HIDE DEF g
<1>5. IsLoop(g, "intervals", r, s)  BY <1>2, <1>4
<1> QED  BY <1>1, <1>5, LoopRuns

(* What a verification may change.                                         *)

ReceiverFields ==
    {"base", "copies", "status", "keys", "verified", "incomplete", "eligible", "blocks",
     "counted", "paths", "groups", "reports", "result"}

IsReceiver(r) == DOMAIN r = ReceiverFields

\* Changes that touch neither the packets nor the verdicts.
Aside(r, s) ==
    /\ IsReceiver(s) /\ s.base = r.base /\ s.status = r.status
    /\ s.verified = r.verified /\ s.keys = r.keys /\ s.result = r.result

LEMMA AsideTwice ==
    ASSUME NEW r, NEW s, NEW t, Aside(r, s), Aside(s, t)
    PROVE  Aside(r, t)
  BY DEF Aside

LEMMA ReportsAside ==
    ASSUME NEW r, IsReceiver(r), NEW kind, NEW ps
    PROVE  Aside(r, Reports(r, kind, ps))
  BY DEF Reports, Aside, IsReceiver, ReceiverFields

LEMMA OneReportAside ==
    ASSUME NEW r, IsReceiver(r), NEW kind, NEW p
    PROVE  Aside(r, OneReport(r, kind, p))
  BY DEF OneReport, Aside, IsReceiver, ReceiverFields

LEMMA CopiesAside ==
    ASSUME NEW r, IsReceiver(r), NEW copies
    PROVE  Aside(r, [r EXCEPT !.copies = copies])
  BY DEF Aside, IsReceiver, ReceiverFields

LEMMA IncompleteAside ==
    ASSUME NEW r, IsReceiver(r), NEW b
    PROVE  Aside(r, [r EXCEPT !.incomplete = b])
  BY DEF Aside, IsReceiver, ReceiverFields

LEMMA TrialAside ==
    ASSUME NEW r, IsReceiver(r), NEW first, NEW replaced, NEW trial
    PROVE  Aside(r, TrialFailed(r, first, replaced, trial))
  BY DEF TrialFailed, Aside, IsReceiver, ReceiverFields

\* What a receiver has to be to be judged, and what a verification makes of it.
Ready(w, r) ==
    IsReceiver(r) /\ BaseOK(w, r) /\ DOMAIN r.status = 1 .. w.total

StatusFrom(w, r, s) ==
    \A p \in 1 .. w.total :
      \/ s.status[p] = r.status[p]
      \/ s.status[p] = "failed" /\ r.base[p] # <<>>
      \/ s.status[p] = "passed" /\ Genuinely(w, r, p)

Judges(w, r, s) ==
    /\ IsReceiver(s) /\ s.base = r.base /\ s.result = r.result
    /\ r.verified \subseteq s.verified
    /\ s.verified \subseteq r.verified \union (1 .. DataIntervalCount(w))
    /\ DOMAIN s.status = 1 .. w.total
    /\ StatusFrom(w, r, s)

LEMMA JudgesReady ==
    ASSUME NEW w, NEW r, NEW s, Ready(w, r), Judges(w, r, s)
    PROVE  Ready(w, s)
  BY DEF Ready, Judges, BaseOK

LEMMA JudgesTwice ==
    ASSUME NEW w, NEW r, NEW s, NEW t, Judges(w, r, s), Judges(w, s, t)
    PROVE  Judges(w, r, t)
<1>1. \A p : Genuinely(w, s, p) <=> Genuinely(w, r, p)  BY DEF Judges, Genuinely
<1>2. StatusFrom(w, r, t)
 <2> SUFFICES ASSUME NEW p \in 1 .. w.total
              PROVE  \/ t.status[p] = r.status[p]
                     \/ t.status[p] = "failed" /\ r.base[p] # <<>>
                     \/ t.status[p] = "passed" /\ Genuinely(w, r, p)
   BY DEF StatusFrom
 <2>1. \/ t.status[p] = s.status[p]
       \/ t.status[p] = "failed" /\ s.base[p] # <<>>
       \/ t.status[p] = "passed" /\ Genuinely(w, s, p)
   BY DEF Judges, StatusFrom
 <2>2. \/ s.status[p] = r.status[p]
       \/ s.status[p] = "failed" /\ r.base[p] # <<>>
       \/ s.status[p] = "passed" /\ Genuinely(w, r, p)
   BY DEF Judges, StatusFrom
 <2>3. s.base = r.base  BY DEF Judges
 <2> QED  BY <1>1, <2>1, <2>2, <2>3, Zenon
<1> HIDE DEF StatusFrom
<1>3. /\ IsReceiver(t) /\ t.base = r.base /\ t.result = r.result
      /\ r.verified \subseteq t.verified
      /\ t.verified \subseteq r.verified \union (1 .. DataIntervalCount(w))
      /\ DOMAIN t.status = 1 .. w.total
  BY DEF Judges
<1> QED  BY <1>2, <1>3 DEF Judges

LEMMA AsideJudges ==
    ASSUME NEW w, NEW r, NEW s, Ready(w, r), Aside(r, s)
    PROVE  Judges(w, r, s)
  BY DEF Ready, Aside, Judges, StatusFrom

LEMMA JudgesNothing ==
    ASSUME NEW w, NEW r, Ready(w, r)
    PROVE  Judges(w, r, r)
  BY DEF Ready, Judges, StatusFrom

\* A loop of verifications is one.
LEMMA LoopJudges ==
    ASSUME NEW w, NEW loop, NEW r, NEW s, NEW n \in Nat, NEW h, Runs(h, loop, r, n, s), Ready(w, r),
           \A k \in 1 .. n : \A q : Ready(w, q) => Judges(w, q, Step(loop, q, s[k]))
    PROVE  \A k \in 0 .. n : Judges(w, r, h[k])
<1> DEFINE T == {k \in Nat : k <= n => Judges(w, r, h[k])}
<1>1. 0 \in T  BY JudgesNothing DEF Runs
<1>2. ASSUME NEW k \in T PROVE k + 1 \in T
 <2> SUFFICES ASSUME k + 1 <= n PROVE Judges(w, r, h[k + 1])  OBVIOUS
 <2>1. k \in Nat /\ k <= n /\ k + 1 \in 1 .. n /\ (k + 1) - 1 = k  OBVIOUS
 <2>2. Judges(w, r, h[k])  BY <2>1
 <2>3. h[k + 1] = Step(loop, h[k], s[k + 1])  BY <2>1 DEF Runs
 <2>4. Ready(w, h[k])  BY <2>2, JudgesReady
 <2>5. Judges(w, h[k], h[k + 1])  BY <2>1, <2>3, <2>4
 <2> QED  BY <2>2, <2>5, JudgesTwice
<1>3. T = Nat
 <2>1. T \in SUBSET Nat  OBVIOUS
 <2> HIDE DEF T
 <2> QED  BY <1>1, <1>2, <2>1, NatSetInduction
<1> QED  BY <1>3

LEMMA NativeVerifiedJudges ==
    ASSUME NEW r, Shaped(rd), rd.mode = "native", Ready(rd, r), NEW i \in Nat \ {0}
    PROVE  Judges(rd, r, NativeVerified(r, i))
<1> DEFINE f == FirstOf(rd, i)
           group == GroupWith(rd, f, Filled(r))
           macs == [n \in DOMAIN group.slots |->
                      IF group.slots[n] = <<>> THEN NoMac ELSE BaseTags(r, f + n - 1)[1]]
           present == {p \in PacketsIn(rd, i) : r.base[p] # <<>>}
           passed == {p \in present : NativePassed(group, macs, i, p - f + 1)}
           status == [p \in Packets |->
                        CASE p \in passed -> "passed"
                          [] p \in present \ passed -> "failed"
                          [] OTHER -> r.status[p]]
           s == [r EXCEPT !.status = status]
           failed == present \ passed
<1>1. NativeVerified(r, i) = Reports(s, "MacFailed", failed)  BY DEF NativeVerified, Filled
<1>2. BaseOK(rd, r) /\ IsReceiver(r) /\ DOMAIN r.status = 1 .. rd.total  BY DEF Ready
<1>3. \A p \in passed : Genuinely(rd, r, p)
 <2> SUFFICES ASSUME NEW p \in PacketsIn(rd, i), NativePassed(group, macs, i, p - f + 1)
              PROVE  Genuinely(rd, r, p)
   OBVIOUS
 <2> HIDE DEF f, group, macs
 <2>1. /\ f = FirstOf(rd, i) /\ group = GroupWith(rd, f, Filled(r))
       /\ macs = [n \in DOMAIN group.slots |->
                    IF group.slots[n] = <<>> THEN NoMac ELSE BaseTags(r, f + n - 1)[1]]
   BY DEF f, group, macs
 <2> QED  BY <1>2, <2>1, NativeVerdict
<1>4. \A p \in present : r.base[p] # <<>>  OBVIOUS
<1> HIDE DEF passed, present, failed
<1>5. \A p \in 1 .. rd.total :
        \/ status[p] = r.status[p]
        \/ status[p] = "failed" /\ r.base[p] # <<>>
        \/ status[p] = "passed" /\ Genuinely(rd, r, p)
 <2> SUFFICES ASSUME NEW p \in 1 .. rd.total
              PROVE  \/ status[p] = r.status[p]
                     \/ status[p] = "failed" /\ r.base[p] # <<>>
                     \/ status[p] = "passed" /\ Genuinely(rd, r, p)
   OBVIOUS
 <2>1. p \in Packets  BY DEF Packets
 <2>2. CASE p \in passed  BY <1>3, <2>1, <2>2
 <2>3. CASE p \notin passed /\ p \in present  BY <1>4, <2>1, <2>3
 <2>4. CASE p \notin passed /\ p \notin present  BY <2>1, <2>4
 <2> QED  BY <2>2, <2>3, <2>4
<1>6. DOMAIN status = 1 .. rd.total  BY DEF Packets
<1> HIDE DEF status
<1>7. /\ IsReceiver(s) /\ s.base = r.base /\ s.status = status
      /\ s.verified = r.verified /\ s.result = r.result
  BY <1>2 DEF IsReceiver, ReceiverFields
<1> HIDE DEF s
<1>8. Judges(rd, r, s)  BY <1>5, <1>6, <1>7 DEF Judges, StatusFrom
<1>9. Ready(rd, s) /\ IsReceiver(s)  BY <1>7, <1>8, JudgesReady
<1>10. Judges(rd, s, NativeVerified(r, i))  BY <1>1, <1>9, ReportsAside, AsideJudges
<1> QED  BY <1>8, <1>10, JudgesTwice

LEMMA NativeCopiesJudge ==
    ASSUME NEW r, Ready(rd, r), NEW i
    PROVE  Judges(rd, r, NativeCopiesJudged(r, i))
<1> DEFINE Judge(copy) == [copy EXCEPT !.status = IF CopyPasses(r, i, copy) THEN "passed" ELSE "failed"]
           failed(attack) == {p \in PacketsIn(rd, i) : \E n \in DOMAIN r.copies[p] :
                                r.copies[p][n].attack = attack /\ ~CopyPasses(r, i, r.copies[p][n])}
           copies == [p \in Packets |->
                        IF p \in PacketsIn(rd, i)
                        THEN [n \in DOMAIN r.copies[p] |-> Judge(r.copies[p][n])] ELSE r.copies[p]]
           s == [r EXCEPT !.copies = copies]
           t == Reports(s, "TamperedVariant", failed(TRUE))
           u == Reports(t, "MacFailed", failed(FALSE))
<1>1. IsReceiver(r)  BY DEF Ready
<1>2. NativeCopiesJudged(r, i) = u  BY <1>1 DEF NativeCopiesJudged, IsReceiver, ReceiverFields
<1> HIDE DEF copies, failed
<1>3. Aside(r, s)  BY <1>1, CopiesAside
<1> HIDE DEF s
<1>4. Aside(s, t)
 <2>1. IsReceiver(s)  BY <1>3 DEF Aside
 <2> QED  BY <2>1, ReportsAside
<1> HIDE DEF t
<1>5. Aside(t, u)
 <2>1. IsReceiver(t)  BY <1>4 DEF Aside
 <2> QED  BY <2>1, ReportsAside
<1> HIDE DEF u
<1>6. Aside(r, u)  BY <1>3, <1>4, <1>5, AsideTwice
<1> QED  BY <1>2, <1>6, AsideJudges

LEMMA BaselineJudges ==
    ASSUME NEW r, Shaped(rd), rd.mode = "improved", Ready(rd, r), NEW i \in 1 .. DataIntervalCount(rd),
           NEW k \in DOMAIN GroupStarts(rd, i), NEW f, f = GroupStarts(rd, i)[k],
           NEW verdict, verdict = GroupVerdict(r, f, Filled(r))
    PROVE  Judges(rd, r, BaselineJudged(r, f, verdict))
<1> DEFINE last == GroupLast(rd, f)
           group == f .. last
           found == Located(f, verdict.bad)
           Right(p) == p \in group /\ r.base[p] # <<>> /\ p - f \in verdict.good
           Wrong(p) == p \in group /\ r.base[p] # <<>> /\ p - f \in verdict.bad
           Stated(p) == CASE Right(p) -> "passed" [] Wrong(p) -> "failed" [] OTHER -> r.status[p]
           status == [p \in Packets |-> Stated(p)]
           inc == r.incomplete \/ verdict.path = "incomplete"
           paths == r.paths \cup {verdict.path}
           groups == r.groups \cup {[first |-> f, attack |-> FALSE, path |-> verdict.path,
                                     located |-> found, exceeded |-> verdict.exceeded]}
           s == [r EXCEPT !.status = status, !.incomplete = inc, !.paths = paths, !.groups = groups]
           a == Reports(s, "FastGroupFailed", FallbackTold(verdict, f))
           b == Reports(a, "IncompleteGroupTags", IF verdict.path = "incomplete" THEN {f} ELSE {})
           c == Reports(b, "ThresholdExceeded", IF verdict.exceeded THEN {f} ELSE {})
<1>1. BaselineJudged(r, f, verdict) = c  BY DEF BaselineJudged
<1>2. BaseOK(rd, r) /\ IsReceiver(r) /\ DOMAIN r.status = 1 .. rd.total  BY DEF Ready
<1>3. \A p \in f .. last : r.base[p] # <<>> /\ p - f \in verdict.good => Genuinely(rd, r, p)
  BY <1>2, ImprovedVerdict
<1>4. \A p \in 1 .. rd.total :
        \/ status[p] = r.status[p]
        \/ status[p] = "failed" /\ r.base[p] # <<>>
        \/ status[p] = "passed" /\ Genuinely(rd, r, p)
 <2> SUFFICES ASSUME NEW p \in 1 .. rd.total
              PROVE  \/ status[p] = r.status[p]
                     \/ status[p] = "failed" /\ r.base[p] # <<>>
                     \/ status[p] = "passed" /\ Genuinely(rd, r, p)
   OBVIOUS
 <2>1. p \in Packets  BY DEF Packets
 <2>2. Right(p) => Genuinely(rd, r, p)  BY <1>3
 <2>3. Wrong(p) => r.base[p] # <<>>  OBVIOUS
 <2> HIDE DEF Right, Wrong
 <2>4. status[p] = CASE Right(p) -> "passed" [] Wrong(p) -> "failed" [] OTHER -> r.status[p]
  <3>1. Stated(p) = CASE Right(p) -> "passed" [] Wrong(p) -> "failed" [] OTHER -> r.status[p]
    OBVIOUS
  <3> HIDE DEF Stated
  <3>2. status[p] = Stated(p)  BY <2>1
  <3> QED  BY <3>1, <3>2, Zenon
 <2>5. CASE Right(p)  BY <2>2, <2>3, <2>4, <2>5
 <2>6. CASE ~ Right(p)  BY <2>3, <2>4, <2>6
 <2> QED  BY <2>5, <2>6, Zenon
<1>5. DOMAIN status = 1 .. rd.total  BY DEF Packets
<1> HIDE DEF status, found, last, inc, paths, groups
<1>6. /\ IsReceiver(s) /\ s.base = r.base /\ s.status = status
      /\ s.verified = r.verified /\ s.result = r.result
  BY <1>2 DEF IsReceiver, ReceiverFields
<1> HIDE DEF s
<1>7. Judges(rd, r, s)  BY <1>4, <1>5, <1>6 DEF Judges, StatusFrom
<1>8. Ready(rd, s)  BY <1>7, JudgesReady
<1>9. Aside(s, a)  BY <1>6, ReportsAside
<1> HIDE DEF a
<1>10. IsReceiver(a)  BY <1>9 DEF Aside
<1>11. Aside(a, b)  BY <1>10, ReportsAside
<1> HIDE DEF b
<1>12. IsReceiver(b)  BY <1>11 DEF Aside
<1>13. Aside(b, c)  BY <1>12, ReportsAside
<1> HIDE DEF c
<1>14. Aside(s, c)  BY <1>9, <1>11, <1>13, AsideTwice
<1>15. Judges(rd, s, c)  BY <1>8, <1>14, AsideJudges
<1> QED  BY <1>1, <1>7, <1>15, JudgesTwice

LEMMA AttackAside ==
    ASSUME NEW r, IsReceiver(r), NEW f, NEW verdict
    PROVE  AttackJudged(r, f, verdict) = r \/ Aside(r, AttackJudged(r, f, verdict))
<1> DEFINE replaced == Replaced(r, f)
           s == TrialFailed(r, f, replaced, Trial(r, f, replaced))
<1>1. \/ AttackJudged(r, f, verdict) = r
      \/ AttackJudged(r, f, verdict) = Reports(r, "UnverifiableMissingBaseline", replaced)
      \/ AttackJudged(r, f, verdict) = Reports(s, "TamperedVariant", replaced)
 <2> HIDE DEF replaced
 <2>1. CASE replaced = {}  BY <2>1 DEF AttackJudged, replaced
 <2>2. CASE replaced # {} /\ verdict.path # "fast"  BY <2>2 DEF AttackJudged, replaced
 <2>3. CASE replaced # {} /\ verdict.path = "fast"  BY <2>3 DEF AttackJudged, replaced
 <2> QED  BY <2>1, <2>2, <2>3
<1>2. Aside(r, s) /\ IsReceiver(s)  BY TrialAside DEF Aside
<1>3. Aside(r, Reports(r, "UnverifiableMissingBaseline", replaced))  BY ReportsAside
<1> HIDE DEF s
<1>4. Aside(s, Reports(s, "TamperedVariant", replaced))  BY <1>2, ReportsAside
<1>5. Aside(r, Reports(s, "TamperedVariant", replaced))  BY <1>2, <1>4, AsideTwice
<1> QED  BY <1>1, <1>3, <1>5

LEMMA GroupJudges ==
    ASSUME NEW r, Shaped(rd), rd.mode = "improved", Ready(rd, r), NEW i \in 1 .. DataIntervalCount(rd),
           NEW k \in DOMAIN GroupStarts(rd, i)
    PROVE  Judges(rd, r, GroupJudged(r, GroupStarts(rd, i)[k]))
<1> DEFINE f == GroupStarts(rd, i)[k]
           verdict == GroupVerdict(r, f, Filled(r))
           s == BaselineJudged(r, f, verdict)
           t == AttackJudged(s, f, verdict)
<1>1. GroupJudged(r, f) = t  BY DEF GroupJudged, BothJudged, Filled
<1>2. Judges(rd, r, s)  BY BaselineJudges
<1>3. Ready(rd, s) /\ IsReceiver(s)  BY <1>2, JudgesReady DEF Ready
<1> HIDE DEF s, f, verdict
<1>4. t = s \/ Aside(s, t)  BY <1>3, AttackAside
<1>5. Judges(rd, s, t)  BY <1>3, <1>4, AsideJudges, JudgesNothing
<1> HIDE DEF t
<1>6. Judges(rd, r, t)  BY <1>2, <1>5, JudgesTwice
<1> QED  BY <1>1, <1>6 DEF f

LEMMA ImprovedVerifiedJudges ==
    ASSUME NEW r, Shaped(rd), rd.mode = "improved", Ready(rd, r), NEW i \in 1 .. DataIntervalCount(rd)
    PROVE  Judges(rd, r, ImprovedVerified(r, i))
<1> DEFINE s == GroupStarts(rd, i)
           n == ((LastOf(rd, i) - FirstOf(rd, i)) \div rd.shape.size) + 1
<1>1. DOMAIN s = 1 .. n  BY DEF GroupStarts
<1>2. n \in Nat  BY IntervalHasPackets, ShapesAssumption, DivisionFacts DEF Shaped, ValidShape
<1>3. ASSUME NEW k \in DOMAIN s, NEW q, Ready(rd, q)
      PROVE  Judges(rd, q, Step("groups", q, s[k]))
  BY <1>3, GroupJudges DEF Step
<1> HIDE DEF s, n
<1>4. PICK h : Runs(h, "groups", r, n, s) /\ FoldLeft(GroupJudged, r, s) = h[n]
  BY <1>1, <1>2, GroupsLoop
<1>5. \A k \in 0 .. n : Judges(rd, r, h[k])  BY <1>1, <1>2, <1>3, <1>4, LoopJudges
<1>6. ImprovedVerified(r, i) = h[n]  BY <1>4 DEF ImprovedVerified, s
<1> QED  BY <1>2, <1>5, <1>6

LEMMA VerifiedJudges ==
    ASSUME NEW w, NEW r, NEW i \in 1 .. DataIntervalCount(w), Ready(w, r)
    PROVE  Judges(w, r, [r EXCEPT !.verified = @ \cup {i}])
<1> DEFINE verified == r.verified \cup {i}
           s == [r EXCEPT !.verified = verified]
<1>1. IsReceiver(r) /\ DOMAIN r.status = 1 .. w.total  BY DEF Ready
<1>2. r.verified \subseteq verified /\ verified \subseteq r.verified \cup (1 .. DataIntervalCount(w))
  OBVIOUS
<1> HIDE DEF verified
<1>3. /\ IsReceiver(s) /\ s.base = r.base /\ s.status = r.status
      /\ s.verified = verified /\ s.result = r.result
  BY <1>1 DEF IsReceiver, ReceiverFields
<1> HIDE DEF s
<1>4. StatusFrom(w, r, s)  BY <1>3 DEF StatusFrom
<1>5. Judges(w, r, s)  BY <1>1, <1>2, <1>3, <1>4 DEF Judges
<1> QED  BY <1>5 DEF s, verified

LEMMA VerifyIntervalJudges ==
    ASSUME NEW r, Shaped(rd), Ready(rd, r), NEW i \in 1 .. DataIntervalCount(rd)
    PROVE  /\ Judges(rd, r, VerifyInterval(r, i))
           /\ i \in r.keys => i \in VerifyInterval(r, i).verified
<1>0. i \in Nat \ {0}  BY IntervalHasPackets
<1>1. CASE i \in r.verified \/ i \notin r.keys  BY <1>1, JudgesNothing DEF VerifyInterval
<1>2. CASE ~ (i \in r.verified \/ i \notin r.keys)
 <2> DEFINE native == NativeVerified(r, i)
            s == IF rd.mode = "native" THEN NativeCopiesJudged(native, i) ELSE ImprovedVerified(r, i)
            t == [s EXCEPT !.verified = @ \cup {i}]
 <2>1. VerifyInterval(r, i) = t  BY <1>2 DEF VerifyInterval
 <2>2. Judges(rd, r, s)
  <3> HIDE DEF native
  <3>1. CASE rd.mode = "native"
    BY <1>0, <3>1, NativeVerifiedJudges, JudgesReady, NativeCopiesJudge, JudgesTwice DEF native
  <3>2. CASE rd.mode = "improved"  BY <3>2, ImprovedVerifiedJudges
  <3> QED  BY <3>1, <3>2 DEF Shaped
 <2> HIDE DEF s
 <2>3. Ready(rd, s)  BY <2>2, JudgesReady
 <2>4. Judges(rd, s, t)  BY <2>3, VerifiedJudges
 <2>5. i \in t.verified  BY <2>3 DEF Ready, IsReceiver, ReceiverFields
 <2> HIDE DEF t
 <2> QED  BY <2>1, <2>2, <2>4, <2>5, JudgesTwice
<1> QED  BY <1>1, <1>2

LEMMA LearnJudges ==
    ASSUME NEW r, Shaped(rd), Ready(rd, r), NEW i \in 1 .. DataIntervalCount(rd)
    PROVE  Judges(rd, r, Learn(r, i)) /\ i \in Learn(r, i).verified
<1> DEFINE keys == r.keys \cup {i}
           s == [r EXCEPT !.keys = keys]
<1>1. IsReceiver(r) /\ DOMAIN r.status = 1 .. rd.total /\ i \in keys  BY DEF Ready
<1>2. Learn(r, i) = VerifyInterval(s, i)  BY DEF Learn
<1> HIDE DEF keys
<1>3. /\ IsReceiver(s) /\ s.base = r.base /\ s.status = r.status
      /\ s.verified = r.verified /\ s.result = r.result /\ i \in s.keys
  BY <1>1 DEF IsReceiver, ReceiverFields
<1> HIDE DEF s
<1>4. Judges(rd, r, s)  BY <1>1, <1>3 DEF Judges, StatusFrom
<1>5. Ready(rd, s)  BY <1>4, JudgesReady
<1>6. Judges(rd, s, VerifyInterval(s, i)) /\ i \in VerifyInterval(s, i).verified
  BY <1>3, <1>5, VerifyIntervalJudges
<1> QED  BY <1>2, <1>4, <1>6, JudgesTwice

LEMMA KeyCountedAside ==
    ASSUME NEW r, IsReceiver(r), NEW index
    PROVE  Aside(r, KeyCounted(r, index))
<1> DEFINE counted == r.counted \cup {index}
           blocks == IF index \in r.counted THEN r.blocks ELSE r.blocks + 1
           s == [r EXCEPT !.counted = counted, !.blocks = blocks]
<1>1. KeyCounted(r, index) = s  BY DEF KeyCounted
<1> HIDE DEF counted, blocks
<1>2. Aside(r, s)  BY DEF IsReceiver, ReceiverFields, Aside
<1> QED  BY <1>1, <1>2

\* A later key brings back every earlier one, and their intervals are judged.
LEMMA LearntJudges ==
    ASSUME NEW r, Shaped(rd), Ready(rd, r), NEW index \in Nat, index <= DataIntervalCount(rd),
           DataIntervalCount(rd) \in Nat
    PROVE  Judges(rd, r, Learnt(r, index)) /\ (1 .. index) \subseteq Learnt(r, index).verified
<1> DEFINE c == KeyCounted(r, index)
           s == KeysDownFrom(index)
<1>1. Judges(rd, r, c)  BY KeyCountedAside, AsideJudges DEF Ready
<1>2. Ready(rd, c)  BY <1>1, JudgesReady
<1>3. Learnt(r, index) = FoldLeft(Learn, c, s)  BY DEF Learnt
<1> HIDE DEF c
<1>4. DOMAIN s = 1 .. index /\ \A n \in 1 .. index : s[n] = index - n + 1 /\ s[n] \in 1 .. DataIntervalCount(rd)
  BY DEF KeysDownFrom
<1> HIDE DEF s
<1>5. PICK h : Runs(h, "keys", c, index, s) /\ FoldLeft(Learn, c, s) = h[index]  BY <1>4, KeysLoop
<1>6. \A k \in 1 .. index : \A q : Ready(rd, q) =>
        Judges(rd, q, Step("keys", q, s[k])) /\ s[k] \in Step("keys", q, s[k]).verified
  BY <1>4, LearnJudges DEF Step
<1>7. \A k \in 0 .. index : Judges(rd, c, h[k])  BY <1>2, <1>5, <1>6, LoopJudges
<1> DEFINE T == {k \in Nat : k <= index => \A n \in 1 .. k : s[n] \in h[k].verified}
<1>8. 0 \in T  OBVIOUS
<1>9. ASSUME NEW k \in T PROVE k + 1 \in T
 <2> SUFFICES ASSUME k + 1 <= index, NEW n \in 1 .. (k + 1) PROVE s[n] \in h[k + 1].verified
   OBVIOUS
 <2>1. k \in Nat /\ k <= index /\ k + 1 \in 1 .. index /\ (k + 1) - 1 = k /\ k \in 0 .. index
   OBVIOUS
 <2>2. h[k + 1] = Step("keys", h[k], s[k + 1])  BY <1>5, <2>1 DEF Runs
 <2>3. Ready(rd, h[k])  BY <1>2, <1>7, <2>1, JudgesReady
 <2>4. Judges(rd, h[k], h[k + 1]) /\ s[k + 1] \in h[k + 1].verified  BY <1>6, <2>1, <2>2, <2>3
 <2>5. h[k].verified \subseteq h[k + 1].verified  BY <2>4 DEF Judges
 <2>6. n = k + 1 \/ n \in 1 .. k  OBVIOUS
 <2> QED  BY <2>1, <2>4, <2>5, <2>6
<1>10. T = Nat
 <2>1. T \in SUBSET Nat  OBVIOUS
 <2> HIDE DEF T
 <2> QED  BY <1>8, <1>9, <2>1, NatSetInduction
<1>11. \A n \in 1 .. index : s[n] \in h[index].verified  BY <1>10
<1>12. (1 .. index) \subseteq h[index].verified
 <2> SUFFICES ASSUME NEW i \in 1 .. index PROVE i \in h[index].verified  OBVIOUS
 <2>1. (index - i) + 1 \in 1 .. index /\ index - ((index - i) + 1) + 1 = i  OBVIOUS
 <2>2. s[(index - i) + 1] = i  BY <1>4, <2>1
 <2> QED  BY <1>11, <2>1, <2>2
<1>13. Judges(rd, r, h[index])  BY <1>1, <1>7, JudgesTwice
<1> QED  BY <1>3, <1>5, <1>12, <1>13

\* The last walk over the intervals, and the packets that never came.
LEMMA LastWalkJudges ==
    ASSUME NEW r, Shaped(rd), Ready(rd, r), DataIntervalCount(rd) \in Nat
    PROVE  Judges(rd, r, TellsMissing(FoldLeft(VerifyInterval, r, [i \in IntervalsOfData |-> i])))
<1> DEFINE n == DataIntervalCount(rd)
           s == [i \in IntervalsOfData |-> i]
           q == FoldLeft(VerifyInterval, r, s)
<1>1. DOMAIN s = 1 .. n /\ \A i \in 1 .. n : s[i] = i  BY DEF IntervalsOfData
<1> HIDE DEF s
<1>2. PICK h : Runs(h, "intervals", r, n, s) /\ q = h[n]  BY <1>1, IntervalsLoop
<1>3. \A k \in 1 .. n : \A t : Ready(rd, t) => Judges(rd, t, Step("intervals", t, s[k]))
  BY <1>1, VerifyIntervalJudges DEF Step
<1>4. Judges(rd, r, q)  BY <1>2, <1>3, LoopJudges
<1> HIDE DEF q
<1>5. Ready(rd, q)  BY <1>4, JudgesReady
<1>6. Judges(rd, q, TellsMissing(q))  BY <1>5, ReportsAside, AsideJudges DEF TellsMissing, Ready
<1> QED  BY <1>4, <1>6, JudgesTwice DEF q, s

(* What holds of a receiver's state whatever has arrived.                  *)

ResultGood(w, r) ==
    /\ r.result # NoResult =>
         Details!CountsFit(w.total, r.result.received, r.result.authenticated,
                           r.result.failed, r.result.missing)
    /\ RoundJudged(r) => r.verified = 1 .. DataIntervalCount(w)

StatusGood(w, r) ==
    \A p \in 1 .. w.total :
      /\ r.status[p] = "passed" => Genuinely(w, r, p)
      /\ r.status[p] = "failed" => r.base[p] # <<>>

Good(w, r) ==
    /\ Ready(w, r) /\ StatusGood(w, r) /\ ResultGood(w, r)
    /\ r.verified \subseteq 1 .. DataIntervalCount(w)

\* The receiver before its result.
Open(w, r) ==
    /\ Ready(w, r) /\ StatusGood(w, r) /\ r.result = NoResult
    /\ r.verified \subseteq 1 .. DataIntervalCount(w)

LEMMA OpenIsGood ==
    ASSUME NEW w, NEW r
    PROVE  /\ Open(w, r) => Good(w, r)
           /\ Good(w, r) /\ r.result = NoResult => Open(w, r)
  BY DEF RoundJudged, NoResult, Open, Good, ResultGood

LEMMA JudgesOpen ==
    ASSUME NEW w, NEW r, NEW s, Open(w, r), Judges(w, r, s)
    PROVE  Open(w, s)
<1>1. Ready(w, s)  BY JudgesReady DEF Open
<1>2. StatusGood(w, s)
 <2> SUFFICES ASSUME NEW p \in 1 .. w.total
              PROVE  /\ s.status[p] = "passed" => Genuinely(w, s, p)
                     /\ s.status[p] = "failed" => s.base[p] # <<>>
   BY DEF StatusGood
 <2>1. s.base = r.base  BY DEF Judges
 <2>2. Genuinely(w, s, p) <=> Genuinely(w, r, p)  BY <2>1 DEF Genuinely
 <2>3. \/ s.status[p] = r.status[p]
       \/ s.status[p] = "failed" /\ r.base[p] # <<>>
       \/ s.status[p] = "passed" /\ Genuinely(w, r, p)
   BY DEF Judges, StatusFrom
 <2>4. /\ r.status[p] = "passed" => Genuinely(w, r, p)
       /\ r.status[p] = "failed" => r.base[p] # <<>>
   BY DEF Open, StatusGood
 <2>5. "failed" # "passed"  OBVIOUS
 <2>6. CASE s.status[p] = r.status[p]  BY <2>1, <2>2, <2>4, <2>6, Zenon
 <2>7. CASE s.status[p] = "failed" /\ r.base[p] # <<>>  BY <2>1, <2>5, <2>7, Zenon
 <2>8. CASE s.status[p] = "passed" /\ Genuinely(w, r, p)  BY <2>2, <2>5, <2>8, Zenon
 <2> QED  BY <2>3, <2>6, <2>7, <2>8, Zenon
<1>3. s.result = NoResult /\ s.verified \subseteq 1 .. DataIntervalCount(w)  BY DEF Open, Judges
<1> QED  BY <1>1, <1>2, <1>3 DEF Open

LEMMA AsideOpen ==
    ASSUME NEW w, NEW r, NEW s, Open(w, r), Aside(r, s)
    PROVE  Open(w, s)
  BY AsideJudges, JudgesOpen DEF Open

\* The counts of a result fit its message.
LEMMA CountsAreRight ==
    ASSUME NEW r, Shaped(rd), Open(rd, r)
    PROVE  Details!CountsFit(rd.total, rd.total - Cardinality(Missing(r)),
                             Cardinality(Counted(r, "passed")), Cardinality(Counted(r, "failed")),
                             Cardinality(Missing(r)))
<1> DEFINE all == 1 .. rd.total
           missing == Missing(r)
           passed == Counted(r, "passed")
           failed == Counted(r, "failed")
           here == all \ missing
<1>1. rd.total \in Nat /\ rd.total > 0  BY DEF Shaped
<1>2. IsFiniteSet(all) /\ Cardinality(all) = rd.total
 <2> DEFINE n == rd.total
 <2>1. n \in Nat /\ n > 0  BY <1>1
 <2> HIDE DEF n
 <2>2. IsFiniteSet(1 .. n) /\ Cardinality(1 .. n) = n  BY <2>1, FS_Interval
 <2> QED  BY <2>2 DEF n
<1>3. missing \subseteq all /\ passed \subseteq all /\ failed \subseteq all
  BY DEF Missing, Counted, Packets
<1>4. passed \subseteq here
 <2> SUFFICES ASSUME NEW p \in all, r.status[p] = "passed" PROVE r.base[p] # <<>>
   BY DEF Missing, Counted, Packets
 <2> QED  BY DEF Open, StatusGood, Genuinely
<1>5. failed \subseteq here
 <2> SUFFICES ASSUME NEW p \in all, r.status[p] = "failed" PROVE r.base[p] # <<>>
   BY DEF Missing, Counted, Packets
 <2> QED  BY DEF Open, StatusGood
<1>6. here \subseteq all /\ all \cap missing = missing  BY <1>3
<1> HIDE DEF all, missing, passed, failed
<1>7. /\ IsFiniteSet(missing) /\ Cardinality(missing) \in Nat /\ Cardinality(missing) <= rd.total
  BY <1>2, <1>3, FS_Subset, FS_CardinalityType
<1>8. IsFiniteSet(here) /\ Cardinality(here) = rd.total - Cardinality(missing)
 <2>1. IsFiniteSet(here)  BY <1>2, <1>6, FS_Subset
 <2>2. Cardinality(all \ missing) = Cardinality(all) - Cardinality(all \cap missing)
   BY <1>2, FS_Difference
 <2> QED  BY <1>2, <1>6, <2>1, <2>2
<1> HIDE DEF here
<1>9. /\ Cardinality(passed) <= Cardinality(here) /\ Cardinality(failed) <= Cardinality(here)
  BY <1>4, <1>5, <1>8, FS_Subset
<1>10. Cardinality(here) \in Nat /\ Cardinality(here) <= rd.total  BY <1>1, <1>7, <1>8
<1> QED  BY <1>1, <1>7, <1>8, <1>9, <1>10 DEF Details!CountsFit, missing, passed, failed

LEMMA ResultIsGood ==
    ASSUME NEW r, Shaped(rd), Open(rd, r), NEW status,
           r.verified = 1 .. DataIntervalCount(rd) \/ status = "VerificationTimeout"
    PROVE  Good(rd, Result(r, status))
<1> DEFINE result ==
             [status |-> status, received |-> rd.total - Cardinality(Missing(r)),
              authenticated |-> Cardinality(Counted(r, "passed")),
              failed |-> Cardinality(Counted(r, "failed")),
              missing |-> Cardinality(Missing(r)), payload |-> Recovered(r, status),
              comparable |-> status = "Completed" /\ r.eligible /\ PathEligible(r)]
           s == [r EXCEPT !.result = result]
<1>1. Result(r, status) = s  BY DEF Result
<1>2. Details!CountsFit(rd.total, result.received, result.authenticated, result.failed, result.missing)
  BY CountsAreRight
<1>3. result.status = status  OBVIOUS
<1> HIDE DEF result
<1>4. IsReceiver(r)  BY DEF Open, Ready
<1>5. /\ IsReceiver(s) /\ s.base = r.base /\ s.status = r.status
      /\ s.verified = r.verified /\ s.result = result
  BY <1>4 DEF IsReceiver, ReceiverFields
<1> HIDE DEF s
<1>6. Ready(rd, s)  BY <1>5 DEF Open, Ready, BaseOK
<1>7. StatusGood(rd, s)  BY <1>5 DEF Genuinely, Open, StatusGood
<1>8. ResultGood(rd, s)  BY <1>2, <1>3, <1>5 DEF RoundJudged, ResultGood
<1>9. s.verified \subseteq 1 .. DataIntervalCount(rd)  BY <1>5 DEF Open
<1> QED  BY <1>1, <1>6, <1>7, <1>8, <1>9 DEF Good

\* The walk down the chain, and the result that ends it.
LEMMA KeyProcessedGood ==
    ASSUME NEW r, Shaped(rd), Open(rd, r), NEW interval \in Nat, NEW key
    PROVE  Good(rd, KeyProcessed(r, interval, key))
<1> DEFINE n == DataIntervalCount(rd)
           index == interval - rd.delay
           s == Learnt(r, index)
<1>1. n \in Nat \ {0} /\ rd.delay \in Nat  BY IntervalsAreNumbers DEF Shaped
<1>2. CASE ~ KeyFits(interval, key)
  BY <1>2, IncompleteAside, AsideOpen, OpenIsGood DEF KeyProcessed, Open, Ready
<1>3. CASE KeyFits(interval, key)
 <2>1. interval > rd.delay /\ index <= n /\ KeyIndex(interval) = index
   BY <1>3 DEF KeyFits, KeyIndex
 <2>2. index \in Nat  BY <1>1, <2>1
 <2>3. KeyProcessed(r, interval, key) = AfterKey(s, index)  BY <1>3, <2>1 DEF KeyProcessed
 <2>4. Judges(rd, r, s) /\ (1 .. index) \subseteq s.verified
  <3> HIDE DEF index
  <3>1. Ready(rd, r)  BY DEF Open
  <3>2. index <= DataIntervalCount(rd) /\ DataIntervalCount(rd) \in Nat  BY <1>1, <2>1
  <3> QED  BY <2>2, <3>1, <3>2, LearntJudges
 <2> HIDE DEF s, index
 <2>5. Open(rd, s)  BY <2>4, JudgesOpen
 <2>6. CASE index # n  BY <2>3, <2>5, <2>6, OpenIsGood DEF AfterKey
 <2>7. CASE index = n
  <3> DEFINE t == TellsMissing(FoldLeft(VerifyInterval, s, [i \in IntervalsOfData |-> i]))
  <3>1. AfterKey(s, index) = Result(t, Outcome(t))  BY <2>7 DEF AfterKey, Finalized, Concluded
  <3>2. Judges(rd, s, t)  BY <1>1, <2>5, LastWalkJudges DEF Open
  <3> HIDE DEF t
  <3>3. Open(rd, t)  BY <2>5, <3>2, JudgesOpen
  <3>4. t.verified = 1 .. DataIntervalCount(rd)  BY <2>4, <2>7, <3>2, <3>3 DEF Judges, Open
  <3> QED  BY <2>3, <3>1, <3>3, <3>4, ResultIsGood
 <2> QED  BY <2>6, <2>7
<1> QED  BY <1>2, <1>3

LEMMA AfterBaselineOpen ==
    ASSUME NEW r, Open(rd, r), NEW d, NEW attack
    PROVE  Open(rd, AfterBaseline(r, d, attack))
<1> DEFINE p == d.index
           place == SelectInSeq(r.copies[p], LAMBDA c : c.datagram = d)
           counted == [r EXCEPT !.copies[p][place].count = @ + 1]
           kept == [r EXCEPT !.copies[p] = Append(@, Candidate(d, attack))]
<1>1. IsReceiver(r)  BY DEF Open, Ready
<1>2. \/ AfterBaseline(r, d, attack) = OneReport(r, "ReplayDuplicate", p)
      \/ AfterBaseline(r, d, attack) = OneReport(counted, "ReplayDuplicate", p)
      \/ AfterBaseline(r, d, attack) = OneReport(r, "TamperedVariant", p)
      \/ AfterBaseline(r, d, attack) = OneReport(kept, "TamperedVariant", p)
  BY DEF AfterBaseline
<1>3. Aside(r, counted)
 <2> DEFINE copies == [r.copies EXCEPT ![p][place].count = @ + 1]
 <2>1. counted = [r EXCEPT !.copies = copies]  OBVIOUS
 <2> QED  BY <1>1, <2>1, CopiesAside
<1>4. Aside(r, kept)
 <2> DEFINE copies == [r.copies EXCEPT ![p] = Append(@, Candidate(d, attack))]
 <2>1. kept = [r EXCEPT !.copies = copies]  OBVIOUS
 <2> QED  BY <1>1, <2>1, CopiesAside
<1> HIDE DEF counted, kept
<1>5. Open(rd, counted) /\ IsReceiver(counted) /\ Open(rd, kept) /\ IsReceiver(kept)
  BY <1>3, <1>4, AsideOpen DEF Aside
<1>6. \A s, kind : Open(rd, s) /\ IsReceiver(s) => Open(rd, OneReport(s, kind, p))
  BY OneReportAside, AsideOpen
<1> QED  BY <1>1, <1>2, <1>5, <1>6

LEMMA BeforeBaselineOpen ==
    ASSUME NEW r, Open(rd, r), NEW d
    PROVE  Open(rd, BeforeBaseline(r, d))
<1> DEFINE p == d.index
           place == SelectInSeq(r.copies[p], LAMBDA c : c.datagram = d)
           counted == [r EXCEPT !.copies[p][place].count = @ + 1]
           kept == [r EXCEPT !.copies[p] = Append(@, Candidate(d, TRUE))]
<1>1. IsReceiver(r)  BY DEF Open, Ready
<1>2. \/ BeforeBaseline(r, d) = counted
      \/ BeforeBaseline(r, d) = OneReport(r, "TamperedVariant", p)
      \/ BeforeBaseline(r, d) = kept
  BY DEF BeforeBaseline
<1>3. Aside(r, counted)
 <2> DEFINE copies == [r.copies EXCEPT ![p][place].count = @ + 1]
 <2>1. counted = [r EXCEPT !.copies = copies]  OBVIOUS
 <2> QED  BY <1>1, <2>1, CopiesAside
<1>4. Aside(r, kept)
 <2> DEFINE copies == [r.copies EXCEPT ![p] = Append(@, Candidate(d, TRUE))]
 <2>1. kept = [r EXCEPT !.copies = copies]  OBVIOUS
 <2> QED  BY <1>1, <2>1, CopiesAside
<1> HIDE DEF counted, kept
<1>5. Aside(r, OneReport(r, "TamperedVariant", p))  BY <1>1, OneReportAside
<1> QED  BY <1>2, <1>3, <1>4, <1>5, AsideOpen

\* A packet takes its slot: it has no verdict yet.
LEMMA SlotOpen ==
    ASSUME NEW r, Shaped(rd), Open(rd, r), NEW p \in 1 .. rd.total, r.base[p] = <<>>, NEW d,
           AsSent(rd, p, d), NEW blocks
    PROVE  Open(rd, [r EXCEPT !.base[p] = <<d>>, !.blocks = blocks])
<1> DEFINE base == [r.base EXCEPT ![p] = <<d>>]
           s == [r EXCEPT !.base = base, !.blocks = blocks]
<1>0. [r EXCEPT !.base[p] = <<d>>, !.blocks = blocks] = s  OBVIOUS
<1>1. IsReceiver(r) /\ DOMAIN r.base = 1 .. rd.total  BY DEF Open, Ready, BaseOK
<1>2. /\ DOMAIN base = 1 .. rd.total /\ base[p] = <<d>>
      /\ \A q \in 1 .. rd.total : q # p => base[q] = r.base[q]
  BY <1>1
<1> HIDE DEF base
<1>3. /\ IsReceiver(s) /\ s.base = base /\ s.status = r.status
      /\ s.verified = r.verified /\ s.result = r.result
  BY <1>1 DEF IsReceiver, ReceiverFields
<1> HIDE DEF s
<1>4. BaseOK(rd, s)  BY <1>2, <1>3 DEF Open, Ready, BaseOK
<1>5. Ready(rd, s)  BY <1>3, <1>4 DEF Open, Ready
<1>6. StatusGood(rd, s)
 <2> SUFFICES ASSUME NEW q \in 1 .. rd.total
              PROVE  /\ s.status[q] = "passed" => Genuinely(rd, s, q)
                     /\ s.status[q] = "failed" => s.base[q] # <<>>
   BY DEF StatusGood
 <2>1. /\ r.status[q] = "passed" => Genuinely(rd, r, q)
       /\ r.status[q] = "failed" => r.base[q] # <<>>
   BY DEF Open, StatusGood
 <2>2. CASE q = p  BY <1>3, <2>1, <2>2 DEF Genuinely
 <2>3. CASE q # p  BY <1>2, <1>3, <2>1, <2>3 DEF Genuinely
 <2> QED  BY <2>2, <2>3
<1> QED  BY <1>0, <1>3, <1>5, <1>6 DEF Open

LEMMA TakesSlotGood ==
    ASSUME NEW r, Shaped(rd), Open(rd, r), NEW d, d.interval \in Nat, d.index \in 1 .. rd.total,
           AsSent(rd, d.index, d), r.base[d.index] = <<>>
    PROVE  Good(rd, TakesSlot(r, d))
<1> DEFINE fields == Fields(d)
           blocks == r.blocks + DataCost(fields)
           taken == [r EXCEPT !.base[d.index] = <<d>>, !.blocks = blocks]
<1>1. \/ TakesSlot(r, d) = taken
      \/ TakesSlot(r, d) = KeyProcessed(taken, fields.interval, fields.key[1])
  BY DEF TakesSlot
<1>2. fields.interval = d.interval  BY DEF Fields, Decode
<1> HIDE DEF fields, blocks
<1>3. Open(rd, taken)  BY SlotOpen
<1> HIDE DEF taken
<1> QED  BY <1>1, <1>2, <1>3, KeyProcessedGood, OpenIsGood

LEMMA ReceiveGood ==
    ASSUME NEW r, Shaped(rd), Good(rd, r), NEW d, Arriving(rd, d), NEW attack \in BOOLEAN
    PROVE  Good(rd, Receive(r, d, attack))
<1> DEFINE told == [r EXCEPT !.incomplete = TRUE]
<1>1. CASE r.result # NoResult  BY <1>1 DEF Receive
<1>2. CASE r.result = NoResult
 <2>1. Open(rd, r) /\ IsReceiver(r)  BY <1>2, OpenIsGood DEF Good, Ready
 <2>2. Aside(r, told) /\ IsReceiver(told)  BY <2>1, IncompleteAside DEF Aside
 <2> HIDE DEF told
 <2>3. \A kind, p : Open(rd, OneReport(told, kind, p))  BY <2>1, <2>2, AsideOpen, OneReportAside
 <2>4. CASE ~ DecodeValid(rd, d)  BY <1>2, <2>3, <2>4, OpenIsGood DEF Receive, told
 <2>5. CASE DecodeValid(rd, d) /\ d.index = 0
  <3> DEFINE key == Fields(d).key[1]
  <3>1. \/ Receive(r, d, attack) = KeyProcessed(r, d.interval, key)
        \/ Receive(r, d, attack) = OneReport(told, "ProtocolError", 0)
    BY <1>2, <2>5 DEF Receive, TailArrives, TailKey, told
  <3> HIDE DEF key
  <3> QED  BY <2>1, <2>3, <3>1, KeyProcessedGood, OpenIsGood DEF Arriving
 <2>6. CASE DecodeValid(rd, d) /\ d.index # 0
  <3>1. Receive(r, d, attack) = DataArrives(r, d, attack)  BY <1>2, <2>6 DEF Receive
  <3>2. \/ DataArrives(r, d, attack) = OneReport(told, "ReplayLate", d.index)
        \/ DataArrives(r, d, attack) = AfterBaseline(r, d, attack)
        \/ DataArrives(r, d, attack) = BeforeBaseline(r, d)
        \/ DataArrives(r, d, attack) = TakesSlot(r, d) /\ r.base[d.index] = <<>>
   <4>1. CASE ~ TimeSafe(d.interval)  BY <4>1 DEF DataArrives, told
   <4>2. CASE TimeSafe(d.interval) /\ r.base[d.index] # <<>>  BY <4>2 DEF DataArrives
   <4>3. CASE TimeSafe(d.interval) /\ r.base[d.index] = <<>> /\ attack  BY <4>3 DEF DataArrives
   <4>4. CASE TimeSafe(d.interval) /\ r.base[d.index] = <<>> /\ ~ attack  BY <4>4 DEF DataArrives
   <4> QED  BY <4>1, <4>2, <4>3, <4>4
  <3>3. AsSent(rd, d.index, d) /\ d.index \in 1 .. rd.total /\ d.interval \in Nat
    BY <2>6 DEF Arriving
  <3> QED
    BY <2>1, <2>3, <3>1, <3>2, <3>3, AfterBaselineOpen, BeforeBaselineOpen, TakesSlotGood, OpenIsGood
 <2> QED  BY <2>4, <2>5, <2>6
<1> QED  BY <1>1, <1>2

(* What is on the air, and what the channel makes of it.                   *)

\* One block of a datagram written over.
LEMMA OverwrittenOnTheAir ==
    ASSUME NEW w, Shaped(w), NEW d, OnTheAir(w, d), NEW m, NEW v,
           d.index # 0 =>
             \A j \in 1 .. TagBlocks(w, d.index) :
               m = (1 + KeyBlocks(w, d.index)) + j => Plausible(w, d.index, j, v)
    PROVE  OnTheAir(w, WithBlock(d, m, v))
<1> DEFINE b == d.blocks
           c == [b EXCEPT ![m] = v]
           e == WithBlock(d, m, v)
           p == d.index
<1>1. IsDatagram(d)  BY DEF OnTheAir
<1>2. /\ DOMAIN e = {"interval", "index", "blocks"} /\ e.interval = d.interval /\ e.index = d.index
      /\ e.blocks = c
  BY <1>1 DEF WithBlock, IsDatagram
<1> HIDE DEF e, c
<1>3. CASE d.index = 0  BY <1>1, <1>2, <1>3 DEF OnTheAir, IsDatagram, e
<1>4. CASE d.index # 0
 <2>1. p \in 1 .. w.total /\ AsSent(w, p, d)  BY <1>4 DEF OnTheAir
 <2>2. IsSequence(b) /\ Len(b) = (1 + KeyBlocks(w, p)) + TagBlocks(w, p)  BY <2>1 DEF AsSent, Spread
 <2>3. KeyBlocks(w, p) \in {0, 1} /\ TagBlocks(w, p) \in Nat  BY BlockCounts
 <2> HIDE DEF b, p
 <2>4. IsSequence(c) /\ Len(c) = Len(b) /\ \A x \in 1 .. Len(b) : c[x] = IF x = m THEN v ELSE b[x]
  <3>1. PICK S : b \in Seq(S)  BY <2>2 DEF IsSequence
  <3> DEFINE S2 == S \cup {v}
  <3>2. b \in Seq(S2)  BY <3>1
  <3>3. v \in S2  OBVIOUS
  <3> HIDE DEF S2
  <3>4. c \in Seq(S2) /\ Len(c) = Len(b) /\ \A x \in 1 .. Len(b) : c[x] = IF x = m THEN v ELSE b[x]
   <4>1. CASE m \in 1 .. Len(b)  BY <3>2, <3>3, <4>1, ExceptSeq DEF c
   <4>2. CASE m \notin 1 .. Len(b)
    <5>1. DOMAIN b = 1 .. Len(b)  BY <3>2
    <5>2. c = b  BY <3>2, <4>2, <5>1 DEF c
    <5> QED  BY <3>2, <4>2, <5>2
   <4> QED  BY <4>1, <4>2
  <3> QED  BY <3>4 DEF IsSequence
 <2>5. \A j \in 1 .. TagBlocks(w, p) : Plausible(w, p, j, c[(1 + KeyBlocks(w, p)) + j])
  <3> SUFFICES ASSUME NEW j \in 1 .. TagBlocks(w, p)
               PROVE  Plausible(w, p, j, c[(1 + KeyBlocks(w, p)) + j])
    OBVIOUS
  <3> DEFINE x == (1 + KeyBlocks(w, p)) + j
  <3>1. x \in 1 .. Len(b)  BY <2>2, <2>3
  <3>2. Plausible(w, p, j, b[x])  BY <2>1 DEF AsSent, b
  <3>3. m = x => Plausible(w, p, j, v)  BY <1>4 DEF p
  <3> HIDE DEF x
  <3>4. (c[x] = v /\ x = m) \/ c[x] = b[x]  BY <2>4, <3>1
  <3> QED  BY <3>2, <3>3, <3>4 DEF x
 <2>6. AsSent(w, p, e)  BY <1>2, <2>1, <2>2, <2>4, <2>5 DEF AsSent, p, Spread
 <2> QED  BY <1>1, <1>2, <2>1, <2>6 DEF OnTheAir, IsDatagram, e, p
<1> QED  BY <1>3, <1>4

(* The sender's packets follow the codec's rules.                          *)

\* A round with a valid payload and context, and a key for its first tail, is built.
LEMMA BuiltUnlessForCause ==
    ASSUME NEW w \in RoundSet, PayloadValid(w), ContextValid(w), ~ (w.delay > DataIntervalCount(w))
    PROVE  Buildable(w)
<1>1. Shaped(w)  BY RoundSetAssumption DEF ContextValid, Shaped
<1> DEFINE n == DataIntervalCount(w)
           d == w.delay
           last == FinalInterval(w)
<1>2. n \in Nat \ {0} /\ d \in Nat \ {0} /\ d <= n /\ last = n + d
  BY <1>1, IntervalsAreNumbers DEF Shaped, FinalInterval
<1>3. w.mode = "improved" => w.perInterval % w.shape.size = 0  BY DEF ContextValid
<1> SUFFICES ASSUME NEW i \in 1 .. last
             PROVE  /\ \A m \in DOMAIN IntervalPackets(w, i) : EncodeValid(w, IntervalPackets(w, i)[m])
                    /\ i > n => DataKeyExists(w, i - d)
  BY DEF Buildable
<1> HIDE DEF n, d, last
<1>4. i \in Nat \ {0}  BY <1>2
<1>5. i > n => DataKeyExists(w, i - d)  BY <1>2 DEF DataKeyExists, n
<1>6. CASE i <= n
 <2> DEFINE f == FirstOf(w, i)
            l == LastOf(w, i)
 <2>1. f \in Nat \ {0} /\ l \in Nat /\ f <= l  BY <1>1, <1>4, <1>6, IntervalHasPackets DEF n
 <2>2. IntervalPackets(w, i) = [m \in 1 .. l - f + 1 |-> DataPacket(w, f + m - 1)]
   BY <1>6 DEF IntervalPackets, n
 <2>3. ASSUME NEW m \in 1 .. l - f + 1 PROVE EncodeValid(w, DataPacket(w, f + m - 1))
  <3>1. f + m - 1 \in PacketsIn(w, i)
   <4> HIDE DEF f, l
   <4>1. f + m - 1 \in f .. l  BY <2>1
   <4> QED  BY <4>1 DEF PacketsIn, f, l
  <3>2. f + m - 1 \in 1 .. w.total  BY <1>1, <1>4, <3>1, InInterval
  <3> QED  BY <1>1, <1>3, <3>2, DataEncodable
 <2> HIDE DEF f, l
 <2> QED  BY <1>5, <2>2, <2>3
<1>7. CASE ~ (i <= n)
 <2>1. IntervalPackets(w, i) = <<TailPacket(w, i)>>  BY <1>7 DEF IntervalPackets, n
 <2>2. i > d /\ i <= last  BY <1>2, <1>4, <1>7
 <2>3. TailPacket(w, i).index = 0 /\ TailPacket(w, i).interval = i  BY DEF TailPacket
 <2>4. EncodeValid(w, TailPacket(w, i))
   BY <2>2, <2>3 DEF EncodeValid, DisclosureIntervalValid, d, last
 <2> QED  BY <1>5, <2>1, <2>4
<1> QED  BY <1>6, <1>7

LEMMA NothingIsGood == Good(rd, NothingReceived)
<1> DEFINE r == NothingReceived
<1>1. /\ IsReceiver(r) /\ r.result = NoResult /\ r.verified = {}
      /\ DOMAIN r.base = 1 .. rd.total /\ DOMAIN r.status = 1 .. rd.total
      /\ \A p \in 1 .. rd.total : r.base[p] = <<>> /\ r.status[p] = "pending"
  BY DEF NothingReceived, IsReceiver, ReceiverFields, Packets
<1> HIDE DEF r
<1>2. Ready(rd, r)  BY <1>1 DEF Ready, BaseOK
<1>3. StatusGood(rd, r)  BY <1>1 DEF StatusGood
<1>4. ResultGood(rd, r)  BY <1>1 DEF ResultGood, RoundJudged, NoResult
<1>5. Good(rd, r)  BY <1>1, <1>2, <1>3, <1>4 DEF Good
<1> QED  BY <1>5 DEF r

\* The inductive invariant.
AuthInv ==
    /\ rd \in RoundSet
    /\ phase # "refused" => Buildable(rd)
    /\ RefusedForCause
    /\ phase = "built" => onAir = 1
    /\ phase = "sending" => onAir \in 1 .. FinalInterval(rd) /\ flight \subseteq DOMAIN Datagrams(rd, onAir)
    /\ Good(rd, rx)

LEMMA AuthInitial == AuthInit => AuthInv
<1> SUFFICES ASSUME AuthInit PROVE AuthInv  OBVIOUS
<1>1. rd \in RoundSet /\ rx = NothingReceived /\ onAir = 1 /\ phase = IF Buildable(rd) THEN "built" ELSE "refused"
  BY DEF AuthInit
<1>2. Good(rd, rx)  BY <1>1, NothingIsGood
<1>3. CASE Buildable(rd)  BY <1>1, <1>2, <1>3 DEF AuthInv, RefusedForCause
<1>4. CASE ~ Buildable(rd)  BY <1>1, <1>2, <1>4, BuiltUnlessForCause DEF RefusedForCause, AuthInv
<1> QED  BY <1>3, <1>4

LEMMA SentNowOnTheAir ==
    ASSUME AuthInv, phase = "sending", NEW n \in flight
    PROVE  Shaped(rd) /\ OnTheAir(rd, SentNow(n)) /\ SentNow(n).interval = onAir
  BY BuildableIsShaped, SentOnTheAir DEF AuthInv, SentNow

LEMMA AlteredOnTheAir ==
    ASSUME AuthInv, phase = "sending", NEW n \in flight
    PROVE  /\ SentNow(n).index # 0 => OnTheAir(rd, WithBlock(SentNow(n), 1, AlteredBlock("message")))
           /\ SentNow(n).index = 0 \/ CarriesKey(rd, onAir, SentNow(n).index) =>
                OnTheAir(rd, WithBlock(SentNow(n), IF SentNow(n).index = 0 THEN 1 ELSE 2, Outside))
           /\ SentNow(n).index # 0 /\ (rd.mode = "native" \/ GroupEnd(rd, SentNow(n).index)) =>
                OnTheAir(rd, WithBlock(SentNow(n), Len(SentNow(n).blocks), AlteredBlock("tag")))
           /\ SentNow(n).index # 0 /\ GroupEnd(rd, SentNow(n).index) =>
                OnTheAir(rd, WithBlock(SentNow(n), Len(SentNow(n).blocks) - TauCount(rd.shape),
                                       AlteredBlock("tau")))
<1> DEFINE d == SentNow(n)
           p == d.index
           k == KeyBlocks(rd, p)
           t == TagBlocks(rd, p)
<1>1. Shaped(rd) /\ OnTheAir(rd, d) /\ d.interval = onAir  BY SentNowOnTheAir
<1> HIDE DEF d
<1>2. k \in {0, 1} /\ t \in Nat  BY <1>1, BlockCounts
<1>3. p # 0 => Len(d.blocks) = (1 + k) + t /\ ExpectedInterval(rd, p) = onAir
  BY <1>1 DEF OnTheAir, AsSent, Spread
<1>4. TauCount(rd.shape) \in Nat  BY <1>1, TausAre DEF Shaped
<1>5. \A v : OnTheAir(rd, WithBlock(d, 1, v))
 <2> SUFFICES ASSUME NEW v PROVE OnTheAir(rd, WithBlock(d, 1, v))  OBVIOUS
 <2>1. \A j \in 1 .. t : 1 # (1 + k) + j  BY <1>2
 <2> QED  BY <1>1, <2>1, OverwrittenOnTheAir
<1>6. ASSUME p # 0, CarriesKey(rd, onAir, p) PROVE OnTheAir(rd, WithBlock(d, 2, Outside))
  BY <1>1, <1>2, <1>3, <1>6, OverwrittenOnTheAir DEF KeyBlocks
<1>7. ASSUME p # 0 PROVE OnTheAir(rd, WithBlock(d, Len(d.blocks), <<Outside>>))
  BY <1>1, <1>2, <1>3, <1>7, OverwrittenOnTheAir DEF Plausible
<1>8. ASSUME NEW m PROVE OnTheAir(rd, WithBlock(d, m, << <<Outside>> >>))
  BY <1>1, OverwrittenOnTheAir DEF Plausible
<1>9. AlteredBlock("tag") = <<Outside>> /\ AlteredBlock("tau") = << <<Outside>> >>
  BY DEF AlteredBlock
<1> QED  BY <1>5, <1>6, <1>7, <1>8, <1>9 DEF d

LEMMA HeardOnTheAir ==
    ASSUME AuthInv, phase = "sending", NEW p \in Packets
    PROVE  OnTheAir(rd, Datagrams(rd, ExpectedInterval(rd, p))[p - FirstOf(rd, ExpectedInterval(rd, p)) + 1])
<1> DEFINE i == ExpectedInterval(rd, p)
           f == FirstOf(rd, i)
           last == LastOf(rd, i)
           n == p - f + 1
<1>1. Buildable(rd) /\ rd \in RoundSet /\ p \in 1 .. rd.total  BY DEF AuthInv, Packets
<1>2. Shaped(rd)  BY <1>1, BuildableIsShaped
<1>3. i \in 1 .. DataIntervalCount(rd) /\ p \in PacketsIn(rd, i) /\ DataIntervalCount(rd) \in Nat
  BY <1>1, <1>2, IntervalOf
<1>4. f \in Nat \ {0} /\ last \in Nat /\ f <= p /\ p <= last /\ p \in Nat
  BY <1>1, <1>2, <1>3, InInterval DEF Shaped
<1>5. i <= DataIntervalCount(rd) /\ i \in 1 .. FinalInterval(rd)  BY <1>2, <1>3 DEF FinalInterval, Shaped
<1> HIDE DEF i, f, last
<1>6. n \in 1 .. last - f + 1  BY <1>4
<1>7. n \in DOMAIN Datagrams(rd, i)  BY <1>5, <1>6 DEF Datagrams, IntervalPackets, f, last
<1> HIDE DEF n
<1>8. OnTheAir(rd, Datagrams(rd, i)[n])  BY <1>1, <1>2, <1>5, <1>7, SentOnTheAir
<1> QED  BY <1>8 DEF n, i, f

\* What a step on the air leaves as it was.
Onward ==
    /\ rd' = rd /\ phase' = phase /\ onAir' = onAir /\ flight' \subseteq flight

LEMMA OnwardKeepsInv ==
    ASSUME AuthInv, phase = "sending", Onward, Good(rd, rx')
    PROVE  AuthInv'
<1>1. RefusedForCause'  BY DEF Onward, RefusedForCause
<1>2. (onAir \in 1 .. FinalInterval(rd) /\ flight \subseteq DOMAIN Datagrams(rd, onAir))'
  BY DEF AuthInv, Onward
<1>3. Good(rd, rx)'  BY DEF Onward
<1>4. rd' \in RoundSet /\ Buildable(rd)' /\ phase' # "built"  BY DEF AuthInv, Onward
<1> QED  BY <1>1, <1>2, <1>3, <1>4 DEF AuthInv

LEMMA ReceivedKeepsInv ==
    ASSUME AuthInv, phase = "sending", Onward, NEW d, Arriving(rd, d), NEW attack \in BOOLEAN,
           rx' = Receive(rx, d, attack)
    PROVE  AuthInv'
  BY BuildableIsShaped, ReceiveGood, OnwardKeepsInv DEF AuthInv

LEMMA AlterKeepsInv ==
    ASSUME AuthInv, NEW n \in flight, NEW block \in {"message", "key", "tag", "tau"}, Alter(n, block)
    PROVE  AuthInv'
<1> DEFINE sent == SentNow(n)
           m == CASE block = "message" -> 1
                  [] block = "key" -> IF sent.index = 0 THEN 1 ELSE 2
                  [] block = "tag" -> Len(sent.blocks)
                  [] block = "tau" -> Len(sent.blocks) - TauCount(rd.shape)
           value == IF block = "key" THEN Outside ELSE AlteredBlock(block)
<1>1. phase = "sending" /\ Onward  BY DEF Alter, Onward
<1>2. \E e : rx' = Receive(rx, e, FALSE) /\ OnTheAir(rd, e)
 <2>1. CASE block = "message"  BY <1>1, <2>1, AlteredOnTheAir DEF Alter
 <2>2. CASE block = "key"  BY <1>1, <2>2, AlteredOnTheAir DEF Alter
 <2>3. CASE block = "tag"  BY <1>1, <2>3, AlteredOnTheAir DEF Alter
 <2>4. CASE block = "tau"  BY <1>1, <2>4, AlteredOnTheAir DEF Alter
 <2> QED  BY <2>1, <2>2, <2>3, <2>4
<1>3. PICK e : rx' = Receive(rx, e, FALSE) /\ OnTheAir(rd, e)  BY <1>2
<1>4. Arriving(rd, e)  BY <1>3, OnTheAirArrives
<1> QED  BY <1>1, <1>3, <1>4, ReceivedKeepsInv

LEMMA CopyKeepsInv ==
    ASSUME AuthInv, NEW p \in Packets, NEW tampered \in BOOLEAN, Copy(p, tampered)
    PROVE  AuthInv'
<1> DEFINE i == ExpectedInterval(rd, p)
           heard == Datagrams(rd, i)[p - FirstOf(rd, i) + 1]
           forged == WithBlock(heard, 1, ForgedMessage(heard.blocks[1]))
<1>1. phase = "sending" /\ Onward  BY DEF Copy, Onward
<1>2. rx' = Receive(rx, IF tampered THEN forged ELSE heard, TRUE)  BY DEF Copy
<1>3. OnTheAir(rd, heard) /\ Shaped(rd)  BY <1>1, HeardOnTheAir, BuildableIsShaped DEF AuthInv
<1> HIDE DEF heard
<1>4. OnTheAir(rd, forged)  BY <1>3, BlockCounts, OverwrittenOnTheAir
<1> HIDE DEF forged
<1>5. Arriving(rd, IF tampered THEN forged ELSE heard)  BY <1>3, <1>4, OnTheAirArrives
<1> QED  BY <1>1, <1>2, <1>5, ReceivedKeepsInv

LEMMA NextIntervalKeepsInv ==
    ASSUME AuthInv, FollowingInterval
    PROVE  AuthInv'
<1>1. /\ phase = "sending" /\ rd' = rd /\ rx' = rx /\ Buildable(rd)
      /\ onAir \in 1 .. FinalInterval(rd) /\ rd \in RoundSet
  BY DEF AuthInv, FollowingInterval
<1>2. Good(rd, rx)'  BY <1>1 DEF AuthInv
<1>3. FinalInterval(rd) \in Nat
  BY <1>1, BuildableIsShaped, IntervalsAreNumbers DEF FinalInterval, Shaped
<1>4. CASE onAir < FinalInterval(rd)
 <2>1. onAir' = onAir + 1 /\ flight' = DOMAIN Datagrams(rd, onAir + 1) /\ phase' = phase
   BY <1>4 DEF FollowingInterval
 <2>2. onAir + 1 \in 1 .. FinalInterval(rd)  BY <1>1, <1>3, <1>4
 <2>3. (onAir \in 1 .. FinalInterval(rd) /\ flight \subseteq DOMAIN Datagrams(rd, onAir))'
   BY <1>1, <2>1, <2>2
 <2>4. RefusedForCause' /\ phase' # "refused" /\ phase' # "built"  BY <1>1, <2>1 DEF RefusedForCause
 <2>5. rd' \in RoundSet /\ Buildable(rd)'  BY <1>1
 <2> QED  BY <1>2, <2>3, <2>4, <2>5 DEF AuthInv
<1>5. CASE ~ (onAir < FinalInterval(rd))
  BY <1>1, <1>2, <1>5 DEF FollowingInterval, RefusedForCause, AuthInv
<1> QED  BY <1>4, <1>5

LEMMA StartKeepsInv ==
    ASSUME AuthInv, Start
    PROVE  AuthInv'
<1>1. /\ phase = "built" /\ phase' = "sending" /\ rd' = rd /\ rx' = rx /\ onAir' = 1
      /\ flight' = DOMAIN Datagrams(rd, 1)
  BY DEF Start, AuthInv
<1>2. Buildable(rd) /\ rd \in RoundSet  BY <1>1 DEF AuthInv
<1>3. FinalInterval(rd) \in Nat \ {0}
  BY <1>2, BuildableIsShaped, IntervalsAreNumbers DEF FinalInterval, Shaped
<1>4. (onAir \in 1 .. FinalInterval(rd) /\ flight \subseteq DOMAIN Datagrams(rd, onAir))'
  BY <1>1, <1>3
<1>5. Good(rd, rx)' /\ RefusedForCause' /\ rd' \in RoundSet /\ Buildable(rd)'
  BY <1>1, <1>2 DEF AuthInv, RefusedForCause
<1> QED  BY <1>1, <1>4, <1>5 DEF AuthInv

LEMMA TimeoutKeepsInv ==
    ASSUME AuthInv, Timeout
    PROVE  AuthInv'
<1>1. /\ phase = "over" /\ rx.result = NoResult /\ rd' = rd /\ phase' = phase
      /\ rx' = Result(TellsMissing(rx), "VerificationTimeout")
  BY DEF Timeout
<1>2. Shaped(rd) /\ Buildable(rd) /\ rd \in RoundSet /\ Good(rd, rx)
  BY <1>1, BuildableIsShaped DEF AuthInv
<1>3. Open(rd, rx)  BY <1>1, <1>2, OpenIsGood
<1>4. Aside(rx, TellsMissing(rx))  BY <1>3, ReportsAside DEF TellsMissing, Open, Ready
<1>5. Open(rd, TellsMissing(rx))  BY <1>3, <1>4, AsideOpen
<1>6. Good(rd, rx')  BY <1>1, <1>2, <1>5, ResultIsGood
<1>7. Good(rd, rx)' /\ RefusedForCause' /\ rd' \in RoundSet /\ Buildable(rd)'
  BY <1>1, <1>2, <1>6 DEF RefusedForCause
<1> QED  BY <1>1, <1>7 DEF AuthInv

\* One step.
LEMMA AuthStep == AuthInv /\ [AuthNext]_authVars => AuthInv'
<1> SUFFICES ASSUME AuthInv, [AuthNext]_authVars PROVE AuthInv'  OBVIOUS
<1>1. CASE Start  BY <1>1, StartKeepsInv
<1>2. ASSUME NEW n \in flight, Arrive(n) PROVE AuthInv'
  BY <1>2, SentNowOnTheAir, OnTheAirArrives, ReceivedKeepsInv DEF Arrive, Onward
<1>3. ASSUME NEW n \in flight, Lose(n) PROVE AuthInv'
  BY <1>3, OnwardKeepsInv DEF Lose, Onward, AuthInv
<1>4. ASSUME NEW n \in flight, Cut(n) PROVE AuthInv'
  BY <1>4, SentNowOnTheAir, CutArrives, ReceivedKeepsInv DEF Cut, Onward
<1>5. ASSUME NEW n \in flight, NEW block \in {"message", "key", "tag", "tau"}, Alter(n, block)
      PROVE  AuthInv'
  BY <1>5, AlterKeepsInv
<1>6. ASSUME NEW p \in Packets, NEW tampered \in BOOLEAN, Copy(p, tampered) PROVE AuthInv'
  BY <1>6, CopyKeepsInv
<1>7. CASE FollowingInterval  BY <1>7, NextIntervalKeepsInv
<1>8. CASE Timeout  BY <1>8, TimeoutKeepsInv
<1>9. CASE UNCHANGED authVars  BY <1>9 DEF authVars, AuthInv, RefusedForCause
<1> QED  BY <1>1, <1>2, <1>3, <1>4, <1>5, <1>6, <1>7, <1>8, <1>9, Zenon DEF AuthNext

LEMMA AuthInvHolds == AuthSpec => []AuthInv
<1> QED  BY AuthInitial, AuthStep, PTL DEF AuthSpec

\* Whatever the channel and the attack node do, a packet that the receiver has
\* passed has the message the sender gave it: in native mode the MAC of its own,
\* in improved mode its group's tags or the decoding of them, vouch for it
\* (verifyNativeIntervalLocked, verifyImprovedIntervalLocked).
THEOREM GenuinePackets == AuthSpec => []OnlyGenuinePasses
<1>1. AuthInv => OnlyGenuinePasses
 <2> SUFFICES ASSUME AuthInv, NEW p \in Packets, rx.status[p] = "passed" PROVE Genuine(p)
   BY DEF OnlyGenuinePasses
 <2>1. Genuinely(rd, rx, p)  BY DEF AuthInv, Good, StatusGood, Packets
 <2> QED  BY <2>1 DEF Genuinely, Genuine, BaseSlot, Fields
<1> QED  BY <1>1, AuthInvHolds, PTL

\* A round with a valid payload and context is built unless it is too short for
\* its disclosure delay; the walk down the key chain leaves no interval without a
\* verdict; and the counts of a result fit the message that reports it
\* (buildDatagrams, processDisclosedKeyLocked, finalizeLocked).
THEOREM JudgedRounds == AuthSpec => []RoundsJudged
<1>1. AuthInv => RoundsJudged
 <2> SUFFICES ASSUME AuthInv PROVE RoundsJudged  OBVIOUS
 <2>1. RefusedForCause  BY DEF AuthInv
 <2>2. EveryIntervalJudged  BY DEF AuthInv, Good, ResultGood, EveryIntervalJudged, IntervalsOfData
 <2>3. ResultFitsItsMessage  BY DEF AuthInv, Good, ResultGood, ResultFitsItsMessage
 <2> QED  BY <2>1, <2>2, <2>3 DEF RoundsJudged
<1> QED  BY <1>1, AuthInvHolds, PTL

-----------------------------------------------------------------------------
(* What is told of a round: every loss, every alteration and every forged   *)
(* copy, by the time its interval is judged.                                *)

\* A copy as the attack node forges it: another message, the sender's tags.
IsForged(w, p, d) ==
    /\ AsSent(w, p, d) /\ d.blocks[1] = ForgedMessage(Message(w, p))
    /\ \A j \in 1 .. TagBlocks(w, p) : d.blocks[(1 + KeyBlocks(w, p)) + j] = Tags(w, p)[j]

CopyOK(w, p, c) ==
    /\ DOMAIN c = {"datagram", "attack", "count", "status"} /\ c.attack \in BOOLEAN
    /\ AsSent(w, p, c.datagram)
    /\ c.datagram.blocks[1] = ForgedMessage(Message(w, p)) => c.attack

CopiesOK(w, r) ==
    /\ DOMAIN r.copies = 1 .. w.total
    /\ \A p \in 1 .. w.total :
         IsSequence(r.copies[p]) /\ \A n \in 1 .. Len(r.copies[p]) : CopyOK(w, p, r.copies[p][n])

\* The same copies of a packet, whatever has been counted or found of them.
SameCopies(r, s, p) ==
    /\ Len(s.copies[p]) = Len(r.copies[p])
    /\ \A n \in 1 .. Len(r.copies[p]) :
         /\ s.copies[p][n].attack = r.copies[p][n].attack
         /\ s.copies[p][n].datagram = r.copies[p][n].datagram

HasForged(w, r, p) ==
    \E n \in 1 .. Len(r.copies[p]) : r.copies[p][n].attack /\ IsForged(w, p, r.copies[p][n].datagram)

Reported(r, kind, p) == [kind |-> kind, packet |-> p] \in r.reports

HarmTold(w, r, p) ==
    \/ Reported(r, "MacFailed", p)
    \/ Reported(r, "FastGroupFailed", GroupFirst(w, p))
    \/ Reported(r, "IncompleteGroupTags", GroupFirst(w, p))

CopyTold(r, p) ==
    \E kind \in {"TamperedVariant", "UnverifiableMissingBaseline", "ReplayLate"} : Reported(r, kind, p)

PacketTold(w, r, p) ==
    /\ r.base[p] # <<>> /\ ~ Genuinely(w, r, p) => HarmTold(w, r, p)
    /\ HasForged(w, r, p) => CopyTold(r, p)

\* What a group's observation is about.
Copied(w, r, first) ==
    {p \in first .. GroupLast(w, first) :
       /\ FirstAttack(r, p) # 0
       /\ Decode(w, r.copies[p][FirstAttack(r, p)].datagram).message[1] # Message(w, p)}

Damage(w, r, g) ==
    IF g.attack THEN Copied(w, r, g.first)
    ELSE {p \in g.first .. GroupLast(w, g.first) : ~ Genuinely(w, r, p)}

Tagged(w, r, last) == r.base[last] # <<>> /\ Decode(w, r.base[last][1]).tags = Tags(w, last)

Locates(w, damage, found) ==
    /\ damage \subseteq found
    /\ Cardinality(damage) <= w.shape.threshold => found = damage

GroupFits(w, r, g) ==
    Tagged(w, r, GroupLast(w, g.first)) /\ g.path = "fallback" =>
        Locates(w, Damage(w, r, g), g.located)

LEMMA FirstAttackIs ==
    ASSUME NEW r, NEW p, IsSequence(r.copies[p])
    PROVE  /\ FirstAttack(r, p) # 0 <=> \E n \in 1 .. Len(r.copies[p]) : r.copies[p][n].attack
           /\ FirstAttack(r, p) # 0 =>
                FirstAttack(r, p) \in 1 .. Len(r.copies[p]) /\ r.copies[p][FirstAttack(r, p)].attack
<1> DEFINE q == r.copies[p]
           I == {n \in 1 .. Len(q) : q[n].attack}
<1>1. FirstAttack(r, p) = IF I # {} THEN Min(I) ELSE 0  BY DEF FirstAttack, SelectInSeq
<1>2. I \in SUBSET (1 .. Len(q)) /\ (I # {} <=> \E n \in 1 .. Len(q) : q[n].attack)
      /\ \A x \in I : x \in 1 .. Len(q) /\ q[x].attack
  OBVIOUS
<1> HIDE DEF I
<1>3. (FirstAttack(r, p) # 0 <=> I # {}) /\ (FirstAttack(r, p) # 0 => FirstAttack(r, p) \in I)
  BY <1>1, <1>2, FirstIndex
<1> QED  BY <1>2, <1>3

KnownAt(q, d) == SelectInSeq(q, LAMBDA c : c.datagram = d)

LEMMA KnownIs ==
    ASSUME NEW q, IsSequence(q), NEW d, NEW x, x = KnownAt(q, d)
    PROVE  x # 0 => x \in 1 .. Len(q) /\ q[x].datagram = d
<1> DEFINE I == {n \in 1 .. Len(q) : q[n].datagram = d}
<1>1. x = IF I # {} THEN Min(I) ELSE 0  BY DEF KnownAt, SelectInSeq
<1>2. I \in SUBSET (1 .. Len(q)) /\ \A y \in I : y \in 1 .. Len(q) /\ q[y].datagram = d  OBVIOUS
<1> HIDE DEF I
<1>3. x # 0 => x \in I  BY <1>1, <1>2, FirstIndex
<1> QED  BY <1>2, <1>3

LEMMA SameFirstAttack ==
    ASSUME NEW r, NEW s, NEW p, SameCopies(r, s, p)
    PROVE  FirstAttack(s, p) = FirstAttack(r, p)
<1> DEFINE I(q) == {n \in 1 .. Len(q.copies[p]) : q.copies[p][n].attack}
<1>1. \A q : FirstAttack(q, p) = IF I(q) # {} THEN Min(I(q)) ELSE 0  BY DEF FirstAttack, SelectInSeq
<1>2. I(s) = I(r)  BY DEF SameCopies
<1> HIDE DEF I
<1> QED  BY <1>1, <1>2

-----------------------------------------------------------------------------
(* What a verification leaves of the evidence.                             *)

\* What is known of packet p stays: its datagram, its copies, what is told of it.
SamePacket(r, s, p) == s.base[p] = r.base[p] /\ SameCopies(r, s, p)

LEMMA PacketStaysTold ==
    ASSUME NEW w, NEW r, NEW s, NEW p, SamePacket(r, s, p), r.reports \subseteq s.reports,
           PacketTold(w, r, p)
    PROVE  PacketTold(w, s, p)
<1>1. s.base[p] = r.base[p] /\ SameCopies(r, s, p)  BY DEF SamePacket
<1>2. Genuinely(w, s, p) <=> Genuinely(w, r, p)  BY <1>1, Zenon DEF Genuinely
<1>3. HasForged(w, s, p) => HasForged(w, r, p)  BY <1>1 DEF HasForged, SameCopies
<1>4. \A kind, x : Reported(r, kind, x) => Reported(s, kind, x)  BY DEF Reported
<1>5. HarmTold(w, r, p) => HarmTold(w, s, p)  BY <1>4, Zenon DEF HarmTold
<1>6. CopyTold(r, p) => CopyTold(s, p)  BY <1>4, Zenon DEF CopyTold
<1> QED  BY <1>1, <1>2, <1>3, <1>5, <1>6, Zenon DEF PacketTold

LEMMA GroupStaysFit ==
    ASSUME NEW w, NEW r, NEW s, NEW g,
           \A p \in g.first .. GroupLast(w, g.first) : SamePacket(r, s, p),
           GroupLast(w, g.first) \in g.first .. GroupLast(w, g.first),
           g.first .. GroupLast(w, g.first) \subseteq 1 .. w.total, CopiesOK(w, r),
           GroupFits(w, r, g)
    PROVE  GroupFits(w, s, g)
<1> DEFINE last == GroupLast(w, g.first)
           group == g.first .. last
<1>1. \A p \in group : s.base[p] = r.base[p] /\ SameCopies(r, s, p)  BY DEF SamePacket
<1>2. s.base[last] = r.base[last]  BY <1>1
<1>3. Tagged(w, s, last) <=> Tagged(w, r, last)  BY <1>2, Zenon DEF Tagged
<1> HIDE DEF group
<1>4. \A p \in group : Genuinely(w, s, p) <=> Genuinely(w, r, p)  BY <1>1, Zenon DEF Genuinely
<1>5. \A p \in group : FirstAttack(s, p) = FirstAttack(r, p)  BY <1>1, SameFirstAttack
<1>6. ASSUME NEW p \in group, FirstAttack(r, p) # 0
      PROVE  s.copies[p][FirstAttack(r, p)].datagram = r.copies[p][FirstAttack(r, p)].datagram
  BY <1>1, <1>6, FirstAttackIs DEF CopiesOK, group, SameCopies
<1>7. Copied(w, s, g.first) = Copied(w, r, g.first)  BY <1>5, <1>6 DEF Copied, group
<1>8. Damage(w, s, g) = Damage(w, r, g)  BY <1>4, <1>7 DEF Damage, group
<1> QED  BY <1>3, <1>8, Zenon DEF GroupFits

\* A verification changes verdicts and adds to what is told.
Keeps(w, r, s) ==
    /\ IsReceiver(s) /\ s.base = r.base /\ s.keys = r.keys /\ s.verified = r.verified
    /\ s.result = r.result /\ r.reports \subseteq s.reports /\ CopiesOK(w, s)
    /\ \A p \in 1 .. w.total : SameCopies(r, s, p)

LEMMA SameCopiesTwice ==
    ASSUME NEW r, NEW s, NEW t, NEW p, SameCopies(r, s, p), SameCopies(s, t, p)
    PROVE  SameCopies(r, t, p)
  BY DEF SameCopies

LEMMA KeepsTwice ==
    ASSUME NEW w, NEW r, NEW s, NEW t, Keeps(w, r, s), Keeps(w, s, t)
    PROVE  Keeps(w, r, t)
  BY SameCopiesTwice DEF Keeps

\* The judgement of groups of interval i: their records fit, and the packets of T
\* are told of.
Judged(w, i, T, r, s) ==
    /\ Keeps(w, r, s)
    /\ \A g \in s.groups : g \in r.groups \/ (GroupFits(w, s, g) /\ GroupOf(w, i, g.first))
    /\ \A p \in T : PacketTold(w, s, p)

LEMMA KeepsPacket ==
    ASSUME NEW w, NEW r, NEW s, Keeps(w, r, s), NEW p \in 1 .. w.total
    PROVE  SamePacket(r, s, p) /\ (PacketTold(w, r, p) => PacketTold(w, s, p))
  BY PacketStaysTold DEF SamePacket, Keeps

LEMMA KeepsGroup ==
    ASSUME NEW w, Shaped(w), NEW r, NEW s, Keeps(w, r, s), CopiesOK(w, r),
           NEW i \in 1 .. DataIntervalCount(w), NEW g, GroupOf(w, i, g.first), GroupFits(w, r, g)
    PROVE  GroupFits(w, s, g)
  BY GroupInRound, KeepsPacket, GroupStaysFit

LEMMA JudgedTwice ==
    ASSUME NEW w, Shaped(w), NEW i \in 1 .. DataIntervalCount(w), NEW r, NEW s, NEW t,
           NEW T \in SUBSET (1 .. w.total), NEW U, Judged(w, i, T, r, s), Judged(w, i, U, s, t)
    PROVE  Judged(w, i, T \cup U, r, t)
<1>1. Keeps(w, r, s) /\ Keeps(w, s, t) /\ CopiesOK(w, s)  BY DEF Judged, Keeps
<1>2. Keeps(w, r, t)  BY <1>1, KeepsTwice
<1>3. \A p \in T \cup U : PacketTold(w, t, p)  BY <1>1, KeepsPacket DEF Judged
<1>4. ASSUME NEW g \in t.groups, g \notin r.groups
      PROVE  GroupFits(w, t, g) /\ GroupOf(w, i, g.first)
 <2>1. CASE g \in s.groups  BY <1>1, <1>4, <2>1, KeepsGroup DEF Judged
 <2>2. CASE g \notin s.groups  BY <2>2 DEF Judged
 <2> QED  BY <2>1, <2>2
<1> QED  BY <1>2, <1>3, <1>4 DEF Judged

-----------------------------------------------------------------------------
(* Native mode: each packet and each copy on its own.                      *)

LEMMA ReportsKeep ==
    ASSUME NEW w, NEW r, IsReceiver(r), CopiesOK(w, r), NEW kind, NEW ps, NEW s, s = Reports(r, kind, ps)
    PROVE  Keeps(w, r, s) /\ s.groups = r.groups /\ \A p \in ps : Reported(s, kind, p)
<1>1. Aside(r, s)  BY ReportsAside
<1>2. s.copies = r.copies /\ s.groups = r.groups
      /\ s.reports = r.reports \cup {[kind |-> kind, packet |-> p] : p \in ps}
  BY DEF Reports, IsReceiver, ReceiverFields
<1>3. CopiesOK(w, s) /\ \A p \in 1 .. w.total : SameCopies(r, s, p)
  BY <1>2 DEF CopiesOK, SameCopies
<1>4. \A p \in ps : Reported(s, kind, p)  BY <1>2 DEF Reported
<1>5. r.reports \subseteq s.reports  BY <1>2
<1> HIDE DEF Reports
<1> QED  BY <1>1, <1>2, <1>3, <1>4, <1>5, Zenon DEF Keeps, Aside

LEMMA NativeVerifiedTells ==
    ASSUME NEW r, Shaped(rd), rd.mode = "native", Ready(rd, r), CopiesOK(rd, r), NEW i \in Nat \ {0},
           NEW t, t = NativeVerified(r, i)
    PROVE  /\ Keeps(rd, r, t) /\ t.groups = r.groups
           /\ \A p \in PacketsIn(rd, i) : r.base[p] # <<>> /\ ~ Genuinely(rd, r, p) => HarmTold(rd, t, p)
<1> DEFINE f == FirstOf(rd, i)
           group == GroupWith(rd, f, Filled(r))
           macs == [n \in DOMAIN group.slots |->
                      IF group.slots[n] = <<>> THEN NoMac ELSE BaseTags(r, f + n - 1)[1]]
           present == {p \in PacketsIn(rd, i) : r.base[p] # <<>>}
           passed == {p \in present : NativePassed(group, macs, i, p - f + 1)}
           status == [p \in Packets |->
                        CASE p \in passed -> "passed"
                          [] p \in present \ passed -> "failed"
                          [] OTHER -> r.status[p]]
           s == [r EXCEPT !.status = status]
           failed == present \ passed
<1>1. t = Reports(s, "MacFailed", failed)  BY DEF NativeVerified, Filled
<1>2. BaseOK(rd, r) /\ IsReceiver(r)  BY DEF Ready
<1>3. \A p \in PacketsIn(rd, i) : r.base[p] # <<>> /\ ~ Genuinely(rd, r, p) => p \in failed
 <2> SUFFICES ASSUME NEW p \in PacketsIn(rd, i), NativePassed(group, macs, i, p - f + 1)
              PROVE  Genuinely(rd, r, p)
   OBVIOUS
 <2> HIDE DEF f, group, macs
 <2>1. /\ f = FirstOf(rd, i) /\ group = GroupWith(rd, f, Filled(r))
       /\ macs = [n \in DOMAIN group.slots |->
                    IF group.slots[n] = <<>> THEN NoMac ELSE BaseTags(r, f + n - 1)[1]]
   BY DEF f, group, macs
 <2> QED  BY <1>2, <2>1, NativeVerdict
<1> HIDE DEF passed, present, failed, status
<1>4. /\ IsReceiver(s) /\ s.base = r.base /\ s.keys = r.keys /\ s.verified = r.verified
      /\ s.result = r.result /\ s.reports = r.reports /\ s.copies = r.copies /\ s.groups = r.groups
  BY <1>2 DEF IsReceiver, ReceiverFields
<1> HIDE DEF s
<1>5. CopiesOK(rd, s) /\ \A p \in 1 .. rd.total : SameCopies(r, s, p)
  BY <1>4 DEF CopiesOK, SameCopies
<1>6. Keeps(rd, r, s)  BY <1>4, <1>5 DEF Keeps
<1>7. Keeps(rd, s, t) /\ t.groups = s.groups /\ \A p \in failed : Reported(t, "MacFailed", p)
  BY <1>1, <1>4, <1>5, ReportsKeep
<1>8. Keeps(rd, r, t)  BY <1>6, <1>7, KeepsTwice
<1>9. \A p \in failed : HarmTold(rd, t, p)  BY <1>7 DEF HarmTold
<1> QED  BY <1>3, <1>4, <1>7, <1>8, <1>9

\* A forged copy has a tag that is not of its message.
LEMMA ForgedIsNot ==
    ASSUME NEW m
    PROVE  ForgedMessage(m) # m
  BY MessageSizeAssumption DEF ForgedMessage

LEMMA ForgedFails ==
    ASSUME NEW r, Shaped(rd), rd.mode = "native", NEW i \in Nat \ {0}, NEW p \in PacketsIn(rd, i), NEW c,
           IsForged(rd, p, c.datagram)
    PROVE  ~ CopyPasses(r, i, c)
<1> DEFINE d == c.datagram
           m == Message(rd, p)
<1>1. p \in 1 .. rd.total  BY InInterval
<1>2. AsSent(rd, p, d) /\ d.blocks[1] = ForgedMessage(m)
      /\ \A j \in 1 .. TagBlocks(rd, p) : d.blocks[(1 + KeyBlocks(rd, p)) + j] = Tags(rd, p)[j]
  BY DEF IsForged
<1>3. /\ Fields(d).message = <<d.blocks[1]>>
      /\ \A j \in 1 .. TagBlocks(rd, p) : Fields(d).tags[j] = d.blocks[(1 + KeyBlocks(rd, p)) + j]
  BY <1>1, <1>2, DecodeIs DEF Fields
<1>4. TagBlocks(rd, p) = 1  BY DEF TagBlocks
<1>5. Tags(rd, p) = << <<i, i, p, m>> >>  BY NativeTag
<1>6. Fields(d).tags[1] = <<i, i, p, m>>  BY <1>2, <1>3, <1>4, <1>5
<1>7. Fields(d).message[1] = ForgedMessage(m)  BY <1>2, <1>3
<1>8. m # ForgedMessage(m)  BY ForgedIsNot
<1> HIDE DEF m
<1> SUFFICES ASSUME CopyPasses(r, i, c) PROVE FALSE  OBVIOUS
<1>9. Fields(d).tags[1] = <<i, i, Fields(d).index, Fields(d).message[1]>>
  BY DEF CopyPasses, PacketMac
<1> HIDE DEF d
<1> DEFINE x == Fields(d).index
           y == ForgedMessage(m)
<1>10. <<i, i, p, m>> = <<i, i, x, y>>  BY <1>6, <1>7, <1>9
<1> HIDE DEF x, y
<1>11. m = y  BY <1>10
<1> QED  BY <1>8, <1>11 DEF y

LEMMA NativeCopiesTold ==
    ASSUME NEW r, Shaped(rd), rd.mode = "native", Ready(rd, r), CopiesOK(rd, r), NEW i \in Nat \ {0},
           NEW u, u = NativeCopiesJudged(r, i)
    PROVE  /\ Keeps(rd, r, u) /\ u.groups = r.groups
           /\ \A p \in PacketsIn(rd, i) : HasForged(rd, u, p) => CopyTold(u, p)
<1> DEFINE Judge(copy) == [copy EXCEPT !.status = IF CopyPasses(r, i, copy) THEN "passed" ELSE "failed"]
           failed(attack) == {p \in PacketsIn(rd, i) : \E n \in DOMAIN r.copies[p] :
                                r.copies[p][n].attack = attack /\ ~CopyPasses(r, i, r.copies[p][n])}
           Of(p) == IF p \in PacketsIn(rd, i)
                    THEN [n \in DOMAIN r.copies[p] |-> Judge(r.copies[p][n])] ELSE r.copies[p]
           copies == [p \in Packets |-> Of(p)]
           s == [r EXCEPT !.copies = copies]
           t == Reports(s, "TamperedVariant", failed(TRUE))
           others == failed(FALSE)
<1>1. IsReceiver(r)  BY DEF Ready
<1>2. u = Reports(t, "MacFailed", others)
  BY <1>1 DEF NativeCopiesJudged, IsReceiver, ReceiverFields
<1>3. DOMAIN r.copies = 1 .. rd.total
      /\ \A p \in 1 .. rd.total :
           IsSequence(r.copies[p]) /\ \A n \in 1 .. Len(r.copies[p]) : CopyOK(rd, p, r.copies[p][n])
  BY DEF CopiesOK
<1>4. DOMAIN copies = 1 .. rd.total  BY DEF Packets
<1>5. ASSUME NEW p \in 1 .. rd.total
      PROVE  /\ IsSequence(copies[p]) /\ Len(copies[p]) = Len(r.copies[p])
             /\ \A n \in 1 .. Len(r.copies[p]) :
                  /\ CopyOK(rd, p, copies[p][n])
                  /\ copies[p][n].attack = r.copies[p][n].attack
                  /\ copies[p][n].datagram = r.copies[p][n].datagram
 <2> DEFINE q == r.copies[p]
 <2>1. copies[p] = Of(p)  BY DEF Packets
 <2>2. IsSequence(q) /\ \A n \in 1 .. Len(q) : CopyOK(rd, p, q[n])  BY <1>3
 <2>3. DOMAIN q = 1 .. Len(q) /\ Len(q) \in Nat
  <3>1. PICK S : q \in Seq(S)  BY <2>2 DEF IsSequence
  <3> QED  BY <3>1, LenProperties
 <2>4. CASE p \in PacketsIn(rd, i)
  <3> DEFINE g == [n \in DOMAIN q |-> Judge(q[n])]
  <3>1. copies[p] = g  BY <2>1, <2>4
  <3>2. \A n \in 1 .. Len(q) : g[n] = Judge(q[n])  BY <2>3
  <3>3. g = [n \in 1 .. Len(q) |-> g[n]]  BY <2>3
  <3> HIDE DEF g, copies
  <3>4. IsSequence(g) /\ Len(g) = Len(q)  BY <2>3, <3>3, EnumeratedIsSequence
  <3>5. ASSUME NEW n \in 1 .. Len(q)
        PROVE  CopyOK(rd, p, g[n]) /\ g[n].attack = q[n].attack /\ g[n].datagram = q[n].datagram
   <4> DEFINE c == q[n]
              x == IF CopyPasses(r, i, c) THEN "passed" ELSE "failed"
   <4>1. g[n] = [c EXCEPT !.status = x] /\ CopyOK(rd, p, c)  BY <2>2, <3>2
   <4> HIDE DEF c, x
   <4>2. DOMAIN g[n] = DOMAIN c /\ g[n].attack = c.attack /\ g[n].datagram = c.datagram
     BY <4>1 DEF CopyOK
   <4> QED  BY <4>1, <4>2 DEF CopyOK, c
  <3> QED  BY <3>1, <3>4, <3>5
 <2>5. CASE p \notin PacketsIn(rd, i)
  <3>1. copies[p] = q  BY <2>1, <2>5
  <3> HIDE DEF copies
  <3> QED  BY <2>2, <3>1
 <2> QED  BY <2>4, <2>5
<1>6. \A p \in PacketsIn(rd, i) : p \in 1 .. rd.total  BY InInterval
<1>7. ASSUME NEW p \in PacketsIn(rd, i), HasForged(rd, r, p)
      PROVE  p \in failed(TRUE)
 <2>1. PICK n \in 1 .. Len(r.copies[p]) : r.copies[p][n].attack /\ IsForged(rd, p, r.copies[p][n].datagram)
   BY <1>7 DEF HasForged
 <2>2. ~ CopyPasses(r, i, r.copies[p][n])  BY <2>1, ForgedFails
 <2>3. n \in DOMAIN r.copies[p]
  <3>1. PICK S : r.copies[p] \in Seq(S)  BY <1>3, <1>6 DEF IsSequence
  <3> QED  BY <3>1, LenProperties
 <2>4. r.copies[p][n].attack = TRUE  BY <1>3, <1>6, <2>1 DEF CopyOK
 <2> QED  BY <2>2, <2>3, <2>4
<1> HIDE DEF copies, failed, others
<1>8. /\ IsReceiver(s) /\ s.base = r.base /\ s.keys = r.keys /\ s.verified = r.verified
      /\ s.result = r.result /\ s.reports = r.reports /\ s.copies = copies /\ s.groups = r.groups
  BY <1>1 DEF IsReceiver, ReceiverFields
<1> HIDE DEF s
<1>9. CopiesOK(rd, s) /\ \A p \in 1 .. rd.total : SameCopies(r, s, p)
  BY <1>4, <1>5, <1>8 DEF CopiesOK, SameCopies
<1>10. Keeps(rd, r, s)  BY <1>8, <1>9 DEF Keeps
<1>11. Keeps(rd, s, t) /\ t.groups = s.groups /\ \A p \in failed(TRUE) : Reported(t, "TamperedVariant", p)
  BY <1>8, <1>9, ReportsKeep
<1> HIDE DEF t
<1>12. Keeps(rd, t, u) /\ u.groups = t.groups  BY <1>2, <1>11, ReportsKeep DEF Keeps
<1>13. Keeps(rd, r, u)  BY <1>10, <1>11, <1>12, KeepsTwice
<1>14. ASSUME NEW p \in PacketsIn(rd, i), HasForged(rd, u, p)
       PROVE  CopyTold(u, p)
 <2>1. SameCopies(r, u, p)  BY <1>6, <1>13 DEF Keeps
 <2>2. HasForged(rd, r, p)  BY <1>14, <2>1 DEF HasForged, SameCopies
 <2>3. Reported(t, "TamperedVariant", p)  BY <1>7, <1>11, <2>2
 <2>4. Reported(u, "TamperedVariant", p)  BY <1>12, <2>3 DEF Reported, Keeps
 <2> QED  BY <2>4 DEF CopyTold
<1> QED  BY <1>8, <1>11, <1>12, <1>13, <1>14

LEMMA NativeJudged ==
    ASSUME NEW r, Shaped(rd), rd.mode = "native", Ready(rd, r), CopiesOK(rd, r),
           NEW i \in 1 .. DataIntervalCount(rd), NEW u, u = NativeCopiesJudged(NativeVerified(r, i), i)
    PROVE  Judged(rd, i, PacketsIn(rd, i), r, u)
<1> DEFINE t == NativeVerified(r, i)
<1>1. i \in Nat \ {0}  OBVIOUS
<1>2. Ready(rd, t)  BY <1>1, NativeVerifiedJudges, JudgesReady
<1>3. /\ Keeps(rd, r, t) /\ t.groups = r.groups
      /\ \A p \in PacketsIn(rd, i) : r.base[p] # <<>> /\ ~ Genuinely(rd, r, p) => HarmTold(rd, t, p)
  BY <1>1, NativeVerifiedTells
<1>4. CopiesOK(rd, t)  BY <1>3 DEF Keeps
<1> HIDE DEF t
<1>5. /\ Keeps(rd, t, u) /\ u.groups = t.groups
      /\ \A p \in PacketsIn(rd, i) : HasForged(rd, u, p) => CopyTold(u, p)
  BY <1>1, <1>2, <1>4, NativeCopiesTold DEF t
<1>6. Keeps(rd, r, u)  BY <1>3, <1>5, KeepsTwice
<1>7. ASSUME NEW p \in PacketsIn(rd, i)
      PROVE  PacketTold(rd, u, p)
  BY <1>3, <1>5, <1>6 DEF Keeps, Genuinely, Reported, HarmTold, PacketTold
<1> QED  BY <1>3, <1>5, <1>6, <1>7 DEF Judged

-----------------------------------------------------------------------------
(* Improved mode: what a group's tags locate.                              *)

\* Positions of a group and its packets.
LEMMA LocatedIs ==
    ASSUME NEW w, NEW f \in Nat, NEW last \in Nat, NEW D \in SUBSET (0 .. last - f),
           NEW bad \in SUBSET (0 .. last - f), D \subseteq bad,
           Cardinality(D) <= w.shape.threshold => bad = D, w.shape.threshold \in Nat,
           NEW damage \in SUBSET (f .. last), \A p \in f .. last : p \in damage <=> p - f \in D
    PROVE  Locates(w, damage, Located(f, bad))
<1>1. damage \subseteq Located(f, bad)
 <2> SUFFICES ASSUME NEW p \in damage PROVE p \in Located(f, bad)  OBVIOUS
 <2>1. p - f \in bad /\ p = f + (p - f)  OBVIOUS
 <2> QED  BY <2>1 DEF Located
<1>2. ASSUME Cardinality(damage) <= w.shape.threshold
      PROVE  Located(f, bad) = damage
 <2> DEFINE shift == [p \in damage |-> p - f]
 <2>1. IsFiniteSet(damage) /\ IsFiniteSet(D)
  <3>0. f \in Int /\ last \in Int /\ 0 \in Int /\ last - f \in Int  OBVIOUS
  <3>1. IsFiniteSet(f .. last) /\ IsFiniteSet(0 .. last - f)  BY <3>0, FS_Interval, Zenon
  <3>2. damage \in SUBSET (f .. last)  OBVIOUS
  <3> QED  BY <3>1, <3>2, FS_Subset
 <2>2. shift \in Surjection(damage, D)
  <3>1. shift \in [damage -> D]  OBVIOUS
  <3>2. ASSUME NEW c \in D PROVE \E p \in damage : shift[p] = c  OBVIOUS
  <3> HIDE DEF shift
  <3> QED  BY <3>1, <3>2 DEF Surjection
 <2> HIDE DEF shift
 <2>3. Cardinality(D) <= Cardinality(damage)  BY <2>1, <2>2, FS_Surjection
 <2>4. Cardinality(D) \in Nat /\ Cardinality(damage) \in Nat  BY <2>1, FS_CardinalityType
 <2>5. bad = D  BY <1>2, <2>3, <2>4
 <2>6. ASSUME NEW x \in Located(f, bad) PROVE x \in damage
  <3>1. PICK c \in D : x = f + c  BY <2>5, <2>6 DEF Located
  <3>2. f + c \in f .. last /\ (f + c) - f = c  OBVIOUS
  <3> QED  BY <3>1, <3>2
 <2> QED  BY <1>1, <2>6
<1> QED  BY <1>1, <1>2 DEF Locates

\* The packets of a group whose slots are not the sender's.
Spoilt(w, f, last, slot, damage) ==
    /\ damage \in SUBSET (f .. last)
    /\ \A p \in f .. last :
         /\ slot[p] = <<>> \/ \E x : slot[p] = <<x>>
         /\ p \in damage <=> slot[p] # <<Message(w, p)>>

\* With the tags of the group that was sent, a verification locates the packets that
\* are not in it: none of them when the group is passed.
LEMMA ImprovedFinds ==
    ASSUME NEW w, Shaped(w), w.mode = "improved", Separates(w.shape), NEW i \in 1 .. DataIntervalCount(w),
           NEW k \in DOMAIN GroupStarts(w, i), NEW f, f = GroupStarts(w, i)[k],
           NEW last, last = GroupLast(w, f), NEW slot, NEW damage, Spoilt(w, f, last, slot, damage),
           NEW verdict, verdict = ImprovedVerify(w, GroupWith(w, f, slot), Tags(w, last), i)
    PROVE  Locates(w, damage, Located(f, verdict.bad))
<1> DEFINE tags == Tags(w, last)
           group == GroupWith(w, f, slot)
           sent == SentGroup(w, f)
           n == TauCount(w.shape)
           rows == Matrices[w.shape]
           macs == PacketMacSlots(group, i)
           sentMacs == PacketMacSlots(sent, i)
           m == (last - f) + 1
           threshold == w.shape.threshold
<1>0. /\ damage \in SUBSET (f .. last)
      /\ \A p \in f .. last : slot[p] = <<>> \/ \E x : slot[p] = <<x>>
      /\ \A p \in f .. last : p \in damage <=> slot[p] # <<Message(w, p)>>
  BY DEF Spoilt
<1>1. /\ f \in PacketsIn(w, i) /\ last \in PacketsIn(w, i) /\ f \in Nat \ {0} /\ last \in Nat /\ f <= last
      /\ GroupFirst(w, last) = f
  BY ImprovedGroup
<1>2. i \in Nat \ {0}  OBVIOUS
<1>3. /\ ExpectedInterval(w, f) = i /\ ExpectedInterval(w, last) = i
      /\ last \in 1 .. w.total /\ last <= w.total /\ w.total \in Nat
  BY <1>1, <1>2, InInterval DEF Shaped
<1>4. n \in Nat /\ DOMAIN rows = 1 .. n  BY TausAre DEF Shaped
<1>5. w.shape \in Shapes /\ rows = Matrix(w.shape) /\ threshold \in Nat /\ w.shape.size \in Nat
  BY ShapeIsGroup DEF Shaped, ValidGroup
<1>6. m \in Nat /\ m <= w.shape.size  BY <1>1, <1>3, <1>5, IntervalHasPackets DEF GroupLast, MinOf2
<1>7. /\ \A p \in f .. last : group.slots[(p - f) + 1] = slot[p]
      /\ \A p \in f .. last : macs[(p - f) + 1] = IF slot[p] = <<>> THEN NoMac ELSE <<i, i, p, slot[p][1]>>
      /\ Len(macs) = m
 <2>1. SlotsAre(group.slots, f, last, slot) /\ MacsAre(macs, f, last, slot, i, i)
   BY <1>1, <1>3, GroupIs
 <2> HIDE DEF group, macs
 <2> QED  BY <2>1 DEF SlotsAre, MacsAre
<1>8. /\ \A p \in f .. last : sent.slots[(p - f) + 1] = <<Message(w, p)>>
      /\ \A p \in f .. last : sentMacs[(p - f) + 1] = <<i, i, p, Message(w, p)>>
      /\ Len(sentMacs) = m
 <2>1. SentSlots(sent.slots, w, f, last) /\ SentMacsAre(sentMacs, w, f, last, i, i)
   BY <1>1, <1>3, SentGroupIs
 <2> HIDE DEF sent, sentMacs
 <2> QED  BY <2>1 DEF SentSlots, SentMacsAre
<1>9. /\ IsSequence(tags) /\ Len(tags) = n + 1
      /\ \A q \in 1 .. n : tags[q] = RowMacs(rows[q], sentMacs)
      /\ tags[n + 1] = <<i, sent, Aggregate(rows, sentMacs)>>
 <2>1. tags = ImprovedTags(w, sent, i)  BY <1>1, <1>3 DEF Tags
 <2>2. TagsOfGroup(ImprovedTags(w, sent, i), n, rows, sentMacs, i, sent)  BY ImprovedTagsAre
 <2> HIDE DEF tags, sent, n, rows, sentMacs
 <2> QED  BY <2>1, <2>2 DEF TagsOfGroup
<1>10. Last(tags) = tags[n + 1] /\ \A j \in 1 .. n : Front(tags)[j] = tags[j]
  BY <1>4, <1>9, FrontIs
<1> HIDE DEF tags, group, sent, n, rows, macs, sentMacs, m, threshold
<1>11. verdict = IF FastPath(group, Front(tags), Last(tags), i)
                 THEN [path |-> "fast", good |-> 0 .. Len(group.slots) - 1, bad |-> {}, exceeded |-> FALSE]
                 ELSE Fallback(Locate(rows, threshold, macs, Front(tags)))
  BY <1>9 DEF n, group, tags, ImprovedVerify, rows, macs, threshold
<1>12. CASE FastPath(group, Front(tags), Last(tags), i)
 <2>1. <<i, group, Front(tags)>> = tags[n + 1]  BY <1>10, <1>12 DEF FastPath, FastGroupTag
 <2>2. group = sent  BY <1>9, <2>1
 <2>3. damage = {}  BY <1>0, <1>7, <1>8, <2>2
 <2>4. verdict.bad = {}  BY <1>11, <1>12
 <2>5. Located(f, verdict.bad) = {}  BY <2>4 DEF Located
 <2> QED  BY <2>3, <2>5 DEF Locates
<1>13. CASE ~ FastPath(group, Front(tags), Last(tags), i)
 <2> DEFINE taus == Front(tags)
            D == {c \in 0 .. m - 1 : macs[c + 1] # sentMacs[c + 1]}
            bad == Locate(rows, threshold, macs, taus).bad
 <2>1. verdict.bad = bad
  <3>1. verdict = Fallback(Locate(rows, threshold, macs, taus))  BY <1>11, <1>13, Zenon
  <3> HIDE DEF taus
  <3> QED  BY <3>1 DEF Fallback
 <2>2. \A q \in DOMAIN Matrix(w.shape) : taus[q] = RowMacs(Matrix(w.shape)[q], sentMacs)
   BY <1>4, <1>5, <1>9, <1>10
 <2>3. \A x \in 1 .. m : sentMacs[x] # NoMac
  <3> SUFFICES ASSUME NEW x \in 1 .. m PROVE sentMacs[x] # NoMac  OBVIOUS
  <3> DEFINE p == f + (x - 1)
  <3>1. p \in f .. last /\ (p - f) + 1 = x  BY <1>1 DEF m
  <3> HIDE DEF p
  <3>2. sentMacs[x] = <<i, i, p, Message(w, p)>>  BY <1>8, <3>1
  <3> QED  BY <3>2, MarksAreNoTags
 <2> HIDE DEF taus, D, bad
 <2>4. /\ D \subseteq bad /\ bad \subseteq 0 .. m - 1
       /\ Cardinality(D) <= threshold => bad = D
  <3> DEFINE s == w.shape
  <3>1. bad = Locate(Matrices[s], s.threshold, macs, taus).bad  BY DEF bad, rows, threshold
  <3>2. Differ(m, macs, sentMacs, D)  BY <1>6, <1>7, <1>8, <2>3 DEF D, Differ
  <3>3. s \in Shapes /\ Separates(s) /\ m <= s.size /\ s.threshold = threshold
    BY <1>5, <1>6 DEF threshold
  <3>4. \A q \in DOMAIN Matrix(s) : taus[q] = RowMacs(Matrix(s)[q], sentMacs)  BY <2>2
  <3> HIDE DEF s
  <3>6. /\ D \subseteq bad /\ bad \subseteq 0 .. m - 1
        /\ Cardinality(D) <= s.threshold => bad = D
    BY <3>1, <3>2, <3>3, <3>4, LocateIs
  <3> QED  BY <3>3, <3>6
 <2>5. \A p \in f .. last : p \in damage <=> p - f \in D
  <3> SUFFICES ASSUME NEW p \in f .. last PROVE p \in damage <=> p - f \in D  OBVIOUS
  <3> DEFINE c == p - f
  <3>1. c \in 0 .. m - 1  BY <1>1 DEF m
  <3>2. /\ macs[c + 1] = IF slot[p] = <<>> THEN NoMac ELSE <<i, i, p, slot[p][1]>>
        /\ sentMacs[c + 1] = <<i, i, p, Message(w, p)>>
    BY <1>7, <1>8
  <3> HIDE DEF c
  <3>3. c \in D <=> macs[c + 1] # sentMacs[c + 1]  BY <3>1 DEF D
  <3>4. CASE slot[p] = <<>>
   <4>1. macs[c + 1] # sentMacs[c + 1] /\ slot[p] # <<Message(w, p)>>  BY <3>2, <3>4, MarksAreNoTags
   <4> QED  BY <1>0, <3>3, <4>1 DEF c
  <3>5. CASE slot[p] # <<>>
   <4>1. PICK x : slot[p] = <<x>>  BY <1>0, <3>5
   <4> DEFINE y == Message(w, p)
   <4>2. macs[c + 1] = <<i, i, p, x>> /\ sentMacs[c + 1] = <<i, i, p, y>>  BY <3>2, <3>5, <4>1
   <4>3. p \in damage <=> <<x>> # <<y>>  BY <1>0, <4>1
   <4> HIDE DEF y
   <4>4. macs[c + 1] = sentMacs[c + 1] <=> x = y  BY <4>2
   <4>5. <<x>> = <<y>> <=> x = y  OBVIOUS
   <4>6. p \in damage <=> c \in D  BY <3>3, <4>3, <4>4, <4>5, Zenon
   <4> QED  BY <4>6 DEF c
  <3> QED  BY <3>4, <3>5
 <2>6. damage \in SUBSET (f .. last)  BY <1>0
 <2>7. m - 1 = last - f  BY <1>1 DEF m
 <2>8. D \in SUBSET (0 .. last - f) /\ bad \in SUBSET (0 .. last - f)  BY <2>4, <2>7
 <2>9. /\ f \in Nat /\ last \in Nat /\ w.shape.threshold \in Nat
       /\ Cardinality(D) <= w.shape.threshold => bad = D
   BY <1>1, <1>5, <2>4 DEF threshold
 <2>10. Locates(w, damage, Located(f, bad))  BY <2>4, <2>5, <2>6, <2>8, <2>9, LocatedIs
 <2> QED  BY <2>1, <2>10
<1> QED  BY <1>12, <1>13

\* The slot of a packet that is not genuine is not the sender's.
LEMMA FilledIs ==
    ASSUME NEW r, Shaped(rd), BaseOK(rd, r), NEW p \in 1 .. rd.total
    PROVE  /\ Filled(r)[p] = <<>> \/ \E x : Filled(r)[p] = <<x>>
           /\ Filled(r)[p] # <<Message(rd, p)>> <=> ~ Genuinely(rd, r, p)
<1> DEFINE y == Message(rd, p)
<1>1. Filled(r)[p] = BaseSlot(r, p)  BY DEF Filled, Packets
<1>2. CASE r.base[p] = <<>>
 <2>1. Filled(r)[p] = <<>>  BY <1>1, <1>2 DEF BaseSlot
 <2>2. ~ Genuinely(rd, r, p)  BY <1>2 DEF Genuinely
 <2> HIDE DEF y
 <2>3. <<>> # <<y>>  OBVIOUS
 <2> QED  BY <2>1, <2>2, <2>3 DEF y
<1>3. CASE r.base[p] # <<>>
 <2>1. PICK d : r.base[p] = <<d>> /\ AsSent(rd, p, d)  BY <1>3 DEF BaseOK
 <2>2. r.base[p][1] = d  BY <2>1
 <2> DEFINE x == d.blocks[1]
 <2>3. Decode(rd, d).message = <<x>>  BY <2>1, DecodeIs
 <2>4. Filled(r)[p] = <<x>>  BY <1>1, <1>3, <2>2, <2>3 DEF BaseSlot, Fields
 <2>5. Genuinely(rd, r, p) <=> <<x>>[1] = y  BY <1>3, <2>2, <2>3 DEF Genuinely
 <2> HIDE DEF x, y
 <2>6. <<x>>[1] = x /\ (<<x>> # <<y>> <=> ~ (x = y))  OBVIOUS
 <2> QED  BY <2>4, <2>5, <2>6 DEF y
<1> QED  BY <1>2, <1>3

\* A verdict that was reached with the sender's tags.
LEMMA VerdictFinds ==
    ASSUME NEW r, Shaped(rd), rd.mode = "improved", Separates(rd.shape), NEW i \in 1 .. DataIntervalCount(rd),
           NEW k \in DOMAIN GroupStarts(rd, i), NEW f, f = GroupStarts(rd, i)[k],
           NEW last, last = GroupLast(rd, f), Tagged(rd, r, last),
           NEW slot, NEW damage, Spoilt(rd, f, last, slot, damage),
           NEW verdict, verdict = GroupVerdict(r, f, slot)
    PROVE  Locates(rd, damage, Located(f, verdict.bad))
<1>1. f \in PacketsIn(rd, i) /\ i \in Nat \ {0}  BY ImprovedGroup
<1>2. ExpectedInterval(rd, f) = i  BY <1>1, InInterval
<1>3. BaseTags(r, last) = Tags(rd, last)  BY DEF Tagged, BaseTags, Fields
<1>4. verdict = ImprovedVerify(rd, GroupWith(rd, f, slot), Tags(rd, last), i)
  BY <1>2, <1>3 DEF GroupVerdict
<1> QED  BY <1>4, ImprovedFinds

\* The three ways a verification ends, and what a passed group is.
LEMMA PathIs ==
    ASSUME NEW r, Shaped(rd), rd.mode = "improved", BaseOK(rd, r), NEW i \in 1 .. DataIntervalCount(rd),
           NEW k \in DOMAIN GroupStarts(rd, i), NEW f, f = GroupStarts(rd, i)[k],
           NEW verdict, verdict = GroupVerdict(r, f, Filled(r))
    PROVE  /\ verdict.path \in {"incomplete", "fast", "fallback"}
           /\ verdict.path = "fast" => \A p \in f .. GroupLast(rd, f) : Genuinely(rd, r, p)
<1> DEFINE last == GroupLast(rd, f)
           tags == BaseTags(r, last)
           group == GroupWith(rd, f, Filled(r))
           key == ExpectedInterval(rd, f)
           m == (last - f) + 1
<1>1. verdict = ImprovedVerify(rd, group, tags, key)  BY DEF GroupVerdict
<1>2. /\ f \in Nat \ {0} /\ last \in Nat /\ f <= last
      /\ \A p \in f .. last : p \in PacketsIn(rd, i)
  BY ImprovedGroup
<1>3. \A p \in f .. last : p \in 1 .. rd.total  BY <1>2, InInterval
<1>4. SlotsAre(group.slots, f, last, Filled(r))  BY <1>2, GroupIs
<1> HIDE DEF last, tags, group, key
<1>5. CASE Len(tags) # TauCount(rd.shape) + 1  BY <1>1, <1>5 DEF ImprovedVerify
<1>6. CASE Len(tags) = TauCount(rd.shape) + 1 /\ ~ FastPath(group, Front(tags), Last(tags), key)
 <2> DEFINE location == Locate(Matrices[rd.shape], rd.shape.threshold, PacketMacSlots(group, key), Front(tags))
 <2>1. verdict = Fallback(location)  BY <1>1, <1>6, Zenon DEF ImprovedVerify
 <2> HIDE DEF location
 <2>2. verdict.path = "fallback"  BY <2>1 DEF Fallback
 <2> QED  BY <2>2
<1>7. CASE Len(tags) = TauCount(rd.shape) + 1 /\ FastPath(group, Front(tags), Last(tags), key)
 <2>1. verdict = [path |-> "fast", good |-> 0 .. Len(group.slots) - 1, bad |-> {}, exceeded |-> FALSE]
   BY <1>1, <1>7, Zenon DEF ImprovedVerify
 <2>2. verdict.path = "fast" /\ verdict.good = 0 .. Len(group.slots) - 1  BY <2>1
 <2>3. ASSUME NEW p \in f .. last
       PROVE  r.base[p] # <<>> /\ p - f \in verdict.good
  <3>1. /\ DOMAIN group.slots = 1 .. m /\ Len(group.slots) = m
        /\ (p - f) + 1 \in 1 .. m /\ group.slots[(p - f) + 1] = Filled(r)[p]
    BY <1>4 DEF SlotsAre
  <3>2. Filled(r)[p] # <<>>  BY <1>7, <3>1 DEF FastPath, NothingMissing
  <3>3. p \in 1 .. rd.total  BY <1>3
  <3>4. r.base[p] # <<>>  BY <3>2, <3>3 DEF Filled, Packets, BaseSlot
  <3>5. p - f \in 0 .. m - 1  BY <1>2
  <3> QED  BY <2>2, <3>1, <3>4, <3>5
 <2>4. \A p \in f .. last : Genuinely(rd, r, p)
  <3> SUFFICES ASSUME NEW p \in f .. last PROVE Genuinely(rd, r, p)  OBVIOUS
  <3>1. r.base[p] # <<>> /\ p - f \in GroupVerdict(r, f, Filled(r)).good  BY <2>3
  <3> QED  BY <3>1, ImprovedVerdict DEF last
 <2> QED  BY <2>2, <2>4 DEF last
<1> QED  BY <1>5, <1>6, <1>7

\* The group on its own: its record fits, and a group that is not passed is told of.
LEMMA BaselineTold ==
    ASSUME NEW r, Shaped(rd), rd.mode = "improved", Separates(rd.shape), Ready(rd, r), CopiesOK(rd, r),
           NEW i \in 1 .. DataIntervalCount(rd),
           NEW k \in DOMAIN GroupStarts(rd, i), NEW f, f = GroupStarts(rd, i)[k],
           NEW verdict, verdict = GroupVerdict(r, f, Filled(r)),
           NEW t, t = BaselineJudged(r, f, verdict)
    PROVE  /\ Keeps(rd, r, t)
           /\ \A g \in t.groups : g \in r.groups \/ (GroupFits(rd, t, g) /\ GroupOf(rd, i, g.first))
           /\ \A p \in f .. GroupLast(rd, f) :
                r.base[p] # <<>> /\ ~ Genuinely(rd, r, p) => HarmTold(rd, t, p)
<1> DEFINE last == GroupLast(rd, f)
           group == f .. last
           found == Located(f, verdict.bad)
           Right(p) == p \in group /\ r.base[p] # <<>> /\ p - f \in verdict.good
           Wrong(p) == p \in group /\ r.base[p] # <<>> /\ p - f \in verdict.bad
           status == [p \in Packets |-> CASE Right(p) -> "passed" [] Wrong(p) -> "failed" [] OTHER -> r.status[p]]
           inc == r.incomplete \/ verdict.path = "incomplete"
           paths == r.paths \cup {verdict.path}
           record == [first |-> f, attack |-> FALSE, path |-> verdict.path,
                      located |-> found, exceeded |-> verdict.exceeded]
           groups == r.groups \cup {record}
           s == [r EXCEPT !.status = status, !.incomplete = inc, !.paths = paths, !.groups = groups]
           fell == FallbackTold(verdict, f)
           lacking == IF verdict.path = "incomplete" THEN {f} ELSE {}
           beyond == IF verdict.exceeded THEN {f} ELSE {}
           a == Reports(s, "FastGroupFailed", fell)
           b == Reports(a, "IncompleteGroupTags", lacking)
           c == Reports(b, "ThresholdExceeded", beyond)
<1>1. t = c  BY DEF BaselineJudged
<1>2. BaseOK(rd, r) /\ IsReceiver(r)  BY DEF Ready
<1>3. /\ verdict.path \in {"incomplete", "fast", "fallback"}
      /\ verdict.path = "fast" => \A p \in f .. last : Genuinely(rd, r, p)
  BY <1>2, PathIs
<1>4. /\ \A p \in f .. last : GroupFirst(rd, p) = f
      /\ f \in Nat \ {0} /\ last \in Nat /\ f <= last
  BY ImprovedGroup
<1>5. /\ verdict.path = "fallback" => f \in fell
      /\ verdict.path = "incomplete" => f \in lacking
  BY DEF FallbackTold
<1>6. record.first = f /\ record.attack = FALSE /\ record.path = verdict.path /\ record.located = found
  OBVIOUS
<1>7. GroupOf(rd, i, f)  BY DEF GroupOf
<1>8. GroupFits(rd, r, record)
 <2> SUFFICES ASSUME Tagged(rd, r, last) PROVE Locates(rd, Damage(rd, r, record), found)
   BY <1>6, Zenon DEF GroupFits
 <2> DEFINE damage == Damage(rd, r, record)
 <2>1. \A p \in f .. last : p \in 1 .. rd.total  BY <1>7, GroupInRound
 <2>2. damage = {p \in f .. last : ~ Genuinely(rd, r, p)}  BY <1>6 DEF Damage
 <2>3. \A p \in f .. last : /\ Filled(r)[p] = <<>> \/ \E x : Filled(r)[p] = <<x>>
                            /\ Filled(r)[p] # <<Message(rd, p)>> <=> ~ Genuinely(rd, r, p)
   BY <1>2, <2>1, FilledIs
 <2> HIDE DEF damage
 <2>4. Spoilt(rd, f, last, Filled(r), damage)  BY <2>2, <2>3 DEF Spoilt
 <2> QED  BY <2>4, VerdictFinds DEF damage, found
<1> HIDE DEF status, inc, paths, groups, record, found, fell, lacking, beyond, last, group
<1>9. /\ IsReceiver(s) /\ s.base = r.base /\ s.keys = r.keys /\ s.verified = r.verified
      /\ s.result = r.result /\ s.reports = r.reports /\ s.copies = r.copies /\ s.groups = groups
  BY <1>2 DEF IsReceiver, ReceiverFields
<1> HIDE DEF s
<1>10. CopiesOK(rd, s) /\ \A p \in 1 .. rd.total : SameCopies(r, s, p)
  BY <1>9 DEF CopiesOK, SameCopies
<1>11. Keeps(rd, r, s)  BY <1>9, <1>10 DEF Keeps
<1>12. Keeps(rd, s, a) /\ a.groups = s.groups /\ \A p \in fell : Reported(a, "FastGroupFailed", p)
  BY <1>9, <1>10, ReportsKeep
<1> HIDE DEF a
<1>13. Keeps(rd, a, b) /\ b.groups = a.groups /\ \A p \in lacking : Reported(b, "IncompleteGroupTags", p)
  BY <1>12, ReportsKeep DEF Keeps
<1> HIDE DEF b
<1>14. Keeps(rd, b, c) /\ c.groups = b.groups  BY <1>13, ReportsKeep DEF Keeps
<1> HIDE DEF c
<1>15. Keeps(rd, r, t)  BY <1>1, <1>11, <1>12, <1>13, <1>14, KeepsTwice
<1>16. t.groups = r.groups \cup {record}  BY <1>1, <1>9, <1>12, <1>13, <1>14 DEF groups
<1>17. GroupFits(rd, t, record) /\ GroupOf(rd, i, record.first)
  BY <1>6, <1>7, <1>8, <1>15, KeepsGroup
<1>18. ASSUME NEW p \in f .. last, r.base[p] # <<>>, ~ Genuinely(rd, r, p)
       PROVE  HarmTold(rd, t, p)
 <2>1. \A kind, x : Reported(a, kind, x) => Reported(t, kind, x)
   BY <1>1, <1>13, <1>14 DEF Reported, Keeps
 <2>2. \A kind, x : Reported(b, kind, x) => Reported(t, kind, x)  BY <1>1, <1>14 DEF Reported, Keeps
 <2>3. verdict.path = "fallback" \/ verdict.path = "incomplete"  BY <1>3, <1>18
 <2>4. Reported(t, "FastGroupFailed", f) \/ Reported(t, "IncompleteGroupTags", f)
   BY <1>5, <1>12, <1>13, <2>1, <2>2, <2>3
 <2> QED  BY <1>4, <2>4 DEF HarmTold
<1> QED  BY <1>15, <1>16, <1>17, <1>18 DEF last

LEMMA ForgedIsReplaced ==
    ASSUME NEW w, NEW r, CopiesOK(w, r), NEW p \in 1 .. w.total, HasForged(w, r, p)
    PROVE  FirstAttack(r, p) # 0
  BY FirstAttackIs DEF CopiesOK, HasForged

\* The first copies of the attack node, called failed.
LEMMA TrialKeeps ==
    ASSUME NEW r, Shaped(rd), IsReceiver(r), CopiesOK(rd, r), NEW f, NEW trial,
           NEW replaced, \A p \in replaced : FirstAttack(r, p) # 0,
           NEW s, s = TrialFailed(r, f, replaced, trial)
    PROVE  /\ Keeps(rd, r, s)
           /\ s.groups = r.groups \cup {[first |-> f, attack |-> TRUE, path |-> "fallback",
                                         located |-> Located(f, trial.bad), exceeded |-> trial.exceeded]}
<1> DEFINE Failed(p) == [r.copies[p] EXCEPT ![FirstAttack(r, p)].status = "failed"]
           Of(p) == IF p \in replaced THEN Failed(p) ELSE r.copies[p]
           copies == [p \in Packets |-> Of(p)]
           paths == r.paths \cup {"fallback"}
           groups == r.groups \cup {[first |-> f, attack |-> TRUE, path |-> "fallback",
                                     located |-> Located(f, trial.bad), exceeded |-> trial.exceeded]}
<1>1. s = [r EXCEPT !.copies = copies, !.paths = paths, !.groups = groups]
  BY DEF TrialFailed, IsReceiver, ReceiverFields
<1>2. \A p \in 1 .. rd.total :
        IsSequence(r.copies[p]) /\ \A n \in 1 .. Len(r.copies[p]) : CopyOK(rd, p, r.copies[p][n])
  BY DEF CopiesOK
<1>3. DOMAIN copies = 1 .. rd.total  BY DEF Packets
<1>4. ASSUME NEW p \in 1 .. rd.total
      PROVE  /\ IsSequence(copies[p]) /\ Len(copies[p]) = Len(r.copies[p])
             /\ \A n \in 1 .. Len(r.copies[p]) :
                  /\ CopyOK(rd, p, copies[p][n])
                  /\ copies[p][n].attack = r.copies[p][n].attack
                  /\ copies[p][n].datagram = r.copies[p][n].datagram
 <2> DEFINE q == r.copies[p]
            x == FirstAttack(r, p)
 <2>1. copies[p] = Of(p)  BY DEF Packets
 <2>2. IsSequence(q) /\ \A n \in 1 .. Len(q) : CopyOK(rd, p, q[n])  BY <1>2
 <2>3. DOMAIN q = 1 .. Len(q) /\ Len(q) \in Nat
  <3>1. PICK S : q \in Seq(S)  BY <2>2 DEF IsSequence
  <3> QED  BY <3>1, LenProperties
 <2>4. CASE p \in replaced
  <3> DEFINE g == [q EXCEPT ![x].status = "failed"]
  <3>1. copies[p] = g  BY <2>1, <2>4
  <3>2. x \in 1 .. Len(q)  BY <2>2, <2>4, FirstAttackIs
  <3> HIDE DEF q, x, copies
  <3>3. /\ DOMAIN g = 1 .. Len(q)
        /\ \A n \in 1 .. Len(q) : n # x => g[n] = q[n]
        /\ g[x] = [q[x] EXCEPT !.status = "failed"]
    BY <2>3, <3>2
  <3>4. g = [n \in 1 .. Len(q) |-> g[n]]  BY <3>3
  <3> HIDE DEF g
  <3>5. IsSequence(g) /\ Len(g) = Len(q)  BY <2>3, <3>4, EnumeratedIsSequence
  <3>6. ASSUME NEW n \in 1 .. Len(q)
        PROVE  CopyOK(rd, p, g[n]) /\ g[n].attack = q[n].attack /\ g[n].datagram = q[n].datagram
   <4>1. CASE n # x  BY <2>2, <3>3, <4>1
   <4>2. CASE n = x
    <5> DEFINE c == q[n]
    <5>1. g[n] = [c EXCEPT !.status = "failed"] /\ CopyOK(rd, p, c)  BY <2>2, <3>3, <4>2
    <5> HIDE DEF c
    <5>2. DOMAIN g[n] = DOMAIN c /\ g[n].attack = c.attack /\ g[n].datagram = c.datagram
      BY <5>1 DEF CopyOK
    <5> QED  BY <5>1, <5>2 DEF CopyOK, c
   <4> QED  BY <4>1, <4>2
  <3> QED  BY <3>1, <3>5, <3>6 DEF q
 <2>5. CASE p \notin replaced
  <3>1. copies[p] = q  BY <2>1, <2>5
  <3> HIDE DEF copies
  <3> QED  BY <2>2, <3>1
 <2> QED  BY <2>4, <2>5
<1> HIDE DEF copies, paths, groups
<1>5. /\ IsReceiver(s) /\ s.base = r.base /\ s.keys = r.keys /\ s.verified = r.verified
      /\ s.result = r.result /\ s.reports = r.reports /\ s.copies = copies /\ s.groups = groups
  BY <1>1 DEF IsReceiver, ReceiverFields
<1>6. CopiesOK(rd, s) /\ \A p \in 1 .. rd.total : SameCopies(r, s, p)
  BY <1>3, <1>4, <1>5 DEF CopiesOK, SameCopies
<1>7. Keeps(rd, r, s)  BY <1>5, <1>6 DEF Keeps
<1> QED  BY <1>5, <1>7 DEF groups

\* The trial of a group that was passed, copies in the places of its packets.
LEMMA TrialFits ==
    ASSUME NEW r, Shaped(rd), rd.mode = "improved", Separates(rd.shape), BaseOK(rd, r), CopiesOK(rd, r),
           NEW i \in 1 .. DataIntervalCount(rd),
           NEW k \in DOMAIN GroupStarts(rd, i), NEW f, f = GroupStarts(rd, i)[k],
           \A p \in f .. GroupLast(rd, f) : Genuinely(rd, r, p),
           NEW trial, trial = Trial(r, f, Replaced(r, f)),
           NEW g, g.first = f, g.attack = TRUE, g.located = Located(f, trial.bad)
    PROVE  GroupFits(rd, r, g)
<1> DEFINE last == GroupLast(rd, f)
           replaced == Replaced(r, f)
           Copy1(p) == r.copies[p][FirstAttack(r, p)].datagram
           slot == [p \in Packets |-> IF p \in replaced THEN Fields(Copy1(p)).message ELSE BaseSlot(r, p)]
           damage == Damage(rd, r, g)
<1> SUFFICES ASSUME Tagged(rd, r, last) PROVE Locates(rd, damage, Located(f, trial.bad))
  BY Zenon DEF GroupFits
<1>1. trial = GroupVerdict(r, f, slot)  BY DEF Trial
<1>2. \A p \in f .. last : p \in 1 .. rd.total  BY GroupInRound DEF GroupOf
<1>3. damage = {p \in f .. last : FirstAttack(r, p) # 0 /\ Decode(rd, Copy1(p)).message[1] # Message(rd, p)}
  BY DEF Damage, Copied
<1>4. \A p \in f .. last : p \in replaced <=> FirstAttack(r, p) # 0  BY DEF Replaced
<1>5. ASSUME NEW p \in f .. last
      PROVE  /\ slot[p] = <<>> \/ \E x : slot[p] = <<x>>
             /\ p \in damage <=> slot[p] # <<Message(rd, p)>>
 <2>1. p \in 1 .. rd.total /\ p \in Packets  BY <1>2 DEF Packets
 <2>2. CASE p \in replaced
  <3> DEFINE d == Copy1(p)
             x == d.blocks[1]
             y == Message(rd, p)
  <3>1. slot[p] = Decode(rd, d).message  BY <2>1, <2>2 DEF Fields
  <3>2. FirstAttack(r, p) \in 1 .. Len(r.copies[p])  BY <1>4, <2>1, <2>2, FirstAttackIs DEF CopiesOK
  <3>3. AsSent(rd, p, d)  BY <2>1, <3>2 DEF CopiesOK, CopyOK
  <3> HIDE DEF d
  <3>4. Decode(rd, d).message = <<x>>  BY <2>1, <3>3, DecodeIs
  <3>5. p \in damage <=> Decode(rd, d).message[1] # y  BY <1>3, <1>4, <2>2 DEF d
  <3> HIDE DEF x, y, slot, damage
  <3>6. slot[p] = <<x>> /\ Decode(rd, d).message[1] = x  BY <3>1, <3>4
  <3>7. <<x>> # <<y>> <=> x # y  OBVIOUS
  <3> QED  BY <3>5, <3>6, <3>7 DEF y
 <2>3. CASE p \notin replaced
  <3>1. slot[p] = Filled(r)[p]  BY <2>1, <2>3 DEF Filled
  <3>2. Genuinely(rd, r, p)  OBVIOUS
  <3>3. slot[p] = <<Message(rd, p)>>  BY <2>1, <3>1, <3>2, FilledIs
  <3>4. p \notin damage  BY <1>3, <1>4, <2>3
  <3> HIDE DEF slot, damage
  <3> QED  BY <3>3, <3>4
 <2> QED  BY <2>2, <2>3
<1> HIDE DEF slot
<1>6. Spoilt(rd, f, last, slot, damage)
 <2>1. damage \in SUBSET (f .. last)  BY <1>3
 <2> HIDE DEF damage
 <2> QED  BY <1>5, <2>1 DEF Spoilt
<1> HIDE DEF damage
<1> QED  BY <1>1, <1>6, VerdictFinds

LEMMA AttackTold ==
    ASSUME NEW r, Shaped(rd), rd.mode = "improved", Separates(rd.shape), Ready(rd, r), CopiesOK(rd, r),
           NEW i \in 1 .. DataIntervalCount(rd),
           NEW k \in DOMAIN GroupStarts(rd, i), NEW f, f = GroupStarts(rd, i)[k],
           NEW verdict, verdict.path = "fast" => \A p \in f .. GroupLast(rd, f) : Genuinely(rd, r, p),
           NEW t, t = AttackJudged(r, f, verdict)
    PROVE  /\ Keeps(rd, r, t)
           /\ \A g \in t.groups : g \in r.groups \/ (GroupFits(rd, t, g) /\ GroupOf(rd, i, g.first))
           /\ \A p \in f .. GroupLast(rd, f) : HasForged(rd, t, p) => CopyTold(t, p)
<1> DEFINE last == GroupLast(rd, f)
           replaced == Replaced(r, f)
           trial == Trial(r, f, replaced)
           s == TrialFailed(r, f, replaced, trial)
           record == [first |-> f, attack |-> TRUE, path |-> "fallback",
                      located |-> Located(f, trial.bad), exceeded |-> trial.exceeded]
<1>1. IsReceiver(r) /\ BaseOK(rd, r)  BY DEF Ready
<1>2. GroupOf(rd, i, f)  BY DEF GroupOf
<1>3. \A p \in f .. last : p \in 1 .. rd.total  BY <1>2, GroupInRound
<1>4. \A p \in f .. last : p \in replaced <=> FirstAttack(r, p) # 0  BY DEF Replaced
<1>5. \A p \in replaced : FirstAttack(r, p) # 0  BY DEF Replaced
\* A forged copy stands in the place of its packet.
<1>6. ASSUME Keeps(rd, r, t), NEW p \in f .. last, HasForged(rd, t, p)
      PROVE  p \in replaced
 <2>1. SameCopies(r, t, p) /\ p \in 1 .. rd.total  BY <1>3, <1>6 DEF Keeps
 <2>2. HasForged(rd, r, p)  BY <1>6, <2>1 DEF HasForged, SameCopies
 <2> QED  BY <1>4, <2>1, <2>2, ForgedIsReplaced
<1>7. CASE replaced = {}
 <2>1. t = r  BY <1>7 DEF AttackJudged
 <2>2. Keeps(rd, r, t)  BY <1>1, <2>1 DEF Keeps, SameCopies
 <2> HIDE DEF replaced
 <2> QED  BY <1>6, <1>7, <2>1, <2>2
<1>8. CASE replaced # {} /\ verdict.path # "fast"
 <2>1. t = Reports(r, "UnverifiableMissingBaseline", replaced)  BY <1>8 DEF AttackJudged
 <2> HIDE DEF replaced
 <2>2. Keeps(rd, r, t) /\ t.groups = r.groups /\ \A p \in replaced : Reported(t, "UnverifiableMissingBaseline", p)
   BY <1>1, <2>1, ReportsKeep
 <2>3. \A p \in replaced : CopyTold(t, p)  BY <2>2 DEF CopyTold
 <2> QED  BY <1>6, <2>2, <2>3
<1>9. CASE replaced # {} /\ verdict.path = "fast"
 <2>1. t = Reports(s, "TamperedVariant", replaced)  BY <1>9 DEF AttackJudged
 <2>2. GroupFits(rd, r, record)
  <3>1. record.first = f /\ record.attack = TRUE /\ record.located = Located(f, trial.bad)  OBVIOUS
  <3>2. trial = Trial(r, f, Replaced(r, f))  OBVIOUS
  <3>3. \A p \in f .. GroupLast(rd, f) : Genuinely(rd, r, p)  BY <1>9
  <3> HIDE DEF record, trial
  <3> QED  BY <1>1, <3>1, <3>2, <3>3, TrialFits
 <2>3. record.first = f  OBVIOUS
 <2>4. s.groups = r.groups \cup {record} /\ Keeps(rd, r, s)
  <3> HIDE DEF replaced, trial
  <3> QED  BY <1>1, <1>5, TrialKeeps
 <2> HIDE DEF replaced, trial, s, record
 <2>5. Keeps(rd, s, t) /\ t.groups = s.groups /\ \A p \in replaced : Reported(t, "TamperedVariant", p)
   BY <2>1, <2>4, ReportsKeep DEF Keeps
 <2>6. Keeps(rd, r, t)  BY <2>4, <2>5, KeepsTwice
 <2>7. GroupFits(rd, t, record) /\ GroupOf(rd, i, record.first)
   BY <1>2, <2>2, <2>3, <2>6, KeepsGroup
 <2>8. \A p \in replaced : CopyTold(t, p)  BY <2>5 DEF CopyTold
 <2> QED  BY <1>6, <2>4, <2>5, <2>6, <2>7, <2>8
<1> QED  BY <1>7, <1>8, <1>9

LEMMA GroupTold ==
    ASSUME NEW r, Shaped(rd), rd.mode = "improved", Separates(rd.shape), Ready(rd, r), CopiesOK(rd, r),
           NEW i \in 1 .. DataIntervalCount(rd),
           NEW k \in DOMAIN GroupStarts(rd, i), NEW f, f = GroupStarts(rd, i)[k],
           NEW t, t = GroupJudged(r, f)
    PROVE  Judged(rd, i, f .. GroupLast(rd, f), r, t)
<1> DEFINE verdict == GroupVerdict(r, f, Filled(r))
           s == BaselineJudged(r, f, verdict)
           last == GroupLast(rd, f)
<1>1. t = AttackJudged(s, f, verdict)  BY DEF GroupJudged, BothJudged, Filled
<1>2. /\ Keeps(rd, r, s)
      /\ \A g \in s.groups : g \in r.groups \/ (GroupFits(rd, s, g) /\ GroupOf(rd, i, g.first))
      /\ \A p \in f .. last : r.base[p] # <<>> /\ ~ Genuinely(rd, r, p) => HarmTold(rd, s, p)
 <2> HIDE DEF s
 <2> QED  BY BaselineTold DEF s
<1>3. Ready(rd, s)  BY BaselineJudges, JudgesReady
<1>4. verdict.path = "fast" => \A p \in f .. last : Genuinely(rd, r, p)  BY PathIs DEF Ready
<1> HIDE DEF verdict, s
<1>5. s.base = r.base /\ CopiesOK(rd, s)  BY <1>2 DEF Keeps
<1>6. \A p : Genuinely(rd, s, p) <=> Genuinely(rd, r, p)  BY <1>5, Zenon DEF Genuinely
<1>7. verdict.path = "fast" => \A p \in f .. GroupLast(rd, f) : Genuinely(rd, s, p)  BY <1>4, <1>6
<1>8. /\ Keeps(rd, s, t)
      /\ \A g \in t.groups : g \in s.groups \/ (GroupFits(rd, t, g) /\ GroupOf(rd, i, g.first))
      /\ \A p \in f .. last : HasForged(rd, t, p) => CopyTold(t, p)
  BY <1>1, <1>3, <1>5, <1>7, AttackTold
<1>9. Judged(rd, i, {}, r, s) /\ Judged(rd, i, {}, s, t)  BY <1>2, <1>8 DEF Judged
<1>10. Judged(rd, i, {} \cup {}, r, t)  BY <1>9, JudgedTwice
<1>11. ASSUME NEW p \in f .. last PROVE PacketTold(rd, t, p)
  BY <1>2, <1>5, <1>8 DEF Keeps, Genuinely, Reported, HarmTold, PacketTold
<1> QED  BY <1>10, <1>11 DEF Judged

LEMMA JudgedNothing ==
    ASSUME NEW w, NEW r, IsReceiver(r), CopiesOK(w, r), NEW i
    PROVE  Judged(w, i, {}, r, r)
  BY DEF Judged, Keeps, SameCopies

LEMMA ImprovedTold ==
    ASSUME NEW r, Shaped(rd), rd.mode = "improved", Separates(rd.shape), Ready(rd, r), CopiesOK(rd, r),
           NEW i \in 1 .. DataIntervalCount(rd), NEW t, t = ImprovedVerified(r, i)
    PROVE  Judged(rd, i, PacketsIn(rd, i), r, t)
<1> DEFINE s == GroupStarts(rd, i)
           n == ((LastOf(rd, i) - FirstOf(rd, i)) \div rd.shape.size) + 1
           told(k) == {p \in PacketsIn(rd, i) : \E j \in 1 .. k : p \in s[j] .. GroupLast(rd, s[j])}
<1>1. DOMAIN s = 1 .. n  BY DEF GroupStarts
<1>2. n \in Nat  BY IntervalHasPackets, ShapesAssumption, DivisionFacts DEF Shaped, ValidShape
<1>3. \A p \in PacketsIn(rd, i) : p \in 1 .. rd.total  BY InInterval
<1>4. ASSUME NEW k \in DOMAIN s, NEW q, Ready(rd, q)
      PROVE  Judges(rd, q, Step("groups", q, s[k]))
  BY <1>4, GroupJudges DEF Step
<1>5. ASSUME NEW k \in DOMAIN s, NEW q, Ready(rd, q), CopiesOK(rd, q)
      PROVE  Judged(rd, i, s[k] .. GroupLast(rd, s[k]), q, Step("groups", q, s[k]))
  BY <1>5, GroupTold DEF Step
<1>6. \A p \in PacketsIn(rd, i) : \E k \in DOMAIN s : p \in s[k] .. GroupLast(rd, s[k])
  BY GroupsCover
<1> HIDE DEF s, n
<1>7. PICK h : Runs(h, "groups", r, n, s) /\ FoldLeft(GroupJudged, r, s) = h[n]
  BY <1>1, <1>2, GroupsLoop
<1>8. \A k \in 0 .. n : Judges(rd, r, h[k])  BY <1>1, <1>2, <1>4, <1>7, LoopJudges
<1> DEFINE T == {k \in Nat : k <= n => Judged(rd, i, told(k), r, h[k])}
<1>9. 0 \in T
 <2>1. told(0) = {} /\ h[0] = r  BY <1>7 DEF Runs
 <2>2. Judged(rd, i, {}, r, r)  BY JudgedNothing DEF Ready
 <2> QED  BY <2>1, <2>2
<1>10. ASSUME NEW k \in T PROVE k + 1 \in T
 <2> SUFFICES ASSUME k + 1 <= n PROVE Judged(rd, i, told(k + 1), r, h[k + 1])  OBVIOUS
 <2>1. k \in Nat /\ k <= n /\ k + 1 \in 1 .. n /\ (k + 1) - 1 = k /\ k \in 0 .. n  BY <1>2
 <2>2. Judged(rd, i, told(k), r, h[k])  BY <2>1
 <2>3. h[k + 1] = Step("groups", h[k], s[k + 1])  BY <1>7, <2>1 DEF Runs
 <2>4. Ready(rd, h[k]) /\ CopiesOK(rd, h[k])  BY <1>8, <2>1, <2>2, JudgesReady DEF Judged, Keeps
 <2> DEFINE U == s[k + 1] .. GroupLast(rd, s[k + 1])
            V == told(k)
 <2>5. Judged(rd, i, U, h[k], h[k + 1])  BY <1>1, <1>5, <2>1, <2>3, <2>4
 <2>6. V \in SUBSET (1 .. rd.total)  BY <1>3
 <2>7. told(k + 1) \subseteq V \cup U
  <3> SUFFICES ASSUME NEW p \in told(k + 1), p \notin U PROVE p \in V  OBVIOUS
  <3>1. PICK j \in 1 .. k + 1 : p \in s[j] .. GroupLast(rd, s[j])  OBVIOUS
  <3>2. j # k + 1  BY <3>1
  <3>3. j \in 1 .. k  BY <2>1, <3>2
  <3> QED  BY <3>1, <3>3
 <2> HIDE DEF U, V, told
 <2>8. Judged(rd, i, V \cup U, r, h[k + 1])  BY <2>2, <2>5, <2>6, JudgedTwice DEF V
 <2> QED  BY <2>7, <2>8 DEF Judged
<1>11. T = Nat
 <2>1. T \in SUBSET Nat  OBVIOUS
 <2> HIDE DEF T
 <2> QED  BY <1>9, <1>10, <2>1, NatSetInduction
<1>12. told(n) = PacketsIn(rd, i)  BY <1>1, <1>6
<1>13. Judged(rd, i, told(n), r, h[n])
 <2> HIDE DEF told
 <2> QED  BY <1>2, <1>11
<1>14. t = h[n]  BY <1>7 DEF ImprovedVerified, s
<1> HIDE DEF told
<1> QED  BY <1>12, <1>13, <1>14

-----------------------------------------------------------------------------
(* What is told stays told, and of every interval that has been judged.    *)

Unforged(w, r) ==
    \A p \in 1 .. w.total : r.base[p] # <<>> => r.base[p][1].blocks[1] # ForgedMessage(Message(w, p))

\* A key is known only when it may be on the air.
Aired(w, o, r) ==
    /\ r.verified \subseteq r.keys /\ r.keys \subseteq 1 .. DataIntervalCount(w)
    /\ \A i \in r.keys : i + w.delay <= o

VerifiedTold(w, r) == \A i \in r.verified : \A p \in PacketsIn(w, i) : PacketTold(w, r, p)

GroupsTold(w, r) ==
    \A g \in r.groups : GroupFits(w, r, g) /\ \E i \in r.keys : GroupOf(w, i, g.first)

Honest(w, o, r) ==
    CopiesOK(w, r) /\ Unforged(w, r) /\ Aired(w, o, r) /\ VerifiedTold(w, r) /\ GroupsTold(w, r)

\* Neither what is told is taken back, nor a forged copy forgotten.
Grows(w, r, s) ==
    /\ r.reports \subseteq s.reports
    /\ \A p \in 1 .. w.total : HasForged(w, r, p) => HasForged(w, s, p)

MissingTold(w, r) ==
    RoundJudged(r) => \A p \in 1 .. w.total : r.base[p] = <<>> => Reported(r, "MissingPacket", p)

LEMMA GrowsTwice ==
    ASSUME NEW w, NEW r, NEW s, NEW t, Grows(w, r, s), Grows(w, s, t)
    PROVE  Grows(w, r, t)
  BY DEF Grows

LEMMA GrowsNothing ==
    ASSUME NEW w, NEW r
    PROVE  Grows(w, r, r)
  BY DEF Grows

LEMMA SameForged ==
    ASSUME NEW w, NEW r, NEW s, NEW p, SameCopies(r, s, p), HasForged(w, r, p)
    PROVE  HasForged(w, s, p)
  BY DEF HasForged, SameCopies

\* Changes that leave the packets of the intervals whose keys are known alone.
LEMMA HonestStays ==
    ASSUME NEW w, Shaped(w), NEW o, NEW r, NEW s, Honest(w, o, r),
           s.keys = r.keys, s.verified = r.verified, s.groups = r.groups, r.reports \subseteq s.reports,
           CopiesOK(w, s), Unforged(w, s),
           \A i \in r.keys : \A p \in PacketsIn(w, i) : SamePacket(r, s, p)
    PROVE  Honest(w, o, s)
<1>1. /\ CopiesOK(w, r) /\ r.verified \subseteq r.keys /\ r.keys \subseteq 1 .. DataIntervalCount(w)
      /\ \A i \in r.keys : i + w.delay <= o
  BY DEF Honest, Aired
<1>2. Aired(w, o, s)  BY <1>1 DEF Aired
<1>3. ASSUME NEW i \in s.verified, NEW p \in PacketsIn(w, i) PROVE PacketTold(w, s, p)
  BY <1>1, <1>3, PacketStaysTold DEF Honest, VerifiedTold
<1>4. ASSUME NEW g \in s.groups
      PROVE  GroupFits(w, s, g) /\ \E i \in s.keys : GroupOf(w, i, g.first)
 <2>1. PICK i \in r.keys : GroupOf(w, i, g.first)  BY <1>4 DEF Honest, GroupsTold
 <2>2. GroupFits(w, r, g)  BY <1>4 DEF Honest, GroupsTold
 <2>3. /\ GroupLast(w, g.first) \in g.first .. GroupLast(w, g.first)
       /\ g.first .. GroupLast(w, g.first) \subseteq 1 .. w.total
       /\ g.first .. GroupLast(w, g.first) \subseteq PacketsIn(w, i)
   BY <1>1, <2>1, GroupInRound
 <2>4. \A p \in g.first .. GroupLast(w, g.first) : SamePacket(r, s, p)  BY <2>1, <2>3
 <2> QED  BY <1>1, <2>1, <2>2, <2>3, <2>4, GroupStaysFit
<1> QED  BY <1>2, <1>3, <1>4 DEF Honest, VerifiedTold, GroupsTold

\* What a verification keeps is enough.
LEMMA KeepsHonest ==
    ASSUME NEW w, Shaped(w), NEW o, NEW r, NEW s, Honest(w, o, r), Keeps(w, r, s), s.groups = r.groups
    PROVE  Honest(w, o, s) /\ Grows(w, r, s)
<1>1. /\ s.base = r.base /\ s.keys = r.keys /\ s.verified = r.verified
      /\ r.reports \subseteq s.reports /\ CopiesOK(w, s)
      /\ \A p \in 1 .. w.total : SameCopies(r, s, p)
  BY DEF Keeps
<1>2. Unforged(w, s)  BY <1>1 DEF Honest, Unforged
<1>3. \A i \in r.keys : \A p \in PacketsIn(w, i) : SamePacket(r, s, p)
 <2> SUFFICES ASSUME NEW i \in r.keys, NEW p \in PacketsIn(w, i) PROVE SamePacket(r, s, p)  OBVIOUS
 <2>1. i \in Nat \ {0}  BY DEF Honest, Aired
 <2>2. p \in 1 .. w.total  BY <2>1, InInterval
 <2> QED  BY <2>2, KeepsPacket
<1>4. Honest(w, o, s)  BY <1>1, <1>2, <1>3, HonestStays
<1>5. Grows(w, r, s)  BY <1>1, SameForged DEF Grows
<1> QED  BY <1>4, <1>5

LEMMA KeepsTold ==
    ASSUME NEW w, Shaped(w), NEW o, NEW r, Honest(w, o, r), IsReceiver(r),
           NEW kind, NEW ps, NEW s, s = Reports(r, kind, ps)
    PROVE  Honest(w, o, s) /\ Grows(w, r, s) /\ \A p \in ps : Reported(s, kind, p)
  BY ReportsKeep, KeepsHonest DEF Honest

\* Fields that nothing here depends on.
LEMMA BesideHonest ==
    ASSUME NEW w, Shaped(w), NEW o, NEW r, Honest(w, o, r), NEW s,
           s.base = r.base, s.copies = r.copies, s.keys = r.keys, s.verified = r.verified,
           s.groups = r.groups, r.reports \subseteq s.reports
    PROVE  Honest(w, o, s) /\ Grows(w, r, s)
<1>1. CopiesOK(w, s) /\ Unforged(w, s)  BY DEF Honest, CopiesOK, Unforged
<1>2. \A p : SameCopies(r, s, p)  BY DEF SameCopies
<1>3. \A p : SamePacket(r, s, p)  BY <1>2 DEF SamePacket
<1>4. Honest(w, o, s)  BY <1>1, <1>3, HonestStays
<1> QED  BY <1>2, <1>4, SameForged DEF Grows

\* An interval has been judged.
LEMMA JudgedHonest ==
    ASSUME NEW w, Shaped(w), NEW o, NEW r, Honest(w, o, r), NEW i \in r.keys, NEW s,
           Judged(w, i, PacketsIn(w, i), r, s), NEW t, t = [s EXCEPT !.verified = @ \cup {i}]
    PROVE  Honest(w, o, t) /\ Grows(w, r, t)
<1> DEFINE verified == s.verified \cup {i}
<1>1. /\ CopiesOK(w, r) /\ r.verified \subseteq r.keys /\ r.keys \subseteq 1 .. DataIntervalCount(w)
      /\ \A j \in r.keys : j + w.delay <= o
  BY DEF Honest, Aired
<1>2. Keeps(w, r, s)  BY DEF Judged
<1>3. /\ IsReceiver(s) /\ s.base = r.base /\ s.keys = r.keys /\ s.verified = r.verified
      /\ r.reports \subseteq s.reports /\ CopiesOK(w, s)
      /\ \A p \in 1 .. w.total : SameCopies(r, s, p)
  BY <1>2 DEF Keeps
<1>4. t = [s EXCEPT !.verified = verified]  OBVIOUS
<1> HIDE DEF verified
<1>5. /\ t.base = s.base /\ t.copies = s.copies /\ t.keys = s.keys /\ t.verified = verified
      /\ t.groups = s.groups /\ t.reports = s.reports
  BY <1>3, <1>4 DEF IsReceiver, ReceiverFields
<1>6. verified = r.verified \cup {i}  BY <1>3 DEF verified
<1>7. Unforged(w, t) /\ CopiesOK(w, t)  BY <1>3, <1>5 DEF Honest, Unforged, CopiesOK
<1>8. Aired(w, o, t)  BY <1>1, <1>3, <1>5, <1>6 DEF Aired
<1>9. \A p : SamePacket(s, t, p)  BY <1>5 DEF SamePacket, SameCopies
<1>10. ASSUME NEW j \in t.verified, NEW p \in PacketsIn(w, j) PROVE PacketTold(w, t, p)
 <2>1. PacketTold(w, s, p)
  <3>1. CASE j = i  BY <1>10, <3>1 DEF Judged
  <3>2. CASE j \in r.verified
    BY <1>1, <1>2, <1>10, <3>2, InInterval, KeepsPacket DEF Honest, VerifiedTold
  <3> QED  BY <1>5, <1>6, <1>10, <3>1, <3>2
 <2>2. s.reports \subseteq t.reports  BY <1>5
 <2> QED  BY <1>9, <2>1, <2>2, PacketStaysTold
<1>11. ASSUME NEW g \in t.groups
       PROVE  GroupFits(w, t, g) /\ \E j \in t.keys : GroupOf(w, j, g.first)
 <2>1. g \in s.groups  BY <1>5, <1>11
 <2>2. \E j \in r.keys : GroupOf(w, j, g.first) /\ GroupFits(w, s, g)
  <3>1. CASE g \in r.groups
   <4>1. PICK j \in r.keys : GroupOf(w, j, g.first)  BY <3>1 DEF Honest, GroupsTold
   <4>2. GroupFits(w, r, g)  BY <3>1 DEF Honest, GroupsTold
   <4> QED  BY <1>1, <1>2, <4>1, <4>2, KeepsGroup
  <3>2. CASE g \notin r.groups  BY <2>1, <3>2 DEF Judged
  <3> QED  BY <3>1, <3>2
 <2>3. PICK j \in r.keys : GroupOf(w, j, g.first) /\ GroupFits(w, s, g)  BY <2>2
 <2>4. /\ GroupLast(w, g.first) \in g.first .. GroupLast(w, g.first)
       /\ g.first .. GroupLast(w, g.first) \subseteq 1 .. w.total
   BY <1>1, <2>3, GroupInRound
 <2>5. GroupFits(w, t, g)  BY <1>3, <1>9, <2>3, <2>4, GroupStaysFit
 <2> QED  BY <1>3, <1>5, <2>3, <2>5
<1>12. Honest(w, o, t)  BY <1>7, <1>8, <1>10, <1>11 DEF Honest, VerifiedTold, GroupsTold
<1>13. Grows(w, r, t)  BY <1>3, <1>5, SameForged DEF SameCopies, Grows
<1> QED  BY <1>12, <1>13

\* What a receiver has to be for a verification, and what that makes of it.
Fine(w, o, r) == Ready(w, r) /\ Honest(w, o, r)

Advances(w, o, r, s) == Fine(w, o, s) /\ Grows(w, r, s)

LEMMA VerifyIntervalAdvances ==
    ASSUME NEW o, NEW r, Shaped(rd), Separates(rd.shape), Fine(rd, o, r), NEW i \in 1 .. DataIntervalCount(rd)
    PROVE  Advances(rd, o, r, VerifyInterval(r, i))
<1>1. Ready(rd, r) /\ Honest(rd, o, r) /\ CopiesOK(rd, r)  BY DEF Fine, Honest
<1>2. CASE i \in r.verified \/ i \notin r.keys  BY <1>2, GrowsNothing DEF VerifyInterval, Advances
<1>3. CASE ~ (i \in r.verified \/ i \notin r.keys)
 <2> DEFINE s == IF rd.mode = "native" THEN NativeCopiesJudged(NativeVerified(r, i), i)
                 ELSE ImprovedVerified(r, i)
            t == [s EXCEPT !.verified = @ \cup {i}]
 <2>1. VerifyInterval(r, i) = t  BY <1>3 DEF VerifyInterval
 <2>2. Judged(rd, i, PacketsIn(rd, i), r, s)
  <3>1. CASE rd.mode = "native"  BY <1>1, <3>1, NativeJudged
  <3>2. CASE rd.mode = "improved"  BY <1>1, <3>2, ImprovedTold
  <3> QED  BY <3>1, <3>2 DEF Shaped
 <2> HIDE DEF s
 <2>3. Honest(rd, o, t) /\ Grows(rd, r, t)  BY <1>1, <1>3, <2>2, JudgedHonest
 <2>4. Judges(rd, r, t)  BY <1>1, <2>1, VerifyIntervalJudges
 <2>5. Ready(rd, t)  BY <1>1, <2>4, JudgesReady
 <2> HIDE DEF t
 <2> QED  BY <2>1, <2>3, <2>5 DEF Advances, Fine
<1> QED  BY <1>2, <1>3

\* A key has been brought back.
LEMMA LearnAdvances ==
    ASSUME NEW o, NEW r, Shaped(rd), Separates(rd.shape), Fine(rd, o, r),
           NEW i \in 1 .. DataIntervalCount(rd), i + rd.delay <= o
    PROVE  Advances(rd, o, r, Learn(r, i))
<1> DEFINE keys == r.keys \cup {i}
           s == [r EXCEPT !.keys = keys]
<1>1. Ready(rd, r) /\ Honest(rd, o, r)  BY DEF Fine
<1>2. Learn(r, i) = VerifyInterval(s, i)  BY DEF Learn
<1> HIDE DEF keys
<1>3. /\ IsReceiver(s) /\ s.base = r.base /\ s.status = r.status /\ s.copies = r.copies
      /\ s.verified = r.verified /\ s.groups = r.groups /\ s.reports = r.reports /\ s.keys = keys
  BY <1>1 DEF Ready, IsReceiver, ReceiverFields
<1> HIDE DEF s
<1>4. Ready(rd, s)  BY <1>1, <1>3 DEF Ready, BaseOK
<1>5. CopiesOK(rd, s) /\ Unforged(rd, s)  BY <1>1, <1>3 DEF Honest, CopiesOK, Unforged
<1>6. Aired(rd, o, s)  BY <1>1, <1>3 DEF Honest, Aired, keys
<1>7. \A p : SamePacket(r, s, p) /\ SameCopies(r, s, p)  BY <1>3 DEF SamePacket, SameCopies
<1>8. \A p : PacketTold(rd, r, p) => PacketTold(rd, s, p)  BY <1>3, <1>7, PacketStaysTold
<1>9. VerifiedTold(rd, s)  BY <1>1, <1>3, <1>8 DEF Honest, VerifiedTold
<1>10. ASSUME NEW g \in s.groups
       PROVE  GroupFits(rd, s, g) /\ \E j \in s.keys : GroupOf(rd, j, g.first)
 <2>1. PICK j \in r.keys : GroupOf(rd, j, g.first)  BY <1>1, <1>3, <1>10 DEF Honest, GroupsTold
 <2>2. GroupFits(rd, r, g)  BY <1>1, <1>3, <1>10 DEF Honest, GroupsTold
 <2>3. j \in 1 .. DataIntervalCount(rd) /\ CopiesOK(rd, r)  BY <1>1, <2>1 DEF Honest, Aired
 <2>4. /\ GroupLast(rd, g.first) \in g.first .. GroupLast(rd, g.first)
       /\ g.first .. GroupLast(rd, g.first) \subseteq 1 .. rd.total
   BY <2>1, <2>3, GroupInRound
 <2>5. GroupFits(rd, s, g)  BY <1>7, <2>2, <2>3, <2>4, GroupStaysFit
 <2>6. j \in s.keys  BY <1>3, <2>1 DEF keys
 <2> QED  BY <2>1, <2>5, <2>6
<1>11. Honest(rd, o, s)  BY <1>5, <1>6, <1>9, <1>10 DEF Honest, GroupsTold
<1>12. Grows(rd, r, s)  BY <1>3, <1>7, SameForged DEF Grows
<1>13. Advances(rd, o, s, VerifyInterval(s, i))  BY <1>4, <1>11, VerifyIntervalAdvances DEF Fine
<1> HIDE DEF Fine
<1> QED  BY <1>2, <1>12, <1>13, GrowsTwice DEF Advances

\* A loop of them.
LEMMA LoopAdvances ==
    ASSUME NEW w, NEW o, NEW loop, NEW r, NEW s, NEW n \in Nat, NEW h, Runs(h, loop, r, n, s), Fine(w, o, r),
           \A k \in 1 .. n : \A q : Fine(w, o, q) => Advances(w, o, q, Step(loop, q, s[k]))
    PROVE  Advances(w, o, r, h[n])
<1> DEFINE T == {k \in Nat : k <= n => Advances(w, o, r, h[k])}
<1>1. 0 \in T  BY GrowsNothing DEF Runs, Advances
<1>2. ASSUME NEW k \in T PROVE k + 1 \in T
 <2> SUFFICES ASSUME k + 1 <= n PROVE Advances(w, o, r, h[k + 1])  OBVIOUS
 <2>1. k \in Nat /\ k <= n /\ k + 1 \in 1 .. n /\ (k + 1) - 1 = k  OBVIOUS
 <2>2. Fine(w, o, h[k]) /\ Grows(w, r, h[k])  BY <2>1 DEF Advances
 <2>3. h[k + 1] = Step(loop, h[k], s[k + 1])  BY <2>1 DEF Runs
 <2>4. Fine(w, o, h[k + 1]) /\ Grows(w, h[k], h[k + 1])  BY <2>1, <2>2, <2>3 DEF Advances
 <2> QED  BY <2>2, <2>4, GrowsTwice DEF Advances
<1>3. T = Nat
 <2>1. T \in SUBSET Nat  OBVIOUS
 <2> HIDE DEF T
 <2> QED  BY <1>1, <1>2, <2>1, NatSetInduction
<1> QED  BY <1>3

LEMMA LearntAdvances ==
    ASSUME NEW o \in Nat, NEW r, Shaped(rd), Separates(rd.shape), Fine(rd, o, r),
           NEW index \in Nat, index <= DataIntervalCount(rd), index + rd.delay <= o
    PROVE  Advances(rd, o, r, Learnt(r, index))
<1> DEFINE c == KeyCounted(r, index)
           s == KeysDownFrom(index)
           counted == r.counted \cup {index}
           blocks == IF index \in r.counted THEN r.blocks ELSE r.blocks + 1
<1>1. Ready(rd, r) /\ Honest(rd, o, r) /\ IsReceiver(r)  BY DEF Fine, Ready
<1>2. c = [r EXCEPT !.counted = counted, !.blocks = blocks]  BY DEF KeyCounted
<1>3. Learnt(r, index) = FoldLeft(Learn, c, s)  BY DEF Learnt
<1> HIDE DEF c, counted, blocks
<1>4. /\ IsReceiver(c) /\ c.base = r.base /\ c.status = r.status /\ c.copies = r.copies
      /\ c.verified = r.verified /\ c.groups = r.groups /\ c.reports = r.reports /\ c.keys = r.keys
  BY <1>1, <1>2 DEF IsReceiver, ReceiverFields
<1>5. Fine(rd, o, c) /\ Grows(rd, r, c)  BY <1>1, <1>4, BesideHonest DEF Ready, BaseOK, Fine
<1>6. DOMAIN s = 1 .. index
      /\ \A n \in 1 .. index : s[n] \in 1 .. DataIntervalCount(rd) /\ s[n] + rd.delay <= o
  BY IntervalsAreNumbers DEF Shaped, KeysDownFrom
<1> HIDE DEF s
<1>7. PICK h : Runs(h, "keys", c, index, s) /\ FoldLeft(Learn, c, s) = h[index]  BY <1>6, KeysLoop
<1>8. \A k \in 1 .. index : \A q : Fine(rd, o, q) => Advances(rd, o, q, Step("keys", q, s[k]))
  BY <1>6, LearnAdvances DEF Step
<1>9. Advances(rd, o, c, h[index])  BY <1>5, <1>7, <1>8, LoopAdvances
<1> QED  BY <1>3, <1>5, <1>7, <1>9, GrowsTwice DEF Advances

\* The last walk over the intervals, and the packets that never came.
LEMMA LastWalkAdvances ==
    ASSUME NEW o, NEW r, Shaped(rd), Separates(rd.shape), Fine(rd, o, r),
           NEW t, t = TellsMissing(FoldLeft(VerifyInterval, r, [i \in IntervalsOfData |-> i]))
    PROVE  /\ Advances(rd, o, r, t)
           /\ \A p \in 1 .. rd.total : t.base[p] = <<>> => Reported(t, "MissingPacket", p)
<1> DEFINE n == DataIntervalCount(rd)
           s == [i \in IntervalsOfData |-> i]
           q == FoldLeft(VerifyInterval, r, s)
<1>1. DOMAIN s = 1 .. n /\ (\A i \in 1 .. n : s[i] = i) /\ n \in Nat
  BY IntervalsAreNumbers DEF IntervalsOfData
<1> HIDE DEF s
<1>2. PICK h : Runs(h, "intervals", r, n, s) /\ q = h[n]  BY <1>1, IntervalsLoop
<1>3. \A k \in 1 .. n : \A x : Fine(rd, o, x) => Advances(rd, o, x, Step("intervals", x, s[k]))
  BY <1>1, VerifyIntervalAdvances DEF Step
<1>4. Advances(rd, o, r, q)  BY <1>1, <1>2, <1>3, LoopAdvances
<1>5. t = Reports(q, "MissingPacket", Missing(q))  BY DEF TellsMissing, s
<1> HIDE DEF q
<1>6. Ready(rd, q) /\ Honest(rd, o, q) /\ IsReceiver(q)  BY <1>4 DEF Advances, Fine, Ready
<1>7. Honest(rd, o, t) /\ Grows(rd, q, t) /\ \A p \in Missing(q) : Reported(t, "MissingPacket", p)
  BY <1>5, <1>6, KeepsTold
<1>8. Judges(rd, q, t)  BY <1>5, <1>6, ReportsAside, AsideJudges
<1>9. Ready(rd, t) /\ t.base = q.base  BY <1>6, <1>8, JudgesReady DEF Judges
<1>10. \A p \in 1 .. rd.total : t.base[p] = <<>> => Reported(t, "MissingPacket", p)
  BY <1>7, <1>9 DEF Missing, Packets
<1> QED  BY <1>4, <1>7, <1>9, <1>10, GrowsTwice DEF Advances, Fine

\* The result that ends the round leaves what is told.
LEMMA ResultStays ==
    ASSUME NEW o, NEW r, Shaped(rd), IsReceiver(r), Honest(rd, o, r), NEW status, NEW s, s = Result(r, status)
    PROVE  Honest(rd, o, s) /\ Grows(rd, r, s) /\ s.base = r.base /\ s.reports = r.reports
           /\ s.result.status = status
<1> DEFINE result ==
             [status |-> status, received |-> rd.total - Cardinality(Missing(r)),
              authenticated |-> Cardinality(Counted(r, "passed")),
              failed |-> Cardinality(Counted(r, "failed")),
              missing |-> Cardinality(Missing(r)), payload |-> Recovered(r, status),
              comparable |-> status = "Completed" /\ r.eligible /\ PathEligible(r)]
<1>1. s = [r EXCEPT !.result = result]  BY DEF Result
<1>2. result.status = status  OBVIOUS
<1> HIDE DEF result
<1>3. /\ s.base = r.base /\ s.copies = r.copies /\ s.keys = r.keys /\ s.verified = r.verified
      /\ s.groups = r.groups /\ s.reports = r.reports /\ s.result = result
  BY <1>1 DEF IsReceiver, ReceiverFields
<1>4. Honest(rd, o, s) /\ Grows(rd, r, s)  BY <1>3, BesideHonest
<1> QED  BY <1>2, <1>3, <1>4

LEMMA UnjudgedTold ==
    ASSUME NEW w, NEW r, r.result = NoResult
    PROVE  MissingTold(w, r)
  BY DEF MissingTold, RoundJudged, NoResult

\* The walk down the chain.
LEMMA KeyProcessedHonest ==
    ASSUME NEW o \in Nat, NEW r, Shaped(rd), Separates(rd.shape), Open(rd, r), Honest(rd, o, r),
           NEW interval \in Nat, interval <= o, NEW key, NEW u, u = KeyProcessed(r, interval, key)
    PROVE  Honest(rd, o, u) /\ Grows(rd, r, u) /\ MissingTold(rd, u)
<1> DEFINE n == DataIntervalCount(rd)
           index == interval - rd.delay
           s == Learnt(r, index)
<1>1. n \in Nat \ {0} /\ rd.delay \in Nat  BY IntervalsAreNumbers DEF Shaped
<1>2. Fine(rd, o, r) /\ IsReceiver(r) /\ r.result = NoResult  BY DEF Fine, Open, Ready
<1>3. CASE ~ KeyFits(interval, key)
  BY <1>2, <1>3, BesideHonest, UnjudgedTold DEF KeyProcessed, IsReceiver, ReceiverFields
<1>4. CASE KeyFits(interval, key)
 <2>1. interval > rd.delay /\ index <= n /\ KeyIndex(interval) = index
   BY <1>4 DEF KeyFits, KeyIndex
 <2>2. index \in Nat /\ index + rd.delay <= o  BY <1>1, <2>1
 <2>3. u = AfterKey(s, index)  BY <1>4, <2>1 DEF KeyProcessed
 <2> HIDE DEF index
 <2>4. Advances(rd, o, r, s)  BY <1>2, <2>1, <2>2, LearntAdvances
 <2>5. s.result = NoResult  BY <1>1, <1>2, <2>1, <2>2, LearntJudges DEF Fine, Judges
 <2> HIDE DEF s
 <2>6. CASE index # n  BY <2>3, <2>4, <2>5, <2>6, UnjudgedTold DEF AfterKey, Advances, Fine
 <2>7. CASE index = n
  <3> DEFINE t == TellsMissing(FoldLeft(VerifyInterval, s, [i \in IntervalsOfData |-> i]))
  <3>1. u = Result(t, Outcome(t))  BY <2>3, <2>7 DEF AfterKey, Finalized, Concluded
  <3>2. /\ Advances(rd, o, s, t)
        /\ \A p \in 1 .. rd.total : t.base[p] = <<>> => Reported(t, "MissingPacket", p)
    BY <2>4, LastWalkAdvances DEF Advances
  <3> HIDE DEF t
  <3>3. Honest(rd, o, t) /\ IsReceiver(t) /\ Grows(rd, s, t) /\ Grows(rd, r, s)
    BY <2>4, <3>2 DEF Advances, Fine, Ready
  <3>4. Honest(rd, o, u) /\ Grows(rd, t, u) /\ u.base = t.base /\ u.reports = t.reports
    BY <3>1, <3>3, ResultStays
  <3>5. MissingTold(rd, u)  BY <3>2, <3>4 DEF MissingTold, Reported
  <3> QED  BY <3>3, <3>4, <3>5, GrowsTwice
 <2> QED  BY <2>6, <2>7
<1> QED  BY <1>3, <1>4

\* A packet whose key cannot be on the air yet.
Early(w, r, p) == \A i \in r.keys : p \notin PacketsIn(w, i)

LEMMA EarlyIs ==
    ASSUME NEW w, Shaped(w), NEW o, NEW r, Aired(w, o, r), NEW p, NEW interval \in Nat,
           interval = ExpectedInterval(w, p), o \in Nat, o < interval + w.delay
    PROVE  Early(w, r, p)
<1> SUFFICES ASSUME NEW i \in r.keys, p \in PacketsIn(w, i) PROVE FALSE  BY DEF Early
<1>1. i \in Nat \ {0} /\ i + w.delay <= o  BY DEF Aired
<1>2. ExpectedInterval(w, p) = i  BY <1>1, InInterval
<1>3. w.delay \in Nat  BY DEF Shaped
<1> QED  BY <1>1, <1>2, <1>3

LEMMA OneReportTold ==
    ASSUME NEW w, Shaped(w), NEW o, NEW r, Honest(w, o, r), IsReceiver(r),
           NEW kind, NEW p, NEW s, s = OneReport(r, kind, p)
    PROVE  Honest(w, o, s) /\ Grows(w, r, s) /\ Reported(s, kind, p)
  BY BesideHonest DEF OneReport, IsReceiver, ReceiverFields, Reported

\* The copies of a packet: none is lost, and each stands as it was sent.
Longer(w, r, p, q) ==
    /\ IsSequence(q) /\ \A n \in 1 .. Len(q) : CopyOK(w, p, q[n])
    /\ Len(r.copies[p]) <= Len(q) /\ Len(q) \in Nat
    /\ \A n \in 1 .. Len(r.copies[p]) :
         q[n].attack = r.copies[p][n].attack /\ q[n].datagram = r.copies[p][n].datagram

WithCopies(r, p, q) == LET copies == [r.copies EXCEPT ![p] = q] IN [r EXCEPT !.copies = copies]

LEMMA CopiesHonest ==
    ASSUME NEW w, Shaped(w), NEW o, NEW r, Honest(w, o, r), IsReceiver(r), NEW p \in 1 .. w.total,
           Early(w, r, p), NEW q, Longer(w, r, p, q),
           NEW s, s = WithCopies(r, p, q)
    PROVE  Honest(w, o, s) /\ Grows(w, r, s) /\ s.copies[p] = q /\ IsReceiver(s)
<1> DEFINE copies == [r.copies EXCEPT ![p] = q]
<1>3. s = [r EXCEPT !.copies = copies]  BY DEF WithCopies
<1>0. /\ IsSequence(q) /\ \A n \in 1 .. Len(q) : CopyOK(w, p, q[n])
      /\ Len(r.copies[p]) <= Len(q) /\ Len(q) \in Nat
      /\ \A n \in 1 .. Len(r.copies[p]) :
           q[n].attack = r.copies[p][n].attack /\ q[n].datagram = r.copies[p][n].datagram
  BY DEF Longer
<1>1. CopiesOK(w, r) /\ r.keys \subseteq 1 .. DataIntervalCount(w)  BY DEF Honest, Aired
<1>2. copies[p] = q /\ DOMAIN copies = 1 .. w.total /\ \A x \in 1 .. w.total : x # p => copies[x] = r.copies[x]
  BY <1>1 DEF CopiesOK
<1> HIDE DEF copies
<1>4. /\ s.base = r.base /\ s.copies = copies /\ s.keys = r.keys /\ s.verified = r.verified
      /\ s.groups = r.groups /\ s.reports = r.reports /\ IsReceiver(s)
  BY <1>3 DEF IsReceiver, ReceiverFields
<1>5. CopiesOK(w, s)  BY <1>0, <1>1, <1>2, <1>4 DEF CopiesOK
<1>6. Unforged(w, s)  BY <1>4 DEF Honest, Unforged
<1>7. ASSUME NEW i \in r.keys, NEW x \in PacketsIn(w, i) PROVE SamePacket(r, s, x)
  BY <1>1, <1>2, <1>4, <1>7, InInterval DEF Early, SamePacket, SameCopies
<1>8. Honest(w, o, s)  BY <1>4, <1>5, <1>6, <1>7, HonestStays
<1>9. ASSUME NEW x \in 1 .. w.total, HasForged(w, r, x) PROVE HasForged(w, s, x)
 <2>1. CASE x # p  BY <1>2, <1>4, <1>9, <2>1 DEF HasForged
 <2>2. CASE x = p
  <3>1. PICK n \in 1 .. Len(r.copies[p]) : r.copies[p][n].attack /\ IsForged(w, p, r.copies[p][n].datagram)
    BY <1>9, <2>2 DEF HasForged
  <3>2. n \in 1 .. Len(q) /\ q[n].attack /\ IsForged(w, p, q[n].datagram)
   <4>1. IsSequence(r.copies[p])  BY <1>1 DEF CopiesOK
   <4>2. Len(r.copies[p]) \in Nat
    <5>1. PICK S : r.copies[p] \in Seq(S)  BY <4>1 DEF IsSequence
    <5> QED  BY <5>1, LenProperties
   <4> QED  BY <1>0, <3>1, <4>2
  <3>3. s.copies[x] = q  BY <1>2, <1>4, <2>2
  <3> QED  BY <2>2, <3>2, <3>3 DEF HasForged
 <2> QED  BY <2>1, <2>2
<1>10. Grows(w, r, s)  BY <1>4, <1>9 DEF Grows
<1> QED  BY <1>2, <1>4, <1>8, <1>10

\* A version already kept has come again.
Recounted(r, p, n) == [r EXCEPT !.copies[p][n].count = @ + 1]

LEMMA CountedHonest ==
    ASSUME NEW w, Shaped(w), NEW o, NEW r, Honest(w, o, r), IsReceiver(r), NEW p \in 1 .. w.total,
           Early(w, r, p), NEW place \in 1 .. Len(r.copies[p]), NEW s, s = Recounted(r, p, place)
    PROVE  Honest(w, o, s) /\ Grows(w, r, s) /\ IsReceiver(s)
<1> DEFINE c == r.copies[p]
           x == c[place].count + 1
           d == [c[place] EXCEPT !.count = x]
           q == [c EXCEPT ![place] = d]
<1>0. s = [r EXCEPT !.copies = [r.copies EXCEPT ![p] = q]]  BY DEF Recounted
<1>1. /\ IsSequence(c) /\ \A n \in 1 .. Len(c) : CopyOK(w, p, c[n])  BY DEF Honest, CopiesOK
<1>2. PICK S : c \in Seq(S)  BY <1>1 DEF IsSequence
<1>3. CopyOK(w, p, c[place])  BY <1>1
<1>4. d.attack = c[place].attack /\ d.datagram = c[place].datagram /\ DOMAIN d = DOMAIN c[place]
  BY <1>3 DEF CopyOK
<1>5. CopyOK(w, p, d)  BY <1>3, <1>4 DEF CopyOK
<1> HIDE DEF c, d
<1>6. Len(c) \in Nat /\ DOMAIN c = 1 .. Len(c) /\ place \in 1 .. Len(c)  BY <1>2 DEF c
<1> DEFINE S2 == S \cup {d}
<1>7. c \in Seq(S2) /\ d \in S2  BY <1>2
<1> HIDE DEF S2
<1>8. q \in Seq(S2) /\ Len(q) = Len(c) /\ \A n \in 1 .. Len(c) : q[n] = IF n = place THEN d ELSE c[n]
  BY <1>6, <1>7, ExceptSeq
<1> HIDE DEF q
<1>9. IsSequence(q)  BY <1>8 DEF IsSequence
<1>10. \A n \in 1 .. Len(q) : CopyOK(w, p, q[n])  BY <1>1, <1>5, <1>8 DEF c
<1>11. \A n \in 1 .. Len(c) : q[n].attack = c[n].attack /\ q[n].datagram = c[n].datagram
  BY <1>4, <1>8 DEF c
<1>12. s = WithCopies(r, p, q)  BY <1>0 DEF WithCopies
<1>13. Len(r.copies[p]) <= Len(q) /\ Len(q) \in Nat  BY <1>6, <1>8 DEF c
<1>14. \A n \in 1 .. Len(r.copies[p]) :
         q[n].attack = r.copies[p][n].attack /\ q[n].datagram = r.copies[p][n].datagram
  BY <1>11 DEF c
<1>15. Longer(w, r, p, q)  BY <1>9, <1>10, <1>13, <1>14 DEF Longer
<1> QED  BY <1>12, <1>15, CopiesHonest

\* A new version is kept.
WithVersion(r, p, d, attack) == [r EXCEPT !.copies[p] = Append(@, Candidate(d, attack))]

LEMMA KeptHonest ==
    ASSUME NEW w, Shaped(w), NEW o, NEW r, Honest(w, o, r), IsReceiver(r), NEW p \in 1 .. w.total,
           Early(w, r, p), NEW d, AsSent(w, p, d), NEW attack \in BOOLEAN,
           d.blocks[1] = ForgedMessage(Message(w, p)) => attack,
           NEW s, s = WithVersion(r, p, d, attack)
    PROVE  /\ Honest(w, o, s) /\ Grows(w, r, s) /\ IsReceiver(s)
           /\ attack /\ IsForged(w, p, d) => HasForged(w, s, p)
<1> DEFINE c == r.copies[p]
           e == Candidate(d, attack)
           q == Append(c, e)
<1>1. /\ IsSequence(c) /\ \A n \in 1 .. Len(c) : CopyOK(w, p, c[n])  BY DEF Honest, CopiesOK
<1>2. PICK S : c \in Seq(S)  BY <1>1 DEF IsSequence
<1>3. e.attack = attack /\ e.datagram = d /\ DOMAIN e = {"datagram", "attack", "count", "status"}
  BY DEF Candidate
<1> HIDE DEF c, e
<1>4. CopyOK(w, p, e)  BY <1>3 DEF CopyOK
<1> DEFINE S2 == S \cup {e}
<1>5. c \in Seq(S2) /\ e \in S2  BY <1>2
<1> HIDE DEF S2
<1>6. /\ q \in Seq(S2) /\ Len(q) = Len(c) + 1 /\ Len(c) \in Nat /\ q[Len(c) + 1] = e
      /\ \A n \in 1 .. Len(c) : q[n] = c[n]
  BY <1>5, AppendProperties
<1> HIDE DEF q
<1>7. IsSequence(q)  BY <1>6 DEF IsSequence
<1>8. \A n \in 1 .. Len(q) : CopyOK(w, p, q[n])
 <2> SUFFICES ASSUME NEW n \in 1 .. Len(q) PROVE CopyOK(w, p, q[n])  OBVIOUS
 <2>1. n \in 1 .. Len(c) \/ n = Len(c) + 1  BY <1>6
 <2> QED  BY <1>1, <1>4, <1>6, <2>1 DEF c
<1>9. s = WithCopies(r, p, q)  BY DEF q, e, c, WithCopies, WithVersion
<1>10. Len(r.copies[p]) <= Len(q) /\ Len(q) \in Nat  BY <1>6 DEF c
<1>11. Honest(w, o, s) /\ Grows(w, r, s) /\ IsReceiver(s) /\ s.copies[p] = q
 <2>1. \A n \in 1 .. Len(r.copies[p]) :
         q[n].attack = r.copies[p][n].attack /\ q[n].datagram = r.copies[p][n].datagram
   BY <1>6 DEF c
 <2>2. Longer(w, r, p, q)  BY <1>7, <1>8, <1>10, <2>1 DEF Longer
 <2>3. Honest(w, o, s) /\ Grows(w, r, s) /\ IsReceiver(s)  BY <1>9, <2>2, CopiesHonest
 <2>4. s.copies[p] = q
  <3>1. p \in DOMAIN r.copies  BY DEF Honest, CopiesOK
  <3> DEFINE copies == [r.copies EXCEPT ![p] = q]
  <3>2. s = [r EXCEPT !.copies = copies] /\ copies[p] = q  BY <1>9, <3>1 DEF WithCopies
  <3> HIDE DEF copies
  <3>3. s.copies = copies  BY <3>2 DEF IsReceiver, ReceiverFields
  <3> QED  BY <3>2, <3>3
 <2> QED  BY <2>3, <2>4
<1>12. attack /\ IsForged(w, p, d) => HasForged(w, s, p)
 <2>1. Len(c) + 1 \in 1 .. Len(q) /\ q[Len(c) + 1].attack = attack /\ q[Len(c) + 1].datagram = d
   BY <1>3, <1>6
 <2> QED  BY <1>11, <2>1 DEF HasForged
<1> QED  BY <1>11, <1>12

\* A data datagram that can be read: only the attack node's is forged.
Readable(w, d, attack) ==
    /\ d.index \in 1 .. w.total /\ AsSent(w, d.index, d) /\ attack \in BOOLEAN
    /\ d.blocks[1] = ForgedMessage(Message(w, d.index)) => attack

\* What its arrival makes of the receiver.
Answers(w, o, r, s, d, attack) ==
    /\ Honest(w, o, s) /\ Grows(w, r, s)
    /\ attack /\ IsForged(w, d.index, d) => CopyTold(s, d.index) \/ HasForged(w, s, d.index)

LEMMA KnownCounts ==
    ASSUME NEW w, Shaped(w), NEW o, NEW r, Honest(w, o, r), IsReceiver(r), NEW d, NEW attack,
           Readable(w, d, attack), Early(w, r, d.index),
           NEW place, place = KnownAt(r.copies[d.index], d), place # 0,
           NEW s, s = Recounted(r, d.index, place)
    PROVE  /\ Honest(w, o, s) /\ Grows(w, r, s) /\ IsReceiver(s)
           /\ IsForged(w, d.index, d) => HasForged(w, s, d.index)
<1> DEFINE p == d.index
           q == r.copies[p]
<1>1. p \in 1 .. w.total /\ IsSequence(q) /\ \A n \in 1 .. Len(q) : CopyOK(w, p, q[n])
  BY DEF Readable, Honest, CopiesOK
<1>2. place \in 1 .. Len(q) /\ q[place].datagram = d  BY <1>1, KnownIs
<1>4. Honest(w, o, s) /\ Grows(w, r, s) /\ IsReceiver(s)  BY <1>1, <1>2, CountedHonest
<1>5. IsForged(w, p, d) => HasForged(w, r, p)
 <2> SUFFICES ASSUME IsForged(w, p, d) PROVE HasForged(w, r, p)  OBVIOUS
 <2>1. d.blocks[1] = ForgedMessage(Message(w, p))  BY DEF IsForged
 <2>2. q[place].attack  BY <1>1, <1>2, <2>1 DEF CopyOK
 <2> QED  BY <1>2, <2>2 DEF HasForged
<1> QED  BY <1>1, <1>4, <1>5 DEF Grows

LEMMA AfterBaselineAnswers ==
    ASSUME NEW o, NEW r, Shaped(rd), Honest(rd, o, r), IsReceiver(r), NEW d, NEW attack,
           Readable(rd, d, attack), Early(rd, r, d.index), r.base[d.index] # <<>>,
           NEW s, s = AfterBaseline(r, d, attack)
    PROVE  Answers(rd, o, r, s, d, attack)
<1> DEFINE p == d.index
           place == KnownAt(r.copies[p], d)
           counted == Recounted(r, p, place)
           kept == WithVersion(r, p, d, attack)
<1>1. p \in 1 .. rd.total /\ AsSent(rd, p, d) /\ attack \in BOOLEAN
      /\ (d.blocks[1] = ForgedMessage(Message(rd, p)) => attack)
  BY DEF Readable
<1>2. \/ r.base[p][1] = d /\ s = OneReport(r, "ReplayDuplicate", p)
      \/ place # 0 /\ s = OneReport(counted, "ReplayDuplicate", p)
      \/ s = OneReport(r, "TamperedVariant", p)
      \/ s = OneReport(kept, "TamperedVariant", p)
  BY DEF AfterBaseline, KnownAt, Recounted, WithVersion
<1> HIDE DEF place
<1>3. CASE r.base[p][1] = d /\ s = OneReport(r, "ReplayDuplicate", p)
  BY <1>1, <1>3, OneReportTold DEF Honest, Unforged, IsForged, Answers
<1>4. CASE place # 0 /\ s = OneReport(counted, "ReplayDuplicate", p)
 <2>1. /\ Honest(rd, o, counted) /\ Grows(rd, r, counted) /\ IsReceiver(counted)
       /\ IsForged(rd, p, d) => HasForged(rd, counted, p)
   BY <1>4, KnownCounts DEF place
 <2> HIDE DEF counted
 <2>2. Honest(rd, o, s) /\ Grows(rd, counted, s)  BY <1>4, <2>1, OneReportTold
 <2>3. Grows(rd, r, s)  BY <2>1, <2>2, GrowsTwice
 <2>4. IsForged(rd, p, d) => HasForged(rd, s, p)  BY <1>1, <2>1, <2>2 DEF Grows
 <2> QED  BY <2>2, <2>3, <2>4 DEF Answers
<1>5. CASE s = OneReport(r, "TamperedVariant", p)  BY <1>5, OneReportTold DEF Answers, CopyTold
<1>6. CASE s = OneReport(kept, "TamperedVariant", p)
 <2>1. Honest(rd, o, kept) /\ Grows(rd, r, kept) /\ IsReceiver(kept)  BY <1>1, KeptHonest
 <2> HIDE DEF kept
 <2>2. Honest(rd, o, s) /\ Grows(rd, kept, s) /\ Reported(s, "TamperedVariant", p)
   BY <1>6, <2>1, OneReportTold
 <2>3. Grows(rd, r, s)  BY <2>1, <2>2, GrowsTwice
 <2> QED  BY <2>2, <2>3 DEF Answers, CopyTold
<1> QED  BY <1>2, <1>3, <1>4, <1>5, <1>6

LEMMA BeforeBaselineAnswers ==
    ASSUME NEW o, NEW r, Shaped(rd), Honest(rd, o, r), IsReceiver(r), NEW d,
           Readable(rd, d, TRUE), Early(rd, r, d.index),
           NEW s, s = BeforeBaseline(r, d)
    PROVE  Answers(rd, o, r, s, d, TRUE)
<1> DEFINE p == d.index
           place == KnownAt(r.copies[p], d)
           counted == Recounted(r, p, place)
           kept == WithVersion(r, p, d, TRUE)
<1>1. p \in 1 .. rd.total /\ AsSent(rd, p, d) /\ TRUE \in BOOLEAN  BY DEF Readable
<1>2. \/ place # 0 /\ s = counted
      \/ s = OneReport(r, "TamperedVariant", p)
      \/ s = kept
  BY DEF BeforeBaseline, KnownAt, Recounted, WithVersion
<1> HIDE DEF place
<1>3. CASE place # 0 /\ s = counted  BY <1>3, KnownCounts DEF place, Answers
<1>4. CASE s = OneReport(r, "TamperedVariant", p)  BY <1>4, OneReportTold DEF Answers, CopyTold
<1>5. CASE s = kept  BY <1>1, <1>5, KeptHonest DEF Answers
<1> QED  BY <1>2, <1>3, <1>4, <1>5

\* The packet takes its slot.
LEMMA SlotHonest ==
    ASSUME NEW w, NEW o, NEW r, Shaped(w), Honest(w, o, r), IsReceiver(r), NEW d,
           Readable(w, d, FALSE), Early(w, r, d.index), DOMAIN r.base = 1 .. w.total, NEW blocks,
           NEW s, s = [r EXCEPT !.base[d.index] = <<d>>, !.blocks = blocks]
    PROVE  Honest(w, o, s) /\ Grows(w, r, s)
<1> DEFINE p == d.index
           base == [r.base EXCEPT ![p] = <<d>>]
<1>0. s = [r EXCEPT !.base = base, !.blocks = blocks]  OBVIOUS
<1>1. p \in 1 .. w.total /\ d.blocks[1] # ForgedMessage(Message(w, p)) /\ r.keys \subseteq 1 .. DataIntervalCount(w)
  BY DEF Readable, Honest, Aired
<1>2. base[p] = <<d>> /\ \A x \in 1 .. w.total : x # p => base[x] = r.base[x]  BY <1>1
<1> HIDE DEF base
<1>3. /\ s.base = base /\ s.copies = r.copies /\ s.keys = r.keys /\ s.verified = r.verified
      /\ s.groups = r.groups /\ s.reports = r.reports
  BY <1>0 DEF IsReceiver, ReceiverFields
<1>4. CopiesOK(w, s)  BY <1>3 DEF Honest, CopiesOK
<1>5. Unforged(w, s)
 <2> SUFFICES ASSUME NEW x \in 1 .. w.total, s.base[x] # <<>>
              PROVE  s.base[x][1].blocks[1] # ForgedMessage(Message(w, x))
   BY DEF Unforged
 <2>1. CASE x = p
  <3>1. s.base[p] = <<d>>  BY <1>2, <1>3
  <3> QED  BY <1>1, <2>1, <3>1
 <2>2. CASE x # p  BY <1>2, <1>3, <2>2 DEF Honest, Unforged
 <2> QED  BY <2>1, <2>2
<1>6. \A x : SameCopies(r, s, x)  BY <1>3 DEF SameCopies
<1>7. ASSUME NEW i \in r.keys, NEW x \in PacketsIn(w, i) PROVE SamePacket(r, s, x)
  BY <1>1, <1>2, <1>3, <1>6, <1>7, InInterval DEF Early, SamePacket
<1>8. Honest(w, o, s)  BY <1>3, <1>4, <1>5, <1>7, HonestStays
<1> QED  BY <1>3, <1>6, <1>8, SameForged DEF Grows

LEMMA TakesSlotAnswers ==
    ASSUME NEW o \in Nat, NEW r, Shaped(rd), Separates(rd.shape), Open(rd, r), Honest(rd, o, r), NEW d,
           Readable(rd, d, FALSE), Early(rd, r, d.index), r.base[d.index] = <<>>,
           d.interval \in Nat, d.interval <= o, NEW s, s = TakesSlot(r, d)
    PROVE  Answers(rd, o, r, s, d, FALSE) /\ MissingTold(rd, s)
<1> DEFINE fields == Fields(d)
           blocks == r.blocks + DataCost(fields)
           taken == [r EXCEPT !.base[d.index] = <<d>>, !.blocks = blocks]
<1>1. \/ s = taken
      \/ s = KeyProcessed(taken, fields.interval, fields.key[1])
  BY DEF TakesSlot
<1>2. fields.interval = d.interval  BY DEF Fields, Decode
<1>3. d.index \in 1 .. rd.total /\ AsSent(rd, d.index, d)  BY DEF Readable
<1> DEFINE key == fields.key[1]
           interval == fields.interval
<1> HIDE DEF key, interval, fields, blocks
<1>4. Open(rd, taken)  BY <1>3, SlotOpen
<1>5. Honest(rd, o, taken) /\ Grows(rd, r, taken)  BY SlotHonest DEF Open, Ready, BaseOK
<1> HIDE DEF taken
<1>6. CASE s = taken  BY <1>4, <1>5, <1>6, UnjudgedTold DEF Open, Answers
<1>7. CASE s = KeyProcessed(taken, interval, key)
  BY <1>2, <1>4, <1>5, <1>7, KeyProcessedHonest, GrowsTwice DEF interval, Answers
<1> QED  BY <1>1, <1>6, <1>7 DEF interval, key

\* A datagram that arrives while interval onAir is sent.
Heard(d, attack) ==
    /\ Arriving(rd, d) /\ d.interval <= onAir /\ attack \in BOOLEAN
    /\ d.index # 0 /\ DecodeValid(rd, d) => Readable(rd, d, attack)

LEMMA ReceiveAnswers ==
    ASSUME NEW r, Shaped(rd), Separates(rd.shape), Good(rd, r), Honest(rd, onAir, r), MissingTold(rd, r),
           onAir \in Nat, NEW attack, NEW d, Heard(d, attack), NEW s, s = Receive(r, d, attack)
    PROVE  /\ Honest(rd, onAir, s) /\ Grows(rd, r, s) /\ MissingTold(rd, s)
           /\ r.result = NoResult /\ d.index # 0 /\ DecodeValid(rd, d) => Answers(rd, onAir, r, s, d, attack)
<1> DEFINE told == [r EXCEPT !.incomplete = TRUE]
<1>1. CASE r.result # NoResult  BY <1>1, GrowsNothing DEF Receive
<1>2. CASE r.result = NoResult
 <2>1. Open(rd, r) /\ IsReceiver(r) /\ Arriving(rd, d) /\ d.interval <= onAir /\ d.interval \in Nat
   BY <1>2, OpenIsGood DEF Good, Ready, Heard, Arriving
 <2>2. /\ Honest(rd, onAir, told) /\ Grows(rd, r, told) /\ IsReceiver(told) /\ Open(rd, told)
  <3>1. /\ told.base = r.base /\ told.copies = r.copies /\ told.keys = r.keys
        /\ told.verified = r.verified /\ told.groups = r.groups /\ told.reports = r.reports
    BY <2>1 DEF IsReceiver, ReceiverFields
  <3>2. Aside(r, told) /\ IsReceiver(told)  BY <2>1, IncompleteAside DEF Aside
  <3> HIDE DEF told
  <3>3. Honest(rd, onAir, told) /\ Grows(rd, r, told)  BY <3>1, BesideHonest
  <3> QED  BY <2>1, <3>2, <3>3, AsideOpen
 <2> HIDE DEF told
 <2>3. ASSUME NEW kind, NEW p, s = OneReport(told, kind, p)
       PROVE  Honest(rd, onAir, s) /\ Grows(rd, r, s) /\ MissingTold(rd, s) /\ Reported(s, kind, p)
  <3>1. Honest(rd, onAir, s) /\ Grows(rd, told, s) /\ Reported(s, kind, p)
    BY <2>2, <2>3, OneReportTold
  <3>2. Grows(rd, r, s)  BY <2>2, <3>1, GrowsTwice
  <3>3. Open(rd, s)  BY <2>2, <2>3, OneReportAside, AsideOpen
  <3>4. s.result = NoResult  BY <3>3 DEF Open
  <3> QED  BY <3>1, <3>2, <3>4, UnjudgedTold
 <2>4. CASE ~ DecodeValid(rd, d)  BY <1>2, <2>3, <2>4 DEF Receive, told
 <2>5. CASE DecodeValid(rd, d) /\ d.index = 0
  <3> DEFINE key == Fields(d).key[1]
  <3>1. \/ s = KeyProcessed(r, d.interval, key)
        \/ s = OneReport(told, "ProtocolError", 0)
    BY <1>2, <2>5 DEF Receive, TailArrives, TailKey, told
  <3> HIDE DEF key
  <3>2. CASE s = KeyProcessed(r, d.interval, key)  BY <2>1, <2>5, <3>2, KeyProcessedHonest
  <3>3. CASE s = OneReport(told, "ProtocolError", 0)  BY <2>3, <2>5, <3>3
  <3> QED  BY <3>1, <3>2, <3>3
 <2>6. CASE DecodeValid(rd, d) /\ d.index # 0
  <3>1. s = DataArrives(r, d, attack)  BY <1>2, <2>6 DEF Receive
  <3>2. Readable(rd, d, attack) /\ attack \in BOOLEAN  BY <2>6 DEF Heard
  <3>3. CASE ~ TimeSafe(d.interval)  BY <2>3, <3>1, <3>3 DEF DataArrives, told, Answers, CopyTold
  <3>4. CASE TimeSafe(d.interval)
   <4>1. Early(rd, r, d.index)  BY <2>1, <3>2, <3>4, EarlyIs DEF Readable, AsSent, TimeSafe, Honest
   <4>2. CASE r.base[d.index] # <<>>
    <5>1. s = AfterBaseline(r, d, attack)  BY <3>1, <3>4, <4>2 DEF DataArrives
    <5>2. Answers(rd, onAir, r, s, d, attack)  BY <2>1, <3>2, <4>1, <4>2, <5>1, AfterBaselineAnswers
    <5>3. Open(rd, s)  BY <2>1, <5>1, AfterBaselineOpen
    <5>4. MissingTold(rd, s)  BY <5>3, UnjudgedTold DEF Open
    <5> QED  BY <5>2, <5>4 DEF Answers
   <4>3. CASE r.base[d.index] = <<>> /\ attack
    <5>1. s = BeforeBaseline(r, d) /\ attack = TRUE  BY <3>1, <3>2, <3>4, <4>3 DEF DataArrives
    <5>2. Answers(rd, onAir, r, s, d, TRUE)  BY <2>1, <3>2, <4>1, <5>1, BeforeBaselineAnswers
    <5>3. Open(rd, s)  BY <2>1, <5>1, BeforeBaselineOpen
    <5>4. MissingTold(rd, s)  BY <5>3, UnjudgedTold DEF Open
    <5> QED  BY <5>1, <5>2, <5>4 DEF Answers
   <4>4. CASE r.base[d.index] = <<>> /\ ~ attack
     BY <2>1, <3>1, <3>2, <3>4, <4>1, <4>4, TakesSlotAnswers DEF DataArrives, Answers
   <4> QED  BY <4>2, <4>3, <4>4
  <3> QED  BY <3>3, <3>4
 <2> QED  BY <2>4, <2>5, <2>6
<1> QED  BY <1>1, <1>2

\* What the channel delivers is not what the attack node forges.
LEMMA MarksAreNotForged ==
    ASSUME NEW m
    PROVE  AlteredBlock("message") # ForgedMessage(m)
  BY MessageSizeAssumption DEF AlteredBlock, Outside, ForgedMessage

\* One block written over leaves the others.
LEMMA OverwrittenIs ==
    ASSUME NEW w, NEW d, OnTheAir(w, d), d.index # 0, NEW m, NEW v, NEW e, e = WithBlock(d, m, v)
    PROVE  /\ e.index = d.index /\ e.interval = d.interval
           /\ \A x \in 1 .. Len(d.blocks) : e.blocks[x] = IF x = m THEN v ELSE d.blocks[x]
<1> DEFINE b == d.blocks
           c == [b EXCEPT ![m] = v]
<1>1. IsDatagram(d) /\ IsSequence(b)  BY DEF OnTheAir, AsSent, Spread
<1>2. e = [d EXCEPT !.blocks = c]  BY DEF WithBlock
<1>3. PICK S : b \in Seq(S)  BY <1>1 DEF IsSequence
<1>4. DOMAIN b = 1 .. Len(b)  BY <1>3
<1>5. \A x \in 1 .. Len(b) : c[x] = IF x = m THEN v ELSE b[x]  BY <1>4
<1> HIDE DEF c, b
<1>6. e.index = d.index /\ e.interval = d.interval /\ e.blocks = c  BY <1>1, <1>2 DEF IsDatagram
<1> QED  BY <1>5, <1>6 DEF b

LEMMA SentIsHeard ==
    ASSUME AuthInv, phase = "sending", NEW n \in flight
    PROVE  Heard(SentNow(n), FALSE)
<1> DEFINE d == SentNow(n)
<1>1. Shaped(rd) /\ OnTheAir(rd, d) /\ d.interval = onAir  BY SentNowOnTheAir
<1>2. Buildable(rd) /\ onAir \in 1 .. FinalInterval(rd) /\ n \in DOMAIN Datagrams(rd, onAir)
  BY DEF AuthInv
<1>3. d.index # 0 => d.blocks[1] = Message(rd, d.index)  BY <1>1, <1>2, DataOnTheAir DEF SentNow
<1> HIDE DEF d
<1>4. d.index # 0 => d.blocks[1] # ForgedMessage(Message(rd, d.index))  BY <1>3, ForgedIsNot
<1>5. d.index # 0 => Readable(rd, d, FALSE)  BY <1>1, <1>4 DEF Readable, OnTheAir
<1>6. Arriving(rd, d) /\ d.interval <= onAir  BY <1>1, <1>2, OnTheAirArrives
<1> QED  BY <1>5, <1>6 DEF Heard, d

LEMMA CutIsHeard ==
    ASSUME AuthInv, phase = "sending", NEW n \in flight
    PROVE  Heard([SentNow(n) EXCEPT !.blocks = Front(@)], FALSE)
<1> DEFINE d == SentNow(n)
           b == Front(d.blocks)
           e == [d EXCEPT !.blocks = b]
<1>1. Shaped(rd) /\ OnTheAir(rd, d) /\ d.interval = onAir  BY SentNowOnTheAir
<1>2. Arriving(rd, e) /\ (d.index # 0 => ~ DecodeValid(rd, e))  BY <1>1, CutArrives
<1> HIDE DEF b, d
<1>3. e.interval = d.interval /\ e.index = d.index  BY <1>1 DEF OnTheAir, IsDatagram
<1>4. onAir \in 1 .. FinalInterval(rd)  BY DEF AuthInv
<1>5. [SentNow(n) EXCEPT !.blocks = Front(@)] = e  BY DEF d, b
<1> HIDE DEF e
<1>6. Heard(e, FALSE)
 <2>1. e.interval <= onAir /\ FALSE \in BOOLEAN  BY <1>1, <1>3, <1>4
 <2> QED  BY <1>2, <1>3, <2>1 DEF Heard
<1> QED  BY <1>5, <1>6

\* A datagram of which the channel wrote over a block that is not a forged message.
LEMMA OverwrittenIsHeard ==
    ASSUME AuthInv, phase = "sending", NEW n \in flight, NEW m, NEW v,
           SentNow(n).index # 0 => m # 1 \/ v = AlteredBlock("message"),
           NEW e, e = WithBlock(SentNow(n), m, v), OnTheAir(rd, e)
    PROVE  Heard(e, FALSE)
<1> DEFINE d == SentNow(n)
<1>1. Shaped(rd) /\ OnTheAir(rd, d) /\ d.interval = onAir  BY SentNowOnTheAir
<1>2. Buildable(rd) /\ onAir \in 1 .. FinalInterval(rd) /\ n \in DOMAIN Datagrams(rd, onAir)
  BY DEF AuthInv
<1>3. d.index # 0 => d.blocks[1] = Message(rd, d.index)  BY <1>1, <1>2, DataOnTheAir DEF SentNow
<1>4. d.index # 0 => m # 1 \/ v = AlteredBlock("message")  OBVIOUS
<1>5. e = WithBlock(d, m, v)  OBVIOUS
<1> HIDE DEF d
<1>6. e.index = d.index /\ e.interval = d.interval
  BY <1>1, <1>5 DEF OnTheAir, IsDatagram, WithBlock
<1>7. e.index # 0 => Readable(rd, e, FALSE)
 <2> SUFFICES ASSUME e.index # 0 PROVE Readable(rd, e, FALSE)  OBVIOUS
 <2> DEFINE p == d.index
 <2>1. p # 0 /\ e.index = p  BY <1>6
 <2>2. p \in 1 .. rd.total /\ AsSent(rd, p, e)  BY <2>1 DEF OnTheAir
 <2>3. 1 \in 1 .. Len(d.blocks)  BY <1>1, <2>1, BlockCounts DEF OnTheAir, AsSent, Spread
 <2>4. e.blocks[1] = IF 1 = m THEN v ELSE d.blocks[1]  BY <1>1, <1>5, <2>1, <2>3, OverwrittenIs
 <2>5. e.blocks[1] # ForgedMessage(Message(rd, p))
  <3>1. CASE m = 1  BY <1>4, <2>1, <2>4, <3>1, MarksAreNotForged
  <3>2. CASE m # 1  BY <1>3, <2>1, <2>4, <3>2, ForgedIsNot
  <3> QED  BY <3>1, <3>2
 <2> QED  BY <2>1, <2>2, <2>5 DEF Readable
<1>8. Arriving(rd, e) /\ e.interval <= onAir  BY <1>1, <1>2, <1>6, OnTheAirArrives
<1> QED  BY <1>7, <1>8 DEF Heard

LEMMA AlteredIsHeard ==
    ASSUME AuthInv, NEW n \in flight, NEW block \in {"message", "key", "tag", "tau"}, Alter(n, block)
    PROVE  \E e : rx' = Receive(rx, e, FALSE) /\ Heard(e, FALSE)
<1> DEFINE d == SentNow(n)
           p == d.index
           k == KeyBlocks(rd, p)
           t == TagBlocks(rd, p)
           taus == TauCount(rd.shape)
<1>1. phase = "sending"  BY DEF Alter
<1>2. Shaped(rd) /\ OnTheAir(rd, d) /\ d.interval = onAir  BY <1>1, SentNowOnTheAir
<1>3. k \in {0, 1} /\ t \in Nat  BY <1>2, BlockCounts
<1>4. taus \in Nat  BY <1>2, TausAre DEF Shaped
<1>5. p # 0 => Len(d.blocks) = (1 + k) + t  BY <1>2 DEF OnTheAir, AsSent, Spread
<1>6. rd.mode = "native" => t = 1  BY DEF TagBlocks
<1>7. rd.mode = "improved" /\ GroupEnd(rd, p) => t = taus + 1  BY DEF TagBlocks
<1>8. rd.mode \in {"native", "improved"}  BY <1>2 DEF Shaped
<1>9. CASE block = "message"  BY <1>1, <1>9, AlteredOnTheAir, OverwrittenIsHeard DEF Alter
<1>10. CASE block = "key"
 <2> DEFINE m == IF p = 0 THEN 1 ELSE 2
 <2>1. /\ p = 0 \/ CarriesKey(rd, onAir, p)
       /\ rx' = Receive(rx, WithBlock(d, m, Outside), FALSE)
   BY <1>10 DEF Alter
 <2>2. OnTheAir(rd, WithBlock(d, m, Outside))  BY <1>1, <2>1, AlteredOnTheAir
 <2>3. p # 0 => m # 1  OBVIOUS
 <2> HIDE DEF m
 <2>4. Heard(WithBlock(d, m, Outside), FALSE)  BY <1>1, <2>2, <2>3, OverwrittenIsHeard
 <2> QED  BY <2>1, <2>4
<1>11. CASE block = "tag"
 <2> DEFINE m == Len(d.blocks)
            v == AlteredBlock("tag")
 <2>1. /\ p # 0 /\ (rd.mode = "native" \/ GroupEnd(rd, p))
       /\ rx' = Receive(rx, WithBlock(d, m, v), FALSE)
   BY <1>11 DEF Alter
 <2>2. OnTheAir(rd, WithBlock(d, m, v))  BY <1>1, <2>1, AlteredOnTheAir
 <2>3. m # 1
  <3>1. t = 1 \/ t = taus + 1  BY <1>6, <1>7, <1>8, <2>1
  <3>2. Len(d.blocks) = (1 + k) + t  BY <1>5, <2>1
  <3> QED  BY <1>3, <1>4, <3>1, <3>2
 <2> HIDE DEF m, v
 <2>4. Heard(WithBlock(d, m, v), FALSE)  BY <1>1, <2>2, <2>3, OverwrittenIsHeard
 <2> QED  BY <2>1, <2>4
<1>12. CASE block = "tau"
 <2> DEFINE m == Len(d.blocks) - taus
            v == AlteredBlock("tau")
 <2>1. /\ p # 0 /\ (rd.mode = "native" \/ GroupEnd(rd, p)) /\ rd.mode = "improved"
       /\ rx' = Receive(rx, WithBlock(d, m, v), FALSE)
   BY <1>12 DEF Alter
 <2>2. GroupEnd(rd, p)  BY <2>1
 <2>3. OnTheAir(rd, WithBlock(d, m, v))  BY <1>1, <2>1, <2>2, AlteredOnTheAir
 <2>4. m # 1  BY <1>3, <1>4, <1>5, <1>7, <2>1, <2>2
 <2> HIDE DEF m, v
 <2>5. Heard(WithBlock(d, m, v), FALSE)  BY <1>1, <2>3, <2>4, OverwrittenIsHeard
 <2> QED  BY <2>1, <2>5
<1> QED  BY <1>9, <1>10, <1>11, <1>12

\* What the attack node sends.
LEMMA CopyIsHeard ==
    ASSUME AuthInv, NEW p \in Packets, NEW tampered \in BOOLEAN, Copy(p, tampered)
    PROVE  \E e : /\ rx' = Receive(rx, e, TRUE) /\ Heard(e, TRUE) /\ e.index = p /\ p # 0
                  /\ DecodeValid(rd, e) /\ (tampered => IsForged(rd, p, e))
<1> DEFINE i == ExpectedInterval(rd, p)
           n == p - FirstOf(rd, i) + 1
           heard == Datagrams(rd, i)[n]
           forged == WithBlock(heard, 1, ForgedMessage(heard.blocks[1]))
           e == IF tampered THEN forged ELSE heard
<1>1. phase = "sending" /\ i <= onAir /\ rx' = Receive(rx, e, TRUE)  BY DEF Copy
<1>2. Buildable(rd) /\ rd \in RoundSet /\ onAir \in 1 .. FinalInterval(rd) /\ p \in 1 .. rd.total
  BY <1>1 DEF AuthInv, Packets
<1>3. Shaped(rd)  BY <1>2, BuildableIsShaped
<1>4. OnTheAir(rd, heard)  BY <1>1, HeardOnTheAir
<1>5. i \in 1 .. DataIntervalCount(rd) /\ p \in PacketsIn(rd, i) /\ DataIntervalCount(rd) \in Nat
  BY <1>2, <1>3, IntervalOf
<1>6. FirstOf(rd, i) \in Nat \ {0} /\ LastOf(rd, i) \in Nat /\ FirstOf(rd, i) <= p /\ p <= LastOf(rd, i)
      /\ p \in Nat \ {0}
  BY <1>2, <1>3, <1>5, InInterval DEF Shaped
<1>7. i <= DataIntervalCount(rd) /\ i \in 1 .. FinalInterval(rd)  BY <1>3, <1>5 DEF FinalInterval, Shaped
<1>8. n \in DOMAIN Datagrams(rd, i)  BY <1>6, <1>7 DEF Datagrams, IntervalPackets
<1>9. FirstOf(rd, i) + n - 1 = p  BY <1>6
<1> HIDE DEF n
<1>10. /\ heard.index = p
       /\ heard.blocks[1] = Message(rd, p)
       /\ \A j \in 1 .. TagBlocks(rd, p) : heard.blocks[(1 + KeyBlocks(rd, p)) + j] = Tags(rd, p)[j]
  BY <1>2, <1>3, <1>6, <1>7, <1>8, <1>9, DataOnTheAir
<1> HIDE DEF heard
<1>11. AsSent(rd, p, heard) /\ heard.interval = i  BY <1>4, <1>6, <1>10 DEF OnTheAir, AsSent
<1>12. Len(heard.blocks) = (1 + KeyBlocks(rd, p)) + TagBlocks(rd, p)  BY <1>11 DEF AsSent, Spread
<1>13. KeyBlocks(rd, p) \in {0, 1} /\ TagBlocks(rd, p) \in Nat  BY <1>3, BlockCounts
<1>14. /\ forged.index = p /\ forged.interval = i /\ OnTheAir(rd, forged)
       /\ \A x \in 1 .. Len(heard.blocks) :
            forged.blocks[x] = IF x = 1 THEN ForgedMessage(Message(rd, p)) ELSE heard.blocks[x]
  BY <1>3, <1>4, <1>6, <1>10, <1>11, <1>13, OverwrittenOnTheAir, OverwrittenIs
<1> HIDE DEF forged
<1>15. IsForged(rd, p, forged)
 <2>1. AsSent(rd, p, forged)  BY <1>6, <1>14 DEF OnTheAir
 <2>2. forged.blocks[1] = ForgedMessage(Message(rd, p))  BY <1>12, <1>13, <1>14
 <2>3. ASSUME NEW j \in 1 .. TagBlocks(rd, p)
       PROVE  forged.blocks[(1 + KeyBlocks(rd, p)) + j] = Tags(rd, p)[j]
  <3>1. (1 + KeyBlocks(rd, p)) + j \in 1 .. Len(heard.blocks) /\ (1 + KeyBlocks(rd, p)) + j # 1
    BY <1>12, <1>13
  <3> QED  BY <1>10, <1>14, <3>1
 <2> QED  BY <2>1, <2>2, <2>3 DEF IsForged
<1>16. /\ OnTheAir(rd, e) /\ e.index = p /\ e.interval = i /\ AsSent(rd, p, e)
       /\ tampered => IsForged(rd, p, e)
  BY <1>4, <1>10, <1>11, <1>14, <1>15 DEF IsForged
<1> HIDE DEF e
<1>17. DecodeValid(rd, e) /\ Arriving(rd, e)  BY <1>3, <1>6, <1>16, SentIsReadable, OnTheAirArrives
<1>18. Readable(rd, e, TRUE) /\ e.interval <= onAir  BY <1>1, <1>2, <1>16 DEF Readable
<1>19. Heard(e, TRUE)  BY <1>17, <1>18 DEF Heard
<1> QED  BY <1>1, <1>6, <1>16, <1>17, <1>19

\* A forged copy has been told, or waits for its interval's verdict.
CopiesTold(w, r, copies) ==
    \A c \in copies : c.tampered =>
      c.packet \in 1 .. w.total /\ (CopyTold(r, c.packet) \/ HasForged(w, r, c.packet))

\* The inductive invariant of what is told.
TellingInv ==
    /\ phase = "refused" => rx.result = NoResult
    /\ Honest(rd, onAir, rx) /\ MissingTold(rd, rx)
    /\ CopiesTold(rd, rx, harm.copies)

LEMMA NothingToTell == AuthInit => TellingInv
<1> SUFFICES ASSUME AuthInit PROVE TellingInv  OBVIOUS
<1> DEFINE r == NothingReceived
<1>1. rx = r /\ harm.copies = {}  BY DEF AuthInit
<1>2. /\ r.result = NoResult /\ r.verified = {} /\ r.keys = {} /\ r.groups = {}
      /\ DOMAIN r.copies = 1 .. rd.total
      /\ \A p \in 1 .. rd.total : r.base[p] = <<>> /\ r.copies[p] = <<>>
  BY DEF NothingReceived, Packets
<1> HIDE DEF r
<1>3. IsSequence(<<>>) /\ Len(<<>>) = 0  BY DEF IsSequence
<1>4. CopiesOK(rd, r)  BY <1>2, <1>3 DEF CopiesOK
<1>5. Honest(rd, onAir, r)  BY <1>2, <1>4 DEF Honest, Unforged, Aired, VerifiedTold, GroupsTold
<1> QED  BY <1>1, <1>2, <1>5, UnjudgedTold DEF TellingInv, CopiesTold

LEMMA CopiesStayTold ==
    ASSUME NEW w, NEW r, NEW s, Grows(w, r, s), NEW copies, CopiesTold(w, r, copies)
    PROVE  CopiesTold(w, s, copies)
  BY DEF CopyTold, Reported, Grows, CopiesTold

LEMMA HeardKeepsTelling ==
    ASSUME AuthInv, TellingInv, phase = "sending", Onward, Separates(rd.shape),
           NEW d, NEW attack, Heard(d, attack), rx' = Receive(rx, d, attack),
           \A c \in harm'.copies : c \in harm.copies \/
             (c.tampered => /\ rx.result = NoResult /\ DecodeValid(rd, d) /\ d.index # 0
                            /\ attack /\ IsForged(rd, d.index, d) /\ c.packet = d.index)
    PROVE  TellingInv'
<1> DEFINE s == Receive(rx, d, attack)
<1>1. Shaped(rd) /\ Good(rd, rx) /\ onAir \in 1 .. FinalInterval(rd)
  BY BuildableIsShaped DEF AuthInv
<1>2. onAir \in Nat  BY <1>1
<1>3. Honest(rd, onAir, rx) /\ MissingTold(rd, rx) /\ CopiesTold(rd, rx, harm.copies)
  BY DEF TellingInv
<1>4. /\ Honest(rd, onAir, s) /\ Grows(rd, rx, s) /\ MissingTold(rd, s)
      /\ rx.result = NoResult /\ d.index # 0 /\ DecodeValid(rd, d) => Answers(rd, onAir, rx, s, d, attack)
  BY <1>1, <1>2, <1>3, ReceiveAnswers
<1>5. rx' = s  OBVIOUS
<1> HIDE DEF s
<1>6. CopiesTold(rd, s, harm.copies)  BY <1>3, <1>4, CopiesStayTold
<1>7. CopiesTold(rd, s, harm'.copies)
 <2> SUFFICES ASSUME NEW c \in harm'.copies, c.tampered
              PROVE  c.packet \in 1 .. rd.total /\ (CopyTold(s, c.packet) \/ HasForged(rd, s, c.packet))
   BY DEF CopiesTold
 <2>1. CASE c \in harm.copies  BY <1>6, <2>1 DEF CopiesTold
 <2>2. CASE c \notin harm.copies  BY <1>4, <2>2 DEF Heard, Readable, Answers
 <2> QED  BY <2>1, <2>2
<1>8. rd' = rd /\ onAir' = onAir /\ phase' = phase  BY DEF Onward
<1> QED  BY <1>4, <1>5, <1>7, <1>8 DEF TellingInv

\* What the receiver does not see.
LEMMA UnseenKeepsTelling ==
    ASSUME TellingInv, rd' = rd, rx' = rx, harm'.copies = harm.copies, onAir' = onAir,
           phase' = "refused" => phase = "refused"
    PROVE  TellingInv'
  BY DEF TellingInv

LEMMA NextIntervalKeepsTelling ==
    ASSUME AuthInv, TellingInv, FollowingInterval
    PROVE  TellingInv'
<1>1. /\ phase = "sending" /\ rd' = rd /\ rx' = rx /\ harm' = harm /\ Buildable(rd)
      /\ onAir \in 1 .. FinalInterval(rd) /\ rd \in RoundSet /\ phase' # "refused"
  BY DEF AuthInv, FollowingInterval
<1>2. onAir \in Nat /\ onAir' \in {onAir, onAir + 1}  BY <1>1 DEF FollowingInterval
<1>3. Shaped(rd)  BY <1>1, BuildableIsShaped
<1>4. Aired(rd, onAir', rx)  BY <1>2, <1>3 DEF TellingInv, Honest, Aired, Shaped
<1>5. Honest(rd, onAir', rx)  BY <1>4 DEF TellingInv, Honest
<1> QED  BY <1>1, <1>5 DEF TellingInv

LEMMA TimeoutKeepsTelling ==
    ASSUME AuthInv, TellingInv, Timeout
    PROVE  TellingInv'
<1> DEFINE t == TellsMissing(rx)
           s == Result(t, "VerificationTimeout")
<1>1. /\ phase = "over" /\ rx.result = NoResult /\ rd' = rd /\ phase' = phase /\ onAir' = onAir
      /\ harm' = harm /\ rx' = s
  BY DEF Timeout
<1>2. Shaped(rd) /\ IsReceiver(rx) /\ Honest(rd, onAir, rx) /\ CopiesTold(rd, rx, harm.copies)
  BY <1>1, BuildableIsShaped DEF AuthInv, Good, Ready, TellingInv
<1>3. Honest(rd, onAir, t) /\ Grows(rd, rx, t)  BY <1>2, KeepsTold DEF TellsMissing
<1>4. IsReceiver(t)  BY <1>2, ReportsAside DEF TellsMissing, Aside
<1> HIDE DEF t
<1>5. Honest(rd, onAir, s) /\ Grows(rd, t, s) /\ s.result.status = "VerificationTimeout"
  BY <1>2, <1>3, <1>4, ResultStays
<1> HIDE DEF s
<1>6. CopiesTold(rd, s, harm.copies)  BY <1>2, <1>3, <1>5, CopiesStayTold
<1>7. MissingTold(rd, s)  BY <1>5 DEF MissingTold, RoundJudged
<1> QED  BY <1>1, <1>5, <1>6, <1>7 DEF TellingInv

LEMMA TellingStep ==
    ASSUME \A s \in Shapes : Separates(s)
    PROVE  AuthInv /\ TellingInv /\ [AuthNext]_authVars => TellingInv'
<1> SUFFICES ASSUME AuthInv, TellingInv, [AuthNext]_authVars PROVE TellingInv'  OBVIOUS
<1>0. phase = "sending" => Separates(rd.shape)  BY BuildableIsShaped DEF AuthInv, Shaped
<1>1. CASE Start  BY <1>1, UnseenKeepsTelling DEF Start
<1>2. ASSUME NEW n \in flight, Arrive(n) PROVE TellingInv'
  BY <1>0, <1>2, SentIsHeard, HeardKeepsTelling DEF Arrive, Onward
<1>3. ASSUME NEW n \in flight, Lose(n) PROVE TellingInv'  BY <1>3, UnseenKeepsTelling DEF Lose
<1>4. ASSUME NEW n \in flight, Cut(n) PROVE TellingInv'
 <2>1. /\ phase = "sending" /\ Onward /\ harm' = [harm EXCEPT !.malformed = TRUE]
       /\ rx' = Receive(rx, [SentNow(n) EXCEPT !.blocks = Front(@)], FALSE)
   BY <1>4 DEF Cut, Onward
 <2>2. Heard([SentNow(n) EXCEPT !.blocks = Front(@)], FALSE)  BY <2>1, CutIsHeard
 <2>3. harm'.copies = harm.copies  BY <2>1
 <2> QED  BY <1>0, <2>1, <2>2, <2>3, HeardKeepsTelling
<1>5. ASSUME NEW n \in flight, NEW block \in {"message", "key", "tag", "tau"}, Alter(n, block)
      PROVE  TellingInv'
 <2>1. /\ phase = "sending" /\ Onward
       /\ harm' = IF block = "key"
                  THEN [harm EXCEPT !.keys = @ \cup {onAir}]
                  ELSE [harm EXCEPT !.altered = @ \cup {SentNow(n).index}]
   BY <1>5 DEF Alter, Onward
 <2>2. PICK e : rx' = Receive(rx, e, FALSE) /\ Heard(e, FALSE)  BY <1>5, AlteredIsHeard
 <2>3. harm'.copies = harm.copies  BY <2>1
 <2> QED  BY <1>0, <2>1, <2>2, <2>3, HeardKeepsTelling
<1>6. ASSUME NEW p \in Packets, NEW tampered \in BOOLEAN, Copy(p, tampered) PROVE TellingInv'
 <2> DEFINE c == [packet |-> p, tampered |-> tampered,
                  late |-> ~TimeSafe(ExpectedInterval(rd, p)), early |-> rx.base[p] = <<>>]
            copied == harm.copied + 1
            copies == harm.copies \cup {c}
 <2>1. /\ phase = "sending" /\ Onward /\ rx.result = NoResult
       /\ harm' = [harm EXCEPT !.copied = copied, !.copies = copies]
   BY <1>6 DEF Copy, Onward
 <2>2. c.packet = p /\ c.tampered = tampered  OBVIOUS
 <2>3. PICK e : /\ rx' = Receive(rx, e, TRUE) /\ Heard(e, TRUE) /\ e.index = p /\ p # 0
                /\ DecodeValid(rd, e) /\ (tampered => IsForged(rd, p, e))
   BY <1>6, CopyIsHeard
 <2> HIDE DEF c, copied
 <2>4. harm'.copies = copies \/ harm'.copies = harm.copies  BY <2>1
 <2>5. \A x \in harm'.copies : x \in harm.copies \/
         (x.tampered => /\ rx.result = NoResult /\ DecodeValid(rd, e) /\ e.index # 0
                        /\ TRUE /\ IsForged(rd, e.index, e) /\ x.packet = e.index)
   BY <2>1, <2>2, <2>3, <2>4
 <2> QED  BY <1>0, <2>1, <2>3, <2>5, HeardKeepsTelling
<1>7. CASE FollowingInterval  BY <1>7, NextIntervalKeepsTelling
<1>8. CASE Timeout  BY <1>8, TimeoutKeepsTelling
<1>9. CASE UNCHANGED authVars  BY <1>9, UnseenKeepsTelling DEF authVars
<1> QED  BY <1>1, <1>2, <1>3, <1>4, <1>5, <1>6, <1>7, <1>8, <1>9, Zenon DEF AuthNext

\* What is told at the end.
LEMMA TellingReports ==
    ASSUME AuthInv, TellingInv
    PROVE  HarmReported
<1>1. Honest(rd, onAir, rx) /\ MissingTold(rd, rx) /\ CopiesTold(rd, rx, harm.copies)
  BY DEF TellingInv
<1>2. \A p : Genuine(p) <=> Genuinely(rd, rx, p)  BY DEF Genuinely, Genuine, BaseSlot, Fields
<1>3. \A kind, p : Told(kind, p) <=> Reported(rx, kind, p)  BY DEF Told, Reported
<1>4. ASSUME RoundJudged(rx), NEW p \in 1 .. rd.total PROVE PacketTold(rd, rx, p)
 <2>1. phase # "refused"  BY <1>4 DEF TellingInv, RoundJudged, NoResult
 <2>2. Shaped(rd)  BY <2>1, BuildableIsShaped DEF AuthInv
 <2>3. rx.verified = 1 .. DataIntervalCount(rd)  BY <1>4 DEF AuthInv, Good, ResultGood
 <2>4. ExpectedInterval(rd, p) \in rx.verified /\ p \in PacketsIn(rd, ExpectedInterval(rd, p))
   BY <2>2, <2>3, IntervalOf
 <2> QED  BY <1>1, <2>4 DEF Honest, VerifiedTold
<1>5. HarmIsTold
 <2> SUFFICES ASSUME RoundJudged(rx), NEW p \in 1 .. rd.total
              PROVE  /\ rx.base[p] = <<>> => Told("MissingPacket", p)
                     /\ rx.base[p] # <<>> /\ ~Genuine(p) =>
                          \/ Told("MacFailed", p)
                          \/ Told("FastGroupFailed", GroupFirst(rd, p))
                          \/ Told("IncompleteGroupTags", GroupFirst(rd, p))
   BY Zenon DEF HarmIsTold, Packets
 <2>1. PacketTold(rd, rx, p)  BY <1>4
 <2>2. rx.base[p] = <<>> => Reported(rx, "MissingPacket", p)  BY <1>1 DEF MissingTold
 <2> QED  BY <1>2, <1>3, <2>1, <2>2, Zenon DEF PacketTold, HarmTold
<1>6. CopiesAreTold
 <2> SUFFICES ASSUME RoundJudged(rx), NEW c \in harm.copies, c.tampered
              PROVE  \E kind \in {"TamperedVariant", "UnverifiableMissingBaseline", "ReplayLate"} :
                       Told(kind, c.packet)
   BY Zenon DEF CopiesAreTold
 <2>1. c.packet \in 1 .. rd.total /\ (CopyTold(rx, c.packet) \/ HasForged(rd, rx, c.packet))
   BY <1>1 DEF CopiesTold
 <2>2. PacketTold(rd, rx, c.packet)  BY <1>4, <2>1
 <2>3. CopyTold(rx, c.packet)  BY <2>1, <2>2, Zenon DEF PacketTold
 <2> QED  BY <1>3, <2>3 DEF CopyTold
<1>7. LocatedIsHarmed
 <2> SUFFICES ASSUME NEW g \in rx.groups
              PROVE  LET group == g.first .. GroupLast(rd, g.first)
                         last == GroupLast(rd, g.first)
                         tagged == rx.base[last] # <<>> /\ BaseTags(rx, last) = Tags(rd, last)
                         copied == {p \in group : FirstAttack(rx, p) # 0
                                      /\ Fields(rx.copies[p][FirstAttack(rx, p)].datagram).message[1] # Message(rd, p)}
                         harmed == IF g.attack THEN copied ELSE {p \in group : ~Genuine(p)}
                     IN tagged /\ g.path = "fallback" =>
                          /\ harmed \subseteq g.located
                          /\ Cardinality(harmed) <= rd.shape.threshold => g.located = harmed
   BY Zenon DEF LocatedIsHarmed
 <2> DEFINE group == g.first .. GroupLast(rd, g.first)
            last == GroupLast(rd, g.first)
            tagged == rx.base[last] # <<>> /\ BaseTags(rx, last) = Tags(rd, last)
            copied == {p \in group : FirstAttack(rx, p) # 0
                         /\ Fields(rx.copies[p][FirstAttack(rx, p)].datagram).message[1] # Message(rd, p)}
            harmed == IF g.attack THEN copied ELSE {p \in group : ~Genuine(p)}
 <2>1. GroupFits(rd, rx, g)  BY <1>1 DEF Honest, GroupsTold
 <2>2. tagged => Tagged(rd, rx, last)  BY DEF Tagged, BaseTags, Fields
 <2>3. harmed = Damage(rd, rx, g)  BY <1>2 DEF Copied, Fields, Damage
 <2> HIDE DEF tagged, harmed, last
 <2>4. tagged /\ g.path = "fallback" => Locates(rd, harmed, g.located)
   BY <2>1, <2>2, <2>3, Zenon DEF GroupFits, last
 <2>5. tagged /\ g.path = "fallback" =>
         /\ harmed \subseteq g.located
         /\ Cardinality(harmed) <= rd.shape.threshold => g.located = harmed
   BY <2>4, Zenon DEF Locates
 <2> QED  BY <2>5, Zenon DEF tagged, harmed, last
<1> QED  BY <1>5, <1>6, <1>7 DEF HarmReported

\* If the matrices separate, whatever was done to the datagrams is reported, and of
\* the right packets, however many are altered, lost or copied: a missing packet, an
\* altered one and an imitated one have a failure of their own or their group's, and
\* what a group locates is what was harmed
\* (verifyNativeIntervalLocked, verifyImprovedIntervalLocked, finalizeLocked).
THEOREM HarmReportedHolds ==
    ASSUME \A s \in Shapes : Separates(s)
    PROVE  AuthSpec => []HarmReported
<1>1. AuthInv /\ TellingInv => HarmReported  BY TellingReports
<1>2. AuthInv /\ TellingInv /\ [AuthNext]_authVars => TellingInv'  BY TellingStep
<1>3. AuthSpec => []TellingInv  BY <1>2, NothingToTell, AuthInvHolds, PTL DEF AuthSpec
<1> QED  BY <1>1, <1>3, AuthInvHolds, PTL

-----------------------------------------------------------------------------
(* What a completed round amounts to: the payload, which the messages of a  *)
(* round give back.                                                         *)

\* The packets of a round in order.
LEMMA OrderIs ==
    ASSUME NEW N \in Nat, NEW n \in 1 .. N
    PROVE  InOrder(1 .. N, n) = n
<1>1. \A p \in 1 .. N : Cardinality({q \in 1 .. N : q <= p}) = p
 <2> SUFFICES ASSUME NEW p \in 1 .. N PROVE Cardinality({q \in 1 .. N : q <= p}) = p  OBVIOUS
 <2>1. {q \in 1 .. N : q <= p} = 1 .. p  OBVIOUS
 <2>2. Cardinality(1 .. p) = p  BY FS_Interval
 <2> QED  BY <2>1, <2>2
<1> DEFINE C(p) == Cardinality({q \in 1 .. N : q <= p})
<1>2. \A p \in 1 .. N : C(p) = p  BY <1>1
<1>3. InOrder(1 .. N, n) = CHOOSE p \in 1 .. N : C(p) = n  BY DEF InOrder
<1> HIDE DEF C
<1> QED  BY <1>2, <1>3

\* All packets have passed, with the messages of the sender.
AllGenuine(r) == Whole(r) /\ \A p \in 1 .. rd.total : Genuinely(rd, r, p)

LEMMA PassedAre ==
    ASSUME NEW r, rd.total \in Nat, AllGenuine(r), NEW messages, messages = PassedMessages(r)
    PROVE  /\ DOMAIN messages = 1 .. rd.total
           /\ messages = [n \in 1 .. rd.total |-> messages[n]]
           /\ \A n \in 1 .. rd.total : messages[n] = Message(rd, n)
<1> DEFINE N == rd.total
           all == Counted(r, "passed")
<1>1. all = 1 .. N  BY DEF AllGenuine, Whole, Packets
<1>2. Cardinality(all) = N  BY <1>1, FS_Interval
<1>3. messages = [n \in 1 .. N |-> BaseSlot(r, InOrder(all, n))[1]]  BY <1>2 DEF PassedMessages
<1>4. \A n \in 1 .. N : InOrder(all, n) = n  BY <1>1, OrderIs
<1>5. \A n \in 1 .. N : BaseSlot(r, n)[1] = Message(rd, n)
  BY DEF AllGenuine, Genuinely, BaseSlot, Fields
<1> HIDE DEF N, all
<1>6. DOMAIN messages = 1 .. N /\ messages = [n \in 1 .. N |-> messages[n]]  BY <1>3
<1>7. \A n \in 1 .. N : messages[n] = BaseSlot(r, InOrder(all, n))[1]  BY <1>3
<1>8. \A n \in 1 .. N : messages[n] = Message(rd, n)  BY <1>4, <1>5, <1>7
<1> QED  BY <1>6, <1>8 DEF N

\* They give the payload back.
LEMMA PayloadComesBack ==
    ASSUME NEW r, rd \in RoundSet, Buildable(rd), AllGenuine(r)
    PROVE  Recovered(r, "Completed") = rd.payload.bytes /\ rd.payload.bytes # <<>>
<1> DEFINE messages == PassedMessages(r)
           bytes == rd.payload.bytes
<1>1. /\ bytes \in Seq(Nat) /\ bytes # <<>> /\ rd.payload.kind \in {"text", "file"}
      /\ rd.payload.kind = "text" => Len(bytes) <= MessageSize /\ \A k \in DOMAIN bytes : bytes[k] # 0
      /\ rd.payload.kind = "file" => rd.total = FilePackets(bytes)
  BY RoundSetAssumption DEF Buildable, PayloadValid
<1>2. rd.total \in Nat \ {0}  BY BuildableIsShaped DEF Shaped
<1>3. /\ DOMAIN messages = 1 .. rd.total
      /\ messages = [n \in 1 .. rd.total |-> messages[n]]
      /\ \A n \in 1 .. rd.total : messages[n] = Message(rd, n)
  BY <1>2, PassedAre
<1> HIDE DEF messages
<1>4. CASE rd.payload.kind = "text"
 <2>1. Text(Padded(bytes)) = bytes  BY <1>1, <1>4, TextComesBack
 <2>2. \A n \in 1 .. rd.total : Text(messages[n]) = bytes  BY <1>3, <1>4, <2>1 DEF Message
 <2> DEFINE texts == {Text(messages[i]) : i \in DOMAIN messages}
 <2>3. texts = {bytes}
  <3>1. 1 \in 1 .. rd.total  BY <1>2
  <3> HIDE DEF bytes
  <3> QED  BY <1>3, <2>2, <3>1
 <2> HIDE DEF texts
 <2>4. Cardinality(texts) = 1 /\ (CHOOSE t \in texts : TRUE) = bytes  BY <2>3, FS_Singleton
 <2>5. RecoveredText(messages) = bytes  BY <2>4 DEF RecoveredText, texts
 <2>6. Recovered(r, "Completed") = RecoveredText(messages)  BY <1>4 DEF Recovered, messages
 <2> QED  BY <1>1, <2>5, <2>6
<1>5. CASE rd.payload.kind = "file"
 <2>1. \A n \in 1 .. rd.total : messages[n] \in Seq(Nat)
  <3> SUFFICES ASSUME NEW n \in 1 .. rd.total PROVE messages[n] \in Seq(Nat)  OBVIOUS
  <3>1. Message(rd, n) \in Seq(Nat)  BY <1>1, <1>5, FileSlices
  <3> QED  BY <1>3, <3>1
 <2>2. messages \in Seq(Seq(Nat)) /\ Len(messages) = rd.total
  <3> DEFINE N == rd.total
  <3>1. N \in Nat /\ messages \in [1 .. N -> Seq(Nat)]  BY <1>2, <1>3, <2>1
  <3> HIDE DEF N
  <3>2. messages \in Seq(Seq(Nat)) /\ Len(messages) = N  BY <3>1
  <3> QED  BY <3>2 DEF N
 <2>3. RecoveredFile(rd, messages) = bytes  BY <1>1, <1>3, <1>5, <2>2, FileComesBack
 <2>4. Recovered(r, "Completed") = RecoveredFile(rd, messages)  BY <1>5 DEF Recovered, messages
 <2> QED  BY <1>1, <2>3, <2>4
<1> QED  BY <1>1, <1>4, <1>5

(* A datagram that nobody touched, and what a verification makes of it.     *)

TagsIntact(w, r, p) ==
    \A j \in 1 .. TagBlocks(w, p) : Decode(w, r.base[p][1]).tags[j] = Tags(w, p)[j]

Intact(w, r, p) == Genuinely(w, r, p) /\ TagsIntact(w, r, p)

LEMMA NativePassesIntact ==
    ASSUME NEW r, Shaped(rd), rd.mode = "native", BaseOK(rd, r), NEW i \in Nat \ {0},
           NEW p \in PacketsIn(rd, i), r.base[p] # <<>>, NEW f, f = FirstOf(rd, i),
           NEW group, group = GroupWith(rd, f, Filled(r)),
           NEW macs, macs = [n \in DOMAIN group.slots |->
                               IF group.slots[n] = <<>> THEN NoMac ELSE BaseTags(r, f + n - 1)[1]]
    PROVE  NativePassed(group, macs, i, p - f + 1) <=> Intact(rd, r, p)
<1> DEFINE last == LastOf(rd, i)
           k == (p - f) + 1
           own == PacketMacSlots(group, i)
<1>1. /\ p \in 1 .. rd.total /\ f \in Nat \ {0} /\ last \in Nat /\ f <= p /\ p <= last /\ last <= rd.total
      /\ p \in Nat /\ p \in f .. last /\ f <= last
  BY InInterval
<1>2. ExpectedInterval(rd, f) = i /\ GroupLast(rd, f) = last  BY NativeGroup
<1>3. p - f + 1 = k  OBVIOUS
<1>4. NativePassed(group, macs, i, p - f + 1) <=>
        group.slots[k] # <<>> /\ macs[k] # NoMac /\ own[k] = macs[k]
  BY <1>3 DEF NativePassed
<1> HIDE DEF last
<1>5. /\ DOMAIN group.slots = 1 .. (last - f) + 1 /\ k \in 1 .. (last - f) + 1
      /\ group.slots[k] = Filled(r)[p]
      /\ own[k] = IF Filled(r)[p] = <<>> THEN NoMac ELSE <<i, i, p, Filled(r)[p][1]>>
 <2>1. SlotsAre(group.slots, f, last, Filled(r)) /\ MacsAre(own, f, last, Filled(r), i, i)
   BY <1>1, <1>2, GroupIs
 <2> QED  BY <1>1, <2>1 DEF SlotsAre, MacsAre
<1>6. Filled(r)[p] = BaseSlot(r, p)  BY <1>1 DEF Filled, Packets
<1>7. f + k - 1 = p  BY <1>1
<1>8. BaseSlot(r, p) # <<>>  BY <1>1, SlotIs
<1>9. macs[k] = BaseTags(r, p)[1] /\ own[k] = <<i, i, p, BaseSlot(r, p)[1]>> /\ group.slots[k] # <<>>
 <2>1. group.slots[k] # <<>> /\ k \in DOMAIN group.slots  BY <1>5, <1>6, <1>8
 <2> HIDE DEF k, own
 <2>2. macs[k] = BaseTags(r, p)[1]  BY <1>7, <2>1
 <2> QED  BY <1>5, <1>6, <1>8, <2>1, <2>2
<1> HIDE DEF k, own
<1>10. TagBlocks(rd, p) = 1  BY DEF TagBlocks
<1>11. Plausible(rd, p, 1, BaseTags(r, p)[1]) /\ Genuinely(rd, r, p) = (BaseSlot(r, p)[1] = Message(rd, p))
  BY <1>1, <1>10, SlotIs
<1>12. Tags(rd, p)[1] = <<i, i, p, Message(rd, p)>>  BY NativeTag
<1> DEFINE slot == BaseSlot(r, p)[1]
           tag == BaseTags(r, p)[1]
           message == Message(rd, p)
<1>13. TagsIntact(rd, r, p) <=> tag = Tags(rd, p)[1]
 <2>1. tag = Decode(rd, r.base[p][1]).tags[1]  BY DEF BaseTags, Fields
 <2> HIDE DEF tag
 <2> QED  BY <1>10, <2>1 DEF TagsIntact
<1>14. tag = <<i, i, p, message>> \/ tag = << <<Outside>> >> \/ tag = <<Outside>>
  BY <1>11, <1>12 DEF Plausible
<1>15. Intact(rd, r, p) <=> slot = message /\ tag = <<i, i, p, message>>
  BY <1>11, <1>12, <1>13 DEF Intact
<1>16. NativePassed(group, macs, i, p - f + 1) <=> tag # NoMac /\ <<i, i, p, slot>> = tag
  BY <1>4, <1>9
<1> HIDE DEF slot, tag, message
<1>17. CASE tag = <<i, i, p, message>>  BY <1>15, <1>16, <1>17, MarksAreNoTags
<1>18. CASE tag = << <<Outside>> >> \/ tag = <<Outside>>  BY <1>15, <1>16, <1>18, MarksAreNoTags
<1> QED  BY <1>14, <1>17, <1>18

LEMMA BuildableIsGrouped ==
    ASSUME NEW w \in RoundSet, Buildable(w)
    PROVE  Grouped(w)
  BY BuildableIsShaped DEF Grouped, Buildable, ContextValid

LEMMA SameGroup ==
    ASSUME NEW w, NEW f \in Nat \ {0}, GroupLast(w, f) \in Nat, f <= GroupLast(w, f),
           NEW a, NEW b, \A p \in f .. GroupLast(w, f) : a[p] = b[p]
    PROVE  GroupWith(w, f, a) = GroupWith(w, f, b)
<1> DEFINE n == GroupLast(w, f) - f + 1
           A == [i \in 1 .. n |-> a[f + i - 1]]
           B == [i \in 1 .. n |-> b[f + i - 1]]
<1>1. \A i \in 1 .. n : f + i - 1 \in f .. GroupLast(w, f)  OBVIOUS
<1>2. A = B  BY <1>1
<1> HIDE DEF A, B
<1>3. /\ GroupWith(w, f, a) = [interval |-> ExpectedInterval(w, f), number |-> GroupNumber(w, f),
                               first |-> f, slots |-> A]
      /\ GroupWith(w, f, b) = [interval |-> ExpectedInterval(w, f), number |-> GroupNumber(w, f),
                               first |-> f, slots |-> B]
  BY DEF GroupWith, A, B
<1> QED  BY <1>2, <1>3

\* All but the last of the sequence, when it is known.
LEMMA FrontIsKnown ==
    ASSUME NEW s, NEW n \in Nat, IsSequence(s), Len(s) = n + 1,
           NEW t, IsSequence(t), Len(t) = n, \A j \in 1 .. n : s[j] = t[j]
    PROVE  Front(s) = t
<1>1. Len(s) - 1 = n  OBVIOUS
<1>2. \A i \in 1 .. n : s[i] \in {s[j] : j \in 1 .. n}  OBVIOUS
<1>3. /\ SubSeq(s, 1, n) \in Seq({s[j] : j \in 1 .. n})
      /\ Len(SubSeq(s, 1, n)) = IF 1 <= n THEN n - 1 + 1 ELSE 0
      /\ \A i \in 1 .. n - 1 + 1 : SubSeq(s, 1, n)[i] = s[1 + i - 1]
 <2> DEFINE E == {s[j] : j \in 1 .. n}
 <2>1. \A i \in 1 .. n : s[i] \in E  OBVIOUS
 <2>2. 1 \in Int /\ n \in Int  OBVIOUS
 <2> HIDE DEF E
 <2>3. /\ SubSeq(s, 1, n) \in Seq(E)
       /\ Len(SubSeq(s, 1, n)) = IF 1 <= n THEN n - 1 + 1 ELSE 0
       /\ \A i \in 1 .. n - 1 + 1 : SubSeq(s, 1, n)[i] = s[1 + i - 1]
   BY <2>1, <2>2, SubSeqProperties
 <2> QED  BY <2>3 DEF E
<1>4. Len(SubSeq(s, 1, n)) = n /\ \A j \in 1 .. n : SubSeq(s, 1, n)[j] = t[j]  BY <1>3
<1>5. PICK S : t \in Seq(S)  BY DEF IsSequence
<1> DEFINE u == SubSeq(s, 1, n)
           T == {s[j] : j \in 1 .. n}
<1>6. u \in Seq(T) /\ Len(u) = Len(t) /\ \A j \in 1 .. Len(u) : u[j] = t[j]  BY <1>3, <1>4
<1>7. Front(s) = u  BY <1>1 DEF Front
<1> HIDE DEF u, T
<1>8. u = t
 <2> DEFINE V == S \union T
 <2>1. u \in Seq(V) /\ t \in Seq(V)  BY <1>5, <1>6, SeqMonotonic
 <2> HIDE DEF V
 <2> QED  BY <1>6, <2>1, SeqEqual
<1> QED  BY <1>7, <1>8

\* A group is passed by its tags exactly when nobody touched any of it.
LEMMA FastIsIntact ==
    ASSUME NEW r, Grouped(rd), rd.mode = "improved", BaseOK(rd, r), NEW i \in 1 .. DataIntervalCount(rd),
           NEW k \in DOMAIN GroupStarts(rd, i), NEW f, f = GroupStarts(rd, i)[k],
           NEW verdict, verdict = GroupVerdict(r, f, Filled(r))
    PROVE  /\ verdict.path = "fast" <=> \A p \in f .. GroupLast(rd, f) : Intact(rd, r, p)
           /\ verdict.path = "fast" => \A p \in f .. GroupLast(rd, f) : p - f \in verdict.good
<1> DEFINE last == GroupLast(rd, f)
           tags == BaseTags(r, last)
           group == GroupWith(rd, f, Filled(r))
           sent == SentGroup(rd, f)
           n == TauCount(rd.shape)
           rows == Matrices[rd.shape]
           sentMacs == PacketMacSlots(sent, i)
           taus == Aggregate(rows, sentMacs)
           m == (last - f) + 1
<1>0. Shaped(rd)  BY DEF Grouped
<1>1. /\ f \in PacketsIn(rd, i) /\ last \in PacketsIn(rd, i) /\ f \in Nat \ {0} /\ last \in Nat /\ f <= last
      /\ last \in f .. last /\ GroupFirst(rd, last) = f
  BY <1>0, ImprovedGroup
<1>2. i \in Nat \ {0}  OBVIOUS
<1>3. ExpectedInterval(rd, f) = i /\ ExpectedInterval(rd, last) = i  BY <1>0, <1>1, <1>2, InInterval
<1>4. n \in Nat /\ DOMAIN rows = 1 .. n  BY <1>0, TausAre DEF Shaped
<1>5. \A p \in f .. last : /\ p \in 1 .. rd.total
                           /\ TagBlocks(rd, p) = IF p = last THEN n + 1 ELSE 0
  BY GroupTags
<1>6. verdict = ImprovedVerify(rd, group, tags, i)  BY <1>3 DEF GroupVerdict
<1>7. /\ Tags(rd, last) = ImprovedTags(rd, sent, i)
      /\ \A q \in 1 .. n : Tags(rd, last)[q] = RowMacs(rows[q], sentMacs)
      /\ Tags(rd, last)[n + 1] = <<i, sent, taus>>
 <2>1. Tags(rd, last) = ImprovedTags(rd, sent, i)  BY <1>1, <1>3 DEF Tags
 <2>2. TagsOfGroup(ImprovedTags(rd, sent, i), n, rows, sentMacs, i, sent)  BY <1>0, ImprovedTagsAre
 <2> HIDE DEF sent, n, rows, sentMacs
 <2> QED  BY <2>1, <2>2 DEF TagsOfGroup
<1>8. SlotsAre(group.slots, f, last, Filled(r)) /\ SentSlots(sent.slots, rd, f, last)
 <2> HIDE DEF group, sent
 <2>1. SlotsAre(group.slots, f, last, Filled(r))  BY <1>1, GroupIs DEF group
 <2>2. last <= rd.total /\ rd.total \in Nat  BY <1>0, <1>1, <1>2, InInterval DEF Shaped
 <2>3. SentSlots(SentGroup(rd, f).slots, rd, f, GroupLast(rd, f))  BY <1>1, <2>2, SentGroupIs
 <2>4. SentSlots(sent.slots, rd, f, last)  BY <2>3 DEF sent
 <2> QED  BY <2>1, <2>4
<1>9. \A p \in f .. last : Filled(r)[p] = <<Message(rd, p)>> <=> Genuinely(rd, r, p)
  BY <1>0, <1>5, FilledIs
<1>10. IsSequence(taus) /\ Len(taus) = n /\ \A q \in 1 .. n : taus[q] = RowMacs(rows[q], sentMacs)
 <2> DEFINE g == [q \in 1 .. n |-> RowMacs(rows[q], sentMacs)]
 <2>1. taus = [q \in 1 .. n |-> g[q]] /\ \A q \in 1 .. n : g[q] = RowMacs(rows[q], sentMacs)
   BY <1>4 DEF Aggregate
 <2> HIDE DEF g, taus, n
 <2>2. IsSequence(taus) /\ Len(taus) = n  BY <1>4, <2>1, EnumeratedIsSequence
 <2>3. \A q \in 1 .. n : taus[q] = g[q]  BY <2>1
 <2> QED  BY <2>1, <2>2, <2>3
<1>11. group = sent <=> \A p \in f .. last : Genuinely(rd, r, p)
 <2>1. group = sent => \A p \in f .. last : Filled(r)[p] = <<Message(rd, p)>>
   BY <1>8 DEF SlotsAre, SentSlots
 <2>2. ASSUME \A p \in f .. last : Filled(r)[p] = <<Message(rd, p)>>
       PROVE  group = sent
  <3> DEFINE b == [p \in 1 .. rd.total |-> <<Message(rd, p)>>]
  <3>1. \A p \in f .. last : b[p] = <<Message(rd, p)>>  BY <1>5
  <3> HIDE DEF b
  <3>2. \A p \in f .. last : Filled(r)[p] = b[p]  BY <2>2, <3>1
  <3>3. sent = GroupWith(rd, f, b)  BY DEF SentGroup, b
  <3> HIDE DEF sent
  <3> QED  BY <1>1, <3>2, <3>3, SameGroup
 <2> QED  BY <1>9, <2>1, <2>2
<1>12. /\ r.base[last] = <<>> => tags = <<>>
       /\ r.base[last] # <<>> => /\ IsSequence(tags) /\ Len(tags) = n + 1
                                 /\ \A j \in 1 .. n + 1 : Plausible(rd, last, j, tags[j])
 <2>1. last \in 1 .. rd.total /\ TagBlocks(rd, last) = n + 1  BY <1>1, <1>5
 <2> HIDE DEF tags, n
 <2> QED  BY <1>0, <2>1, SlotIs DEF tags
<1>13. \A p \in f .. last : TagsIntact(rd, r, p) <=> (p = last => \A j \in 1 .. n + 1 : Decode(rd, r.base[p][1]).tags[j] = Tags(rd, p)[j])
 <2> SUFFICES ASSUME NEW p \in f .. last
              PROVE  TagsIntact(rd, r, p) <=>
                       (p = last => \A j \in 1 .. n + 1 : Decode(rd, r.base[p][1]).tags[j] = Tags(rd, p)[j])
   OBVIOUS
 <2>1. CASE p = last
  <3>1. TagBlocks(rd, p) = n + 1  BY <1>5, <2>1
  <3> HIDE DEF n
  <3> QED  BY <2>1, <3>1 DEF TagsIntact
 <2>2. CASE p # last  BY <1>5, <2>2 DEF TagsIntact
 <2> QED  BY <2>1, <2>2
<1>14. r.base[last] # <<>> =>
         (TagsIntact(rd, r, last) <=> \A j \in 1 .. n + 1 : tags[j] = Tags(rd, last)[j])
  BY <1>1, <1>13 DEF BaseTags, Fields
<1>15. verdict = IF Len(tags) # n + 1
                 THEN [path |-> "incomplete", good |-> {}, bad |-> {}, exceeded |-> FALSE]
                 ELSE IF FastPath(group, Front(tags), Last(tags), i)
                 THEN [path |-> "fast", good |-> 0 .. Len(group.slots) - 1, bad |-> {}, exceeded |-> FALSE]
                 ELSE Fallback(Locate(rows, rd.shape.threshold, PacketMacSlots(group, i), Front(tags)))
 <2> HIDE DEF tags, group
 <2> QED  BY <1>6 DEF ImprovedVerify
<1>16. ASSUME \A p \in f .. last : Intact(rd, r, p)
       PROVE  Len(tags) = n + 1 /\ FastPath(group, Front(tags), Last(tags), i)
 <2>1. r.base[last] # <<>> /\ group = sent /\ \A j \in 1 .. n + 1 : tags[j] = Tags(rd, last)[j]
   BY <1>1, <1>11, <1>14, <1>16 DEF Intact, Genuinely
 <2> HIDE DEF tags, group, sent, n, rows, taus, sentMacs, last
 <2>2. IsSequence(tags) /\ Len(tags) = n + 1  BY <1>12, <2>1
 <2>3. \A j \in 1 .. n : tags[j] = taus[j]  BY <1>4, <1>7, <1>10, <2>1
 <2>4. Front(tags) = taus  BY <1>4, <1>10, <2>2, <2>3, FrontIsKnown
 <2>5. Last(tags) = <<i, sent, taus>>  BY <1>4, <1>7, <2>1, <2>2 DEF Last
 <2>6. NothingMissing(group)
  <3> SUFFICES ASSUME NEW x \in DOMAIN group.slots PROVE group.slots[x] # <<>>
    BY DEF NothingMissing
  <3>1. x \in 1 .. (last - f) + 1  BY <1>8 DEF SlotsAre
  <3> DEFINE p == f + (x - 1)
  <3>2. p \in f .. last /\ (p - f) + 1 = x  BY <1>1, <3>1
  <3> HIDE DEF p
  <3>3. group.slots[x] = <<Message(rd, p)>>  BY <1>8, <2>1, <3>2 DEF SentSlots
  <3> QED  BY <3>3, OneBlock
 <2>7. FastGroupTag(i, group, Front(tags)) = Last(tags)  BY <2>1, <2>4, <2>5 DEF FastGroupTag
 <2> QED  BY <2>2, <2>6, <2>7 DEF FastPath
<1>17. ASSUME Len(tags) = n + 1, FastPath(group, Front(tags), Last(tags), i)
       PROVE  \A p \in f .. last : Intact(rd, r, p)
 <2>1. r.base[last] # <<>>
  <3> SUFFICES ASSUME r.base[last] = <<>> PROVE FALSE  OBVIOUS
  <3>1. tags = <<>>  BY <1>12
  <3> HIDE DEF tags, n
  <3>2. Len(tags) = 0 /\ n + 1 # 0  BY <1>4, <3>1
  <3> QED  BY <1>17, <3>2
 <2> HIDE DEF tags, group, sent, n, rows, taus, sentMacs, last
 <2>2. IsSequence(tags) /\ \A j \in 1 .. n + 1 : Plausible(rd, last, j, tags[j])  BY <1>12, <2>1
 <2>3. Last(tags) = tags[n + 1] /\ \A j \in 1 .. n : Front(tags)[j] = tags[j]
   BY <1>4, <1>17, <2>2, FrontIs
 <2>4. <<i, group, Front(tags)>> = tags[n + 1]  BY <1>17, <2>3 DEF FastPath, FastGroupTag
 <2>5. n + 1 \in 1 .. n + 1  BY <1>4
 <2>6. tags[n + 1] = Tags(rd, last)[n + 1] \/ tags[n + 1] = << <<Outside>> >> \/ tags[n + 1] = <<Outside>>
   BY <2>2, <2>5 DEF Plausible
 <2>7. tags[n + 1] = <<i, sent, taus>>  BY <1>7, <2>4, <2>6, MarksAreNoTags
 <2>8. group = sent /\ Front(tags) = taus  BY <2>4, <2>7
 <2>9. \A j \in 1 .. n + 1 : tags[j] = Tags(rd, last)[j]  BY <1>4, <1>7, <1>10, <2>3, <2>7, <2>8
 <2>10. \A p \in f .. last : TagsIntact(rd, r, p)  BY <1>13, <1>14, <2>1, <2>9
 <2> QED  BY <1>11, <2>8, <2>10 DEF Intact
<1>18. ASSUME NEW p \in f .. last
       PROVE  p - f \in 0 .. Len(group.slots) - 1
  BY <1>1, <1>8 DEF SlotsAre
<1> DEFINE whole == Len(tags) = n + 1 /\ FastPath(group, Front(tags), Last(tags), i)
<1>19. whole <=> \A p \in f .. last : Intact(rd, r, p)  BY <1>16, <1>17
<1>20. CASE whole  BY <1>15, <1>18, <1>19, <1>20
<1>21. CASE ~ whole
 <2>1. verdict.path # "fast"
  <3> DEFINE location == Locate(rows, rd.shape.threshold, PacketMacSlots(group, i), Front(tags))
  <3>1. \/ verdict = [path |-> "incomplete", good |-> {}, bad |-> {}, exceeded |-> FALSE]
        \/ verdict = Fallback(location)
    BY <1>15, <1>21, Zenon
  <3> HIDE DEF location
  <3> QED  BY <3>1 DEF Fallback
 <2> QED  BY <1>19, <1>21, <2>1
<1> QED  BY <1>20, <1>21

(* What a verification vouches for.                                         *)

\* A group of the round was not passed by its tags.
Doubted(w, r) == w.mode = "improved" /\ ~ (r.paths \subseteq {"fast"})

\* A round that may still be compared has nothing to report.
Quiet(r) == r.eligible => r.reports = {}

\* What every judgement leaves or only adds to.
Notes(r, s) ==
    /\ s.base = r.base /\ s.blocks = r.blocks /\ s.counted = r.counted
    /\ r.paths \subseteq s.paths /\ r.reports \subseteq s.reports
    /\ r.incomplete => s.incomplete
    /\ Quiet(r) => Quiet(s)

\* A change beside the packets' own verdicts.
Beside(r, s) ==
    /\ IsReceiver(s) /\ Notes(r, s)
    /\ s.status = r.status /\ s.verified = r.verified
    /\ s.incomplete => r.incomplete

LEMMA NotesTwice ==
    ASSUME NEW r, NEW s, NEW t, Notes(r, s), Notes(s, t)
    PROVE  Notes(r, t)
  BY DEF Notes

LEMMA BesideTwice ==
    ASSUME NEW r, NEW s, NEW t, Beside(r, s), Beside(s, t)
    PROVE  Beside(r, t)
  BY NotesTwice DEF Beside

LEMMA BesideNothing ==
    ASSUME NEW r, IsReceiver(r)
    PROVE  Beside(r, r)
  BY DEF Beside, Notes

LEMMA ReportsBeside ==
    ASSUME NEW r, IsReceiver(r), NEW kind, NEW ps, NEW s, s = Reports(r, kind, ps)
    PROVE  Beside(r, s)
<1> DEFINE reports == r.reports \cup {[kind |-> kind, packet |-> p] : p \in ps}
           eligible == r.eligible /\ ps = {}
<1>1. s = [r EXCEPT !.reports = reports, !.eligible = eligible]  BY DEF Reports
<1>2. eligible => r.eligible /\ reports = r.reports  OBVIOUS
<1>3. r.reports \subseteq reports  OBVIOUS
<1> HIDE DEF reports, eligible
<1>4. /\ IsReceiver(s) /\ s.base = r.base /\ s.blocks = r.blocks /\ s.counted = r.counted /\ s.paths = r.paths
      /\ s.incomplete = r.incomplete /\ s.status = r.status /\ s.verified = r.verified
      /\ s.reports = reports /\ s.eligible = eligible
  BY <1>1 DEF IsReceiver, ReceiverFields
<1>5. Quiet(r) => Quiet(s)  BY <1>2, <1>4, Zenon DEF Quiet
<1>6. r.paths \subseteq s.paths /\ r.reports \subseteq s.reports  BY <1>3, <1>4
<1> QED  BY <1>4, <1>5, <1>6, Zenon DEF Beside, Notes

LEMMA OneReportBeside ==
    ASSUME NEW r, IsReceiver(r), NEW kind, NEW p, NEW s, s = OneReport(r, kind, p)
    PROVE  Beside(r, s) /\ s.reports # {}
<1> DEFINE reports == r.reports \cup {[kind |-> kind, packet |-> p]}
<1>1. s = [r EXCEPT !.reports = reports, !.eligible = FALSE]  BY DEF OneReport
<1>2. r.reports \subseteq reports /\ reports # {}  OBVIOUS
<1> HIDE DEF reports
<1>3. /\ IsReceiver(s) /\ s.base = r.base /\ s.blocks = r.blocks /\ s.counted = r.counted /\ s.paths = r.paths
      /\ s.incomplete = r.incomplete /\ s.status = r.status /\ s.verified = r.verified
      /\ s.reports = reports /\ s.eligible = FALSE
  BY <1>1 DEF IsReceiver, ReceiverFields
<1>4. Quiet(s)  BY <1>3 DEF Quiet
<1>5. r.paths \subseteq s.paths /\ r.reports \subseteq s.reports  BY <1>2, <1>3
<1> QED  BY <1>2, <1>3, <1>4, <1>5, Zenon DEF Beside, Notes

LEMMA CopiesBeside ==
    ASSUME NEW r, IsReceiver(r), NEW copies, NEW s, s = [r EXCEPT !.copies = copies]
    PROVE  Beside(r, s)
  BY DEF IsReceiver, ReceiverFields, Quiet, Beside, Notes

LEMMA TrialBeside ==
    ASSUME NEW r, IsReceiver(r), NEW f, NEW replaced, NEW trial, NEW s, s = TrialFailed(r, f, replaced, trial)
    PROVE  Beside(r, s)
<1> DEFINE copies == [p \in Packets |->
                        IF p \in replaced
                        THEN [r.copies[p] EXCEPT ![FirstAttack(r, p)].status = "failed"] ELSE r.copies[p]]
           paths == r.paths \cup {"fallback"}
           groups == r.groups \cup {[first |-> f, attack |-> TRUE, path |-> "fallback",
                                     located |-> Located(f, trial.bad), exceeded |-> trial.exceeded]}
<1>1. s = [r EXCEPT !.copies = copies, !.paths = paths, !.groups = groups]  BY DEF TrialFailed
<1>2. r.paths \subseteq paths  OBVIOUS
<1> HIDE DEF copies, paths, groups
<1>3. /\ IsReceiver(s) /\ s.base = r.base /\ s.blocks = r.blocks /\ s.counted = r.counted /\ s.paths = paths
      /\ s.incomplete = r.incomplete /\ s.status = r.status /\ s.verified = r.verified
      /\ s.reports = r.reports /\ s.eligible = r.eligible
  BY <1>1 DEF IsReceiver, ReceiverFields
<1>4. Quiet(r) => Quiet(s)  BY <1>3, Zenon DEF Quiet
<1>5. r.paths \subseteq s.paths /\ r.reports \subseteq s.reports  BY <1>2, <1>3
<1> QED  BY <1>3, <1>4, <1>5, Zenon DEF Beside, Notes

LEMMA AttackBeside ==
    ASSUME NEW r, IsReceiver(r), NEW f, NEW verdict, NEW t, t = AttackJudged(r, f, verdict)
    PROVE  Beside(r, t)
<1> DEFINE replaced == Replaced(r, f)
           s == TrialFailed(r, f, replaced, Trial(r, f, replaced))
<1>1. \/ t = r
      \/ t = Reports(r, "UnverifiableMissingBaseline", replaced)
      \/ t = Reports(s, "TamperedVariant", replaced)
 <2> HIDE DEF replaced
 <2>1. CASE replaced = {}  BY <2>1 DEF AttackJudged, replaced
 <2>2. CASE replaced # {} /\ verdict.path # "fast"  BY <2>2 DEF AttackJudged, replaced
 <2>3. CASE replaced # {} /\ verdict.path = "fast"  BY <2>3 DEF AttackJudged, replaced
 <2> QED  BY <2>1, <2>2, <2>3
<1>2. Beside(r, s) /\ IsReceiver(s)
 <2>1. Beside(r, s)  BY TrialBeside
 <2> HIDE DEF s
 <2> QED  BY <2>1 DEF Beside
<1> HIDE DEF s, replaced
<1>3. CASE t = r  BY <1>3, BesideNothing
<1>4. CASE t = Reports(r, "UnverifiableMissingBaseline", replaced)  BY <1>4, ReportsBeside
<1>5. CASE t = Reports(s, "TamperedVariant", replaced)  BY <1>2, <1>5, ReportsBeside, BesideTwice
<1> QED  BY <1>1, <1>3, <1>4, <1>5

LEMMA NativeCopiesBeside ==
    ASSUME NEW r, IsReceiver(r), NEW i, NEW u, u = NativeCopiesJudged(r, i)
    PROVE  Beside(r, u)
<1> DEFINE Judge(copy) == [copy EXCEPT !.status = IF CopyPasses(r, i, copy) THEN "passed" ELSE "failed"]
           failed(attack) == {p \in PacketsIn(rd, i) : \E n \in DOMAIN r.copies[p] :
                                r.copies[p][n].attack = attack /\ ~CopyPasses(r, i, r.copies[p][n])}
           copies == [p \in Packets |->
                        IF p \in PacketsIn(rd, i)
                        THEN [n \in DOMAIN r.copies[p] |-> Judge(r.copies[p][n])] ELSE r.copies[p]]
           s == [r EXCEPT !.copies = copies]
           t == Reports(s, "TamperedVariant", failed(TRUE))
<1>1. u = Reports(t, "MacFailed", failed(FALSE))
  BY DEF NativeCopiesJudged, IsReceiver, ReceiverFields
<1> HIDE DEF copies, failed
<1>2. Beside(r, s)  BY CopiesBeside
<1> HIDE DEF s
<1>3. Beside(s, t)  BY <1>2, ReportsBeside DEF Beside
<1> HIDE DEF t
<1>4. Beside(t, u)
 <2>1. IsReceiver(t)  BY <1>3 DEF Beside
 <2> QED  BY <1>1, <2>1, ReportsBeside
<1> QED  BY <1>2, <1>3, <1>4, BesideTwice

\* Packets pass that nobody touched, or in a group that was not passed by its tags;
\* packets nobody touched pass; and only the verdicts of the packets T change.
Vouches(w, T, r, s) ==
    /\ Notes(r, s) /\ s.verified = r.verified
    /\ \A p \in 1 .. w.total :
         s.status[p] = "passed" => r.status[p] = "passed" \/ Intact(w, r, p) \/ Doubted(w, s)
    /\ (\A p \in T : Intact(w, r, p)) =>
         /\ s.incomplete => r.incomplete
         /\ \A p \in T : s.status[p] = "passed"
    /\ \A p \in 1 .. w.total : p \notin T => s.status[p] = r.status[p]

LEMMA SameIntact ==
    ASSUME NEW w, NEW r, NEW s, s.base = r.base, NEW p
    PROVE  Intact(w, s, p) <=> Intact(w, r, p)
  BY DEF Intact, Genuinely, TagsIntact

LEMMA VouchesTwice ==
    ASSUME NEW w, NEW r, NEW s, NEW t, NEW T \in SUBSET (1 .. w.total), NEW U \in SUBSET (1 .. w.total),
           Vouches(w, T, r, s), Vouches(w, U, s, t)
    PROVE  Vouches(w, T \cup U, r, t)
<1>1. Notes(r, s) /\ Notes(s, t) /\ s.base = r.base  BY DEF Vouches, Notes
<1>2. Notes(r, t) /\ t.verified = r.verified  BY <1>1, NotesTwice DEF Vouches
<1>3. \A p : Intact(w, s, p) <=> Intact(w, r, p)  BY <1>1, SameIntact
<1>4. Doubted(w, s) => Doubted(w, t)  BY <1>1 DEF Doubted, Notes
<1>5. ASSUME NEW p \in 1 .. w.total, t.status[p] = "passed"
      PROVE  r.status[p] = "passed" \/ Intact(w, r, p) \/ Doubted(w, t)
  BY <1>3, <1>4, <1>5 DEF Vouches
<1>6. ASSUME \A p \in T \cup U : Intact(w, r, p)
      PROVE  /\ t.incomplete => r.incomplete
             /\ \A p \in T \cup U : t.status[p] = "passed"
 <2>1. (\A p \in T : Intact(w, r, p)) /\ (\A p \in U : Intact(w, s, p))  BY <1>3, <1>6
 <2>2. (s.incomplete => r.incomplete) /\ \A p \in T : s.status[p] = "passed"
   BY <2>1, Zenon DEF Vouches
 <2>3. (t.incomplete => s.incomplete) /\ \A p \in U : t.status[p] = "passed"
   BY <2>1, Zenon DEF Vouches
 <2>4. \A p \in 1 .. w.total : p \notin U => t.status[p] = s.status[p]  BY Zenon DEF Vouches
 <2>5. \A p \in T \cup U : t.status[p] = "passed"
  <3> SUFFICES ASSUME NEW p \in T \cup U PROVE t.status[p] = "passed"  OBVIOUS
  <3>1. p \in U \/ (p \notin U /\ p \in T /\ p \in 1 .. w.total)  OBVIOUS
  <3> QED  BY <2>2, <2>3, <2>4, <3>1
 <2> QED  BY <2>2, <2>3, <2>5, Zenon
<1>7. ASSUME NEW p \in 1 .. w.total, p \notin T \cup U
      PROVE  t.status[p] = r.status[p]
  BY <1>7 DEF Vouches
<1> QED  BY <1>2, <1>5, <1>6, <1>7, Zenon DEF Vouches

LEMMA BesideVouches ==
    ASSUME NEW w, NEW r, NEW s, Beside(r, s)
    PROVE  Vouches(w, {}, r, s)
  BY DEF Beside, Vouches

LEMMA NativeVerifiedVouches ==
    ASSUME NEW r, Shaped(rd), rd.mode = "native", Ready(rd, r), NEW i \in Nat \ {0},
           NEW u, u = NativeVerified(r, i)
    PROVE  Vouches(rd, PacketsIn(rd, i), r, u) /\ IsReceiver(u)
<1> DEFINE f == FirstOf(rd, i)
           group == GroupWith(rd, f, Filled(r))
           macs == [n \in DOMAIN group.slots |->
                      IF group.slots[n] = <<>> THEN NoMac ELSE BaseTags(r, f + n - 1)[1]]
           present == {p \in PacketsIn(rd, i) : r.base[p] # <<>>}
           passed == {p \in present : NativePassed(group, macs, i, p - f + 1)}
           status == [p \in Packets |->
                        CASE p \in passed -> "passed"
                          [] p \in present \ passed -> "failed"
                          [] OTHER -> r.status[p]]
           s == [r EXCEPT !.status = status]
           failed == present \ passed
<1>1. u = Reports(s, "MacFailed", failed)  BY DEF NativeVerified, Filled
<1>2. BaseOK(rd, r) /\ IsReceiver(r) /\ DOMAIN r.status = 1 .. rd.total  BY DEF Ready
<1>3. \A p \in present : p \in passed <=> Intact(rd, r, p)
 <2> SUFFICES ASSUME NEW p \in PacketsIn(rd, i), r.base[p] # <<>>
              PROVE  NativePassed(group, macs, i, p - f + 1) <=> Intact(rd, r, p)
   OBVIOUS
 <2> HIDE DEF f, group, macs
 <2>1. /\ f = FirstOf(rd, i) /\ group = GroupWith(rd, f, Filled(r))
       /\ macs = [n \in DOMAIN group.slots |->
                    IF group.slots[n] = <<>> THEN NoMac ELSE BaseTags(r, f + n - 1)[1]]
   BY DEF f, group, macs
 <2> QED  BY <1>2, <2>1, NativePassesIntact
<1>4. /\ passed \subseteq present /\ present \subseteq PacketsIn(rd, i)
      /\ \A p \in PacketsIn(rd, i) : r.base[p] # <<>> => p \in present
  OBVIOUS
<1> HIDE DEF passed, present, failed
<1>5. /\ \A p \in passed : p \in Packets => status[p] = "passed"
      /\ \A p \in Packets : status[p] = "passed" => p \in passed \/ r.status[p] = "passed"
      /\ \A p \in Packets : p \notin present => status[p] = r.status[p]
 <2>1. \A p \in Packets : status[p] = CASE p \in passed -> "passed"
                                        [] p \in present \ passed -> "failed"
                                        [] OTHER -> r.status[p]
   OBVIOUS
 <2> HIDE DEF status
 <2> QED  BY <1>4, <2>1
<1> HIDE DEF status
<1>6. /\ IsReceiver(s) /\ s.base = r.base /\ s.blocks = r.blocks /\ s.counted = r.counted /\ s.paths = r.paths
      /\ s.incomplete = r.incomplete /\ s.status = status /\ s.verified = r.verified
      /\ s.reports = r.reports /\ s.eligible = r.eligible
  BY <1>2 DEF IsReceiver, ReceiverFields
<1> HIDE DEF s
<1>7. Beside(s, u) /\ IsReceiver(u)  BY <1>1, <1>6, ReportsBeside DEF Beside
<1>8. Notes(r, s)  BY <1>6 DEF Quiet, Notes
<1>9. /\ Notes(r, u) /\ u.status = status /\ u.verified = r.verified /\ (u.incomplete => r.incomplete)
  BY <1>6, <1>7, <1>8, NotesTwice DEF Beside
<1>10. \A p \in PacketsIn(rd, i) : p \in Packets  BY InInterval DEF Packets
<1>11. \A p : Intact(rd, r, p) => r.base[p] # <<>>  BY DEF Intact, Genuinely
<1>12. ASSUME \A p \in PacketsIn(rd, i) : Intact(rd, r, p)
       PROVE  \A p \in PacketsIn(rd, i) : u.status[p] = "passed"
  BY <1>3, <1>4, <1>5, <1>9, <1>10, <1>11, <1>12
<1>13. \A p \in 1 .. rd.total : u.status[p] = "passed" => r.status[p] = "passed" \/ Intact(rd, r, p)
  BY <1>3, <1>4, <1>5, <1>9 DEF Packets
<1>14. \A p \in 1 .. rd.total : p \notin PacketsIn(rd, i) => u.status[p] = r.status[p]
  BY <1>4, <1>5, <1>9 DEF Packets
<1> QED  BY <1>7, <1>9, <1>12, <1>13, <1>14, Zenon DEF Vouches

LEMMA NativeVouches ==
    ASSUME NEW r, Shaped(rd), rd.mode = "native", Ready(rd, r), NEW i \in Nat \ {0},
           NEW u, u = NativeCopiesJudged(NativeVerified(r, i), i)
    PROVE  Vouches(rd, PacketsIn(rd, i), r, u)
<1> DEFINE s == NativeVerified(r, i)
           T == PacketsIn(rd, i)
<1>1. Vouches(rd, T, r, s) /\ IsReceiver(s)  BY NativeVerifiedVouches
<1>2. T \subseteq 1 .. rd.total  BY InInterval
<1> HIDE DEF s
<1>3. Vouches(rd, {}, s, u)  BY <1>1, NativeCopiesBeside, BesideVouches DEF s
<1> HIDE DEF T
<1>4. Vouches(rd, T \cup {}, r, u)  BY <1>1, <1>2, <1>3, VouchesTwice
<1>5. T \cup {} = T  OBVIOUS
<1> QED  BY <1>4, <1>5 DEF T

LEMMA BaselineVouches ==
    ASSUME NEW r, Grouped(rd), rd.mode = "improved", Ready(rd, r), NEW i \in 1 .. DataIntervalCount(rd),
           NEW k \in DOMAIN GroupStarts(rd, i), NEW f, f = GroupStarts(rd, i)[k],
           NEW verdict, verdict = GroupVerdict(r, f, Filled(r)),
           NEW u, u = BaselineJudged(r, f, verdict)
    PROVE  Vouches(rd, f .. GroupLast(rd, f), r, u) /\ IsReceiver(u)
<1> DEFINE last == GroupLast(rd, f)
           group == f .. last
           found == Located(f, verdict.bad)
           Right(p) == p \in group /\ r.base[p] # <<>> /\ p - f \in verdict.good
           Wrong(p) == p \in group /\ r.base[p] # <<>> /\ p - f \in verdict.bad
           Stated(p) == CASE Right(p) -> "passed" [] Wrong(p) -> "failed" [] OTHER -> r.status[p]
           status == [p \in Packets |-> Stated(p)]
           inc == r.incomplete \/ verdict.path = "incomplete"
           paths == r.paths \cup {verdict.path}
           groups == r.groups \cup {[first |-> f, attack |-> FALSE, path |-> verdict.path,
                                     located |-> found, exceeded |-> verdict.exceeded]}
           s == [r EXCEPT !.status = status, !.incomplete = inc, !.paths = paths, !.groups = groups]
           a == Reports(s, "FastGroupFailed", FallbackTold(verdict, f))
           b == Reports(a, "IncompleteGroupTags", IF verdict.path = "incomplete" THEN {f} ELSE {})
           c == Reports(b, "ThresholdExceeded", IF verdict.exceeded THEN {f} ELSE {})
<1>1. u = c  BY DEF BaselineJudged
<1>2. BaseOK(rd, r) /\ IsReceiver(r) /\ DOMAIN r.status = 1 .. rd.total /\ Shaped(rd)
  BY DEF Ready, Grouped
<1>3. /\ verdict.path = "fast" <=> \A p \in group : Intact(rd, r, p)
      /\ verdict.path = "fast" => \A p \in group : p - f \in verdict.good
  BY <1>2, FastIsIntact
<1>4. \A p \in group : p \in Packets  BY GroupTags DEF Packets
<1>5. \A p : Intact(rd, r, p) => r.base[p] # <<>>  BY DEF Intact, Genuinely
<1>6. /\ \A p \in Packets : Right(p) => status[p] = "passed" \/ Wrong(p)
      /\ \A p \in Packets : status[p] = "passed" => Right(p) \/ r.status[p] = "passed"
      /\ \A p \in Packets : ~ Right(p) /\ ~ Wrong(p) => status[p] = r.status[p]
      /\ \A p \in Packets : Right(p) => status[p] \in {"passed", "failed"}
 <2>1. \A p \in Packets : status[p] = CASE Right(p) -> "passed" [] Wrong(p) -> "failed" [] OTHER -> r.status[p]
   OBVIOUS
 <2> HIDE DEF status, Right, Wrong
 <2> QED  BY <2>1
<1>7. verdict.path = "fast" => verdict.bad = {}  BY DEF GroupVerdict, ImprovedVerify, Fallback
<1>8. verdict.path = "fast" => \A p \in group : status[p] = "passed"
 <2> SUFFICES ASSUME verdict.path = "fast", NEW p \in group PROVE status[p] = "passed"  OBVIOUS
 <2>1. Right(p) /\ ~ Wrong(p)  BY <1>3, <1>5, <1>7
 <2> HIDE DEF Right, Wrong, status
 <2> QED  BY <1>4, <1>6, <2>1
<1>9. \A p : Right(p) \/ Wrong(p) => p \in group  OBVIOUS
<1>10. (verdict.path = "fast" => (inc => r.incomplete)) /\ (r.incomplete => inc) /\ r.paths \subseteq paths
       /\ verdict.path \in paths
  OBVIOUS
<1> HIDE DEF status, found, inc, paths, groups, Right, Wrong, group
<1>11. /\ IsReceiver(s) /\ s.base = r.base /\ s.blocks = r.blocks /\ s.counted = r.counted /\ s.paths = paths
       /\ s.incomplete = inc /\ s.status = status /\ s.verified = r.verified
       /\ s.reports = r.reports /\ s.eligible = r.eligible
  BY <1>2 DEF IsReceiver, ReceiverFields
<1> HIDE DEF s
<1>12. Beside(s, a) /\ IsReceiver(a)
 <2>1. Beside(s, a)  BY <1>11, ReportsBeside
 <2> HIDE DEF a
 <2> QED  BY <2>1 DEF Beside
<1> HIDE DEF a
<1>13. Beside(a, b) /\ IsReceiver(b)
 <2>1. Beside(a, b)  BY <1>12, ReportsBeside
 <2> HIDE DEF b
 <2> QED  BY <2>1 DEF Beside
<1> HIDE DEF b
<1>14. Beside(s, u) /\ IsReceiver(u)  BY <1>1, <1>12, <1>13, ReportsBeside, BesideTwice DEF Beside
<1>15. Notes(r, s)  BY <1>10, <1>11 DEF Quiet, Notes
<1>16. Notes(r, u) /\ u.status = status /\ u.verified = r.verified /\ (u.incomplete => inc) /\ paths \subseteq u.paths
  BY <1>11, <1>14, <1>15, NotesTwice DEF Beside, Notes
<1>17. verdict.path # "fast" => Doubted(rd, u)  BY <1>10, <1>16 DEF Doubted
<1>18. ASSUME NEW p \in 1 .. rd.total, u.status[p] = "passed"
       PROVE  r.status[p] = "passed" \/ Intact(rd, r, p) \/ Doubted(rd, u)
  BY <1>3, <1>6, <1>9, <1>16, <1>17, <1>18 DEF Packets
<1>19. ASSUME \A p \in group : Intact(rd, r, p)
       PROVE  /\ u.incomplete => r.incomplete
              /\ \A p \in group : u.status[p] = "passed"
  BY <1>3, <1>8, <1>10, <1>16, <1>19
<1>20. \A p \in 1 .. rd.total : p \notin group => u.status[p] = r.status[p]
  BY <1>6, <1>9, <1>16 DEF Packets
<1>21. Vouches(rd, group, r, u)  BY <1>16, <1>18, <1>19, <1>20, Zenon DEF Vouches
<1> QED  BY <1>14, <1>21 DEF group

LEMMA GroupVouches ==
    ASSUME NEW r, Grouped(rd), rd.mode = "improved", Ready(rd, r), NEW i \in 1 .. DataIntervalCount(rd),
           NEW k \in DOMAIN GroupStarts(rd, i), NEW f, f = GroupStarts(rd, i)[k],
           NEW t, t = GroupJudged(r, f)
    PROVE  Vouches(rd, f .. GroupLast(rd, f), r, t)
<1> DEFINE verdict == GroupVerdict(r, f, Filled(r))
           s == BaselineJudged(r, f, verdict)
           T == f .. GroupLast(rd, f)
<1>1. t = AttackJudged(s, f, verdict)  BY DEF GroupJudged, BothJudged, Filled
<1>2. Vouches(rd, T, r, s) /\ IsReceiver(s)
 <2> HIDE DEF s
 <2> QED  BY BaselineVouches DEF s
<1>3. T \subseteq 1 .. rd.total  BY GroupTags
<1> HIDE DEF verdict, s, T
<1>4. Vouches(rd, {}, s, t)  BY <1>1, <1>2, AttackBeside, BesideVouches
<1>5. Vouches(rd, T \cup {}, r, t)  BY <1>2, <1>3, <1>4, VouchesTwice
<1>6. T \cup {} = T  OBVIOUS
<1> QED  BY <1>5, <1>6 DEF T

LEMMA VouchesNothing ==
    ASSUME NEW w, NEW r, IsReceiver(r)
    PROVE  Vouches(w, {}, r, r)
  BY BesideNothing, BesideVouches

LEMMA ImprovedVouches ==
    ASSUME NEW r, Grouped(rd), rd.mode = "improved", Ready(rd, r), NEW i \in 1 .. DataIntervalCount(rd),
           NEW t, t = ImprovedVerified(r, i)
    PROVE  Vouches(rd, PacketsIn(rd, i), r, t)
<1> DEFINE s == GroupStarts(rd, i)
           n == ((LastOf(rd, i) - FirstOf(rd, i)) \div rd.shape.size) + 1
           told(k) == {p \in PacketsIn(rd, i) : \E j \in 1 .. k : p \in s[j] .. GroupLast(rd, s[j])}
<1>0. Shaped(rd)  BY DEF Grouped
<1>1. DOMAIN s = 1 .. n  BY DEF GroupStarts
<1>2. n \in Nat  BY <1>0, IntervalHasPackets, ShapesAssumption, DivisionFacts DEF Shaped, ValidShape
<1>3. \A p \in PacketsIn(rd, i) : p \in 1 .. rd.total  BY <1>0, InInterval
<1>4. ASSUME NEW k \in DOMAIN s, NEW q, Ready(rd, q)
      PROVE  Judges(rd, q, Step("groups", q, s[k]))
  BY <1>0, <1>4, GroupJudges DEF Step
<1>5. ASSUME NEW k \in DOMAIN s, NEW q, Ready(rd, q)
      PROVE  Vouches(rd, s[k] .. GroupLast(rd, s[k]), q, Step("groups", q, s[k]))
  BY <1>5, GroupVouches DEF Step
<1>6. /\ \A p \in PacketsIn(rd, i) : \E k \in DOMAIN s : p \in s[k] .. GroupLast(rd, s[k])
      /\ \A k \in DOMAIN s : s[k] .. GroupLast(rd, s[k]) \subseteq PacketsIn(rd, i)
  BY <1>0, GroupsCover, ImprovedGroup
<1> HIDE DEF s, n
<1>7. PICK h : Runs(h, "groups", r, n, s) /\ FoldLeft(GroupJudged, r, s) = h[n]
  BY <1>1, <1>2, GroupsLoop
<1>8. \A k \in 0 .. n : Judges(rd, r, h[k])  BY <1>1, <1>2, <1>4, <1>7, LoopJudges
<1> DEFINE T == {k \in Nat : k <= n => Vouches(rd, told(k), r, h[k])}
<1>9. 0 \in T
 <2>1. told(0) = {} /\ h[0] = r  BY <1>7 DEF Runs
 <2>2. Vouches(rd, {}, r, r)  BY VouchesNothing DEF Ready
 <2> HIDE DEF told
 <2> QED  BY <2>1, <2>2
<1>10. ASSUME NEW k \in T PROVE k + 1 \in T
 <2> SUFFICES ASSUME k + 1 <= n PROVE Vouches(rd, told(k + 1), r, h[k + 1])  OBVIOUS
 <2>1. k \in Nat /\ k <= n /\ k + 1 \in 1 .. n /\ (k + 1) - 1 = k /\ k \in 0 .. n  BY <1>2
 <2>2. Vouches(rd, told(k), r, h[k])  BY <2>1
 <2>3. h[k + 1] = Step("groups", h[k], s[k + 1])  BY <1>7, <2>1 DEF Runs
 <2>4. Ready(rd, h[k])  BY <1>8, <2>1, JudgesReady
 <2> DEFINE U == s[k + 1] .. GroupLast(rd, s[k + 1])
            V == told(k)
 <2>5. Vouches(rd, U, h[k], h[k + 1]) /\ U \in SUBSET PacketsIn(rd, i)
   BY <1>1, <1>5, <1>6, <2>1, <2>3, <2>4
 <2>6. V \in SUBSET (1 .. rd.total) /\ U \in SUBSET (1 .. rd.total)  BY <1>3, <2>5
 <2>7. told(k + 1) = V \cup U
  <3>1. ASSUME NEW p \in told(k + 1), p \notin U PROVE p \in V
   <4>1. PICK j \in 1 .. k + 1 : p \in s[j] .. GroupLast(rd, s[j])  OBVIOUS
   <4>2. j # k + 1  BY <3>1, <4>1
   <4>3. j \in 1 .. k  BY <2>1, <4>2
   <4> QED  BY <4>1, <4>3
  <3>2. U \subseteq told(k + 1)  BY <2>1, <2>5
  <3>3. V \subseteq told(k + 1)  BY <2>1
  <3> HIDE DEF told, U
  <3> QED  BY <3>1, <3>2, <3>3
 <2> HIDE DEF U, V, told
 <2>8. Vouches(rd, V \cup U, r, h[k + 1])  BY <2>2, <2>5, <2>6, VouchesTwice DEF V
 <2> QED  BY <2>7, <2>8
<1>11. T = Nat
 <2>1. T \in SUBSET Nat  OBVIOUS
 <2> HIDE DEF T
 <2> QED  BY <1>9, <1>10, <2>1, NatSetInduction
<1>12. told(n) = PacketsIn(rd, i)  BY <1>1, <1>6
<1>13. Vouches(rd, told(n), r, h[n])
 <2> HIDE DEF told
 <2> QED  BY <1>2, <1>11
<1>14. t = h[n]  BY <1>7 DEF ImprovedVerified, s
<1> HIDE DEF told
<1> QED  BY <1>12, <1>13, <1>14

\* Whatever passed was not touched, unless its group was not passed by its tags.
Sound(w, r) ==
    /\ Quiet(r)
    /\ \A p \in 1 .. w.total : r.status[p] = "passed" => Intact(w, r, p) \/ Doubted(w, r)

\* All that was judged passed, and nothing was missed.
Pure(w, r) ==
    /\ ~ r.incomplete
    /\ \A i \in r.verified : \A p \in PacketsIn(w, i) : r.status[p] = "passed"

IntactTo(w, r, k) == \A i \in 1 .. k : \A p \in PacketsIn(w, i) : Intact(w, r, p)

Fit(w, r) == Ready(w, r) /\ Sound(w, r) /\ r.verified \subseteq 1 .. DataIntervalCount(w)

\* What a walk over the first k intervals makes of a receiver's state.
Moves(w, k, r, s) ==
    /\ Fit(w, s) /\ Notes(r, s)
    /\ Pure(w, r) /\ IntactTo(w, r, k) => Pure(w, s)

LEMMA SameIntactTo ==
    ASSUME NEW w, NEW r, NEW s, s.base = r.base, NEW k
    PROVE  IntactTo(w, s, k) <=> IntactTo(w, r, k)
  BY SameIntact DEF IntactTo

LEMMA MovesTwice ==
    ASSUME NEW w, NEW k, NEW r, NEW s, NEW t, Moves(w, k, r, s), Moves(w, k, s, t)
    PROVE  Moves(w, k, r, t)
  BY NotesTwice, SameIntactTo DEF Moves, Notes

LEMMA MovesNothing ==
    ASSUME NEW w, NEW k, NEW r, Fit(w, r)
    PROVE  Moves(w, k, r, r)
  BY BesideNothing DEF Fit, Ready, Beside, Moves

\* A change beside the verdicts is such a walk over no interval.
LEMMA BesideMoves ==
    ASSUME NEW w, NEW k, NEW r, NEW s, Fit(w, r), Beside(r, s)
    PROVE  Moves(w, k, r, s)
<1>1. /\ IsReceiver(s) /\ Notes(r, s) /\ s.base = r.base /\ s.status = r.status /\ s.verified = r.verified
      /\ r.paths \subseteq s.paths
  BY DEF Beside, Notes
<1>2. Ready(w, s)  BY <1>1 DEF Fit, Ready, BaseOK
<1>3. Doubted(w, r) => Doubted(w, s)  BY <1>1 DEF Doubted
<1>4. \A p : Intact(w, s, p) <=> Intact(w, r, p)  BY <1>1, SameIntact
<1>5. Quiet(s)  BY Zenon DEF Fit, Sound, Beside, Notes
<1>6. Sound(w, s)
 <2> SUFFICES ASSUME NEW p \in 1 .. w.total, s.status[p] = "passed"
              PROVE  Intact(w, s, p) \/ Doubted(w, s)
   BY <1>5, Zenon DEF Sound
 <2>1. Intact(w, r, p) \/ Doubted(w, r)  BY <1>1, Zenon DEF Fit, Sound
 <2> QED  BY <1>3, <1>4, <2>1, Zenon
<1>8. s.verified \subseteq 1 .. DataIntervalCount(w)  BY <1>1 DEF Fit
<1>7. Pure(w, r) => Pure(w, s)  BY <1>1 DEF Beside, Pure
<1> QED  BY <1>1, <1>2, <1>6, <1>7, <1>8, Zenon DEF Moves, Fit

LEMMA VerifyIntervalMoves ==
    ASSUME NEW r, Grouped(rd), Fit(rd, r), NEW i \in 1 .. DataIntervalCount(rd), NEW n \in Nat, i <= n,
           NEW t, t = VerifyInterval(r, i)
    PROVE  Moves(rd, n, r, t)
<1>0. i \in Nat \ {0} /\ Shaped(rd) /\ Ready(rd, r) /\ i \in 1 .. n
  BY IntervalHasPackets DEF Grouped, Fit
<1>1. CASE i \in r.verified \/ i \notin r.keys  BY <1>1, MovesNothing DEF VerifyInterval
<1>2. CASE ~ (i \in r.verified \/ i \notin r.keys)
 <2> DEFINE native == NativeVerified(r, i)
            s == IF rd.mode = "native" THEN NativeCopiesJudged(native, i) ELSE ImprovedVerified(r, i)
            verified == s.verified \cup {i}
            T == PacketsIn(rd, i)
 <2>1. t = [s EXCEPT !.verified = verified]  BY <1>2 DEF VerifyInterval
 <2>2. Judges(rd, r, s) /\ Vouches(rd, T, r, s)
  <3> HIDE DEF native
  <3>1. CASE rd.mode = "native"
    BY <1>0, <3>1, NativeVerifiedJudges, JudgesReady, NativeCopiesJudge, NativeVouches,
       JudgesTwice DEF native
  <3>2. CASE rd.mode = "improved"  BY <1>0, <3>2, ImprovedVerifiedJudges, ImprovedVouches
  <3> QED  BY <1>0, <3>1, <3>2 DEF Shaped
 <2>3. \A j, p : j \in verified => j \in s.verified \/ j = i  OBVIOUS
 <2> HIDE DEF s, T, verified
 <2>4. Ready(rd, s) /\ IsReceiver(s) /\ DOMAIN s.status = 1 .. rd.total
   BY <1>0, <2>2, JudgesReady DEF Ready
 <2>5. /\ IsReceiver(t) /\ t.base = s.base /\ t.blocks = s.blocks /\ t.counted = s.counted /\ t.paths = s.paths
       /\ t.incomplete = s.incomplete /\ t.status = s.status /\ t.verified = verified
       /\ t.reports = s.reports /\ t.eligible = s.eligible
   BY <2>1, <2>4 DEF IsReceiver, ReceiverFields
 <2>6. Notes(r, t)  BY <2>2, <2>5, NotesTwice DEF Vouches, Quiet, Notes
 <2>7. t.base = r.base /\ s.verified = r.verified  BY <2>2, <2>6 DEF Notes, Vouches
 <2>8. \A p : Intact(rd, t, p) <=> Intact(rd, r, p)  BY <2>7, SameIntact
 <2>9. Doubted(rd, s) => Doubted(rd, t)  BY <2>5 DEF Doubted
 <2>10. Doubted(rd, r) => Doubted(rd, t)  BY <2>6 DEF Doubted, Notes
 <2>11. Sound(rd, t)
  <3>1. Quiet(t)  BY <2>6, Zenon DEF Notes, Fit, Sound
  <3> SUFFICES ASSUME NEW p \in 1 .. rd.total, t.status[p] = "passed"
               PROVE  Intact(rd, t, p) \/ Doubted(rd, t)
    BY <3>1, Zenon DEF Sound
  <3>2. r.status[p] = "passed" \/ Intact(rd, r, p) \/ Doubted(rd, s)
    BY <2>2, <2>5, Zenon DEF Vouches
  <3>3. r.status[p] = "passed" => Intact(rd, r, p) \/ Doubted(rd, r)  BY Zenon DEF Fit, Sound
  <3> QED  BY <2>8, <2>9, <2>10, <3>2, <3>3, Zenon
 <2>12. Ready(rd, t) /\ t.verified \subseteq 1 .. DataIntervalCount(rd)
   BY <2>3, <2>4, <2>5, <2>7 DEF Ready, BaseOK, Fit
 <2>13. ASSUME Pure(rd, r), IntactTo(rd, r, n) PROVE Pure(rd, t)
  <3>1. \A p \in T : Intact(rd, r, p)  BY <1>0, <2>13 DEF IntactTo, T
  <3>2. (s.incomplete => r.incomplete) /\ \A p \in T : s.status[p] = "passed"
    BY <2>2, <3>1, Zenon DEF Vouches
  <3>3. ASSUME NEW j \in t.verified, NEW p \in PacketsIn(rd, j) PROVE t.status[p] = "passed"
   <4>1. CASE p \in T  BY <2>5, <3>2, <4>1
   <4>2. CASE p \notin T
    <5>1. j \in r.verified  BY <2>3, <2>5, <2>7, <4>2, <3>3 DEF T
    <5>2. j \in Nat \ {0}  BY <5>1 DEF Fit
    <5>3. r.status[p] = "passed"  BY <2>13, <5>1, <3>3, Zenon DEF Pure
    <5>4. p \in 1 .. rd.total => s.status[p] = r.status[p]  BY <2>2, <4>2, Zenon DEF Vouches
    <5>5. p \in 1 .. rd.total  BY <1>0, <3>3, <5>2, InInterval
    <5> QED  BY <2>5, <5>3, <5>4, <5>5
   <4> QED  BY <4>1, <4>2
  <3> QED  BY <2>5, <2>13, <3>2, <3>3, Zenon DEF Pure
 <2> QED  BY <2>6, <2>11, <2>12, <2>13, Zenon DEF Moves, Fit
<1> QED  BY <1>1, <1>2

LEMMA LearnMoves ==
    ASSUME NEW r, Grouped(rd), Fit(rd, r), NEW i \in 1 .. DataIntervalCount(rd), NEW n \in Nat, i <= n,
           NEW t, t = Learn(r, i)
    PROVE  Moves(rd, n, r, t)
<1> DEFINE keys == r.keys \cup {i}
           s == [r EXCEPT !.keys = keys]
<1>1. IsReceiver(r)  BY DEF Fit, Ready
<1>2. t = VerifyInterval(s, i)  BY DEF Learn
<1> HIDE DEF keys
<1>3. /\ IsReceiver(s) /\ s.base = r.base /\ s.blocks = r.blocks /\ s.counted = r.counted /\ s.paths = r.paths
      /\ s.incomplete = r.incomplete /\ s.status = r.status /\ s.verified = r.verified
      /\ s.reports = r.reports /\ s.eligible = r.eligible
  BY <1>1 DEF IsReceiver, ReceiverFields
<1> HIDE DEF s
<1>4. Beside(r, s)  BY <1>3 DEF Quiet, Beside, Notes
<1>5. Moves(rd, n, r, s)  BY <1>4, BesideMoves
<1>6. Moves(rd, n, s, t)  BY <1>2, <1>5, VerifyIntervalMoves DEF Moves
<1> QED  BY <1>5, <1>6, MovesTwice

LEMMA LoopMoves ==
    ASSUME NEW w, NEW m, NEW loop, NEW r, NEW s, NEW n \in Nat, NEW h, Runs(h, loop, r, n, s), Fit(w, r),
           \A k \in 1 .. n : \A q : Fit(w, q) => Moves(w, m, q, Step(loop, q, s[k]))
    PROVE  Moves(w, m, r, h[n])
<1> DEFINE T == {k \in Nat : k <= n => Moves(w, m, r, h[k])}
<1>1. 0 \in T  BY MovesNothing DEF Runs
<1>2. ASSUME NEW k \in T PROVE k + 1 \in T
 <2> SUFFICES ASSUME k + 1 <= n PROVE Moves(w, m, r, h[k + 1])  OBVIOUS
 <2>1. k \in Nat /\ k <= n /\ k + 1 \in 1 .. n /\ (k + 1) - 1 = k  OBVIOUS
 <2>2. Moves(w, m, r, h[k]) /\ Fit(w, h[k])  BY <2>1 DEF Moves
 <2>3. h[k + 1] = Step(loop, h[k], s[k + 1])  BY <2>1 DEF Runs
 <2>4. Moves(w, m, h[k], h[k + 1])  BY <2>1, <2>2, <2>3
 <2> QED  BY <2>2, <2>4, MovesTwice
<1>3. T = Nat
 <2>1. T \in SUBSET Nat  OBVIOUS
 <2> HIDE DEF T
 <2> QED  BY <1>1, <1>2, <2>1, NatSetInduction
<1> QED  BY <1>3

LEMMA LearntMoves ==
    ASSUME NEW r, Grouped(rd), NEW index \in Nat, index <= DataIntervalCount(rd),
           NEW c, c = KeyCounted(r, index), Fit(rd, c), NEW t, t = Learnt(r, index)
    PROVE  Moves(rd, index, c, t)
<1> DEFINE s == KeysDownFrom(index)
<1>1. t = FoldLeft(Learn, c, s)  BY DEF Learnt
<1>2. DOMAIN s = 1 .. index /\ \A n \in 1 .. index : s[n] \in 1 .. DataIntervalCount(rd) /\ s[n] <= index
  BY IntervalsAreNumbers DEF Grouped, KeysDownFrom
<1> HIDE DEF s
<1>3. PICK h : Runs(h, "keys", c, index, s) /\ FoldLeft(Learn, c, s) = h[index]  BY <1>2, KeysLoop
<1>4. \A k \in 1 .. index : \A q : Fit(rd, q) => Moves(rd, index, q, Step("keys", q, s[k]))
  BY <1>2, LearnMoves DEF Step
<1>5. Moves(rd, index, c, h[index])  BY <1>3, <1>4, LoopMoves
<1> QED  BY <1>1, <1>3, <1>5

LEMMA LastWalkMoves ==
    ASSUME NEW r, Grouped(rd), Fit(rd, r),
           NEW t, t = TellsMissing(FoldLeft(VerifyInterval, r, [i \in IntervalsOfData |-> i]))
    PROVE  Moves(rd, DataIntervalCount(rd), r, t)
<1> DEFINE n == DataIntervalCount(rd)
           s == [i \in IntervalsOfData |-> i]
           q == FoldLeft(VerifyInterval, r, s)
<1>1. DOMAIN s = 1 .. n /\ (\A i \in 1 .. n : s[i] = i) /\ n \in Nat
  BY IntervalsAreNumbers DEF IntervalsOfData, Grouped
<1> HIDE DEF s
<1>2. PICK h : Runs(h, "intervals", r, n, s) /\ q = h[n]  BY <1>1, IntervalsLoop
<1>3. \A k \in 1 .. n : \A x : Fit(rd, x) => Moves(rd, n, x, Step("intervals", x, s[k]))
  BY <1>1, VerifyIntervalMoves DEF Step
<1>5. t = Reports(q, "MissingPacket", Missing(q))  BY DEF TellsMissing, s
<1> HIDE DEF q, n
<1>4. Moves(rd, n, r, q)  BY <1>1, <1>2, <1>3, LoopMoves
<1>6. Beside(q, t) /\ Fit(rd, q)  BY <1>4, <1>5, ReportsBeside DEF Moves, Fit, Ready
<1>7. Moves(rd, n, q, t)  BY <1>6, BesideMoves
<1>8. Moves(rd, n, r, t)  BY <1>4, <1>7, MovesTwice
<1> QED  BY <1>8 DEF n

-----------------------------------------------------------------------------
(* The result.                                                              *)

\* A result says what the receiver's state is.
Settled(r) ==
    r.result # NoResult =>
      /\ r.result.comparable => r.result.status = "Completed" /\ r.eligible /\ PathEligible(r)
      /\ r.result.status = "Completed" =>
           ~ r.incomplete /\ Whole(r) /\ r.result.payload = Recovered(r, "Completed")

\* Everything else stays when the result is set.
LEMMA ResultLeaves ==
    ASSUME NEW r, IsReceiver(r), NEW status, NEW s, s = Result(r, status)
    PROVE  /\ IsReceiver(s) /\ s.base = r.base /\ s.blocks = r.blocks /\ s.counted = r.counted /\ s.paths = r.paths
           /\ s.incomplete = r.incomplete /\ s.status = r.status /\ s.verified = r.verified
           /\ s.reports = r.reports /\ s.eligible = r.eligible
           /\ s.result # NoResult /\ s.result.status = status /\ s.result.payload = Recovered(r, status)
           /\ s.result.comparable <=> (status = "Completed" /\ r.eligible /\ PathEligible(r))
<1> DEFINE received == rd.total - Cardinality(Missing(r))
           authenticated == Cardinality(Counted(r, "passed"))
           failed == Cardinality(Counted(r, "failed"))
           missing == Cardinality(Missing(r))
           payload == Recovered(r, status)
           comparable == status = "Completed" /\ r.eligible /\ PathEligible(r)
           result == [status |-> status, received |-> received, authenticated |-> authenticated,
                      failed |-> failed, missing |-> missing, payload |-> payload, comparable |-> comparable]
<1>1. s = [r EXCEPT !.result = result]  BY DEF Result
<1>2. comparable <=> (status = "Completed" /\ r.eligible /\ PathEligible(r))  OBVIOUS
<1> HIDE DEF received, authenticated, failed, missing, payload, comparable
<1>3. result.status = status /\ result.payload = payload /\ result.comparable = comparable /\ result # NoResult
  BY DEF NoResult
<1> HIDE DEF result
<1>4. /\ IsReceiver(s) /\ s.base = r.base /\ s.blocks = r.blocks /\ s.counted = r.counted /\ s.paths = r.paths
      /\ s.incomplete = r.incomplete /\ s.status = r.status /\ s.verified = r.verified
      /\ s.reports = r.reports /\ s.eligible = r.eligible /\ s.result = result
  BY <1>1 DEF IsReceiver, ReceiverFields
<1> QED  BY <1>2, <1>3, <1>4, Zenon DEF payload

LEMMA SameRecovered ==
    ASSUME NEW r, NEW s, s.base = r.base, s.status = r.status, s.paths = r.paths
    PROVE  /\ Whole(s) <=> Whole(r)
           /\ Recovered(s, "Completed") = Recovered(r, "Completed")
           /\ PathEligible(s) <=> PathEligible(r)
<1>1. \A x : Counted(s, x) = Counted(r, x)  BY DEF Counted
<1>2. Missing(s) = Missing(r)  BY DEF Missing
<1>3. \A p : BaseSlot(s, p) = BaseSlot(r, p)  BY DEF BaseSlot
<1>4. PassedMessages(s) = PassedMessages(r)  BY <1>1, <1>3 DEF PassedMessages
<1>5. Whole(s) <=> Whole(r)  BY <1>1, <1>2 DEF Whole
<1>6. PathEligible(s) <=> PathEligible(r)  BY DEF PathEligible
<1>7. Recovered(s, "Completed") = Recovered(r, "Completed")  BY <1>4 DEF Recovered
<1> QED  BY <1>5, <1>6, <1>7

LEMMA ResultSettles ==
    ASSUME NEW r, IsReceiver(r), NEW status, NEW s, s = Result(r, status),
           status = "Completed" => ~ r.incomplete /\ Whole(r)
    PROVE  Settled(s)
<1>1. /\ s.base = r.base /\ s.paths = r.paths /\ s.incomplete = r.incomplete /\ s.status = r.status
      /\ s.eligible = r.eligible
      /\ s.result # NoResult /\ s.result.status = status /\ s.result.payload = Recovered(r, status)
      /\ s.result.comparable <=> (status = "Completed" /\ r.eligible /\ PathEligible(r))
  BY ResultLeaves
<1>2. /\ Whole(s) <=> Whole(r)
      /\ Recovered(s, "Completed") = Recovered(r, "Completed")
      /\ PathEligible(s) <=> PathEligible(r)
  BY <1>1, SameRecovered
<1>3. s.result.comparable => s.result.status = "Completed" /\ s.eligible /\ PathEligible(s)
  BY <1>1, <1>2, Zenon
<1>4. s.result.status = "Completed" =>
        ~ s.incomplete /\ Whole(s) /\ s.result.payload = Recovered(s, "Completed")
  BY <1>1, <1>2, Zenon
<1> QED  BY <1>3, <1>4, Zenon DEF Settled

LEMMA ConcludedSettles ==
    ASSUME NEW r, IsReceiver(r), NEW s, s = Concluded(r)
    PROVE  /\ Settled(s)
           /\ ~ r.incomplete /\ Whole(r) /\ Recovered(r, "Completed") # <<>> => s.result.status = "Completed"
<1>1. s = Result(r, Outcome(r))  BY DEF Concluded
<1> DEFINE inc == r.incomplete
           done == Whole(r) /\ Recovered(r, "Completed") # <<>>
<1>2. Outcome(r) = CASE inc -> "ProtocolIncomplete"
                     [] ~ inc /\ done -> "Completed"
                     [] OTHER -> "AuthenticationFailed"
  BY Zenon DEF Outcome
<1>3. Outcome(r) = "Completed" => ~ inc /\ done
 <2> HIDE DEF inc, done
 <2>1. CASE inc  BY <1>2, <2>1
 <2>2. CASE ~ inc /\ ~ done  BY <1>2, <2>2
 <2> QED  BY <2>1, <2>2, Zenon
<1>4. ~ inc /\ done => Outcome(r) = "Completed"
 <2> HIDE DEF inc, done
 <2> QED  BY <1>2
<1>5. s.result.status = Outcome(r)  BY <1>1, ResultLeaves
<1>6. Settled(s)  BY <1>1, <1>3, ResultSettles
<1> QED  BY <1>4, <1>5, <1>6

\* What is never taken back.
Prolongs(r, s) ==
    /\ IsReceiver(s) /\ s.base = r.base /\ r.reports \subseteq s.reports
    /\ r.incomplete => s.incomplete

LEMMA KeyCountedIs ==
    ASSUME NEW w, NEW r, Fit(w, r), NEW index, NEW c, c = KeyCounted(r, index)
    PROVE  /\ Fit(w, c) /\ Prolongs(r, c) /\ (Pure(w, r) => Pure(w, c))
           /\ c.counted = r.counted \cup {index}
           /\ c.blocks = IF index \in r.counted THEN r.blocks ELSE r.blocks + 1
<1> DEFINE counted == r.counted \cup {index}
           blocks == IF index \in r.counted THEN r.blocks ELSE r.blocks + 1
<1>1. c = [r EXCEPT !.counted = counted, !.blocks = blocks]  BY DEF KeyCounted
<1>2. IsReceiver(r)  BY DEF Fit, Ready
<1> HIDE DEF counted, blocks
<1>3. /\ IsReceiver(c) /\ c.base = r.base /\ c.blocks = blocks /\ c.counted = counted /\ c.paths = r.paths
      /\ c.incomplete = r.incomplete /\ c.status = r.status /\ c.verified = r.verified
      /\ c.reports = r.reports /\ c.eligible = r.eligible
  BY <1>1, <1>2 DEF IsReceiver, ReceiverFields
<1>4. Ready(w, c) /\ c.verified \subseteq 1 .. DataIntervalCount(w)  BY <1>3 DEF Fit, Ready, BaseOK
<1>5. \A p : Intact(w, c, p) <=> Intact(w, r, p)  BY <1>3, SameIntact
<1>6. Doubted(w, c) <=> Doubted(w, r)  BY <1>3 DEF Doubted
<1>7. Quiet(c)  BY <1>3, Zenon DEF Fit, Sound, Quiet
<1>8. Sound(w, c)  BY <1>3, <1>5, <1>6, <1>7, Zenon DEF Fit, Sound
<1>9. Pure(w, r) => Pure(w, c)  BY <1>3, Zenon DEF Pure
<1>10. Prolongs(r, c)  BY <1>3 DEF Prolongs
<1> QED  BY <1>3, <1>4, <1>8, <1>9, <1>10 DEF Fit, counted, blocks

LEMMA MovesAdds ==
    ASSUME NEW w, NEW k, NEW r, NEW s, Moves(w, k, r, s)
    PROVE  Prolongs(r, s)
  BY DEF Moves, Fit, Ready, Prolongs, Notes

LEMMA AddsTwice ==
    ASSUME NEW r, NEW s, NEW t, Prolongs(r, s), Prolongs(s, t)
    PROVE  Prolongs(r, t)
  BY DEF Prolongs

LEMMA SetIncomplete ==
    ASSUME NEW w, NEW r, Fit(w, r), NEW s, s = [r EXCEPT !.incomplete = TRUE]
    PROVE  Fit(w, s) /\ Prolongs(r, s) /\ s.incomplete /\ s.result = r.result
           /\ s.reports = r.reports /\ s.status = r.status
<1>1. IsReceiver(r)  BY DEF Fit, Ready
<1>2. /\ IsReceiver(s) /\ s.base = r.base /\ s.blocks = r.blocks /\ s.counted = r.counted /\ s.paths = r.paths
      /\ s.incomplete = TRUE /\ s.status = r.status /\ s.verified = r.verified
      /\ s.reports = r.reports /\ s.eligible = r.eligible /\ s.result = r.result
  BY <1>1 DEF IsReceiver, ReceiverFields
<1>3. Ready(w, s) /\ s.verified \subseteq 1 .. DataIntervalCount(w)  BY <1>2 DEF Fit, Ready, BaseOK
<1>4. \A p : Intact(w, s, p) <=> Intact(w, r, p)  BY <1>2, SameIntact
<1>5. Doubted(w, s) <=> Doubted(w, r)  BY <1>2 DEF Doubted
<1>6. Quiet(s)  BY <1>2, Zenon DEF Fit, Sound, Quiet
<1>7. Sound(w, s)  BY <1>2, <1>4, <1>5, <1>6, Zenon DEF Fit, Sound
<1>8. Prolongs(r, s)  BY <1>2 DEF Prolongs
<1> QED  BY <1>2, <1>3, <1>7, <1>8 DEF Fit

\* The result leaves what Fit says.
LEMMA ResultFit ==
    ASSUME NEW w, NEW r, Fit(w, r), NEW status, NEW s, s = Result(r, status)
    PROVE  Fit(w, s) /\ Prolongs(r, s) /\ (Pure(w, r) => Pure(w, s))
<1>1. IsReceiver(r)  BY DEF Fit, Ready
<1>2. /\ IsReceiver(s) /\ s.base = r.base /\ s.blocks = r.blocks /\ s.counted = r.counted /\ s.paths = r.paths
      /\ s.incomplete = r.incomplete /\ s.status = r.status /\ s.verified = r.verified
      /\ s.reports = r.reports /\ s.eligible = r.eligible
  BY <1>1, ResultLeaves
<1>3. Ready(w, s) /\ s.verified \subseteq 1 .. DataIntervalCount(w)  BY <1>2 DEF Fit, Ready, BaseOK
<1>4. \A p : Intact(w, s, p) <=> Intact(w, r, p)  BY <1>2, SameIntact
<1>5. Doubted(w, s) <=> Doubted(w, r)  BY <1>2 DEF Doubted
<1>6. Quiet(s)  BY <1>2, Zenon DEF Fit, Sound, Quiet
<1>7. Sound(w, s)  BY <1>2, <1>4, <1>5, <1>6, Zenon DEF Fit, Sound
<1>8. Prolongs(r, s) /\ (Pure(w, r) => Pure(w, s))  BY <1>2, Zenon DEF Prolongs, Pure
<1> QED  BY <1>2, <1>3, <1>7, <1>8 DEF Fit

\* A receiver that has judged everything, and passed it, has the payload.
LEMMA PureCompletes ==
    ASSUME rd \in RoundSet, Buildable(rd), NEW v, Pure(rd, v), IntactTo(rd, v, DataIntervalCount(rd)),
           1 .. DataIntervalCount(rd) \subseteq v.verified
    PROVE  ~ v.incomplete /\ Whole(v) /\ Recovered(v, "Completed") # <<>>
<1>1. Shaped(rd)  BY BuildableIsShaped
<1>2. ASSUME NEW p \in 1 .. rd.total PROVE v.status[p] = "passed" /\ Intact(rd, v, p)
  BY <1>1, <1>2, IntervalOf DEF Pure, IntactTo
<1>3. Whole(v)  BY <1>2 DEF Intact, Genuinely, Whole, Counted, Missing, Packets
<1>4. AllGenuine(v)  BY <1>2, <1>3 DEF AllGenuine, Intact
<1> QED  BY <1>3, <1>4, PayloadComesBack DEF Pure

LEMMA KeyProcessedIs ==
    ASSUME NEW r, rd \in RoundSet, Buildable(rd), Fit(rd, r), r.result = NoResult, NEW interval \in Nat, NEW key,
           NEW u, u = KeyProcessed(r, interval, key), NEW index, index = KeyIndex(interval)
    PROVE  /\ Fit(rd, u) /\ Prolongs(r, u) /\ Settled(u)
           /\ u.result # NoResult => interval = FinalInterval(rd)
           /\ KeyFits(interval, key) =>
                /\ u.counted = r.counted \cup {index}
                /\ u.blocks = IF index \in r.counted THEN r.blocks ELSE r.blocks + 1
                /\ Pure(rd, r) /\ IntactTo(rd, r, index) =>
                     /\ Pure(rd, u)
                     /\ interval = FinalInterval(rd) => u.result.status = "Completed" /\ u.result # NoResult
<1>1. Shaped(rd) /\ Grouped(rd) /\ DataIntervalCount(rd) \in Nat \ {0} /\ rd.delay \in Nat
  BY BuildableIsShaped, BuildableIsGrouped, IntervalsAreNumbers DEF Shaped
<1>2. CASE ~ KeyFits(interval, key)  BY <1>2, SetIncomplete DEF KeyProcessed, Settled
<1>3. CASE KeyFits(interval, key)
 <2> DEFINE c == KeyCounted(r, index)
            t == Learnt(r, index)
            v == TellsMissing(FoldLeft(VerifyInterval, t, [i \in IntervalsOfData |-> i]))
            N == DataIntervalCount(rd)
 <2>1. index \in Nat /\ index <= N /\ index = interval - rd.delay
   BY <1>1, <1>3 DEF KeyFits, KeyIndex
 <2>2. u = IF index = N THEN Finalized(t) ELSE t  BY <1>3 DEF KeyProcessed, AfterKey
 <2>3. Finalized(t) = Concluded(v)  BY DEF Finalized
 <2>4. /\ Fit(rd, c) /\ Prolongs(r, c) /\ (Pure(rd, r) => Pure(rd, c))
       /\ c.counted = r.counted \cup {index}
       /\ c.blocks = IF index \in r.counted THEN r.blocks ELSE r.blocks + 1
   BY KeyCountedIs
 <2>5. Moves(rd, index, c, t)
  <3> HIDE DEF c, t, N
  <3> QED  BY <1>1, <2>1, <2>4, LearntMoves DEF c, t, N
 <2>6. Judges(rd, r, t) /\ (1 .. index) \subseteq t.verified  BY <1>1, <2>1, LearntJudges DEF Fit
 <2>7. Fit(rd, t)  BY <2>5 DEF Moves
 <2>8. Moves(rd, N, t, v)
  <3> HIDE DEF t
  <3> QED  BY <1>1, <2>7, LastWalkMoves
 <2>9. Judges(rd, t, v)
  <3> HIDE DEF t
  <3> QED  BY <1>1, <2>7, LastWalkJudges DEF Fit
 <2>10. interval = FinalInterval(rd) <=> index = N  BY <1>1, <2>1 DEF FinalInterval
 <2> HIDE DEF c, t, v, N
 <2>11. t.result = NoResult /\ Prolongs(r, t) /\ t.counted = c.counted /\ t.blocks = c.blocks
   BY <2>4, <2>5, <2>6, MovesAdds, AddsTwice DEF Moves, Notes, Judges
 <2>12. ASSUME Pure(rd, r), IntactTo(rd, r, index) PROVE Pure(rd, t)
   BY <2>4, <2>5, <2>12, SameIntactTo DEF Prolongs, Moves
 <2>13. CASE index # N  BY <2>2, <2>4, <2>7, <2>10, <2>11, <2>12, <2>13 DEF Settled
 <2>14. CASE index = N
  <3>1. u = Concluded(v) /\ u = Result(v, Outcome(v))  BY <2>2, <2>3, <2>14 DEF Concluded
  <3>2. Fit(rd, v) /\ IsReceiver(v) /\ Prolongs(t, v) /\ v.blocks = t.blocks /\ v.counted = t.counted
    BY <2>8, MovesAdds DEF Moves, Notes, Prolongs
  <3>3. /\ Settled(u)
        /\ ~ v.incomplete /\ Whole(v) /\ Recovered(v, "Completed") # <<>> => u.result.status = "Completed"
    BY <3>1, <3>2, ConcludedSettles
  <3>4. Fit(rd, u) /\ Prolongs(v, u) /\ (Pure(rd, v) => Pure(rd, u))  BY <3>1, <3>2, ResultFit
  <3>5. u.counted = v.counted /\ u.blocks = v.blocks /\ u.result # NoResult
    BY <3>1, <3>2, ResultLeaves
  <3>6. ASSUME Pure(rd, r), IntactTo(rd, r, index)
        PROVE  Pure(rd, u) /\ u.result.status = "Completed"
   <4>1. Pure(rd, t)  BY <2>12, <3>6
   <4>2. IntactTo(rd, t, N)  BY <2>11, <2>14, <3>6, SameIntactTo DEF Prolongs
   <4>3. Pure(rd, v)  BY <2>8, <4>1, <4>2, Zenon DEF Moves
   <4>4. IntactTo(rd, v, N)  BY <3>2, <4>2, SameIntactTo DEF Prolongs
   <4>5. 1 .. N \subseteq v.verified  BY <2>6, <2>9, <2>14 DEF Judges
   <4>6. ~ v.incomplete /\ Whole(v) /\ Recovered(v, "Completed") # <<>>
     BY <4>3, <4>4, <4>5, PureCompletes DEF N
   <4> QED  BY <3>3, <3>4, <4>3, <4>6, Zenon
  <3>7. Prolongs(r, u)  BY <2>11, <3>2, <3>4, AddsTwice
  <3> QED  BY <2>4, <2>10, <2>11, <2>14, <3>2, <3>3, <3>4, <3>5, <3>6, <3>7
 <2> QED  BY <2>13, <2>14
<1> QED  BY <1>2, <1>3

(* What a reception makes of a receiver.                                    *)

\* Neither a report nor a gap is taken back.
Gains(r, s) == r.reports \subseteq s.reports /\ (r.incomplete => s.incomplete)

\* A reception before the result: the receiver's state is what it has to be.
Receives(w, r) == Open(w, r) /\ Fit(w, r)

LEMMA OtherIntact ==
    ASSUME NEW w, NEW r, NEW s, NEW p, s.base[p] = r.base[p]
    PROVE  Intact(w, s, p) <=> Intact(w, r, p)
  BY Zenon DEF Intact, Genuinely, TagsIntact

\* A datagram whose slot is free, and the slot taken.
SlotFree(w, r, d) ==
    /\ Receives(w, r) /\ d.interval \in Nat
    /\ d.index \in 1 .. w.total /\ r.base[d.index] = <<>> /\ AsSent(w, d.index, d)

SlotTaken(r, d, base, blocks, s) ==
    /\ base = [r.base EXCEPT ![d.index] = <<d>>]
    /\ s = [r EXCEPT !.base = base, !.blocks = blocks]

\* A packet takes its slot: what passed before is untouched.
LEMMA SlotFit ==
    ASSUME NEW r, Shaped(rd), NEW d, SlotFree(rd, r, d), NEW p, p = d.index,
           NEW blocks, NEW base, NEW s, SlotTaken(r, d, base, blocks, s)
    PROVE  /\ Receives(rd, s) /\ Gains(r, s) /\ (Pure(rd, r) => Pure(rd, s))
           /\ s.base = base /\ s.blocks = blocks /\ s.counted = r.counted /\ s.result = NoResult
           /\ s.incomplete = r.incomplete /\ base[p] = <<d>>
           /\ \A q \in 1 .. rd.total : q # p => base[q] = r.base[q]
<1>0. /\ Receives(rd, r) /\ p \in 1 .. rd.total /\ r.base[p] = <<>> /\ AsSent(rd, p, d)
      /\ base = [r.base EXCEPT ![p] = <<d>>] /\ s = [r EXCEPT !.base = base, !.blocks = blocks]
  BY DEF SlotFree, SlotTaken
<1>1. IsReceiver(r) /\ DOMAIN r.base = 1 .. rd.total /\ r.result = NoResult
  BY <1>0 DEF Receives, Open, Ready, BaseOK
<1>2. base[p] = <<d>> /\ \A q \in 1 .. rd.total : q # p => base[q] = r.base[q]  BY <1>0, <1>1
<1>3. s = [r EXCEPT !.base[p] = <<d>>, !.blocks = blocks]  BY <1>0
<1>4. Open(rd, s)
 <2>1. Open(rd, [r EXCEPT !.base[p] = <<d>>, !.blocks = blocks])  BY <1>0, SlotOpen DEF Receives
 <2> QED  BY <1>3, <2>1
<1>5. /\ IsReceiver(s) /\ s.base = base /\ s.blocks = blocks /\ s.counted = r.counted /\ s.paths = r.paths
      /\ s.incomplete = r.incomplete /\ s.status = r.status /\ s.verified = r.verified
      /\ s.reports = r.reports /\ s.eligible = r.eligible /\ s.result = r.result
  BY <1>0, <1>1 DEF IsReceiver, ReceiverFields
<1>6. \A q \in 1 .. rd.total : q # p => (Intact(rd, s, q) <=> Intact(rd, r, q))
 <2> SUFFICES ASSUME NEW q \in 1 .. rd.total, q # p PROVE Intact(rd, s, q) <=> Intact(rd, r, q)
   OBVIOUS
 <2>1. s.base[q] = r.base[q]  BY <1>2, <1>5
 <2> QED  BY <2>1, OtherIntact
<1>7. r.status[p] # "passed"  BY <1>0 DEF Receives, Open, StatusGood, Genuinely
<1>8. Doubted(rd, s) <=> Doubted(rd, r)  BY <1>5 DEF Doubted
<1>9. Quiet(s)  BY <1>0, <1>5, Zenon DEF Receives, Fit, Sound, Quiet
<1>10. Sound(rd, s)
 <2> SUFFICES ASSUME NEW q \in 1 .. rd.total, s.status[q] = "passed"
              PROVE  Intact(rd, s, q) \/ Doubted(rd, s)
   BY <1>9 DEF Sound
 <2>1. r.status[q] = "passed" /\ q # p  BY <1>5, <1>7
 <2>2. Intact(rd, r, q) \/ Doubted(rd, r)  BY <1>0, <2>1 DEF Receives, Fit, Sound
 <2> QED  BY <1>6, <1>8, <2>1, <2>2
<1>11. Fit(rd, s)  BY <1>4, <1>10 DEF Open, Fit
<1>12. Pure(rd, r) => Pure(rd, s)  BY <1>5, Zenon DEF Pure
<1>13. Gains(r, s)  BY <1>5 DEF Gains
<1> QED  BY <1>1, <1>2, <1>4, <1>5, <1>11, <1>12, <1>13 DEF Receives

LEMMA BesideReceives ==
    ASSUME NEW r, Receives(rd, r), NEW s, Beside(r, s)
    PROVE  /\ Fit(rd, s) /\ Gains(r, s) /\ (Pure(rd, r) => Pure(rd, s))
           /\ s.base = r.base /\ s.blocks = r.blocks /\ s.counted = r.counted
<1>1. Moves(rd, 0, r, s)  BY BesideMoves DEF Receives
<1>2. Fit(rd, s) /\ s.base = r.base /\ s.blocks = r.blocks /\ s.counted = r.counted
  BY <1>1 DEF Moves, Notes
<1>3. Gains(r, s)  BY <1>1, Zenon DEF Moves, Notes, Gains
<1>4. Pure(rd, r) => Pure(rd, s)  BY DEF Beside, Pure
<1> QED  BY <1>2, <1>3, <1>4

\* A further version of a packet is counted or kept, and told.
LEMMA AfterBaselineBeside ==
    ASSUME NEW r, IsReceiver(r), NEW d, NEW attack, NEW s, s = AfterBaseline(r, d, attack)
    PROVE  Beside(r, s) /\ s.reports # {} /\ s.result = r.result
<1> DEFINE p == d.index
           place == SelectInSeq(r.copies[p], LAMBDA c : c.datagram = d)
           more == [r.copies EXCEPT ![p][place].count = @ + 1]
           longer == [r.copies EXCEPT ![p] = Append(@, Candidate(d, attack))]
           counted == [r EXCEPT !.copies = more]
           kept == [r EXCEPT !.copies = longer]
<1>1. \/ s = OneReport(r, "ReplayDuplicate", p)
      \/ s = OneReport(counted, "ReplayDuplicate", p)
      \/ s = OneReport(r, "TamperedVariant", p)
      \/ s = OneReport(kept, "TamperedVariant", p)
  BY DEF AfterBaseline
<1> HIDE DEF more, longer
<1>2. Beside(r, counted) /\ Beside(r, kept)  BY CopiesBeside
<1>3. counted.result = r.result /\ kept.result = r.result  BY DEF IsReceiver, ReceiverFields
<1> HIDE DEF counted, kept
<1>4. IsReceiver(counted) /\ IsReceiver(kept)  BY <1>2 DEF Beside
<1>5. \A kind, q, t : IsReceiver(q) /\ t = OneReport(q, kind, p) => Beside(q, t) /\ t.reports # {} /\ t.result = q.result
 <2> SUFFICES ASSUME NEW kind, NEW q, NEW t, IsReceiver(q), t = OneReport(q, kind, p)
              PROVE  Beside(q, t) /\ t.reports # {} /\ t.result = q.result
   OBVIOUS
 <2>1. t.result = q.result  BY DEF OneReport, IsReceiver, ReceiverFields
 <2> QED  BY <2>1, OneReportBeside
<1>6. PICK q : (q = r \/ q = counted \/ q = kept) /\ \E kind : s = OneReport(q, kind, p)
  BY <1>1, Zenon
<1>7. IsReceiver(q) /\ Beside(r, q) /\ q.result = r.result  BY <1>2, <1>3, <1>4, <1>6, BesideNothing
<1>8. Beside(q, s) /\ s.reports # {} /\ s.result = q.result  BY <1>5, <1>6, <1>7
<1> QED  BY <1>7, <1>8, BesideTwice

LEMMA BeforeBaselineBeside ==
    ASSUME NEW r, IsReceiver(r), NEW d, NEW s, s = BeforeBaseline(r, d)
    PROVE  Beside(r, s) /\ s.result = r.result
<1> DEFINE p == d.index
           place == SelectInSeq(r.copies[p], LAMBDA c : c.datagram = d)
           more == [r.copies EXCEPT ![p][place].count = @ + 1]
           longer == [r.copies EXCEPT ![p] = Append(@, Candidate(d, TRUE))]
           counted == [r EXCEPT !.copies = more]
           kept == [r EXCEPT !.copies = longer]
<1>1. s = counted \/ s = OneReport(r, "TamperedVariant", p) \/ s = kept  BY DEF BeforeBaseline
<1> HIDE DEF more, longer
<1>2. Beside(r, counted) /\ Beside(r, kept)  BY CopiesBeside
<1>3. counted.result = r.result /\ kept.result = r.result  BY DEF IsReceiver, ReceiverFields
<1>4. s = OneReport(r, "TamperedVariant", p) => Beside(r, s) /\ s.result = r.result
  BY OneReportBeside DEF OneReport, IsReceiver, ReceiverFields
<1> HIDE DEF counted, kept
<1> QED  BY <1>1, <1>2, <1>3, <1>4

\* A datagram that is late, or that cannot be read, marks the round.
LEMMA MarkedReceives ==
    ASSUME NEW r, Receives(rd, r), NEW kind, NEW p, NEW t, t = [r EXCEPT !.incomplete = TRUE],
           NEW s, s = OneReport(t, kind, p)
    PROVE  /\ Fit(rd, s) /\ Gains(r, s) /\ s.base = r.base /\ s.result = NoResult
           /\ s.incomplete /\ s.reports # {}
<1>1. Fit(rd, t) /\ t.base = r.base /\ t.incomplete /\ t.result = r.result /\ t.reports = r.reports /\ IsReceiver(t)
  BY SetIncomplete DEF Receives, Prolongs
<1> DEFINE reports == t.reports \cup {[kind |-> kind, packet |-> p]}
<1>2. s = [t EXCEPT !.reports = reports, !.eligible = FALSE]  BY DEF OneReport
<1> HIDE DEF reports
<1>3. s.result = t.result  BY <1>1, <1>2 DEF IsReceiver, ReceiverFields
<1>4. Beside(t, s) /\ s.reports # {}  BY <1>1, OneReportBeside
<1>5. Moves(rd, 0, t, s)  BY <1>1, <1>4, BesideMoves
<1>6. Fit(rd, s) /\ s.base = t.base /\ t.reports \subseteq s.reports  BY <1>5 DEF Moves, Notes
<1>7. s.incomplete  BY <1>1, <1>5, Zenon DEF Moves, Notes
<1> QED  BY <1>1, <1>3, <1>4, <1>6, <1>7 DEF Receives, Open, Gains

\* The use of a key: it is counted once, and verifies what it can.
Uses(w, r, u, interval, key) ==
    KeyFits(interval, key) =>
      /\ u.counted = r.counted \cup {KeyIndex(interval)}
      /\ u.blocks = IF KeyIndex(interval) \in r.counted THEN r.blocks ELSE r.blocks + 1
      /\ Pure(w, r) /\ IntactTo(w, r, KeyIndex(interval)) =>
           /\ Pure(w, u)
           /\ interval = FinalInterval(w) => u.result.status = "Completed" /\ u.result # NoResult

\* What every reception keeps.
Received(w, r, u, interval) ==
    /\ Fit(w, u) /\ Gains(r, u) /\ Settled(u)
    /\ u.result # NoResult => interval = FinalInterval(w)

LEMMA KeyUsed ==
    ASSUME NEW r, rd \in RoundSet, Buildable(rd), Receives(rd, r), NEW interval \in Nat, NEW key,
           NEW u, u = KeyProcessed(r, interval, key)
    PROVE  Received(rd, r, u, interval) /\ u.base = r.base /\ Uses(rd, r, u, interval, key)
<1> DEFINE index == KeyIndex(interval)
<1>0. Fit(rd, r) /\ r.result = NoResult  BY DEF Receives, Open
<1> HIDE DEF index
<1>1. /\ Fit(rd, u) /\ Prolongs(r, u) /\ Settled(u)
      /\ u.result # NoResult => interval = FinalInterval(rd)
      /\ KeyFits(interval, key) =>
           /\ u.counted = r.counted \cup {index}
           /\ u.blocks = IF index \in r.counted THEN r.blocks ELSE r.blocks + 1
           /\ Pure(rd, r) /\ IntactTo(rd, r, index) =>
                /\ Pure(rd, u)
                /\ interval = FinalInterval(rd) => u.result.status = "Completed" /\ u.result # NoResult
  BY <1>0, KeyProcessedIs DEF index
<1>2. Gains(r, u) /\ u.base = r.base  BY <1>1, Zenon DEF Prolongs, Gains
<1> QED  BY <1>1, <1>2 DEF Received, Uses, index

BlocksThen(r, d) == r.blocks + DataCost(Fields(d))

LEMMA TakesSlotIs ==
    ASSUME NEW r, rd \in RoundSet, Buildable(rd), NEW d, SlotFree(rd, r, d),
           NEW u, u = TakesSlot(r, d), NEW base, NEW blocks, blocks = BlocksThen(r, d),
           NEW t, SlotTaken(r, d, base, blocks, t)
    PROVE  /\ Received(rd, r, u, d.interval) /\ u.base = base
           /\ t.base = base /\ t.blocks = blocks /\ t.counted = r.counted /\ (Pure(rd, r) => Pure(rd, t))
           /\ Fields(d).key = <<>> => u = t
           /\ Fields(d).key # <<>> => Uses(rd, t, u, d.interval, Fields(d).key[1])
<1> DEFINE fields == Fields(d)
           taken == [r EXCEPT !.base[d.index] = <<d>>, !.blocks = r.blocks + DataCost(fields)]
<1>1. Shaped(rd) /\ d.interval \in Nat  BY BuildableIsShaped DEF SlotFree
<1>2. /\ Receives(rd, t) /\ Gains(r, t) /\ (Pure(rd, r) => Pure(rd, t))
      /\ t.base = base /\ t.blocks = blocks /\ t.counted = r.counted /\ t.result = NoResult
  BY <1>1, SlotFit
<1>3. u = IF fields.key = <<>> THEN taken ELSE KeyProcessed(taken, fields.interval, fields.key[1])
  BY DEF TakesSlot
<1>4. taken = t  BY DEF SlotTaken, BlocksThen
<1>5. fields.interval = d.interval  BY DEF Fields, Decode
<1> HIDE DEF fields, taken
<1>6. CASE fields.key = <<>>  BY <1>2, <1>3, <1>4, <1>6 DEF Settled, Received, Receives, fields
<1>7. CASE fields.key # <<>>
 <2> DEFINE key == fields.key[1]
 <2>1. u = KeyProcessed(t, d.interval, key)  BY <1>3, <1>4, <1>5, <1>7
 <2> HIDE DEF key
 <2>2. Received(rd, t, u, d.interval) /\ u.base = t.base /\ Uses(rd, t, u, d.interval, key)
   BY <1>1, <1>2, <2>1, KeyUsed
 <2>3. Gains(r, u)  BY <1>2, <2>2 DEF Received, Gains
 <2>4. Received(rd, r, u, d.interval)  BY <2>2, <2>3 DEF Received
 <2> QED  BY <1>2, <1>7, <2>2, <2>4 DEF key, fields
<1> QED  BY <1>6, <1>7

LEMMA TailArrivesIs ==
    ASSUME NEW r, rd \in RoundSet, Buildable(rd), Receives(rd, r), NEW d, d.interval \in Nat,
           NEW u, u = TailArrives(r, d)
    PROVE  /\ Received(rd, r, u, d.interval) /\ u.base = r.base
           /\ Uses(rd, r, u, d.interval, Fields(d).key[1])
<1> DEFINE key == Fields(d).key[1]
           told == [r EXCEPT !.incomplete = TRUE]
<1>1. u = IF KeyFits(d.interval, key) THEN KeyProcessed(r, d.interval, key)
          ELSE OneReport(told, "ProtocolError", 0)
  BY DEF TailArrives, TailKey
<1> HIDE DEF key
<1>2. CASE KeyFits(d.interval, key)  BY <1>1, <1>2, KeyUsed DEF key
<1>3. CASE ~ KeyFits(d.interval, key)
  BY <1>1, <1>3, MarkedReceives DEF Received, Settled, Uses, key
<1> QED  BY <1>2, <1>3

\* How a datagram is received, by what it is and when it comes.
LEMMA ReceiveCases ==
    ASSUME NEW r, Receives(rd, r), NEW d, NEW attack \in BOOLEAN, NEW s, s = Receive(r, d, attack)
    PROVE  /\ ~ DecodeValid(rd, d) =>
                Fit(rd, s) /\ Gains(r, s) /\ s.base = r.base /\ s.result = NoResult
                /\ s.incomplete /\ s.reports # {}
           /\ DecodeValid(rd, d) /\ d.index = 0 => s = TailArrives(r, d)
           /\ DecodeValid(rd, d) /\ d.index # 0 /\ ~ TimeSafe(d.interval) =>
                Fit(rd, s) /\ Gains(r, s) /\ s.base = r.base /\ s.result = NoResult
                /\ s.incomplete /\ s.reports # {}
           /\ DecodeValid(rd, d) /\ d.index # 0 /\ TimeSafe(d.interval) /\ r.base[d.index] # <<>> =>
                Beside(r, s) /\ s.result = NoResult /\ s.reports # {}
           /\ DecodeValid(rd, d) /\ d.index # 0 /\ TimeSafe(d.interval) /\ r.base[d.index] = <<>> /\ attack =>
                Beside(r, s) /\ s.result = NoResult
           /\ DecodeValid(rd, d) /\ d.index # 0 /\ TimeSafe(d.interval) /\ r.base[d.index] = <<>> /\ ~ attack =>
                s = TakesSlot(r, d)
<1> DEFINE told == [r EXCEPT !.incomplete = TRUE]
<1>1. r.result = NoResult /\ IsReceiver(r)  BY DEF Receives, Open, Ready
<1>2. ASSUME ~ DecodeValid(rd, d)
      PROVE  Fit(rd, s) /\ Gains(r, s) /\ s.base = r.base /\ s.result = NoResult
             /\ s.incomplete /\ s.reports # {}
  BY <1>1, <1>2, MarkedReceives DEF Receive
<1>3. ASSUME DecodeValid(rd, d), d.index = 0 PROVE s = TailArrives(r, d)  BY <1>1, <1>3 DEF Receive
<1>4. DecodeValid(rd, d) /\ d.index # 0 => s = DataArrives(r, d, attack)  BY <1>1 DEF Receive
<1>5. ASSUME DecodeValid(rd, d), d.index # 0, ~ TimeSafe(d.interval)
      PROVE  Fit(rd, s) /\ Gains(r, s) /\ s.base = r.base /\ s.result = NoResult
             /\ s.incomplete /\ s.reports # {}
  BY <1>4, <1>5, MarkedReceives DEF DataArrives
<1>6. ASSUME DecodeValid(rd, d), d.index # 0, TimeSafe(d.interval), r.base[d.index] # <<>>
      PROVE  Beside(r, s) /\ s.result = NoResult /\ s.reports # {}
  BY <1>1, <1>4, <1>6, AfterBaselineBeside DEF DataArrives
<1>7. ASSUME DecodeValid(rd, d), d.index # 0, TimeSafe(d.interval), r.base[d.index] = <<>>, attack
      PROVE  Beside(r, s) /\ s.result = NoResult
 <2>1. s = BeforeBaseline(r, d)  BY <1>4, <1>7 DEF DataArrives
 <2> QED  BY <1>1, <2>1, BeforeBaselineBeside
<1>8. ASSUME DecodeValid(rd, d), d.index # 0, TimeSafe(d.interval), r.base[d.index] = <<>>, ~ attack
      PROVE  s = TakesSlot(r, d)
  BY <1>4, <1>8 DEF DataArrives
<1> QED  BY <1>2, <1>3, <1>5, <1>6, <1>7, <1>8

\* Only the packet's own first datagram, not a copy, takes its slot.
Slotted(w, r, s, d, attack) ==
    \/ s.base = r.base
    \/ /\ ~ attack /\ d.index \in 1 .. w.total /\ r.base[d.index] = <<>>
       /\ s.base = [r.base EXCEPT ![d.index] = <<d>>]

LEMMA ReceiveIs ==
    ASSUME NEW r, rd \in RoundSet, Buildable(rd), Receives(rd, r), NEW d, Arriving(rd, d),
           NEW attack \in BOOLEAN, NEW s, s = Receive(r, d, attack)
    PROVE  Received(rd, r, s, d.interval) /\ Slotted(rd, r, s, d, attack)
<1>0. d.interval \in Nat  BY DEF Arriving
<1>1. CASE ~ DecodeValid(rd, d)  BY <1>1, ReceiveCases DEF Received, Settled, Slotted
<1>2. CASE DecodeValid(rd, d) /\ d.index = 0  BY <1>0, <1>2, ReceiveCases, TailArrivesIs DEF Slotted
<1>3. CASE DecodeValid(rd, d) /\ d.index # 0 /\ ~ TimeSafe(d.interval)
  BY <1>3, ReceiveCases DEF Received, Settled, Slotted
<1>4. CASE DecodeValid(rd, d) /\ d.index # 0 /\ TimeSafe(d.interval) /\ (r.base[d.index] # <<>> \/ attack)
 <2>1. Beside(r, s) /\ s.result = NoResult
  <3>1. CASE r.base[d.index] # <<>>  BY <1>4, <3>1, ReceiveCases
  <3>2. CASE r.base[d.index] = <<>>  BY <1>4, <3>2, ReceiveCases
  <3> QED  BY <3>1, <3>2
 <2>2. Fit(rd, s) /\ Gains(r, s) /\ s.base = r.base  BY <2>1, BesideReceives
 <2> QED  BY <2>1, <2>2 DEF Received, Settled, Slotted
<1>5. CASE DecodeValid(rd, d) /\ d.index # 0 /\ TimeSafe(d.interval) /\ r.base[d.index] = <<>> /\ ~ attack
 <2> DEFINE base == [r.base EXCEPT ![d.index] = <<d>>]
            blocks == BlocksThen(r, d)
            t == [r EXCEPT !.base = base, !.blocks = blocks]
 <2>1. s = TakesSlot(r, d)  BY <1>5, ReceiveCases
 <2>2. d.index \in 1 .. rd.total /\ AsSent(rd, d.index, d)  BY <1>5 DEF Arriving
 <2>3. SlotFree(rd, r, d)  BY <1>0, <1>5, <2>2 DEF SlotFree
 <2>4. SlotTaken(r, d, base, blocks, t)  BY DEF SlotTaken
 <2>5. blocks = BlocksThen(r, d)  OBVIOUS
 <2>7. base = [r.base EXCEPT ![d.index] = <<d>>]  OBVIOUS
 <2> HIDE DEF base, blocks, t
 <2>6. Received(rd, r, s, d.interval) /\ s.base = base  BY <2>1, <2>3, <2>4, <2>5, TakesSlotIs
 <2> QED  BY <1>5, <2>2, <2>6, <2>7 DEF Slotted
<1> QED  BY <1>1, <1>2, <1>3, <1>4, <1>5

(* What the channel writes in a datagram is not what the sender wrote.      *)

LEMMA BytesWereSent ==
    ASSUME NEW w \in RoundSet, Buildable(w), NEW p \in 1 .. w.total
    PROVE  Message(w, p) # AlteredBlock("message")
<1> DEFINE bytes == w.payload.bytes
           m == Message(w, p)
           a == AlteredBlock("message")
<1>1. w.payload.kind \in {"text", "file"} /\ bytes \in Seq(Nat)  BY RoundSetAssumption
<1>2. PayloadValid(w)  BY DEF Buildable
<1>3. MessageSize \in Nat \ {0} /\ 1 \in 1 .. MessageSize  BY MessageSizeAssumption
<1>4. m[1] \in Nat
 <2>1. CASE w.payload.kind = "text"
  <3>1. m = Padded(bytes) /\ Len(bytes) <= MessageSize  BY <1>2, <2>1 DEF Message, PayloadValid
  <3> HIDE DEF m, bytes
  <3>2. Padded(bytes) \in Seq(Nat) /\ Len(Padded(bytes)) = MessageSize  BY <1>1, <3>1, PaddedIs
  <3> QED  BY <1>3, <3>1, <3>2
 <2>2. CASE w.payload.kind = "file"
  <3>1. w.total = FilePackets(bytes) /\ bytes # <<>>  BY <1>2, <2>2 DEF PayloadValid
  <3>2. m \in Seq(Nat) /\ Len(m) = MessageSize  BY <1>1, <2>2, <3>1, FileSlices
  <3> HIDE DEF m
  <3> QED  BY <1>3, <3>2
 <2> QED  BY <1>1, <2>1, <2>2
<1>5. a[1] = -1  BY <1>3 DEF AlteredBlock, Outside
<1> QED  BY <1>4, <1>5

\* A block of a datagram was changed that its packet's verdict depends on.
Touched(w, p, e) ==
    \/ e.blocks[1] # Message(w, p)
    \/ \E j \in 1 .. TagBlocks(w, p) : e.blocks[(1 + KeyBlocks(w, p)) + j] # Tags(w, p)[j]

LEMMA TouchedIsNotIntact ==
    ASSUME NEW w, Shaped(w), NEW r, NEW p \in 1 .. w.total, NEW e, r.base[p] = <<e>>, AsSent(w, p, e)
    PROVE  Intact(w, r, p) <=> ~ Touched(w, p, e)
<1>1. r.base[p] # <<>> /\ r.base[p][1] = e  BY OneBlock
<1>2. /\ Decode(w, e).message = <<e.blocks[1]>>
      /\ \A j \in 1 .. TagBlocks(w, p) : Decode(w, e).tags[j] = e.blocks[(1 + KeyBlocks(w, p)) + j]
  BY DecodeIs
<1>3. Decode(w, e).message[1] = e.blocks[1]  BY <1>2, OneBlock
<1>4. Genuinely(w, r, p) <=> e.blocks[1] = Message(w, p)  BY <1>1, <1>3 DEF Genuinely
<1>5. TagsIntact(w, r, p) <=>
        \A j \in 1 .. TagBlocks(w, p) : e.blocks[(1 + KeyBlocks(w, p)) + j] = Tags(w, p)[j]
  BY <1>1, <1>2, Zenon DEF TagsIntact
<1> QED  BY <1>4, <1>5, Zenon DEF Intact, Touched

Overwrites(d, e, m, v) ==
    /\ e.index = d.index /\ e.interval = d.interval
    /\ d.index # 0 => \A x \in 1 .. Len(d.blocks) : e.blocks[x] = IF x = m THEN v ELSE d.blocks[x]

LEMMA WrittenOver ==
    ASSUME NEW w, NEW d, OnTheAir(w, d), NEW m, NEW v, NEW e, e = WithBlock(d, m, v)
    PROVE  Overwrites(d, e, m, v)
  BY OverwrittenIs DEF WithBlock, OnTheAir, IsDatagram, Overwrites

\* What an alteration makes of a datagram: its packet cannot vouch for itself.
LEMMA AlteredIs ==
    ASSUME AuthInv, NEW n \in flight, NEW block \in {"message", "key", "tag", "tau"}, Alter(n, block)
    PROVE  \E e : /\ rx' = Receive(rx, e, FALSE) /\ OnTheAir(rd, e)
                  /\ e.index = SentNow(n).index /\ e.interval = SentNow(n).interval
                  /\ block # "key" => SentNow(n).index # 0 /\ Touched(rd, SentNow(n).index, e)
<1> DEFINE d == SentNow(n)
           p == d.index
           k == KeyBlocks(rd, p)
           t == TagBlocks(rd, p)
           taus == TauCount(rd.shape)
<1>1. phase = "sending"  BY DEF Alter
<1>2. Shaped(rd) /\ OnTheAir(rd, d) /\ d.interval = onAir  BY <1>1, SentNowOnTheAir
<1>0. Grouped(rd) /\ Buildable(rd) /\ rd \in RoundSet  BY <1>1, BuildableIsGrouped DEF AuthInv
<1>3. k \in {0, 1} /\ t \in Nat  BY <1>2, BlockCounts
<1>4. taus \in Nat  BY <1>2, TausAre DEF Shaped
<1>5. p # 0 => p \in 1 .. rd.total /\ Len(d.blocks) = (1 + k) + t
  BY <1>2 DEF OnTheAir, AsSent, Spread
<1>6. rd.mode = "native" => t = 1  BY DEF TagBlocks
<1>7. rd.mode = "improved" /\ GroupEnd(rd, p) => t = taus + 1  BY DEF TagBlocks
<1>8. rd.mode \in {"native", "improved"}  BY <1>2 DEF Shaped
<1>9. CASE block = "message"
 <2> DEFINE v == AlteredBlock("message")
            e == WithBlock(d, 1, v)
 <2>1. p # 0 /\ rx' = Receive(rx, e, FALSE)  BY <1>9 DEF Alter
 <2>2. OnTheAir(rd, e)  BY <1>1, <2>1, AlteredOnTheAir
 <2>3. v # Message(rd, p)  BY <1>0, <1>5, <2>1, BytesWereSent
 <2>7. e = WithBlock(d, 1, v)  OBVIOUS
 <2> HIDE DEF e, v
 <2>4. Overwrites(d, e, 1, v)  BY <1>2, <2>7, WrittenOver
 <2>5. e.blocks[1] = v  BY <1>3, <1>5, <2>1, <2>4 DEF Overwrites
 <2>6. Touched(rd, p, e)  BY <2>3, <2>5 DEF Touched
 <2> QED  BY <2>1, <2>2, <2>4, <2>6 DEF Overwrites
<1>10. CASE block = "key"
 <2> DEFINE m == IF p = 0 THEN 1 ELSE 2
            e == WithBlock(d, m, Outside)
 <2>1. /\ p = 0 \/ CarriesKey(rd, onAir, p)
       /\ rx' = Receive(rx, e, FALSE)
   BY <1>10 DEF Alter
 <2>2. OnTheAir(rd, e)  BY <1>1, <2>1, AlteredOnTheAir
 <2>3. e = WithBlock(d, m, Outside)  OBVIOUS
 <2> HIDE DEF m, e
 <2>4. Overwrites(d, e, m, Outside)  BY <1>2, <2>3, WrittenOver
 <2> QED  BY <1>10, <2>1, <2>2, <2>4 DEF Overwrites
<1>11. CASE block = "tag"
 <2> DEFINE m == Len(d.blocks)
            v == AlteredBlock("tag")
            e == WithBlock(d, m, v)
 <2>1. /\ p # 0 /\ (rd.mode = "native" \/ GroupEnd(rd, p))
       /\ rx' = Receive(rx, e, FALSE)
   BY <1>11 DEF Alter
 <2>2. OnTheAir(rd, e)  BY <1>1, <2>1, AlteredOnTheAir
 <2>3. t \in 1 .. t  BY <1>3, <1>4, <1>6, <1>7, <1>8, <2>1
 <2>4. v # Tags(rd, p)[t]  BY <1>0, <1>5, <2>1, <2>3, TagIsNoMark DEF AlteredBlock
 <2>7. e = WithBlock(d, m, v)  OBVIOUS
 <2> HIDE DEF e, v
 <2>5. Overwrites(d, e, m, v)  BY <1>2, <2>7, WrittenOver
 <2>6. e.blocks[(1 + k) + t] = v  BY <1>3, <1>5, <2>1, <2>5 DEF Overwrites
 <2>8. Touched(rd, p, e)  BY <2>3, <2>4, <2>6 DEF Touched
 <2> QED  BY <2>1, <2>2, <2>5, <2>8 DEF Overwrites
<1>12. CASE block = "tau"
 <2> DEFINE m == Len(d.blocks) - taus
            v == AlteredBlock("tau")
            e == WithBlock(d, m, v)
 <2>1. /\ p # 0 /\ (rd.mode = "native" \/ GroupEnd(rd, p)) /\ rd.mode = "improved"
       /\ rx' = Receive(rx, e, FALSE)
   BY <1>12 DEF Alter
 <2>2. GroupEnd(rd, p)  BY <2>1
 <2>3. OnTheAir(rd, e)  BY <1>1, <2>1, <2>2, AlteredOnTheAir
 <2>4. t = taus + 1 /\ 1 \in 1 .. t  BY <1>4, <1>7, <2>1, <2>2
 <2>5. v # Tags(rd, p)[1]  BY <1>0, <1>5, <2>1, <2>4, TagIsNoMark DEF AlteredBlock
 <2>6. e = WithBlock(d, m, v)  OBVIOUS
 <2>7. m = (1 + k) + 1 /\ m \in 1 .. Len(d.blocks)  BY <1>3, <1>4, <1>5, <2>1, <2>4
 <2> HIDE DEF e, v, m
 <2>8. Overwrites(d, e, m, v)  BY <1>2, <2>6, WrittenOver
 <2>9. e.blocks[(1 + k) + 1] = v  BY <2>1, <2>7, <2>8 DEF Overwrites
 <2>10. Touched(rd, p, e)  BY <2>4, <2>5, <2>9 DEF Touched
 <2> QED  BY <2>1, <2>3, <2>8, <2>10 DEF Overwrites
<1> QED  BY <1>9, <1>10, <1>11, <1>12

(* What is still to come.                                                   *)

\* The data packet p has not been sent, or is on the air.
Coming(p) ==
    \/ phase = "built"
    \/ onAir < ExpectedInterval(rd, p)
    \/ onAir = ExpectedInterval(rd, p) /\ \E n \in flight : Datagrams(rd, onAir)[n].index = p

\* A datagram that leaves the air.
LEMMA FlightLeft ==
    ASSUME AuthInv, phase = "sending", NEW n \in flight,
           rd' = rd, phase' = phase, onAir' = onAir, flight' = flight \ {n},
           NEW q, q = SentNow(n).index
    PROVE  /\ q # 0 => q \in 1 .. rd.total /\ Coming(q) /\ onAir = ExpectedInterval(rd, q)
           /\ \A p \in 1 .. rd.total : Coming(p)' <=> Coming(p) /\ p # q
<1> DEFINE d(m) == Datagrams(rd, onAir)[m]
<1>1. /\ Shaped(rd) /\ Buildable(rd) /\ onAir \in 1 .. FinalInterval(rd)
      /\ flight \subseteq DOMAIN Datagrams(rd, onAir)
  BY SentNowOnTheAir DEF AuthInv
<1>2. OnTheAir(rd, d(n)) /\ d(n).interval = onAir /\ q = d(n).index  BY SentNowOnTheAir DEF SentNow
<1>3. ASSUME q # 0 PROVE q \in 1 .. rd.total /\ Coming(q) /\ onAir = ExpectedInterval(rd, q)
  BY <1>2, <1>3 DEF OnTheAir, AsSent, Coming
<1>4. ASSUME NEW p \in 1 .. rd.total PROVE Coming(p)' <=> Coming(p) /\ p # q
 <2>0. ExpectedInterval(rd, p)' = ExpectedInterval(rd, p) /\ Datagrams(rd, onAir)' = Datagrams(rd, onAir)
   OBVIOUS
 <2>1. Coming(p) <=> \/ onAir < ExpectedInterval(rd, p)
                     \/ onAir = ExpectedInterval(rd, p) /\ \E m \in flight : d(m).index = p
   BY DEF Coming
 <2>2. Coming(p)' <=> \/ onAir < ExpectedInterval(rd, p)
                      \/ onAir = ExpectedInterval(rd, p) /\ \E m \in flight \ {n} : d(m).index = p
   BY DEF Coming
 <2>3. p = q => onAir = ExpectedInterval(rd, p) /\ ~ (onAir < ExpectedInterval(rd, p))
   BY <1>1, <1>3
 <2>4. \A m \in flight : d(m).index = q => m = n  BY <1>1, <1>2, OneCarrier
 <2> HIDE DEF d
 <2> QED  BY <1>2, <2>1, <2>2, <2>3, <2>4
<1> QED  BY <1>3, <1>4

(* What was done to the datagrams, and what the receiver makes of it.       *)

HarmFields == {"altered", "lost", "keys", "malformed", "copies", "copied"}

\* What was harmed and the receiver's state.
Harms(w, r, h) ==
    /\ \A p \in h.altered : p \in 1 .. w.total /\ r.base[p] # <<>> /\ ~ Intact(w, r, p)
    /\ \A p \in h.lost : p \in 1 .. w.total /\ r.base[p] = <<>>
    /\ h.malformed => r.incomplete
    /\ \A c \in h.copies : ~ c.early => r.reports # {}

\* What a result says of the receiver's state, and of the payload.
Concludes(w, r) ==
    r.result # NoResult =>
      /\ r.result.comparable => r.result.status = "Completed" /\ r.eligible /\ ~ Doubted(w, r)
      /\ r.result.status = "Completed" =>
           /\ ~ r.incomplete /\ r.result.payload = w.payload.bytes
           /\ \A p \in 1 .. w.total : r.status[p] = "passed" /\ r.base[p] # <<>>

LEMMA SettledConcludes ==
    ASSUME NEW r, rd \in RoundSet, Buildable(rd), Good(rd, r), Settled(r)
    PROVE  Concludes(rd, r)
<1> SUFFICES ASSUME r.result # NoResult PROVE Concludes(rd, r)  BY DEF Concludes
<1>1. r.result.comparable => r.result.status = "Completed" /\ r.eligible /\ PathEligible(r)
  BY DEF Settled
<1>2. PathEligible(r) => ~ Doubted(rd, r)  BY DEF PathEligible, Doubted
<1>3. ASSUME r.result.status = "Completed"
      PROVE  /\ ~ r.incomplete /\ r.result.payload = rd.payload.bytes
             /\ \A p \in 1 .. rd.total : r.status[p] = "passed" /\ r.base[p] # <<>>
 <2>1. ~ r.incomplete /\ Whole(r) /\ r.result.payload = Recovered(r, "Completed")
   BY <1>3 DEF Settled
 <2>2. \A p \in 1 .. rd.total : r.status[p] = "passed" /\ r.base[p] # <<>>
   BY <2>1 DEF Whole, Counted, Missing, Packets
 <2>3. AllGenuine(r)  BY <2>1, <2>2 DEF AllGenuine, Good, StatusGood
 <2>4. Recovered(r, "Completed") = rd.payload.bytes  BY <2>3, PayloadComesBack
 <2> QED  BY <2>1, <2>2, <2>4, Zenon
<1> QED  BY <1>1, <1>2, <1>3, Zenon DEF Concludes

\* The inductive invariant of what is whole.
WholeInv ==
    /\ phase \in {"built", "refused", "sending", "over"}
    /\ phase = "over" => onAir = FinalInterval(rd) /\ flight = {}
    /\ rx.result # NoResult =>
         phase \in {"sending", "over"} /\ onAir = FinalInterval(rd) /\ flight = {}
    /\ DOMAIN harm = HarmFields
    /\ Fit(rd, rx) /\ Concludes(rd, rx)
    /\ \A p \in 1 .. rd.total : rx.base[p] # <<>> => ~ Coming(p)
    /\ \A p \in harm.lost : ~ Coming(p)
    /\ Harms(rd, rx, harm)

\* What was harmed stays so, unless a packet takes the slot of a lost one.
LEMMA HarmsStay ==
    ASSUME NEW w, NEW r, NEW s, NEW h, NEW d, NEW attack, Ready(w, r), Harms(w, r, h), Gains(r, s),
           Slotted(w, r, s, d, attack), ~ attack => d.index \notin h.lost
    PROVE  Harms(w, s, h)
<1>1. \A p \in 1 .. w.total : s.base[p] = r.base[p] \/ (p = d.index /\ r.base[p] = <<>> /\ ~ attack)
  BY DEF Ready, BaseOK, Slotted
<1>2. ASSUME NEW p \in h.altered PROVE p \in 1 .. w.total /\ s.base[p] # <<>> /\ ~ Intact(w, s, p)
  BY <1>1, OtherIntact DEF Harms
<1>3. ASSUME NEW p \in h.lost PROVE p \in 1 .. w.total /\ s.base[p] = <<>>  BY <1>1 DEF Harms
<1>4. h.malformed => s.incomplete  BY Zenon DEF Harms, Gains
<1>5. \A c \in h.copies : ~ c.early => s.reports # {}  BY DEF Harms, Gains
<1> QED  BY <1>2, <1>3, <1>4, <1>5 DEF Harms

\* A datagram that is received before the result.
LEMMA ReceivedInFlight ==
    ASSUME AuthInv, WholeInv, phase = "sending", rx.result = NoResult, NEW d, Arriving(rd, d), NEW attack \in BOOLEAN,
           Onward, rx' = Receive(rx, d, attack)
    PROVE  /\ rd \in RoundSet /\ Buildable(rd) /\ Shaped(rd) /\ Receives(rd, rx)
           /\ Received(rd, rx, rx', d.interval) /\ Slotted(rd, rx, rx', d, attack)
           /\ Concludes(rd, rx')
<1>1. rd \in RoundSet /\ Buildable(rd) /\ Good(rd, rx)  BY DEF AuthInv
<1>2. Receives(rd, rx)  BY <1>1, OpenIsGood DEF Receives, WholeInv
<1>3. Received(rd, rx, rx', d.interval) /\ Slotted(rd, rx, rx', d, attack)  BY <1>1, <1>2, ReceiveIs
<1>4. Good(rd, rx')  BY ReceivedKeepsInv DEF AuthInv, Onward
<1>5. Concludes(rd, rx')
 <2> DEFINE s == rx'
 <2>1. Settled(s) /\ Good(rd, s)  BY <1>3, <1>4 DEF Received
 <2> HIDE DEF s
 <2>2. Concludes(rd, s)  BY <1>1, <2>1, SettledConcludes
 <2> QED  BY <2>2 DEF s
<1> QED  BY <1>1, <1>2, <1>3, <1>5, BuildableIsShaped

\* A step that takes a datagram off the air.
Leaves(n) ==
    /\ phase = "sending" /\ n \in flight
    /\ rd' = rd /\ phase' = phase /\ onAir' = onAir /\ flight' = flight \ {n}

LEMMA LeavesKeepsWhole ==
    ASSUME AuthInv, WholeInv, NEW n, Leaves(n), NEW q, q = SentNow(n).index,
           Fit(rd, rx'), Concludes(rd, rx'), rx'.result # NoResult => onAir = FinalInterval(rd) /\ flight \ {n} = {},
           DOMAIN harm' = HarmFields,
           \A p \in 1 .. rd.total : rx'.base[p] # <<>> => rx.base[p] # <<>> \/ p = q,
           harm'.lost \subseteq harm.lost \cup {q},
           Harms(rd, rx', harm')
    PROVE  WholeInv'
<1>1. \A p \in 1 .. rd.total : Coming(p)' <=> Coming(p) /\ p # q  BY FlightLeft DEF Leaves
<1>2. \A p \in 1 .. rd.total : (rx'.base[p] # <<>> => ~ Coming(p)')  BY <1>1 DEF WholeInv
<1>3. \A p \in harm'.lost : ~ Coming(p)'  BY <1>1 DEF Harms, WholeInv
<1>4. rd' = rd /\ phase' = "sending" /\ onAir' = onAir /\ flight' = flight \ {n}  BY DEF Leaves
<1>5. Fit(rd, rx)' /\ Concludes(rd, rx)' /\ Harms(rd, rx, harm)'  BY <1>4
<1>6. (rx.result # NoResult =>
         phase \in {"sending", "over"} /\ onAir = FinalInterval(rd) /\ flight = {})'
  BY <1>4 DEF NoResult
<1> QED  BY <1>2, <1>3, <1>4, <1>5, <1>6 DEF WholeInv

\* The datagrams after the data are tails, and only they.
LEMMA TailsAreLast ==
    ASSUME AuthInv, phase = "sending", NEW n \in flight
    PROVE  /\ SentNow(n).index = 0 <=> DataIntervalCount(rd) < onAir
           /\ DataIntervalCount(rd) < onAir =>
                DOMAIN Datagrams(rd, onAir) = {1} /\ n = 1 /\ SentNow(n).blocks = <<onAir - rd.delay>>
<1>1. /\ Shaped(rd) /\ Buildable(rd) /\ onAir \in 1 .. FinalInterval(rd)
      /\ n \in DOMAIN Datagrams(rd, onAir)
  BY SentNowOnTheAir DEF AuthInv
<1>2. DataIntervalCount(rd) \in Nat  BY <1>1, IntervalsAreNumbers
<1>3. ASSUME DataIntervalCount(rd) < onAir
      PROVE  DOMAIN Datagrams(rd, onAir) = {1} /\ n = 1 /\ SentNow(n).blocks = <<onAir - rd.delay>>
             /\ SentNow(n).index = 0
  BY <1>1, <1>3, TailSent DEF SentNow
<1>4. ASSUME ~ (DataIntervalCount(rd) < onAir) PROVE SentNow(n).index # 0
 <2>0. onAir \in 1 .. DataIntervalCount(rd)  BY <1>1, <1>2, <1>4
 <2>1. SentNow(n).index = FirstOf(rd, onAir) + n - 1  BY <1>1, <2>0, DataOnTheAir DEF SentNow
 <2>2. FirstOf(rd, onAir) \in Nat \ {0}  BY <1>1, <2>0, IntervalHasPackets
 <2>3. n \in Nat \ {0}  BY <1>1, <2>0 DEF IntervalPackets, Datagrams
 <2> QED  BY <2>1, <2>2, <2>3
<1> QED  BY <1>3, <1>4

\* A datagram received, as it was sent or not, keeps what is whole.
LEMMA TakenKeepsWhole ==
    ASSUME AuthInv, WholeInv, NEW n, Leaves(n), NEW e, Arriving(rd, e), e.index = SentNow(n).index,
           e.interval = onAir, rx' = Receive(rx, e, FALSE), DOMAIN harm' = HarmFields,
           harm'.lost = harm.lost, harm'.copies = harm.copies,
           harm'.malformed => harm.malformed \/ rx'.incomplete,
           \A p \in harm'.altered : p \in harm.altered \/
             (p \in 1 .. rd.total /\ rx'.base[p] # <<>> /\ ~ Intact(rd, rx', p))
    PROVE  WholeInv'
<1> DEFINE q == SentNow(n).index
<1>1. phase = "sending" /\ n \in flight /\ Onward  BY DEF Leaves, Onward
<1>2. rx.result = NoResult  BY <1>1 DEF WholeInv
<1>3. /\ Shaped(rd) /\ Receives(rd, rx) /\ Concludes(rd, rx')
      /\ Received(rd, rx, rx', onAir) /\ Slotted(rd, rx, rx', e, FALSE)
  BY <1>1, <1>2, ReceivedInFlight
<1>4. rx'.result # NoResult => onAir = FinalInterval(rd) /\ flight \ {n} = {}
 <2> SUFFICES ASSUME rx'.result # NoResult PROVE onAir = FinalInterval(rd) /\ flight \ {n} = {}
   OBVIOUS
 <2>1. onAir = FinalInterval(rd)  BY <1>3 DEF Received
 <2>2. DataIntervalCount(rd) < onAir  BY <1>3, <2>1, IntervalsAreNumbers DEF FinalInterval, Shaped
 <2>3. DOMAIN Datagrams(rd, onAir) = {1} /\ n = 1  BY <1>1, <2>2, TailsAreLast
 <2>4. flight \subseteq DOMAIN Datagrams(rd, onAir)  BY <1>1 DEF AuthInv
 <2> QED  BY <2>1, <2>3, <2>4
<1>5. q # 0 => q \in 1 .. rd.total /\ Coming(q)  BY <1>1, FlightLeft DEF Leaves
<1>6. q \notin harm.lost  BY <1>5 DEF WholeInv, Harms
<1>7. Harms(rd, rx', harm)  BY <1>3, <1>6, HarmsStay DEF WholeInv, Fit, Received
<1>8. Harms(rd, rx', harm')  BY <1>7, Zenon DEF Harms
<1>9. \A p \in 1 .. rd.total : rx'.base[p] # <<>> => rx.base[p] # <<>> \/ p = q
  BY <1>3 DEF WholeInv, Fit, Ready, BaseOK, Slotted
<1>10. Fit(rd, rx') /\ harm'.lost \subseteq harm.lost \cup {q}  BY <1>3 DEF Received
<1> HIDE DEF q
<1>11. q = SentNow(n).index  BY DEF q
<1>12. Concludes(rd, rx')  BY <1>3
<1> QED  BY <1>4, <1>8, <1>9, <1>10, <1>11, <1>12, LeavesKeepsWhole, ZenonT(60)

LEMMA ArriveKeepsWhole ==
    ASSUME AuthInv, WholeInv, NEW n \in flight, Arrive(n)
    PROVE  WholeInv'
  BY SentNowOnTheAir, OnTheAirArrives, TakenKeepsWhole DEF Arrive, Leaves, WholeInv

LEMMA LoseKeepsWhole ==
    ASSUME AuthInv, WholeInv, NEW n \in flight, Lose(n)
    PROVE  WholeInv'
<1> DEFINE q == SentNow(n).index
           keys == harm.keys \cup {onAir}
           lost == harm.lost \cup {q}
<1>1. /\ Leaves(n) /\ rx' = rx /\ phase = "sending"
      /\ harm' = IF q = 0 THEN [harm EXCEPT !.keys = keys] ELSE [harm EXCEPT !.lost = lost]
  BY DEF Lose, Leaves
<1>2. q # 0 => q \in 1 .. rd.total /\ Coming(q)  BY <1>1, FlightLeft DEF Leaves
<1>11. q = SentNow(n).index /\ lost = harm.lost \cup {q}  OBVIOUS
<1> HIDE DEF q, keys, lost
<1>3. DOMAIN harm = HarmFields  BY DEF WholeInv
<1>4. /\ DOMAIN harm' = HarmFields /\ harm'.lost = (IF q = 0 THEN harm.lost ELSE lost)
      /\ harm'.copies = harm.copies /\ (harm'.malformed => harm.malformed) /\ harm'.altered = harm.altered
  BY <1>1, <1>3 DEF HarmFields
<1>5. q # 0 => rx.base[q] = <<>>  BY <1>2 DEF WholeInv
<1>6. Harms(rd, rx, harm')  BY <1>2, <1>4, <1>5, <1>11 DEF WholeInv, Harms
<1>7. rx.result = NoResult  BY DEF WholeInv
<1>8. Fit(rd, rx') /\ Concludes(rd, rx') /\ rx'.result = NoResult /\ Harms(rd, rx', harm')
  BY <1>1, <1>6, <1>7 DEF WholeInv
<1>9. harm'.lost \subseteq harm.lost \cup {q}  BY <1>4, <1>11
<1> QED  BY <1>1, <1>4, <1>8, <1>9, <1>11, LeavesKeepsWhole

\* A datagram of which a block is missing cannot be read.
LEMMA CutIsMalformed ==
    ASSUME AuthInv, phase = "sending", NEW n \in flight
    PROVE  ~ DecodeValid(rd, [SentNow(n) EXCEPT !.blocks = Front(@)])
<1> DEFINE d == SentNow(n)
           b == Front(d.blocks)
           e == [d EXCEPT !.blocks = b]
<1>1. Shaped(rd) /\ OnTheAir(rd, d) /\ d.interval = onAir  BY SentNowOnTheAir
<1>2. d.index # 0 => ~ DecodeValid(rd, e)  BY <1>1, CutArrives
<1>3. ASSUME d.index = 0 PROVE ~ DecodeValid(rd, e)
 <2>1. d.blocks = <<onAir - rd.delay>>  BY <1>3, TailsAreLast
 <2> DEFINE k == onAir - rd.delay
 <2>2. Len(<<k>>) = 1  OBVIOUS
 <2> HIDE DEF k
 <2>3. b = SubSeq(<<k>>, 1, 0)  BY <2>1, <2>2 DEF Front, k
 <2>4. Len(b) = 0  BY <2>3
 <2> HIDE DEF b, d
 <2>5. e.index = 0 /\ e.blocks = b  BY <1>1, <1>3 DEF OnTheAir, IsDatagram
 <2> HIDE DEF e
 <2> QED  BY <2>4, <2>5 DEF DecodeValid, ExpectedBlocks
<1> QED  BY <1>2, <1>3

LEMMA CutKeepsWhole ==
    ASSUME AuthInv, WholeInv, NEW n \in flight, Cut(n)
    PROVE  WholeInv'
<1> DEFINE d == SentNow(n)
           e == [d EXCEPT !.blocks = Front(@)]
<1>1. /\ Leaves(n) /\ phase = "sending" /\ rx' = Receive(rx, e, FALSE)
      /\ harm' = [harm EXCEPT !.malformed = TRUE]
  BY DEF Cut, Leaves
<1>2. Shaped(rd) /\ OnTheAir(rd, d) /\ d.interval = onAir  BY <1>1, SentNowOnTheAir
<1>3. Arriving(rd, e) /\ e.index = d.index /\ e.interval = d.interval
  BY <1>2, CutArrives DEF OnTheAir, IsDatagram
<1>4. ~ DecodeValid(rd, e)  BY <1>1, CutIsMalformed
<1>5. DOMAIN harm' = HarmFields /\ harm'.lost = harm.lost /\ harm'.copies = harm.copies
      /\ harm'.altered = harm.altered
  BY <1>1 DEF WholeInv, HarmFields
<1> HIDE DEF e
<1>6. rx'.incomplete
  BY <1>1, <1>3, <1>4, ReceivedInFlight, ReceiveCases DEF WholeInv, Leaves, Onward
<1> QED  BY <1>1, <1>2, <1>3, <1>5, <1>6, TakenKeepsWhole

\* An altered packet takes its slot, and cannot vouch for itself there.
LEMMA AlterKeepsWhole ==
    ASSUME AuthInv, WholeInv, NEW n \in flight, NEW block \in {"message", "key", "tag", "tau"}, Alter(n, block)
    PROVE  WholeInv'
<1> DEFINE q == SentNow(n).index
           keys == harm.keys \cup {onAir}
           altered == harm.altered \cup {q}
<1>1. /\ Leaves(n) /\ phase = "sending"
      /\ harm' = IF block = "key" THEN [harm EXCEPT !.keys = keys] ELSE [harm EXCEPT !.altered = altered]
  BY DEF Alter, Leaves
<1>2. PICK e : /\ rx' = Receive(rx, e, FALSE) /\ OnTheAir(rd, e)
               /\ e.index = q /\ e.interval = onAir
               /\ block # "key" => q # 0 /\ Touched(rd, q, e)
 <2>1. SentNow(n).interval = onAir  BY <1>1, SentNowOnTheAir
 <2> QED  BY <2>1, AlteredIs
<1>3. q # 0 => q \in 1 .. rd.total /\ Coming(q) /\ onAir = ExpectedInterval(rd, q)
  BY <1>1, FlightLeft DEF Leaves
<1>4. altered = harm.altered \cup {q} /\ q = SentNow(n).index  OBVIOUS
<1> HIDE DEF q, keys, altered
<1>5. /\ DOMAIN harm' = HarmFields /\ harm'.lost = harm.lost /\ harm'.copies = harm.copies
      /\ harm'.malformed = harm.malformed
      /\ harm'.altered = IF block = "key" THEN harm.altered ELSE altered
  BY <1>1 DEF WholeInv, HarmFields
<1>6. Arriving(rd, e)  BY <1>2, OnTheAirArrives
<1>7. ASSUME block # "key"
      PROVE  q \in 1 .. rd.total /\ rx'.base[q] # <<>> /\ ~ Intact(rd, rx', q)
 <2>1. rx.result = NoResult /\ Onward  BY <1>1 DEF WholeInv, Leaves, Onward
 <2>2. rd \in RoundSet /\ Buildable(rd) /\ Shaped(rd) /\ Receives(rd, rx)
   BY <1>1, <1>2, <1>6, <2>1, ReceivedInFlight
 <2>3. q \in 1 .. rd.total /\ q # 0 /\ rx.base[q] = <<>> /\ AsSent(rd, q, e)
   BY <1>2, <1>3, <1>7 DEF WholeInv, OnTheAir
 <2>4. DecodeValid(rd, e)  BY <1>2, <2>2, <2>3, SentIsReadable
 <2>5. TimeSafe(e.interval)  BY <1>1, <1>2, <2>2 DEF AuthInv, Shaped, TimeSafe
 <2>6. rx' = TakesSlot(rx, e)  BY <1>2, <2>2, <2>3, <2>4, <2>5, ReceiveCases
 <2> DEFINE base == [rx.base EXCEPT ![e.index] = <<e>>]
            blocks == BlocksThen(rx, e)
            t == [rx EXCEPT !.base = base, !.blocks = blocks]
 <2>7. SlotFree(rd, rx, e)  BY <1>2, <1>6, <2>2, <2>3 DEF Arriving, SlotFree
 <2>8. SlotTaken(rx, e, base, blocks, t)  BY DEF SlotTaken
 <2>9. blocks = BlocksThen(rx, e) /\ base = [rx.base EXCEPT ![q] = <<e>>]  BY <1>2
 <2> HIDE DEF base, blocks, t
 <2>10. rx'.base = base  BY <2>2, <2>6, <2>7, <2>8, <2>9, TakesSlotIs
 <2>11. rx'.base[q] = <<e>>  BY <2>2, <2>3, <2>9, <2>10 DEF Receives, Fit, Ready, BaseOK
 <2>12. ~ Intact(rd, rx', q)  BY <1>2, <1>7, <2>2, <2>3, <2>11, TouchedIsNotIntact
 <2> QED  BY <2>3, <2>11, <2>12
<1>8. \A p \in harm'.altered : p \in harm.altered \/
             (p \in 1 .. rd.total /\ rx'.base[p] # <<>> /\ ~ Intact(rd, rx', p))
  BY <1>4, <1>5, <1>7
<1> QED  BY <1>1, <1>2, <1>4, <1>5, <1>6, <1>8, TakenKeepsWhole

LEMMA CopyKeepsWhole ==
    ASSUME AuthInv, WholeInv, NEW p \in Packets, NEW tampered \in BOOLEAN, Copy(p, tampered)
    PROVE  WholeInv'
<1> DEFINE c == [packet |-> p, tampered |-> tampered,
                 late |-> ~TimeSafe(ExpectedInterval(rd, p)), early |-> rx.base[p] = <<>>]
           copied == harm.copied + 1
           copies == harm.copies \cup {c}
<1>1. /\ phase = "sending" /\ Onward /\ rx.result = NoResult /\ flight' = flight
      /\ harm' = [harm EXCEPT !.copied = copied, !.copies = copies]
  BY DEF Copy, Onward
<1>2. PICK e : /\ rx' = Receive(rx, e, TRUE) /\ Heard(e, TRUE) /\ e.index = p /\ p # 0
               /\ DecodeValid(rd, e) /\ (tampered => IsForged(rd, p, e))
  BY CopyIsHeard
<1>3. Arriving(rd, e) /\ TRUE \in BOOLEAN /\ p \in 1 .. rd.total /\ e.interval = ExpectedInterval(rd, p)
  BY <1>2 DEF Heard, DecodeValid, Packets
<1>4. /\ Shaped(rd) /\ Receives(rd, rx) /\ Concludes(rd, rx')
      /\ Received(rd, rx, rx', e.interval) /\ Slotted(rd, rx, rx', e, TRUE)
  BY <1>1, <1>2, <1>3, ReceivedInFlight
<1>5. rx'.base = rx.base /\ Fit(rd, rx') /\ Gains(rx, rx')  BY <1>4 DEF Slotted, Received
<1>6. rx'.result = NoResult  BY <1>3, <1>4, IntervalOf DEF Shaped, FinalInterval, Received
<1>7. rx.base[p] # <<>> => rx'.reports # {}  BY <1>2, <1>4, ReceiveCases
<1>8. c.early = (rx.base[p] = <<>>)  OBVIOUS
<1>9. copies = harm.copies \cup {c}  OBVIOUS
<1> HIDE DEF c, copied, copies
<1>10. /\ DOMAIN harm' = HarmFields /\ harm'.lost = harm.lost /\ harm'.copies = copies
       /\ harm'.malformed = harm.malformed /\ harm'.altered = harm.altered
  BY <1>1 DEF WholeInv, HarmFields
<1>11. Harms(rd, rx', harm)  BY <1>4, <1>5, HarmsStay DEF WholeInv, Fit
<1>12. Harms(rd, rx', harm')
 <2>1. ASSUME NEW x \in harm'.copies, ~ x.early PROVE rx'.reports # {}
  <3>1. CASE x \in harm.copies  BY <1>11, <2>1, <3>1 DEF Harms
  <3>2. CASE x = c  BY <1>7, <1>8, <2>1, <3>2
  <3> QED  BY <1>9, <1>10, <3>1, <3>2
 <2> QED  BY <1>10, <1>11, <2>1, Zenon DEF Harms
<1>13. \A x : Coming(x)' <=> Coming(x)  BY <1>1 DEF Coming, Onward
<1>14. rd' = rd /\ phase' = phase /\ onAir' = onAir  BY <1>1 DEF Onward
<1>15. Fit(rd, rx)' /\ Concludes(rd, rx)' /\ Harms(rd, rx, harm)' /\ (DOMAIN harm = HarmFields)'
  BY <1>4, <1>5, <1>10, <1>12, <1>14
<1>16. (\A x \in 1 .. rd.total : rx.base[x] # <<>> => ~ Coming(x))' /\ (\A x \in harm.lost : ~ Coming(x))'
  BY <1>5, <1>10, <1>13, <1>14 DEF WholeInv
<1>17. (rx.result # NoResult =>
         phase \in {"sending", "over"} /\ onAir = FinalInterval(rd) /\ flight = {})'
  BY <1>6 DEF NoResult
<1> QED  BY <1>1, <1>14, <1>15, <1>16, <1>17 DEF WholeInv

LEMMA NextIntervalKeepsWhole ==
    ASSUME AuthInv, WholeInv, FollowingInterval
    PROVE  WholeInv'
<1>1. /\ phase = "sending" /\ flight = {} /\ rd' = rd /\ rx' = rx /\ harm' = harm
      /\ onAir \in 1 .. FinalInterval(rd) /\ Buildable(rd) /\ rd \in RoundSet
  BY DEF AuthInv, FollowingInterval
<1>2. Fit(rd, rx)' /\ Concludes(rd, rx)' /\ Harms(rd, rx, harm)' /\ (DOMAIN harm = HarmFields)'
  BY <1>1 DEF WholeInv
<1>3. Shaped(rd) /\ FinalInterval(rd) \in Nat
  BY <1>1, BuildableIsShaped, IntervalsAreNumbers DEF FinalInterval, Shaped
<1>4. \A p \in 1 .. rd.total : ExpectedInterval(rd, p) \in Nat  BY <1>3, IntervalOf
<1>5. CASE onAir < FinalInterval(rd)
 <2>1. onAir' = onAir + 1 /\ phase' = "sending" /\ onAir \in Nat  BY <1>1, <1>5 DEF FollowingInterval
 <2>2. \A p \in 1 .. rd.total : ExpectedInterval(rd, p)' = ExpectedInterval(rd, p)  BY <1>1
 <2>3. ASSUME NEW p \in 1 .. rd.total PROVE Coming(p)' => Coming(p)  BY <1>4, <2>1, <2>2 DEF Coming
 <2>4. (\A x \in 1 .. rd.total : rx.base[x] # <<>> => ~ Coming(x))' /\ (\A x \in harm.lost : ~ Coming(x))'
   BY <1>1, <2>3 DEF WholeInv, Harms
 <2>5. rx'.result = NoResult  BY <1>1, <1>3, <1>5 DEF WholeInv
 <2>6. (rx.result # NoResult =>
        phase \in {"sending", "over"} /\ onAir = FinalInterval(rd) /\ flight = {})'
   BY <2>5 DEF NoResult
 <2> QED  BY <1>2, <2>1, <2>4, <2>6 DEF WholeInv
<1>6. CASE ~ (onAir < FinalInterval(rd))
 <2>1. onAir' = onAir /\ phase' = "over" /\ flight' = flight /\ onAir = FinalInterval(rd)
   BY <1>1, <1>3, <1>6 DEF FollowingInterval
 <2>2. \A p : Coming(p)' => Coming(p)  BY <1>1, <2>1 DEF Coming
 <2>4. (\A x \in 1 .. rd.total : rx.base[x] # <<>> => ~ Coming(x))' /\ (\A x \in harm.lost : ~ Coming(x))'
   BY <1>1, <2>2 DEF WholeInv, Harms
 <2>5. (onAir = FinalInterval(rd) /\ flight = {})'  BY <1>1, <2>1
 <2> QED  BY <1>2, <2>1, <2>4, <2>5 DEF WholeInv
<1> QED  BY <1>5, <1>6

LEMMA TimeoutKeepsWhole ==
    ASSUME AuthInv, WholeInv, Timeout
    PROVE  WholeInv'
<1> DEFINE t == TellsMissing(rx)
           s == Result(t, "VerificationTimeout")
<1>1. /\ phase = "over" /\ rx' = s
      /\ rd' = rd /\ phase' = phase /\ onAir' = onAir /\ flight' = flight /\ harm' = harm
  BY DEF Timeout
<1>2. Ready(rd, rx) /\ Fit(rd, rx) /\ Harms(rd, rx, harm) /\ IsReceiver(rx)
  BY DEF WholeInv, Fit, Ready
<1>3. Beside(rx, t)  BY <1>2, ReportsBeside DEF TellsMissing
<1> HIDE DEF t
<1>4. Fit(rd, t) /\ Gains(rx, t) /\ t.base = rx.base /\ IsReceiver(t)
  BY <1>2, <1>3, BesideMoves DEF Moves, Beside, Notes, Gains
<1>5. Fit(rd, s) /\ Gains(t, s) /\ s.base = t.base /\ ~ s.result.comparable
      /\ s.result.status = "VerificationTimeout"
 <2>1. s = Result(t, "VerificationTimeout") /\ "VerificationTimeout" # "Completed"  OBVIOUS
 <2> HIDE DEF s
 <2>2. Fit(rd, s)  BY <1>4, <2>1, ResultFit
 <2>3. s.base = t.base /\ s.incomplete = t.incomplete /\ s.reports = t.reports
   BY <1>4, <2>1, ResultLeaves
 <2>4. s.result.status = "VerificationTimeout"  BY <1>4, <2>1, ResultLeaves
 <2>5. ~ s.result.comparable  BY <1>4, <2>1, ResultLeaves
 <2>6. Gains(t, s)  BY <2>3 DEF Gains
 <2> QED  BY <2>2, <2>3, <2>4, <2>5, <2>6
<1> HIDE DEF s
<1>6. Concludes(rd, s)  BY <1>5 DEF Concludes
<1>7. Harms(rd, s, harm)  BY <1>2, <1>4, <1>5, HarmsStay DEF Gains, Slotted
<1>8. Fit(rd, rx)' /\ Concludes(rd, rx)' /\ Harms(rd, rx, harm)' /\ (DOMAIN harm = HarmFields)'
  BY <1>1, <1>5, <1>6, <1>7 DEF WholeInv
<1>9. \A x : Coming(x)' <=> Coming(x)  BY <1>1 DEF Coming
<1>10. (\A x \in 1 .. rd.total : rx.base[x] # <<>> => ~ Coming(x))' /\ (\A x \in harm.lost : ~ Coming(x))'
  BY <1>1, <1>4, <1>5, <1>9 DEF WholeInv
<1>11. (onAir = FinalInterval(rd) /\ flight = {})'  BY <1>1 DEF WholeInv
<1> QED  BY <1>1, <1>8, <1>10, <1>11 DEF WholeInv

LEMMA NothingIsFit == Fit(rd, NothingReceived)
<1> DEFINE r == NothingReceived
<1>1. Ready(rd, r)  BY NothingIsGood DEF Good
<1>2. r.reports = {} /\ r.verified = {} /\ \A p \in 1 .. rd.total : r.status[p] = "pending"
  BY DEF NothingReceived, Packets
<1> HIDE DEF r
<1>3. Fit(rd, r)  BY <1>1, <1>2 DEF Fit, Sound, Quiet
<1> QED  BY <1>3 DEF r

LEMMA NothingIsWhole == AuthInit => WholeInv
<1> SUFFICES ASSUME AuthInit PROVE WholeInv  OBVIOUS
<1> DEFINE r == NothingReceived
<1>1. /\ rx = r /\ phase \in {"built", "refused"}
      /\ harm = [altered |-> {}, lost |-> {}, keys |-> {}, malformed |-> FALSE, copies |-> {}, copied |-> 0]
  BY DEF AuthInit
<1>2. r.result = NoResult /\ \A p \in 1 .. rd.total : r.base[p] = <<>>
  BY DEF NothingReceived, Packets
<1>3. Fit(rd, r)  BY NothingIsFit
<1> HIDE DEF r
<1>4. DOMAIN harm = HarmFields /\ harm.altered = {} /\ harm.lost = {} /\ ~ harm.malformed /\ harm.copies = {}
  BY <1>1 DEF HarmFields
<1> QED  BY <1>1, <1>2, <1>3, <1>4 DEF WholeInv, Concludes, Harms

LEMMA StartKeepsWhole ==
    ASSUME AuthInv, WholeInv, Start
    PROVE  WholeInv'
<1>1. phase = "built" /\ phase' = "sending" /\ rd' = rd /\ onAir' = onAir /\ rx' = rx /\ harm' = harm
  BY DEF Start
<1>2. \A p : Coming(p)  BY <1>1 DEF Coming
<1>3. harm.lost = {} /\ (\A p \in 1 .. rd.total : rx.base[p] = <<>>) /\ rx.result = NoResult
  BY <1>1, <1>2 DEF WholeInv
<1>4. Fit(rd, rx)' /\ Concludes(rd, rx)' /\ Harms(rd, rx, harm)' /\ (DOMAIN harm = HarmFields)'
  BY <1>1 DEF WholeInv
<1>5. (rx.result # NoResult =>
         phase \in {"sending", "over"} /\ onAir = FinalInterval(rd) /\ flight = {})'
  BY <1>1, <1>3 DEF NoResult
<1>6. (\A x \in 1 .. rd.total : rx.base[x] # <<>> => ~ Coming(x))' /\ (\A x \in harm.lost : ~ Coming(x))'
  BY <1>1, <1>3
<1> QED  BY <1>1, <1>4, <1>5, <1>6 DEF WholeInv

LEMMA WholeStep == AuthInv /\ WholeInv /\ [AuthNext]_authVars => WholeInv'
<1> SUFFICES ASSUME AuthInv, WholeInv, [AuthNext]_authVars PROVE WholeInv'  OBVIOUS
<1>1. CASE Start  BY <1>1, StartKeepsWhole
<1>2. ASSUME NEW n \in flight, Arrive(n) PROVE WholeInv'  BY <1>2, ArriveKeepsWhole
<1>3. ASSUME NEW n \in flight, Lose(n) PROVE WholeInv'  BY <1>3, LoseKeepsWhole
<1>4. ASSUME NEW n \in flight, Cut(n) PROVE WholeInv'  BY <1>4, CutKeepsWhole
<1>5. ASSUME NEW n \in flight, NEW block \in {"message", "key", "tag", "tau"}, Alter(n, block)
      PROVE  WholeInv'
  BY <1>5, AlterKeepsWhole
<1>6. ASSUME NEW p \in Packets, NEW tampered \in BOOLEAN, Copy(p, tampered) PROVE WholeInv'
  BY <1>6, CopyKeepsWhole
<1>7. CASE FollowingInterval  BY <1>7, NextIntervalKeepsWhole
<1>8. CASE Timeout  BY <1>8, TimeoutKeepsWhole
<1>9. CASE UNCHANGED authVars
 <2>1. rd' = rd /\ phase' = phase /\ onAir' = onAir /\ rx' = rx /\ harm' = harm /\ flight' = flight
   BY <1>9 DEF authVars
 <2>2. \A p : Coming(p)' <=> Coming(p)  BY <2>1 DEF Coming
 <2>3. Fit(rd, rx)' /\ Concludes(rd, rx)' /\ Harms(rd, rx, harm)' /\ (DOMAIN harm = HarmFields)'
   BY <2>1 DEF WholeInv
 <2>4. (rx.result # NoResult =>
          phase \in {"sending", "over"} /\ onAir = FinalInterval(rd) /\ flight = {})'
   BY <2>1 DEF WholeInv, NoResult
 <2>5. (phase = "over" => onAir = FinalInterval(rd) /\ flight = {})'  BY <2>1 DEF WholeInv
 <2>6. (\A x \in 1 .. rd.total : rx.base[x] # <<>> => ~ Coming(x))' /\ (\A x \in harm.lost : ~ Coming(x))'
   BY <2>1, <2>2 DEF WholeInv
 <2> QED  BY <2>1, <2>3, <2>4, <2>5, <2>6 DEF WholeInv
<1> QED  BY <1>1, <1>2, <1>3, <1>4, <1>5, <1>6, <1>7, <1>8, <1>9, Zenon DEF AuthNext

\* A Completed result is the payload as it was sent.
LEMMA WholeCompletes ==
    ASSUME AuthInv, WholeInv
    PROVE  CompletedIsWhole
<1> SUFFICES ASSUME rx.result.status = "Completed"
             PROVE  harm.lost = {} /\ ~ harm.malformed /\ rx.result.payload = rd.payload.bytes
  BY DEF CompletedIsWhole
<1>1. rx.result # NoResult  BY DEF NoResult
<1>2. /\ ~ rx.incomplete /\ rx.result.payload = rd.payload.bytes
      /\ \A p \in 1 .. rd.total : rx.base[p] # <<>>
  BY <1>1 DEF WholeInv, Concludes
<1>3. harm.lost = {} /\ ~ harm.malformed  BY <1>2 DEF WholeInv, Harms
<1> QED  BY <1>2, <1>3

\* A result that may be compared is of a round nobody disturbed.
LEMMA WholeCompares ==
    ASSUME AuthInv, WholeInv, TellingInv
    PROVE  ComparableMeansClean
<1> SUFFICES ASSUME rx.result # NoResult, rx.result.comparable
             PROVE  /\ rx.result.status = "Completed"
                    /\ harm.lost = {} /\ harm.altered = {} /\ ~harm.malformed
                    /\ \A c \in harm.copies : ~c.tampered /\ c.early
  BY DEF ComparableMeansClean
<1>1. rx.result.status = "Completed" /\ rx.eligible /\ ~ Doubted(rd, rx)  BY DEF WholeInv, Concludes
<1>2. \A p \in 1 .. rd.total : rx.status[p] = "passed"  BY <1>1 DEF WholeInv, Concludes
<1>3. harm.lost = {} /\ ~ harm.malformed  BY <1>1, WholeCompletes DEF CompletedIsWhole
<1>4. rx.reports = {} /\ \A p \in 1 .. rd.total : Intact(rd, rx, p)
  BY <1>1, <1>2 DEF WholeInv, Fit, Sound, Quiet
<1>5. harm.altered = {}  BY <1>4 DEF WholeInv, Harms
<1>6. ASSUME NEW c \in harm.copies PROVE ~ c.tampered /\ c.early
  BY <1>1, <1>4, TellingReports DEF WholeInv, Harms, HarmReported, RoundJudged, CopiesAreTold,
     Told
<1> QED  BY <1>1, <1>3, <1>5, <1>6

(* The keys on the air, and the costs of what arrives.                      *)

LEMMA SentKeyFits ==
    ASSUME NEW interval, Shaped(rd), interval \in 1 .. FinalInterval(rd), interval > rd.delay
    PROVE  KeyFits(interval, interval - rd.delay) /\ KeyIndex(interval) = interval - rd.delay
<1>1. DataIntervalCount(rd) \in Nat /\ rd.delay \in Nat \ {0} /\ FinalInterval(rd) = DataIntervalCount(rd) + rd.delay
  BY IntervalsAreNumbers DEF FinalInterval, Shaped
<1> DEFINE k == interval - rd.delay
<1>2. k \in Nat /\ k <= DataIntervalCount(rd) /\ interval > rd.delay  BY <1>1
<1>3. KeyVerified(k, k)  BY <1>2, ChainVerifies
<1> QED  BY <1>2, <1>3 DEF KeyFits, KeyIndex

\* What arrives as it was sent.
SentData(w, o, n, d) ==
    /\ d.index \in 1 .. w.total /\ d.index # 0 /\ AsSent(w, d.index, d) /\ d.interval = o
    /\ DecodeValid(w, d) /\ ~ Touched(w, d.index, d)
    /\ Decode(w, d).key # <<>> <=> n = 1 /\ o > w.delay
    /\ Decode(w, d).key # <<>> => Decode(w, d).key[1] = o - w.delay
    /\ BlockCount(w, o, n) = DataCost(Decode(w, d)) + IF Decode(w, d).key # <<>> THEN 1 ELSE 0

LEMMA SentDataIs ==
    ASSUME NEW w, Shaped(w), Buildable(w), NEW i \in 1 .. DataIntervalCount(w), i \in 1 .. FinalInterval(w),
           NEW n \in DOMAIN Datagrams(w, i), NEW d, d = Datagrams(w, i)[n]
    PROVE  SentData(w, i, n, d)
<1> DEFINE p == d.index
           b == d.blocks
           k == KeyBlocks(w, p)
           t == TagBlocks(w, p)
           fields == Decode(w, d)
<1>1. DataIntervalCount(w) \in Nat /\ i \in Nat \ {0} /\ w.delay \in Nat
  BY IntervalsAreNumbers DEF Shaped
<1>2. /\ p = FirstOf(w, i) + n - 1
      /\ p # 0 =>
           /\ b[1] = Message(w, p)
           /\ \A j \in 1 .. t : b[(1 + k) + j] = Tags(w, p)[j]
  BY <1>1, DataOnTheAir
<1>3. OnTheAir(w, d) /\ d.interval = i  BY SentOnTheAir
<1>4. FirstOf(w, i) \in Nat \ {0} /\ n \in Nat \ {0} /\ p # 0
      /\ IntervalPackets(w, i)[n] = DataPacket(w, FirstOf(w, i) + n - 1)
      /\ n \in DOMAIN IntervalPackets(w, i)
 <2>1. IntervalPackets(w, i) =
         [m \in 1 .. LastOf(w, i) - FirstOf(w, i) + 1 |-> DataPacket(w, FirstOf(w, i) + m - 1)]
   BY DEF IntervalPackets
 <2>2. DOMAIN Datagrams(w, i) = 1 .. LastOf(w, i) - FirstOf(w, i) + 1  BY <2>1 DEF Datagrams
 <2>3. FirstOf(w, i) \in Nat \ {0} /\ LastOf(w, i) \in Nat  BY IntervalHasPackets
 <2>4. n \in Nat \ {0}  BY <2>2, <2>3
 <2> QED  BY <1>2, <2>1, <2>2, <2>3, <2>4
<1>5. p \in 1 .. w.total /\ AsSent(w, p, d) /\ i = ExpectedInterval(w, p)
  BY <1>3, <1>4 DEF OnTheAir, AsSent
<1>6. EncodeValid(w, DataPacket(w, p)) /\ b = SentBlock(w, p)
  BY <1>2, <1>4 DEF Buildable, Datagrams, SentBlock
<1>7. DecodeValid(w, d)  BY <1>3, <1>4, SentIsReadable
<1>8. ~ Touched(w, p, d)  BY <1>2, <1>4 DEF Touched
<1>9. /\ k \in {0, 1} /\ t \in Nat /\ Len(b) = (1 + k) + t /\ IsSequence(b)
      /\ Len(fields.tags) = t
  BY <1>5, BlockCounts, DecodeIs DEF AsSent, Spread
<1>10. CarriesKey(w, i, p) <=> n = 1 /\ i > w.delay  BY <1>2, <1>4, <1>5, KeyAgrees DEF CarriesKey
<1>11. fields.key = IF CarriesKey(w, i, p) THEN SubSeq(b, 2, 2) ELSE <<>>  BY <1>3, <1>4 DEF Decode
<1>12. CarriesKey(w, i, p) => k = 1 /\ SubSeq(b, 2, 2) # <<>> /\ SubSeq(b, 2, 2)[1] = i - w.delay
 <2> SUFFICES ASSUME CarriesKey(w, i, p)
              PROVE  k = 1 /\ SubSeq(b, 2, 2) # <<>> /\ SubSeq(b, 2, 2)[1] = i - w.delay
   OBVIOUS
 <2>1. k = 1  BY <1>5 DEF KeyBlocks
 <2>2. b[2] = i - w.delay  BY <1>5, <1>6, SentKeyIs
 <2> DEFINE s == SubSeq(b, 2, 2)
 <2> HIDE DEF b
 <2>3. \A j \in 2 .. 2 : b[j] \in {b[2]}  OBVIOUS
 <2>4. /\ s \in Seq({b[2]}) /\ Len(s) = IF 2 <= 2 THEN 2 - 2 + 1 ELSE 0
       /\ \A j \in 1 .. 2 - 2 + 1 : s[j] = b[2 + j - 1]
   BY <2>3, SubSeqProperties
 <2> HIDE DEF s
 <2>5. Len(s) = 1 /\ s[1] = b[2]  BY <2>4
 <2>6. s # <<>>
  <3> SUFFICES ASSUME s = <<>>
               PROVE  FALSE
    OBVIOUS
  <3>1. Len(s) = Len(<<>>)  OBVIOUS
  <3>2. Len(<<>>) = 0  OBVIOUS
  <3> HIDE DEF s
  <3> QED  BY <2>5, <3>1, <3>2
 <2> QED  BY <2>1, <2>2, <2>5, <2>6 DEF s
<1>13. ~ CarriesKey(w, i, p) => k = 0  BY <1>5 DEF KeyBlocks
<1>14. BlockCount(w, i, n) = (1 + k) + t  BY <1>9 DEF BlockCount
<1> HIDE DEF fields, k, t, b
<1>15. DataCost(fields) = 1 + t  BY <1>9 DEF DataCost
<1>16. CASE CarriesKey(w, i, p)
 <2>1. fields.key # <<>> /\ fields.key[1] = i - w.delay /\ k = 1  BY <1>11, <1>12, <1>16
 <2>2. BlockCount(w, i, n) = DataCost(fields) + 1  BY <1>9, <1>14, <1>15, <2>1
 <2> QED  BY <1>3, <1>4, <1>5, <1>7, <1>8, <1>10, <1>16, <2>1, <2>2 DEF SentData, fields
<1>17. CASE ~ CarriesKey(w, i, p)
 <2>1. fields.key = <<>> /\ k = 0  BY <1>11, <1>13, <1>17
 <2>2. BlockCount(w, i, n) = DataCost(fields) + 0  BY <1>9, <1>14, <1>15, <2>1
 <2> QED  BY <1>3, <1>4, <1>5, <1>7, <1>8, <1>10, <1>17, <2>1, <2>2 DEF SentData, fields
<1> QED  BY <1>16, <1>17

(* A round nobody harmed.                                                   *)

Unharmed ==
    /\ harm.altered = {} /\ harm.lost = {} /\ harm.keys = {} /\ ~ harm.malformed
    /\ \A c \in harm.copies : ~ c.late

\* What is counted of the round while the datagrams F of interval o are to come.
Flows(w, o, F, r) ==
    /\ r.blocks \in Nat /\ r.blocks + PartBlocks(w, o, F) = BlocksUpTo(w, o)
    /\ \A j \in r.counted : j \in Nat /\ j + w.delay <= o /\ (j + w.delay = o => 1 \notin F)

\* The last datagram brings the result.
Ends(w, o, F, r) ==
    o = FinalInterval(w) /\ F = {} => r.result # NoResult /\ r.result.status = "Completed"

Flawless ==
    /\ Pure(rd, rx)
    /\ phase = "built" => rx.counted = {} /\ rx.blocks = 0
    /\ phase \in {"sending", "over"} =>
         /\ \A p \in 1 .. rd.total : ~ Coming(p) => Intact(rd, rx, p)
         /\ Flows(rd, onAir, flight, rx)
         /\ Ends(rd, onAir, flight, rx)

\* The inductive invariant of a round nobody harmed.
CleanInv == IsFiniteSet(harm.keys) /\ (Unharmed => Flawless)

\* The packets of the intervals before the one on the air.
LEMMA IntactBefore ==
    ASSUME AuthInv, phase = "sending", Shaped(rd), NEW k \in Nat, k < onAir,
           NEW r, \A p \in 1 .. rd.total : ExpectedInterval(rd, p) < onAir => Intact(rd, r, p)
    PROVE  IntactTo(rd, r, k)
<1>1. onAir \in Nat  BY DEF AuthInv
<1> SUFFICES ASSUME NEW i \in 1 .. k, NEW p \in PacketsIn(rd, i) PROVE Intact(rd, r, p)
  BY DEF IntactTo
<1>2. i \in Nat \ {0} /\ i < onAir  BY <1>1
<1>3. p \in 1 .. rd.total /\ ExpectedInterval(rd, p) = i  BY <1>2, InInterval
<1> QED  BY <1>2, <1>3

LEMMA SentKeyUsed ==
    ASSUME NEW r, NEW s, Shaped(rd), NEW o \in 1 .. FinalInterval(rd), o > rd.delay, NEW key, key = o - rd.delay,
           Uses(rd, r, s, o, key), Pure(rd, r), IntactTo(rd, r, key), key \notin r.counted
    PROVE  /\ s.counted = r.counted \cup {key} /\ s.blocks = r.blocks + 1 /\ Pure(rd, s)
           /\ o = FinalInterval(rd) => s.result # NoResult /\ s.result.status = "Completed"
  BY SentKeyFits DEF Uses

\* What holds while an undisturbed round is sent.
Flying(n) == Leaves(n) /\ Unharmed /\ Flawless /\ rx' = Receive(rx, SentNow(n), FALSE)

LEMMA FlyingIs ==
    ASSUME AuthInv, WholeInv, NEW n, Flying(n)
    PROVE  /\ rd \in RoundSet /\ Buildable(rd) /\ Shaped(rd) /\ Receives(rd, rx) /\ Pure(rd, rx)
           /\ onAir \in 1 .. FinalInterval(rd) /\ n \in DOMAIN Datagrams(rd, onAir) /\ n \in flight
           /\ \A p \in 1 .. rd.total : ExpectedInterval(rd, p) < onAir => Intact(rd, rx, p)
           /\ Flows(rd, onAir, flight, rx)
           /\ PartBlocks(rd, onAir, flight) =
                PartBlocks(rd, onAir, flight \ {n}) + BlockCount(rd, onAir, n)
           /\ PartBlocks(rd, onAir, flight \ {n}) \in Nat
<1>1. phase = "sending" /\ n \in flight  BY DEF Flying, Leaves
<1>2. rx.result = NoResult  BY <1>1 DEF WholeInv
<1>3. /\ rd \in RoundSet /\ Buildable(rd) /\ Good(rd, rx)
      /\ onAir \in 1 .. FinalInterval(rd) /\ n \in DOMAIN Datagrams(rd, onAir)
  BY <1>1 DEF AuthInv
<1>4. Receives(rd, rx)  BY <1>2, <1>3, OpenIsGood DEF Receives, WholeInv
<1>5. Shaped(rd)  BY <1>3, BuildableIsShaped
<1>6. \A p \in 1 .. rd.total : ExpectedInterval(rd, p) < onAir => Intact(rd, rx, p)
 <2>1. ASSUME NEW p \in 1 .. rd.total, ExpectedInterval(rd, p) < onAir PROVE ~ Coming(p)
  <3>1. ExpectedInterval(rd, p) \in Nat  BY <1>5, IntervalOf
  <3>2. onAir \in Nat  BY <1>3
  <3> HIDE DEF ExpectedInterval
  <3> QED  BY <1>1, <2>1, <3>1, <3>2 DEF Coming
 <2> QED  BY <1>1, <2>1 DEF Flying, Flawless
<1>7. Flows(rd, onAir, flight, rx) /\ Pure(rd, rx)  BY <1>1 DEF Flying, Flawless
<1>8. /\ PartBlocks(rd, onAir, flight) =
           PartBlocks(rd, onAir, flight \ {n}) + BlockCount(rd, onAir, n)
      /\ PartBlocks(rd, onAir, flight \ {n}) \in Nat
  BY <1>1, <1>3, <1>5, PartOfInterval
<1> QED  BY <1>1, <1>3, <1>4, <1>5, <1>6, <1>7, <1>8

\* The tail interval's datagram.
LEMMA TailIsClean ==
    ASSUME AuthInv, WholeInv, NEW n, Flying(n), DataIntervalCount(rd) < onAir
    PROVE  /\ Pure(rd, rx') /\ rx'.base = rx.base
           /\ Flows(rd, onAir, flight \ {n}, rx')
           /\ Ends(rd, onAir, flight \ {n}, rx')
<1> DEFINE d == SentNow(n)
           k == onAir - rd.delay
           s == rx'
           part == PartBlocks(rd, onAir, flight \ {n})
<1>1. /\ rd \in RoundSet /\ Buildable(rd) /\ Shaped(rd) /\ Receives(rd, rx) /\ Pure(rd, rx)
      /\ onAir \in 1 .. FinalInterval(rd) /\ n \in DOMAIN Datagrams(rd, onAir) /\ n \in flight
      /\ \A p \in 1 .. rd.total : ExpectedInterval(rd, p) < onAir => Intact(rd, rx, p)
      /\ Flows(rd, onAir, flight, rx)
      /\ PartBlocks(rd, onAir, flight) = part + BlockCount(rd, onAir, n)
      /\ part \in Nat
  BY FlyingIs
<1>2. phase = "sending" /\ s = Receive(rx, d, FALSE)  BY DEF Flying, Leaves
<1>3. /\ DOMAIN Datagrams(rd, onAir) = {1} /\ n = 1 /\ d.blocks = <<k>> /\ d.index = 0 /\ d.interval = onAir
  BY <1>1, <1>2, TailsAreLast, SentNowOnTheAir
<1>4. DataIntervalCount(rd) \in Nat \ {0} /\ rd.delay \in Nat \ {0} /\ FinalInterval(rd) = DataIntervalCount(rd) + rd.delay
  BY <1>1, IntervalsAreNumbers DEF FinalInterval, Shaped
<1>5. k \in Nat \ {0} /\ k < onAir /\ onAir > rd.delay /\ onAir \in Nat /\ k + rd.delay = onAir
  BY <1>1, <1>4 DEF Buildable, DataKeyExists
<1>6. Len(d.blocks) = 1 /\ d.blocks[1] = k  BY <1>3
<1>7. DecodeValid(rd, d)
  BY <1>1, <1>3, <1>4, <1>5, <1>6 DEF DecodeValid, HeaderValid, ExpectedBlocks, DisclosureIntervalValid
<1>8. Fields(d).key[1] = k  BY <1>3, <1>6 DEF Fields, Decode
<1> HIDE DEF d, s
<1>9. s = TailArrives(rx, d)  BY <1>1, <1>2, <1>3, <1>7, ReceiveCases
<1>10. s.base = rx.base /\ Uses(rd, rx, s, onAir, k)  BY <1>1, <1>3, <1>5, <1>8, <1>9, TailArrivesIs
<1>11. IntactTo(rd, rx, k)  BY <1>1, <1>2, <1>5, IntactBefore
<1>12. k \notin rx.counted  BY <1>1, <1>3, <1>5 DEF Flows
<1>13. k = onAir - rd.delay  OBVIOUS
<1> HIDE DEF k, part
<1>14. /\ s.counted = rx.counted \cup {k} /\ s.blocks = rx.blocks + 1 /\ Pure(rd, s)
       /\ onAir = FinalInterval(rd) => s.result # NoResult /\ s.result.status = "Completed"
  BY <1>1, <1>5, <1>10, <1>11, <1>12, <1>13, SentKeyUsed
<1>15. BlockCount(rd, onAir, n) = 1  BY <1>6 DEF BlockCount, d, SentNow
<1>16. s.blocks \in Nat /\ s.blocks + part = BlocksUpTo(rd, onAir)  BY <1>1, <1>14, <1>15 DEF Flows
<1>17. \A j \in s.counted : j \in Nat /\ j + rd.delay <= onAir /\ (j + rd.delay = onAir => 1 \notin flight \ {n})
  BY <1>1, <1>3, <1>5, <1>14 DEF Flows
<1>18. Flows(rd, onAir, flight \ {n}, s)  BY <1>16, <1>17 DEF Flows, part
<1>19. Ends(rd, onAir, flight \ {n}, s)  BY <1>14 DEF Ends
<1> QED  BY <1>10, <1>14, <1>18, <1>19 DEF s

\* A data packet of an undisturbed round takes its slot, and uses its key.
LEMMA DataIsClean ==
    ASSUME AuthInv, WholeInv, NEW n, Flying(n), ~ (DataIntervalCount(rd) < onAir)
    PROVE  /\ Pure(rd, rx')
           /\ \A p \in 1 .. rd.total : p = SentNow(n).index \/ Intact(rd, rx, p) => Intact(rd, rx', p)
           /\ Flows(rd, onAir, flight \ {n}, rx')
           /\ Ends(rd, onAir, flight \ {n}, rx')
<1> DEFINE d == SentNow(n)
           q == d.index
           s == rx'
           k == onAir - rd.delay
           part == PartBlocks(rd, onAir, flight \ {n})
           base == [rx.base EXCEPT ![q] = <<d>>]
           blocks == BlocksThen(rx, d)
           t == [rx EXCEPT !.base = base, !.blocks = blocks]
           fields == Decode(rd, d)
<1>1. /\ rd \in RoundSet /\ Buildable(rd) /\ Shaped(rd) /\ Receives(rd, rx) /\ Pure(rd, rx)
      /\ onAir \in 1 .. FinalInterval(rd) /\ n \in DOMAIN Datagrams(rd, onAir) /\ n \in flight
      /\ \A p \in 1 .. rd.total : ExpectedInterval(rd, p) < onAir => Intact(rd, rx, p)
      /\ Flows(rd, onAir, flight, rx)
      /\ PartBlocks(rd, onAir, flight) = part + BlockCount(rd, onAir, n)
      /\ part \in Nat
  BY FlyingIs
<1>2. phase = "sending" /\ s = Receive(rx, d, FALSE) /\ Leaves(n)  BY DEF Flying, Leaves
<1>3. DataIntervalCount(rd) \in Nat \ {0} /\ rd.delay \in Nat \ {0} /\ FinalInterval(rd) = DataIntervalCount(rd) + rd.delay
  BY <1>1, IntervalsAreNumbers DEF FinalInterval, Shaped
<1>4. onAir \in 1 .. DataIntervalCount(rd) /\ onAir \in Nat /\ onAir # FinalInterval(rd) /\ onAir < onAir + rd.delay
  BY <1>1, <1>3
<1>5. d = Datagrams(rd, onAir)[n]  BY DEF SentNow
<1> HIDE DEF d
<1>6. SentData(rd, onAir, n, d)  BY <1>1, <1>4, <1>5, SentDataIs
<1>7. /\ q \in 1 .. rd.total /\ q # 0 /\ AsSent(rd, q, d) /\ d.interval = onAir
      /\ DecodeValid(rd, d) /\ ~ Touched(rd, q, d)
      /\ (fields.key # <<>>) <=> (n = 1 /\ onAir > rd.delay)
      /\ fields.key # <<>> => fields.key[1] = k
      /\ BlockCount(rd, onAir, n) = DataCost(fields) + IF fields.key # <<>> THEN 1 ELSE 0
  BY <1>6 DEF SentData
<1>8. onAir = ExpectedInterval(rd, q)  BY <1>7 DEF AsSent
<1>9. rx.base[q] = <<>>  BY <1>2, <1>7, FlightLeft DEF d, Leaves, WholeInv
<1>10. TimeSafe(d.interval)  BY <1>4, <1>7 DEF TimeSafe
<1> HIDE DEF q, s
<1>11. s = TakesSlot(rx, d)  BY <1>1, <1>2, <1>7, <1>9, <1>10, ReceiveCases DEF q
<1>12. SlotFree(rd, rx, d)  BY <1>1, <1>4, <1>7, <1>9 DEF SlotFree, q
<1>13. SlotTaken(rx, d, base, blocks, t)  BY DEF SlotTaken, q
<1>14. fields = Fields(d) /\ blocks = BlocksThen(rx, d)  BY DEF Fields
<1> HIDE DEF fields, t, base, blocks
<1>15. /\ s.base = base
       /\ t.base = base /\ t.blocks = blocks /\ t.counted = rx.counted /\ (Pure(rd, rx) => Pure(rd, t))
       /\ fields.key = <<>> => s = t
       /\ fields.key # <<>> => Uses(rd, t, s, onAir, fields.key[1])
  BY <1>1, <1>7, <1>11, <1>12, <1>13, <1>14, TakesSlotIs
<1>16. base[q] = <<d>> /\ \A p \in 1 .. rd.total : p # q => base[p] = rx.base[p]
  BY <1>1, <1>7 DEF Receives, Fit, Ready, BaseOK, base
<1>17. ASSUME NEW v, v.base = base
       PROVE  \A p \in 1 .. rd.total : p = q \/ Intact(rd, rx, p) => Intact(rd, v, p)
 <2>1. Intact(rd, v, q)  BY <1>1, <1>7, <1>16, <1>17, TouchedIsNotIntact
 <2>2. ASSUME NEW p \in 1 .. rd.total, p # q, Intact(rd, rx, p) PROVE Intact(rd, v, p)
   BY <1>16, <1>17, <2>2, OtherIntact
 <2> QED  BY <2>1, <2>2
<1>18. \A p \in 1 .. rd.total : p = SentNow(n).index \/ Intact(rd, rx, p) => Intact(rd, s, p)
  BY <1>15, <1>17 DEF q, d
<1>19. blocks = rx.blocks + DataCost(fields) /\ DataCost(fields) \in Int
  BY <1>1, <1>7, <1>14, DecodeIs, BlockCounts DEF BlocksThen, DataCost, fields
<1>20. rx.blocks \in Nat /\ rx.blocks + PartBlocks(rd, onAir, flight) = BlocksUpTo(rd, onAir)
  BY <1>1 DEF Flows
<1>21. Ends(rd, onAir, flight \ {n}, s)  BY <1>4 DEF Ends
<1>22. \A j \in rx.counted : j \in Nat /\ j + rd.delay <= onAir /\ (j + rd.delay = onAir => 1 \notin flight)
  BY <1>1 DEF Flows
<1>23. CASE fields.key = <<>>
 <2>1. s.blocks = rx.blocks + DataCost(fields) /\ s.counted = rx.counted /\ Pure(rd, s)
   BY <1>1, <1>15, <1>19, <1>23
 <2>2. BlockCount(rd, onAir, n) = DataCost(fields)  BY <1>7, <1>19, <1>23
 <2>3. DataCost(fields) \in Nat  BY <1>19, <2>2, CountsAreNumbers, <1>1
 <2>4. s.blocks \in Nat /\ s.blocks + part = BlocksUpTo(rd, onAir)  BY <1>1, <1>20, <2>1, <2>2, <2>3
 <2>5. Flows(rd, onAir, flight \ {n}, s)  BY <1>22, <2>1, <2>4 DEF Flows, part
 <2> QED  BY <1>18, <1>21, <2>1, <2>5 DEF s
<1>24. CASE fields.key # <<>>
 <2>1. n = 1 /\ onAir > rd.delay /\ Uses(rd, t, s, onAir, k)  BY <1>7, <1>15, <1>24
 <2>2. k \in Nat /\ k < onAir /\ k + rd.delay = onAir /\ k = onAir - rd.delay  BY <1>3, <1>4, <2>1
 <2>3. k \notin t.counted  BY <1>1, <1>15, <1>22, <2>1, <2>2
 <2> HIDE DEF k
 <2>4. IntactTo(rd, t, k)  BY <1>1, <1>2, <1>15, <1>17, <2>2, IntactBefore
 <2>5. Pure(rd, t)  BY <1>1, <1>15
 <2>6. s.counted = t.counted \cup {k} /\ s.blocks = t.blocks + 1 /\ Pure(rd, s)
   BY <1>1, <2>1, <2>2, <2>3, <2>4, <2>5, SentKeyUsed
 <2>7. BlockCount(rd, onAir, n) = DataCost(fields) + 1 /\ s.blocks = rx.blocks + DataCost(fields) + 1
   BY <1>7, <1>15, <1>19, <1>24, <2>6
 <2>8. BlockCount(rd, onAir, n) \in Nat  BY <1>1, CountsAreNumbers
 <2>9. s.blocks \in Nat /\ s.blocks + part = BlocksUpTo(rd, onAir)
   BY <1>1, <1>19, <1>20, <2>7, <2>8
 <2>10. \A j \in s.counted : j \in Nat /\ j + rd.delay <= onAir /\ (j + rd.delay = onAir => 1 \notin flight \ {n})
   BY <1>4, <1>15, <1>22, <2>1, <2>2, <2>6
 <2>11. Flows(rd, onAir, flight \ {n}, s)  BY <2>9, <2>10 DEF Flows, part
 <2> QED  BY <1>18, <1>21, <2>6, <2>11 DEF s
<1> QED  BY <1>23, <1>24

LEMMA FlownIsClean ==
    ASSUME AuthInv, WholeInv, NEW n, Flying(n)
    PROVE  Flawless'
<1> DEFINE q == SentNow(n).index
<1>1. /\ phase = "sending" /\ Leaves(n) /\ n \in flight
      /\ rd' = rd /\ phase' = "sending" /\ onAir' = onAir /\ flight' = flight \ {n}
  BY DEF Flying, Leaves
<1>2. \A p \in 1 .. rd.total : Coming(p)' <=> Coming(p) /\ p # q  BY <1>1, FlightLeft
<1>3. \A p \in 1 .. rd.total : ~ Coming(p) => Intact(rd, rx, p)  BY <1>1 DEF Flying, Flawless
<1>4. /\ Pure(rd, rx')
      /\ \A p \in 1 .. rd.total : p = q \/ Intact(rd, rx, p) => q = 0 \/ Intact(rd, rx', p)
      /\ q = 0 => rx'.base = rx.base
      /\ Flows(rd, onAir, flight \ {n}, rx')
      /\ Ends(rd, onAir, flight \ {n}, rx')
 <2>1. CASE DataIntervalCount(rd) < onAir  BY <1>1, <2>1, TailIsClean, TailsAreLast
 <2>2. CASE ~ (DataIntervalCount(rd) < onAir)  BY <1>1, <2>2, TailsAreLast, DataIsClean
 <2> QED  BY <2>1, <2>2
<1>5. ASSUME NEW p \in 1 .. rd.total, ~ Coming(p)' PROVE Intact(rd, rx', p)
 <2>1. p = q \/ ~ Coming(p)  BY <1>2, <1>5
 <2> DEFINE s == rx'
 <2>2. CASE q = 0
  <3>1. Intact(rd, rx, p) /\ s.base = rx.base  BY <1>3, <1>4, <2>1, <2>2
  <3> HIDE DEF s
  <3>2. Intact(rd, s, p)  BY <3>1, SameIntact
  <3> QED  BY <3>2 DEF s
 <2>3. CASE q # 0  BY <1>3, <1>4, <2>1, <2>3
 <2> QED  BY <2>2, <2>3
<1>6. Pure(rd, rx)' /\ Flows(rd, onAir, flight, rx)' /\ Ends(rd, onAir, flight, rx)'  BY <1>1, <1>4
<1>7. (\A p \in 1 .. rd.total : ~ Coming(p) => Intact(rd, rx, p))'  BY <1>1, <1>5
<1> QED  BY <1>1, <1>6, <1>7 DEF Flawless

LEMMA ArriveKeepsClean ==
    ASSUME AuthInv, WholeInv, CleanInv, NEW n \in flight, Arrive(n)
    PROVE  CleanInv'
<1>1. Leaves(n) /\ rx' = Receive(rx, SentNow(n), FALSE) /\ harm' = harm  BY DEF Arrive, Leaves
<1>2. Unharmed' <=> Unharmed  BY <1>1 DEF Unharmed
<1>3. Unharmed => Flying(n)  BY <1>1 DEF CleanInv, Flying
<1>4. IsFiniteSet(harm.keys)'  BY <1>1 DEF CleanInv
<1> QED  BY <1>2, <1>3, <1>4, FlownIsClean DEF CleanInv

\* Harm ends what holds of a round nobody harmed.
LEMMA HarmEndsClean ==
    ASSUME CleanInv, WholeInv, NEW n \in flight,
           Lose(n) \/ Cut(n) \/ \E block \in {"message", "key", "tag", "tau"} : Alter(n, block)
    PROVE  CleanInv'
<1> DEFINE q == SentNow(n).index
           keys == harm.keys \cup {onAir}
           lost == harm.lost \cup {q}
           altered == harm.altered \cup {q}
<1>1. \/ harm' = [harm EXCEPT !.keys = keys]
      \/ harm' = [harm EXCEPT !.lost = lost]
      \/ harm' = [harm EXCEPT !.altered = altered]
      \/ harm' = [harm EXCEPT !.malformed = TRUE]
  BY DEF Lose, Cut, Alter
<1>2. DOMAIN harm = HarmFields /\ IsFiniteSet(harm.keys)  BY DEF WholeInv, CleanInv
<1>3. IsFiniteSet(keys) /\ keys # {} /\ lost # {} /\ altered # {}  BY <1>2, FS_AddElement
<1> HIDE DEF keys, lost, altered
<1>4. CASE harm' = [harm EXCEPT !.keys = keys]
  BY <1>2, <1>3, <1>4 DEF HarmFields, CleanInv, Unharmed
<1>5. CASE harm' = [harm EXCEPT !.lost = lost]
  BY <1>2, <1>3, <1>5 DEF HarmFields, CleanInv, Unharmed
<1>6. CASE harm' = [harm EXCEPT !.altered = altered]
  BY <1>2, <1>3, <1>6 DEF HarmFields, CleanInv, Unharmed
<1>7. CASE harm' = [harm EXCEPT !.malformed = TRUE]
  BY <1>2, <1>7 DEF HarmFields, CleanInv, Unharmed
<1> QED  BY <1>1, <1>4, <1>5, <1>6, <1>7

LEMMA CopyKeepsClean ==
    ASSUME AuthInv, WholeInv, CleanInv, NEW p \in Packets, NEW tampered \in BOOLEAN, Copy(p, tampered)
    PROVE  CleanInv'
<1> DEFINE c == [packet |-> p, tampered |-> tampered,
                 late |-> ~TimeSafe(ExpectedInterval(rd, p)), early |-> rx.base[p] = <<>>]
           copied == harm.copied + 1
           copies == harm.copies \cup {c}
           s == rx'
<1>1. /\ phase = "sending" /\ Onward /\ rx.result = NoResult /\ flight' = flight
      /\ harm' = [harm EXCEPT !.copied = copied, !.copies = copies]
  BY DEF Copy, Onward
<1>2. PICK e : /\ rx' = Receive(rx, e, TRUE) /\ Heard(e, TRUE) /\ e.index = p /\ p # 0
               /\ DecodeValid(rd, e) /\ (tampered => IsForged(rd, p, e))
  BY CopyIsHeard
<1>3. Arriving(rd, e) /\ p \in 1 .. rd.total /\ e.interval = ExpectedInterval(rd, p) /\ TRUE \in BOOLEAN
  BY <1>2 DEF Heard, DecodeValid, Packets
<1>4. Receives(rd, rx)  BY <1>1, <1>2, <1>3, ReceivedInFlight
<1>5. c \in copies /\ c.late = ~ TimeSafe(ExpectedInterval(rd, p)) /\ harm.copies \subseteq copies
  OBVIOUS
<1> HIDE DEF c, copied, copies
<1>6. /\ DOMAIN harm' = HarmFields /\ harm'.lost = harm.lost /\ harm'.copies = copies /\ harm'.keys = harm.keys
      /\ harm'.altered = harm.altered /\ (harm.malformed => harm'.malformed)
  BY <1>1 DEF WholeInv, HarmFields
<1>7. IsFiniteSet(harm.keys)'  BY <1>6 DEF CleanInv
<1> SUFFICES ASSUME Unharmed' PROVE Flawless'  BY <1>7 DEF CleanInv
<1>8. \A x \in copies : ~ x.late  BY <1>6 DEF Unharmed
<1>9. TimeSafe(e.interval)  BY <1>3, <1>5, <1>8
<1>10. Unharmed  BY <1>5, <1>6, <1>8 DEF Unharmed
<1>11. Flawless  BY <1>10 DEF CleanInv
<1> HIDE DEF s
<1>12. s = Receive(rx, e, TRUE)  BY <1>2 DEF s
<1>13. Beside(rx, s)  BY <1>2, <1>3, <1>4, <1>9, <1>12, ReceiveCases
<1>14. /\ Pure(rd, rx) => Pure(rd, s)
       /\ s.base = rx.base /\ s.blocks = rx.blocks /\ s.counted = rx.counted
  BY <1>4, <1>13, BesideReceives
<1>15. ~ (onAir = FinalInterval(rd) /\ flight = {})  BY <1>1, <1>11 DEF Flawless, Ends
<1>16. Flows(rd, onAir, flight, s) /\ Ends(rd, onAir, flight, s) /\ Pure(rd, s)
  BY <1>1, <1>11, <1>14, <1>15 DEF Flawless, Flows, Ends
<1>17. \A x \in 1 .. rd.total : ~ Coming(x) => Intact(rd, s, x)
  BY <1>1, <1>11, <1>14, SameIntact DEF Flawless
<1>18. \A x : Coming(x)' <=> Coming(x)  BY <1>1 DEF Coming, Onward
<1>19. rd' = rd /\ phase' = "sending" /\ onAir' = onAir /\ flight' = flight /\ rx' = s
  BY <1>1 DEF Onward, s
<1>20. Pure(rd, rx)' /\ Flows(rd, onAir, flight, rx)' /\ Ends(rd, onAir, flight, rx)'
  BY <1>16, <1>19
<1>21. (\A x \in 1 .. rd.total : ~ Coming(x) => Intact(rd, rx, x))'  BY <1>17, <1>18, <1>19
<1> QED  BY <1>19, <1>20, <1>21 DEF Flawless

LEMMA NextIntervalKeepsClean ==
    ASSUME AuthInv, WholeInv, CleanInv, FollowingInterval
    PROVE  CleanInv'
<1>1. /\ phase = "sending" /\ flight = {} /\ rd' = rd /\ rx' = rx /\ harm' = harm
      /\ onAir \in 1 .. FinalInterval(rd) /\ Buildable(rd) /\ rd \in RoundSet
  BY DEF AuthInv, FollowingInterval
<1>2. /\ Shaped(rd) /\ DataIntervalCount(rd) \in Nat \ {0} /\ rd.delay \in Nat \ {0}
      /\ FinalInterval(rd) = DataIntervalCount(rd) + rd.delay
  BY <1>1, BuildableIsShaped, IntervalsAreNumbers DEF FinalInterval, Shaped
<1>3. IsFiniteSet(harm.keys)' /\ (Unharmed' <=> Unharmed)  BY <1>1 DEF CleanInv, Unharmed
<1> SUFFICES ASSUME Unharmed PROVE Flawless'  BY <1>3 DEF CleanInv
<1>4. /\ Pure(rd, rx) /\ Flows(rd, onAir, flight, rx) /\ Ends(rd, onAir, flight, rx)
      /\ \A p \in 1 .. rd.total : ~ Coming(p) => Intact(rd, rx, p)
  BY <1>1 DEF CleanInv, Flawless
<1>5. \A p \in 1 .. rd.total : ExpectedInterval(rd, p) \in Nat /\ ExpectedInterval(rd, p)' = ExpectedInterval(rd, p)
  BY <1>1, <1>2, IntervalOf
<1>6. CASE onAir < FinalInterval(rd)
 <2> DEFINE o == onAir + 1
            F == DOMAIN Datagrams(rd, o)
 <2>1. onAir' = o /\ phase' = "sending" /\ onAir \in Nat /\ flight' = F /\ o \in 1 .. FinalInterval(rd)
   BY <1>1, <1>2, <1>6 DEF FollowingInterval
 <2>2. ASSUME NEW p \in 1 .. rd.total, ~ Coming(p)' PROVE Intact(rd, rx', p)
  <3>1. ~ (o < ExpectedInterval(rd, p)) /\ ~ (o = ExpectedInterval(rd, p) /\ \E n \in F : Datagrams(rd, o)[n].index = p)
    BY <1>1, <1>5, <2>1, <2>2, Zenon DEF Coming
  <3>2. o # ExpectedInterval(rd, p)  BY <1>1, <1>2, <3>1, SomeCarrier
  <3>3. ExpectedInterval(rd, p) <= onAir  BY <1>5, <2>1, <3>1, <3>2
  <3>4. ~ Coming(p)  BY <1>1, <1>5, <2>1, <3>3 DEF Coming
  <3> QED  BY <1>1, <1>4, <3>4
 <2>3. PartBlocks(rd, onAir, flight) = 0  BY <1>1, <1>2, PartOfInterval
 <2>4. BlocksUpTo(rd, o) = BlocksUpTo(rd, onAir) + BlocksOf(rd, o)
   BY <1>1, <1>2, <1>6, IntervalsAdd
 <2>5. PartBlocks(rd, o, F) = BlocksOf(rd, o) /\ BlocksOf(rd, o) \in Nat
   BY <1>1, <1>2, <2>1, PartOfInterval
 <2>6. Ends(rd, o, F, rx)  BY <1>2, TailSent DEF Ends
 <2>7. Flows(rd, o, F, rx)
  <3> HIDE DEF F
  <3>1. rx.blocks \in Nat /\ rx.blocks + PartBlocks(rd, o, F) = BlocksUpTo(rd, o)
    BY <1>4, <2>3, <2>4, <2>5 DEF Flows
  <3>2. \A j \in rx.counted : j \in Nat /\ j + rd.delay <= onAir  BY <1>4 DEF Flows
  <3>3. \A j \in rx.counted : j \in Nat /\ j + rd.delay <= o /\ j + rd.delay # o
    BY <1>2, <2>1, <3>2
  <3> QED  BY <3>1, <3>3 DEF Flows
 <2> HIDE DEF o, F
 <2>8. Pure(rd, rx)' /\ Flows(rd, onAir, flight, rx)' /\ Ends(rd, onAir, flight, rx)'
   BY <1>1, <1>4, <2>1, <2>6, <2>7
 <2>9. (\A p \in 1 .. rd.total : ~ Coming(p) => Intact(rd, rx, p))'  BY <1>1, <2>2
 <2> QED  BY <2>1, <2>8, <2>9 DEF Flawless
<1>7. CASE ~ (onAir < FinalInterval(rd))
 <2>1. onAir' = onAir /\ phase' = "over" /\ flight' = flight  BY <1>1, <1>7 DEF FollowingInterval
 <2>2. \A p : Coming(p) => Coming(p)'  BY <1>1, <2>1 DEF Coming
 <2>3. Pure(rd, rx)' /\ Flows(rd, onAir, flight, rx)' /\ Ends(rd, onAir, flight, rx)'
   BY <1>1, <1>4, <2>1
 <2>4. (\A p \in 1 .. rd.total : ~ Coming(p) => Intact(rd, rx, p))'  BY <1>1, <1>4, <2>2
 <2> QED  BY <2>1, <2>3, <2>4 DEF Flawless
<1> QED  BY <1>6, <1>7

LEMMA StartKeepsClean ==
    ASSUME AuthInv, WholeInv, CleanInv, Start
    PROVE  CleanInv'
<1> DEFINE F == DOMAIN Datagrams(rd, 1)
<1>1. /\ phase = "built" /\ phase' = "sending" /\ rd' = rd /\ onAir' = 1 /\ onAir = 1 /\ rx' = rx /\ harm' = harm
      /\ flight' = F /\ Buildable(rd) /\ rd \in RoundSet
  BY DEF Start, AuthInv
<1>2. /\ Shaped(rd) /\ DataIntervalCount(rd) \in Nat \ {0} /\ rd.delay \in Nat \ {0}
      /\ FinalInterval(rd) = DataIntervalCount(rd) + rd.delay
  BY <1>1, BuildableIsShaped, IntervalsAreNumbers DEF FinalInterval, Shaped
<1>3. IsFiniteSet(harm.keys)' /\ (Unharmed' <=> Unharmed)  BY <1>1 DEF CleanInv, Unharmed
<1> SUFFICES ASSUME Unharmed PROVE Flawless'  BY <1>3 DEF CleanInv
<1>4. Pure(rd, rx) /\ rx.counted = {} /\ rx.blocks = 0  BY <1>1 DEF CleanInv, Flawless
<1>5. ASSUME NEW p \in 1 .. rd.total PROVE Coming(p)'
 <2>1. ExpectedInterval(rd, p) \in 1 .. DataIntervalCount(rd) /\ ExpectedInterval(rd, p)' = ExpectedInterval(rd, p)
   BY <1>1, <1>2, IntervalOf
 <2>2. CASE ExpectedInterval(rd, p) = 1  BY <1>1, <1>2, <2>1, <2>2, SomeCarrier DEF Coming
 <2>3. CASE ExpectedInterval(rd, p) # 1  BY <1>1, <1>2, <2>1, <2>3 DEF Coming
 <2> QED  BY <2>2, <2>3
<1>6. 1 \in 1 .. FinalInterval(rd) /\ FinalInterval(rd) # 1  BY <1>2
<1>7. PartBlocks(rd, 1, F) = BlocksOf(rd, 1) /\ BlocksOf(rd, 1) \in Nat /\ BlocksUpTo(rd, 1) = BlocksOf(rd, 1)
  BY <1>1, <1>2, <1>6, PartOfInterval, IntervalsAdd
<1> HIDE DEF F
<1>8. Flows(rd, 1, F, rx) /\ Ends(rd, 1, F, rx)  BY <1>4, <1>6, <1>7 DEF Flows, Ends
<1>9. Pure(rd, rx)' /\ Flows(rd, onAir, flight, rx)' /\ Ends(rd, onAir, flight, rx)'
  BY <1>1, <1>4, <1>8
<1>10. (\A p \in 1 .. rd.total : ~ Coming(p) => Intact(rd, rx, p))'  BY <1>1, <1>5
<1> QED  BY <1>1, <1>9, <1>10 DEF Flawless

LEMMA TimeoutKeepsClean ==
    ASSUME WholeInv, CleanInv, Timeout
    PROVE  CleanInv'
  BY DEF Timeout, WholeInv, CleanInv, Flawless, Ends, Unharmed

LEMMA NothingIsClean == AuthInit => CleanInv
<1> SUFFICES ASSUME AuthInit PROVE CleanInv  OBVIOUS
<1> DEFINE r == NothingReceived
<1>1. /\ rx = r /\ phase \in {"built", "refused"}
      /\ harm = [altered |-> {}, lost |-> {}, keys |-> {}, malformed |-> FALSE, copies |-> {}, copied |-> 0]
  BY DEF AuthInit
<1>2. ~ r.incomplete /\ r.verified = {} /\ r.counted = {} /\ r.blocks = 0  BY DEF NothingReceived
<1> HIDE DEF r
<1>3. IsFiniteSet(harm.keys)  BY <1>1, FS_EmptySet
<1>4. Pure(rd, r)  BY <1>2 DEF Pure
<1> QED  BY <1>1, <1>2, <1>3, <1>4 DEF CleanInv, Flawless

LEMMA CleanStep == AuthInv /\ WholeInv /\ CleanInv /\ [AuthNext]_authVars => CleanInv'
<1> SUFFICES ASSUME AuthInv, WholeInv, CleanInv, [AuthNext]_authVars PROVE CleanInv'  OBVIOUS
<1>1. CASE Start  BY <1>1, StartKeepsClean
<1>2. ASSUME NEW n \in flight, Arrive(n) PROVE CleanInv'  BY <1>2, ArriveKeepsClean
<1>3. ASSUME NEW n \in flight, Lose(n) PROVE CleanInv'  BY <1>3, HarmEndsClean
<1>4. ASSUME NEW n \in flight, Cut(n) PROVE CleanInv'  BY <1>4, HarmEndsClean
<1>5. ASSUME NEW n \in flight, NEW block \in {"message", "key", "tag", "tau"}, Alter(n, block)
      PROVE  CleanInv'
  BY <1>5, HarmEndsClean
<1>6. ASSUME NEW p \in Packets, NEW tampered \in BOOLEAN, Copy(p, tampered) PROVE CleanInv'
  BY <1>6, CopyKeepsClean
<1>7. CASE FollowingInterval  BY <1>7, NextIntervalKeepsClean
<1>8. CASE Timeout  BY <1>8, TimeoutKeepsClean
<1>9. CASE UNCHANGED authVars
 <2>1. rd' = rd /\ phase' = phase /\ onAir' = onAir /\ rx' = rx /\ harm' = harm /\ flight' = flight
   BY <1>9 DEF authVars
 <2>2. \A p : Coming(p)' <=> Coming(p)  BY <2>1 DEF Coming
 <2>3. Unharmed' <=> Unharmed  BY <2>1 DEF Unharmed
 <2>4. Flawless => Flawless'  BY <2>1, <2>2 DEF Flawless
 <2>5. IsFiniteSet(harm.keys)'  BY <2>1 DEF CleanInv
 <2> QED  BY <2>3, <2>4, <2>5 DEF CleanInv
<1> QED  BY <1>1, <1>2, <1>3, <1>4, <1>5, <1>6, <1>7, <1>8, <1>9, Zenon DEF AuthNext

\* A round that counts as clean was not harmed at all.
LEMMA CleanIsUnharmed ==
    ASSUME WholeInv, CleanInv, Shaped(rd), Clean
    PROVE  Unharmed
<1>1. harm.altered \subseteq 1 .. rd.total /\ harm.lost \subseteq 1 .. rd.total
  BY DEF WholeInv, Harms
<1>2. IsFiniteSet(1 .. rd.total)
 <2>1. rd.total \in Int  BY DEF Shaped
 <2> QED  BY <2>1, FS_Interval
<1>3. IsFiniteSet(harm.altered) /\ IsFiniteSet(harm.lost) /\ IsFiniteSet(harm.keys)
  BY <1>1, <1>2, FS_Subset DEF CleanInv
<1>4. /\ Cardinality(harm.altered) \in Nat /\ Cardinality(harm.lost) \in Nat /\ Cardinality(harm.keys) \in Nat
      /\ Cardinality(harm.altered) = 0 <=> harm.altered = {}
      /\ Cardinality(harm.lost) = 0 <=> harm.lost = {}
      /\ Cardinality(harm.keys) = 0 <=> harm.keys = {}
  BY <1>3, FS_CardinalityType, FS_EmptySet
<1>5. Cardinality(harm.altered) + Cardinality(harm.lost) + Cardinality(harm.keys)
        + (IF harm.malformed THEN 1 ELSE 0) = 0
  BY DEF Clean, Harmed
<1>6. CASE harm.malformed  BY <1>4, <1>5, <1>6
<1>7. CASE ~ harm.malformed  BY <1>4, <1>5, <1>7 DEF Unharmed, Clean
<1> QED  BY <1>6, <1>7

\* The result of a clean round, and its costs.
LEMMA CleanCompletes ==
    ASSUME AuthInv, WholeInv, CleanInv
    PROVE  CleanRoundCompletes /\ CostsAgree
<1> SUFFICES ASSUME rx.result # NoResult, Clean
             PROVE  /\ rx.result.status = "Completed" /\ rx.result.payload = rd.payload.bytes
                    /\ rx.blocks = SentBlocks(rd)
 <2>1. rx.result.status = "Completed" => rx.result # NoResult  BY DEF NoResult
 <2> QED  BY <2>1 DEF CleanRoundCompletes, CostsAgree
<1>1. phase \in {"sending", "over"} /\ onAir = FinalInterval(rd) /\ flight = {}  BY DEF WholeInv
<1>2. Buildable(rd) /\ Shaped(rd)  BY <1>1, BuildableIsShaped DEF AuthInv
<1>3. Unharmed  BY <1>2, CleanIsUnharmed
<1>4. Flows(rd, onAir, flight, rx) /\ Ends(rd, onAir, flight, rx)
  BY <1>1, <1>3 DEF CleanInv, Flawless
<1>5. rx.result.status = "Completed"  BY <1>1, <1>4 DEF Ends
<1>6. rx.result.payload = rd.payload.bytes  BY <1>5, WholeCompletes DEF CompletedIsWhole
<1>7. FinalInterval(rd) \in Nat \ {0}  BY <1>2, IntervalsAreNumbers DEF FinalInterval, Shaped
<1>8. PartBlocks(rd, onAir, flight) = 0  BY <1>1, <1>2, <1>7, PartOfInterval
<1>9. BlocksUpTo(rd, onAir) = SentBlocks(rd)  BY <1>1, <1>2, IntervalsAdd
<1>10. rx.blocks \in Nat /\ rx.blocks + PartBlocks(rd, onAir, flight) = BlocksUpTo(rd, onAir)
  BY <1>4 DEF Flows
<1>11. rx.blocks = SentBlocks(rd)  BY <1>8, <1>9, <1>10
<1> QED  BY <1>5, <1>6, <1>11

\* What a result says of a round is true: a clean one completes with the
\* sender's payload and costs, a completed one is whole, and one that may be
\* compared was not disturbed, for every round, loss, alteration, reordering
\* and copy (finalizeLocked, markNormalComparisonIneligible).
THEOREM CompletionIsHonestHolds ==
    ASSUME \A s \in Shapes : Separates(s)
    PROVE  AuthSpec => []CompletionIsHonest
<1>1. AuthInv /\ WholeInv /\ CleanInv /\ TellingInv => CompletionIsHonest
  BY WholeCompletes, WholeCompares, CleanCompletes DEF CompletionIsHonest
<1>2. AuthInv /\ TellingInv /\ [AuthNext]_authVars => TellingInv'  BY TellingStep
<1>3. AuthInv /\ WholeInv /\ [AuthNext]_authVars => WholeInv'  BY WholeStep
<1>4. AuthInv /\ WholeInv /\ CleanInv /\ [AuthNext]_authVars => CleanInv'  BY CleanStep
<1>5. AuthSpec => []TellingInv  BY <1>2, NothingToTell, AuthInvHolds, PTL DEF AuthSpec
<1>6. AuthSpec => []WholeInv  BY <1>3, NothingIsWhole, AuthInvHolds, PTL DEF AuthSpec
<1>7. AuthSpec => []CleanInv  BY <1>4, <1>6, NothingIsClean, AuthInvHolds, PTL DEF AuthSpec
<1> QED  BY <1>1, <1>5, <1>6, <1>7, AuthInvHolds, PTL
=============================================================================
