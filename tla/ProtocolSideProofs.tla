-------------------------- MODULE ProtocolSideProofs --------------------------
(***************************************************************************)
(* Theorems about what the nodes agree on before any datagram is judged:   *)
(* the keys of a round, and which packets of a group the matrix of         *)
(* improved TESLA locates; and lemmas about the packets, tags, datagrams   *)
(* and messages of a round, in which no receiver appears.                  *)
(***************************************************************************)
EXTENDS KeyAuthority, GroupLocation, TeslaStrategy, DataInduction, FiniteSetTheorems, SequenceTheorems, TLAPS

-----------------------------------------------------------------------------
(* The keys (KeyAuthority).  What a node holds follows what it is sent, in   *)
(* the order of the mail: the invariant relates the two.                     *)

Configurations == {"sender", "payload", "receiver"}
Contexts == {ContextOf(p, d) : p \in Peers, d \in Draws}
Rounds == [prep : Nat, start : Nat]

KeyMessages ==
    [op : {"sender"}, is : Draws] \union [op : {"payload"}, chain : Nat]
        \union [op : {"receiver"}, contexts : SUBSET Contexts]
        \union [op : {"start"}, round : Rounds] \union [op : {"stop"}]

KeyTypeOK ==
    /\ prepNumber \in Nat /\ started \in Nat
    /\ prepState \in {"none", "open", "rejected", "ready"}
    /\ DOMAIN senders \subseteq Peers
    /\ \A p \in DOMAIN senders : senders[p] \in Draws /\ senders[p].chain # 0
    /\ mail \in [Peers -> Seq(KeyMessages)]
    /\ identity \in [Peers -> Draws \union {NoMaterial}] /\ armed \in [Peers -> Nat]
    /\ known \in [Peers -> SUBSET Contexts] /\ hearing \in [Peers -> SUBSET Contexts]
    /\ archived \in [Peers -> SUBSET (Peers \X Nat)]
    /\ sendingChain \in [Peers -> Nat] /\ roundOfNode \in [Peers -> Rounds]
    /\ material \subseteq Nat \X Peers \X Draws
    /\ sentIn \subseteq [by : Peers, is : Draws, round : Rounds]

\* What a node holds fits together, and its archive has all of it.
HoldingsFit ==
    \A n \in Peers :
        /\ armed[n] # 0 => armed[n] = identity[n].chain
        /\ sendingChain[n] # 0 => sendingChain[n] = identity[n].chain
        /\ identity[n] # NoMaterial => <<n, identity[n].chain>> \in archived[n]
        /\ ContextKeys(known[n]) \subseteq archived[n]
        /\ \A c \in known[n] : c.sender # n
        /\ known[n] # {} => ConfigureValid(known[n])
        /\ hearing[n] \subseteq known[n]

\* Material is recorded as issued and shares neither chain nor seed.
MaterialFit ==
    /\ \A m \in material : /\ m[1] <= prepNumber /\ m[3].chain # 0
                           /\ m[3].chain \in issued.chains /\ m[3].seed \in issued.seeds
    /\ \A m, k \in material :
           m[3].chain = k[3].chain \/ m[3].seed = k[3].seed => m = k
    /\ prepState # "none" => \A m \in material : m[1] = prepNumber =>
           m[2] \in DOMAIN senders /\ m[3] = senders[m[2]]
    /\ prepState = "none" => DOMAIN senders = {}

\* n was issued d, not after preparation k.
IssuedTo(n, d, k) == \E m \in material : m[1] <= k /\ m[2] = n /\ m[3] = d

\* n runs, in the rounds of preparation k, what it was issued for it.
HoldsIssued(n, d, k) == \A m \in material : m[1] = k /\ m[2] = n => d = m[3]

IdentityIssued == \A n \in Peers :
    identity[n] # NoMaterial => IssuedTo(n, identity[n], prepNumber)

MailFits ==
    \A n \in Peers : \A i \in 1 .. Len(mail[n]) :
        /\ mail[n][i].op = "sender" =>
              /\ IssuedTo(n, mail[n][i].is, prepNumber)
              /\ \E j \in i + 1 .. Len(mail[n]) : mail[n][j].op = "payload"
        /\ mail[n][i].op = "receiver" => \A c \in mail[n][i].contexts : c.sender # n

\* A start finds the node as the round's preparation has left it.
StartsFit ==
    \A n \in Peers : \A i \in 1 .. Len(mail[n]) : mail[n][i].op = "start" =>
        /\ \A j \in 1 .. i : mail[n][j].op \notin Configurations
        /\ mail[n][i].round.prep <= prepNumber /\ mail[n][i].round.start <= started
        /\ mail[n][i].round.prep = prepNumber => prepState \in {"ready", "none"}
        /\ identity[n] # NoMaterial => IssuedTo(n, identity[n], mail[n][i].round.prep)
        /\ HoldsIssued(n, identity[n], mail[n][i].round.prep)

\* The last message of an operation in a node's mail.
IsLast(n, i, op) ==
    mail[n][i].op = op /\ \A j \in i + 1 .. Len(mail[n]) : mail[n][j].op # op

NoneOf(n, op) == \A i \in 1 .. Len(mail[n]) : mail[n][i].op # op

\* A preparation nobody has refused ends in its own configuration at every node.
PreparationReaches ==
    prepState \in {"open", "ready"} => \A n \in Peers :
        /\ n \in DOMAIN senders =>
              /\ \A i \in 1 .. Len(mail[n]) :
                    /\ IsLast(n, i, "sender") => mail[n][i].is = senders[n]
                    /\ IsLast(n, i, "payload") => mail[n][i].chain = senders[n].chain
              /\ NoneOf(n, "sender") => identity[n] = senders[n]
              /\ NoneOf(n, "payload") => armed[n] = senders[n].chain
        /\ ContextsFor(n, senders) # {} =>
              /\ \A i \in 1 .. Len(mail[n]) :
                    IsLast(n, i, "receiver") => mail[n][i].contexts = ContextsFor(n, senders)
              /\ NoneOf(n, "receiver") => known[n] = ContextsFor(n, senders)

ReadyIsQuiet ==
    prepState = "ready" => \A n \in Peers :
        \A i \in 1 .. Len(mail[n]) : mail[n][i].op \notin Configurations

RoundsRun ==
    \A n \in Peers :
        /\ roundOfNode[n].prep <= prepNumber
        /\ roundOfNode[n].prep = prepNumber => prepState \in {"ready", "none"}

SentFit ==
    \A x \in sentIn :
        /\ x.round.prep <= prepNumber /\ x.round.start <= started
        /\ IssuedTo(x.by, x.is, x.round.prep) /\ HoldsIssued(x.by, x.is, x.round.prep)

\* Later starts are not of earlier preparations.
RoundsOut ==
    {r \in Rounds :
        \/ \E x \in sentIn : x.round = r
        \/ \E n \in Peers : \E i \in 1 .. Len(mail[n]) :
              mail[n][i].op = "start" /\ mail[n][i].round = r}

RoundsInOrder ==
    /\ \A r \in RoundsOut : r.prep <= prepNumber /\ r.start <= started
    /\ \A r, q \in RoundsOut : r.start < q.start => r.prep <= q.prep

KeyInv ==
    /\ KeyTypeOK /\ HoldingsFit /\ MaterialFit /\ IdentityIssued /\ MailFits /\ StartsFit
    /\ PreparationReaches /\ ReadyIsQuiet /\ RoundsRun /\ SentFit /\ RoundsInOrder

-----------------------------------------------------------------------------
(* The mail.                                                                *)

Shift(p, n) == IF p = n THEN 1 ELSE 0

LEMMA TakenMail ==
    ASSUME KeyTypeOK, NEW n \in Peers, Taken(n)
    PROVE  /\ mail' \in [Peers -> Seq(KeyMessages)]
           /\ Len(mail[n]) \in Nat \ {0} /\ Head(mail[n]) = mail[n][1] /\ 1 \in 1 .. Len(mail[n])
           /\ mail[n][1] \in KeyMessages
           /\ \A p \in Peers :
                 /\ Len(mail[p]) \in Nat /\ Len(mail'[p]) \in Nat
                 /\ Len(mail[p]) = Len(mail'[p]) + Shift(p, n)
                 /\ \A i \in 1 .. Len(mail'[p]) :
                       /\ i + Shift(p, n) \in 1 .. Len(mail[p])
                       /\ mail'[p][i] = mail[p][i + Shift(p, n)]
<1>1. mail \in [Peers -> Seq(KeyMessages)] /\ mail[n] \in Seq(KeyMessages) /\ mail[n] # <<>>
  BY DEF KeyTypeOK, Taken
<1>2. mail' = [mail EXCEPT ![n] = Tail(mail[n])]  BY DEF Taken
<1>3. Tail(mail[n]) \in Seq(KeyMessages) /\ mail[n][1] \in KeyMessages  BY <1>1
<1>4. mail' \in [Peers -> Seq(KeyMessages)] /\ mail'[n] = Tail(mail[n])
      /\ \A p \in Peers : p # n => mail'[p] = mail[p]
  BY <1>1, <1>2, <1>3
<1>5. /\ Len(mail[n]) \in Nat \ {0} /\ Head(mail[n]) = mail[n][1] /\ 1 \in 1 .. Len(mail[n])
  BY <1>1
<1>6. ASSUME NEW p \in Peers
      PROVE  /\ Len(mail[p]) \in Nat /\ Len(mail'[p]) \in Nat
             /\ Len(mail[p]) = Len(mail'[p]) + Shift(p, n)
             /\ \A i \in 1 .. Len(mail'[p]) :
                   /\ i + Shift(p, n) \in 1 .. Len(mail[p])
                   /\ mail'[p][i] = mail[p][i + Shift(p, n)]
 <2>1. CASE p = n
  <3>1. Shift(p, n) = 1  BY <2>1 DEF Shift
  <3>2. Len(Tail(mail[n])) = Len(mail[n]) - 1  BY <1>1
  <3>3. \A i \in 1 .. Len(Tail(mail[n])) : Tail(mail[n])[i] = mail[n][i + 1]  BY <1>1
  <3> QED  BY <1>4, <1>5, <2>1, <3>1, <3>2, <3>3
 <2>2. CASE p # n  BY <1>1, <1>4, <2>2 DEF Shift
 <2> QED  BY <2>1, <2>2
<1> QED  BY <1>3, <1>4, <1>5, <1>6

LEMMA LastShift ==
    ASSUME KeyTypeOK, NEW n \in Peers, Taken(n), NEW p \in Peers, NEW op,
           NEW i \in 1 .. Len(mail'[p]), IsLast(p, i, op)'
    PROVE  IsLast(p, i + Shift(p, n), op)
<1> DEFINE d == Shift(p, n)
<1>1. /\ d \in {0, 1} /\ Len(mail[p]) \in Nat /\ Len(mail'[p]) \in Nat
      /\ Len(mail[p]) = Len(mail'[p]) + d
      /\ \A k \in 1 .. Len(mail'[p]) : mail'[p][k] = mail[p][k + d]
  BY TakenMail, ZenonT(60) DEF Shift
<1>2. mail[p][i + d].op = op  BY <1>1 DEF IsLast
<1> HIDE DEF d
<1>3. ASSUME NEW j \in (i + d) + 1 .. Len(mail[p]) PROVE mail[p][j].op # op
 <2>1. j - d \in i + 1 .. Len(mail'[p]) /\ j - d \in 1 .. Len(mail'[p]) /\ (j - d) + d = j  BY <1>1
 <2>2. mail'[p][j - d] = mail[p][j]  BY <1>1, <2>1
 <2>3. mail'[p][j - d].op # op  BY <2>1 DEF IsLast
 <2> QED  BY <2>2, <2>3
<1> QED  BY <1>2, <1>3 DEF IsLast, d

LEMMA NoneShift ==
    ASSUME KeyTypeOK, NEW n \in Peers, Taken(n), NEW p \in Peers, NEW op, NoneOf(p, op)'
    PROVE  NoneOf(p, op) \/ (p = n /\ IsLast(n, 1, op))
<1> DEFINE d == Shift(p, n)
<1>1. /\ d \in {0, 1} /\ Len(mail[p]) \in Nat /\ Len(mail'[p]) \in Nat
      /\ Len(mail[p]) = Len(mail'[p]) + d
      /\ \A k \in 1 .. Len(mail'[p]) : mail'[p][k] = mail[p][k + d]
  BY TakenMail, ZenonT(60) DEF Shift
<1>5. d = 1 => p = n  BY DEF Shift
<1> HIDE DEF d
<1>2. ASSUME NEW j \in d + 1 .. Len(mail[p]) PROVE mail[p][j].op # op
 <2>1. j - d \in 1 .. Len(mail'[p]) /\ (j - d) + d = j  BY <1>1
 <2>2. mail'[p][j - d] = mail[p][j] /\ mail'[p][j - d].op # op  BY <1>1, <2>1 DEF NoneOf
 <2> QED  BY <2>2
<1>3. CASE d = 0  BY <1>2, <1>3 DEF NoneOf
<1>4. CASE d = 1
 <2>1. CASE mail[p][1].op = op  BY <1>1, <1>2, <1>4, <1>5, <2>1 DEF IsLast
 <2>2. CASE mail[p][1].op # op  BY <1>1, <1>2, <1>4, <2>2 DEF NoneOf
 <2> QED  BY <2>1, <2>2
<1> QED  BY <1>1, <1>3, <1>4, <1>5

LEMMA NoneKeeps ==
    ASSUME KeyTypeOK, NEW n \in Peers, Taken(n), NEW p \in Peers, NEW op, NoneOf(p, op)',
           mail[n][1].op # op
    PROVE  NoneOf(p, op)
  BY NoneShift DEF IsLast

\* What is said of the messages on the way stays true of those that are left.
LEMMA TakenMailFits ==
    ASSUME KeyTypeOK, MailFits, NEW n \in Peers, Taken(n),
           material' = material, prepNumber' = prepNumber
    PROVE  MailFits'
<1> SUFFICES ASSUME NEW p \in Peers, NEW i \in 1 .. Len(mail'[p])
             PROVE  /\ mail'[p][i].op = "sender" =>
                          /\ IssuedTo(p, mail'[p][i].is, prepNumber)
                          /\ \E j \in i + 1 .. Len(mail'[p]) : mail'[p][j].op = "payload"
                    /\ mail'[p][i].op = "receiver" => \A c \in mail'[p][i].contexts : c.sender # p
  BY DEF MailFits, IssuedTo
<1> DEFINE d == Shift(p, n)
<1>1. /\ d \in {0, 1} /\ Len(mail[p]) \in Nat /\ Len(mail'[p]) \in Nat
      /\ Len(mail[p]) = Len(mail'[p]) + d
      /\ \A k \in 1 .. Len(mail'[p]) :
            mail'[p][k] = mail[p][k + d] /\ k + d \in 1 .. Len(mail[p])
  BY TakenMail, ZenonT(60) DEF Shift
<1> HIDE DEF d
<1>2. ASSUME mail'[p][i].op = "sender"
      PROVE  /\ IssuedTo(p, mail'[p][i].is, prepNumber)
             /\ \E j \in i + 1 .. Len(mail'[p]) : mail'[p][j].op = "payload"
 <2>1. /\ IssuedTo(p, mail[p][i + d].is, prepNumber)
       /\ \E j \in (i + d) + 1 .. Len(mail[p]) : mail[p][j].op = "payload"
   BY <1>1, <1>2 DEF MailFits
 <2>2. PICK j \in (i + d) + 1 .. Len(mail[p]) : mail[p][j].op = "payload"  BY <2>1
 <2>3. j - d \in i + 1 .. Len(mail'[p]) /\ j - d \in 1 .. Len(mail'[p]) /\ (j - d) + d = j  BY <1>1
 <2>4. mail'[p][j - d].op = "payload"  BY <1>1, <2>2, <2>3
 <2> QED  BY <1>1, <2>1, <2>3, <2>4
<1>3. ASSUME mail'[p][i].op = "receiver" PROVE \A c \in mail'[p][i].contexts : c.sender # p
  BY <1>1, <1>3 DEF MailFits
<1> QED  BY <1>2, <1>3

LEMMA TakenReadyIsQuiet ==
    ASSUME KeyTypeOK, ReadyIsQuiet, NEW n \in Peers, Taken(n),
           prepState' = "ready" => prepState = "ready" \/ \A p \in Peers : mail'[p] = <<>>
    PROVE  ReadyIsQuiet'
<1> SUFFICES ASSUME prepState' = "ready", NEW p \in Peers, NEW i \in 1 .. Len(mail'[p])
             PROVE  mail'[p][i].op \notin Configurations
  BY DEF ReadyIsQuiet
<1>1. CASE prepState = "ready"  BY <1>1, TakenMail DEF ReadyIsQuiet
<1>2. CASE \A q \in Peers : mail'[q] = <<>>  BY <1>2
<1> QED  BY <1>1, <1>2

\* The identity of a node with a start in its mail stays.
LEMMA TakenStartsFit ==
    ASSUME KeyTypeOK, StartsFit, NEW n \in Peers, Taken(n),
           material' = material, prepNumber' = prepNumber, started' = started,
           prepState \in {"ready", "none"} => prepState' = prepState,
           \A p \in Peers : identity'[p] = identity[p]
                            \/ (p = n /\ mail[n][1].op \in Configurations)
    PROVE  StartsFit'
<1> SUFFICES ASSUME NEW p \in Peers, NEW i \in 1 .. Len(mail'[p]), mail'[p][i].op = "start"
             PROVE  /\ \A j \in 1 .. i : mail'[p][j].op \notin Configurations
                    /\ mail'[p][i].round.prep <= prepNumber /\ mail'[p][i].round.start <= started
                    /\ mail'[p][i].round.prep = prepNumber => prepState' \in {"ready", "none"}
                    /\ identity'[p] # NoMaterial =>
                          IssuedTo(p, identity'[p], mail'[p][i].round.prep)
                    /\ HoldsIssued(p, identity'[p], mail'[p][i].round.prep)
  BY DEF StartsFit, IssuedTo, HoldsIssued
<1> DEFINE d == Shift(p, n)
<1>1. /\ d \in {0, 1} /\ Len(mail[p]) \in Nat /\ Len(mail'[p]) \in Nat
      /\ Len(mail[p]) = Len(mail'[p]) + d
      /\ \A k \in 1 .. Len(mail'[p]) :
            mail'[p][k] = mail[p][k + d] /\ k + d \in 1 .. Len(mail[p])
  BY TakenMail, ZenonT(60) DEF Shift
<1> HIDE DEF d
<1>2. i + d \in 1 .. Len(mail[p]) /\ mail'[p][i] = mail[p][i + d] /\ mail[p][i + d].op = "start"
  BY <1>1
<1>3. /\ \A j \in 1 .. i + d : mail[p][j].op \notin Configurations
      /\ mail[p][i + d].round.prep <= prepNumber /\ mail[p][i + d].round.start <= started
      /\ mail[p][i + d].round.prep = prepNumber => prepState \in {"ready", "none"}
      /\ identity[p] # NoMaterial => IssuedTo(p, identity[p], mail[p][i + d].round.prep)
      /\ HoldsIssued(p, identity[p], mail[p][i + d].round.prep)
  BY <1>2 DEF StartsFit
<1>4. \A j \in 1 .. i : mail'[p][j].op \notin Configurations
 <2> SUFFICES ASSUME NEW j \in 1 .. i PROVE mail'[p][j].op \notin Configurations  OBVIOUS
 <2>1. j \in 1 .. Len(mail'[p]) /\ j + d \in 1 .. i + d  BY <1>1
 <2> QED  BY <1>1, <1>3, <2>1
<1>5. identity'[p] = identity[p]  BY <1>1, <1>3
<1> QED  BY <1>2, <1>3, <1>4, <1>5

LEMMA TakenRoundsOut ==
    ASSUME KeyTypeOK, NEW n \in Peers, Taken(n), NEW r \in RoundsOut',
           \A x \in sentIn' : x \in sentIn \/ x.round \in RoundsOut
    PROVE  r \in RoundsOut
<1>1. r \in Rounds  BY DEF RoundsOut
<1>2. ASSUME NEW x \in sentIn', x.round = r PROVE r \in RoundsOut  BY <1>1, <1>2 DEF RoundsOut
<1>3. ASSUME NEW p \in Peers, NEW i \in 1 .. Len(mail'[p]),
             mail'[p][i].op = "start", mail'[p][i].round = r
      PROVE  r \in RoundsOut
 <2>1. i + Shift(p, n) \in 1 .. Len(mail[p]) /\ mail'[p][i] = mail[p][i + Shift(p, n)]  BY TakenMail
 <2> QED  BY <1>1, <1>3, <2>1 DEF RoundsOut
<1> QED  BY <1>2, <1>3 DEF RoundsOut

\* The parts of the invariant that no step at a node but its own can disturb.
LEMMA TakenReaches ==
    ASSUME KeyTypeOK, PreparationReaches, NEW n \in Peers, Taken(n),
           senders' = senders, prepState \in {"open", "ready"},
           \A p \in Peers : p # n => /\ identity'[p] = identity[p] /\ armed'[p] = armed[p]
                                     /\ known'[p] = known[p],
           n \in DOMAIN senders =>
              /\ NoneOf(n, "sender")' => identity'[n] = senders[n]
              /\ NoneOf(n, "payload")' => armed'[n] = senders[n].chain,
           ContextsFor(n, senders) # {} =>
              (NoneOf(n, "receiver")' => known'[n] = ContextsFor(n, senders))
    PROVE  PreparationReaches'
<1> SUFFICES ASSUME NEW p \in Peers
             PROVE  /\ p \in DOMAIN senders =>
                          /\ \A i \in 1 .. Len(mail'[p]) :
                                /\ IsLast(p, i, "sender")' => mail'[p][i].is = senders[p]
                                /\ IsLast(p, i, "payload")' =>
                                      mail'[p][i].chain = senders[p].chain
                          /\ NoneOf(p, "sender")' => identity'[p] = senders[p]
                          /\ NoneOf(p, "payload")' => armed'[p] = senders[p].chain
                    /\ ContextsFor(p, senders) # {} =>
                          /\ \A i \in 1 .. Len(mail'[p]) : IsLast(p, i, "receiver")' =>
                                mail'[p][i].contexts = ContextsFor(p, senders)
                          /\ NoneOf(p, "receiver")' => known'[p] = ContextsFor(p, senders)
  BY DEF PreparationReaches, ContextsFor
<1>1. /\ p \in DOMAIN senders =>
            /\ \A i \in 1 .. Len(mail[p]) :
                  /\ IsLast(p, i, "sender") => mail[p][i].is = senders[p]
                  /\ IsLast(p, i, "payload") => mail[p][i].chain = senders[p].chain
            /\ NoneOf(p, "sender") => identity[p] = senders[p]
            /\ NoneOf(p, "payload") => armed[p] = senders[p].chain
      /\ ContextsFor(p, senders) # {} =>
            /\ \A i \in 1 .. Len(mail[p]) :
                  IsLast(p, i, "receiver") => mail[p][i].contexts = ContextsFor(p, senders)
            /\ NoneOf(p, "receiver") => known[p] = ContextsFor(p, senders)
  BY DEF PreparationReaches
<1>2. \A i \in 1 .. Len(mail'[p]) :
        i + Shift(p, n) \in 1 .. Len(mail[p]) /\ mail'[p][i] = mail[p][i + Shift(p, n)]
  BY TakenMail
<1>3. ASSUME NEW i \in 1 .. Len(mail'[p]), IsLast(p, i, "sender")', p \in DOMAIN senders
      PROVE  mail'[p][i].is = senders[p]
  BY <1>1, <1>2, <1>3, LastShift
<1>4. ASSUME NEW i \in 1 .. Len(mail'[p]), IsLast(p, i, "payload")', p \in DOMAIN senders
      PROVE  mail'[p][i].chain = senders[p].chain
  BY <1>1, <1>2, <1>4, LastShift
<1>5. ASSUME NEW i \in 1 .. Len(mail'[p]), IsLast(p, i, "receiver")',
             ContextsFor(p, senders) # {}
      PROVE  mail'[p][i].contexts = ContextsFor(p, senders)
  BY <1>1, <1>2, <1>5, LastShift
<1>6. p # n => \A op : NoneOf(p, op)' => NoneOf(p, op)  BY NoneShift
<1>7. p \in DOMAIN senders =>
        /\ NoneOf(p, "sender")' => identity'[p] = senders[p]
        /\ NoneOf(p, "payload")' => armed'[p] = senders[p].chain
 <2>1. CASE p = n  BY <2>1, Zenon
 <2>2. CASE p # n  BY <1>1, <1>6, <2>2, Zenon
 <2> QED  BY <2>1, <2>2
<1>8. ContextsFor(p, senders) # {} =>
        (NoneOf(p, "receiver")' => known'[p] = ContextsFor(p, senders))
 <2>1. CASE p = n  BY <2>1, Zenon
 <2>2. CASE p # n  BY <1>1, <1>6, <2>2, Zenon
 <2> QED  BY <2>1, <2>2
<1> QED  BY <1>3, <1>4, <1>5, <1>7, <1>8

-----------------------------------------------------------------------------
(* The steps of a node.                                                     *)

LEMMA MessageParts ==
    ASSUME NEW x \in KeyMessages
    PROVE  /\ x.op = "sender" => x.is \in Draws
           /\ x.op = "payload" => x.chain \in Nat
           /\ x.op = "receiver" => x.contexts \in SUBSET Contexts
           /\ x.op = "start" => x.round \in Rounds
  BY DEF KeyMessages

\* How the answers of the nodes move a preparation.
PrepMoves ==
    /\ prepState' \in {"none", "open", "rejected", "ready"}
    /\ prepState # "open" => prepState' = prepState
    /\ prepState = "open" => prepState' # "none"
    /\ prepState' = "ready" => prepState = "ready" \/ \A p \in Peers : mail'[p] = <<>>

LEMMA AnswerMoves ==
    ASSUME KeyTypeOK, NEW n, NEW a \in BOOLEAN, Answer(n, a)
    PROVE  /\ PrepMoves
           /\ prepState = "open" /\ a = FALSE => prepState' = "rejected"
  BY DEF Answer, PrepMoves, KeyTypeOK

LEMMA NodeKeepsMaterial ==
    ASSUME MaterialFit, PrepMoves, UNCHANGED <<issued, senders, prepNumber, material>>
    PROVE  MaterialFit'
<1>1. prepState' = "none" => prepState = "none"  BY DEF PrepMoves
<1>2. prepState = "none" => prepState' = "none"  BY DEF PrepMoves
<1>3. \A m \in material : /\ m[1] <= prepNumber /\ m[3].chain # 0
                         /\ m[3].chain \in issued.chains /\ m[3].seed \in issued.seeds
  BY DEF MaterialFit
<1>4. \A m, k \in material : m[3].chain = k[3].chain \/ m[3].seed = k[3].seed => m = k
  BY DEF MaterialFit
<1>5. prepState' # "none" => \A m \in material : m[1] = prepNumber =>
        m[2] \in DOMAIN senders /\ m[3] = senders[m[2]]
  BY <1>2 DEF MaterialFit
<1>6. prepState' = "none" => DOMAIN senders = {}  BY <1>1 DEF MaterialFit
<1> QED  BY <1>3, <1>4, <1>5, <1>6 DEF MaterialFit

LEMMA NodeKeepsRounds ==
    ASSUME RoundsRun, PrepMoves, UNCHANGED <<prepNumber, roundOfNode>>
    PROVE  RoundsRun'
  BY DEF RoundsRun, PrepMoves

LEMMA NodeKeepsSent ==
    ASSUME SentFit, UNCHANGED <<prepNumber, started, material, sentIn>>
    PROVE  SentFit'
  BY DEF SentFit, IssuedTo, HoldsIssued

LEMMA NodeKeepsOrder ==
    ASSUME KeyTypeOK, RoundsInOrder, NEW n \in Peers, Taken(n),
           UNCHANGED <<prepNumber, started>>,
           \A x \in sentIn' : x \in sentIn \/ x.round \in RoundsOut
    PROVE  RoundsInOrder'
<1>1. \A r \in RoundsOut' : r \in RoundsOut  BY TakenRoundsOut
<1>2. \A r \in RoundsOut : r.prep <= prepNumber /\ r.start <= started  BY DEF RoundsInOrder
<1>3. \A r, q \in RoundsOut : r.start < q.start => r.prep <= q.prep  BY DEF RoundsInOrder
<1>4. \A r \in RoundsOut' : r.prep <= prepNumber' /\ r.start <= started'  BY <1>1, <1>2
<1>5. \A r, q \in RoundsOut' : r.start < q.start => r.prep <= q.prep  BY <1>1, <1>3
<1> QED  BY <1>4, <1>5 DEF RoundsInOrder

\* What a message that configures finds: a preparation that is not ready.
LEMMA ConfigurationTaken ==
    ASSUME KeyTypeOK, ReadyIsQuiet, NEW n \in Peers, Taken(n),
           Head(mail[n]).op \in Configurations
    PROVE  prepState # "ready" /\ mail[n][1].op \in Configurations /\ Head(mail[n]) = mail[n][1]
  BY TakenMail DEF ReadyIsQuiet

LEMMA TakeSenderConfigOK ==
    ASSUME KeyInv, NEW n \in Peers, TakeSenderConfig(n)
    PROVE  KeyInv'
<1> USE DEF KeyInv
<1> DEFINE msg == mail[n][1]
           m == msg.is
           a == sendingChain[n] = 0
<1>1. Taken(n) /\ Head(mail[n]) = msg /\ msg.op = "sender" /\ prepState # "ready"
      /\ msg \in KeyMessages /\ 1 \in 1 .. Len(mail[n]) /\ mail' \in [Peers -> Seq(KeyMessages)]
  BY ConfigurationTaken, TakenMail DEF TakeSenderConfig, Configurations
<1>2. /\ issued' = issued /\ senders' = senders /\ prepNumber' = prepNumber
      /\ material' = material /\ sendingChain' = sendingChain /\ hearing' = hearing
      /\ roundOfNode' = roundOfNode /\ started' = started /\ sentIn' = sentIn /\ known' = known
  BY DEF TakeSenderConfig, atWork, holdings
<1>3. m \in Draws /\ m.chain \in Nat  BY <1>1, MessageParts, AuthorityParameters
<1>4. \/ /\ ~a /\ Answer(n, FALSE) /\ identity' = identity /\ armed' = armed
         /\ archived' = archived
      \/ /\ a /\ Answer(n, TRUE) /\ identity' = [identity EXCEPT ![n] = m]
         /\ armed' = [armed EXCEPT ![n] = 0]
         /\ archived' = [archived EXCEPT ![n] = ArchivedAsSender(n, m)]
  BY <1>1 DEF TakeSenderConfig, holdings
<1>5. PrepMoves /\ (prepState' \in {"open", "ready"} => a /\ prepState = "open")
 <2>1. CASE ~a /\ Answer(n, FALSE)  BY <1>1, <2>1, AnswerMoves DEF PrepMoves, KeyTypeOK
 <2>2. CASE a /\ Answer(n, TRUE)  BY <1>1, <2>2, AnswerMoves DEF PrepMoves, KeyTypeOK
 <2> QED  BY <1>4, <2>1, <2>2
<1>6. /\ identity \in [Peers -> Draws \union {NoMaterial}] /\ armed \in [Peers -> Nat]
      /\ archived \in [Peers -> SUBSET (Peers \X Nat)]
  BY DEF KeyTypeOK
<1>7. /\ \A p \in Peers : p # n => /\ identity'[p] = identity[p] /\ armed'[p] = armed[p]
                                   /\ archived'[p] = archived[p]
      /\ a => identity'[n] = m /\ armed'[n] = 0 /\ archived'[n] = ArchivedAsSender(n, m)
      /\ ~a => identity' = identity /\ armed' = armed /\ archived' = archived
  BY <1>4, <1>6
<1>8. ArchivedAsSender(n, m) \in SUBSET (Peers \X Nat)  BY <1>3, <1>6 DEF ArchivedAsSender
<1>9. /\ identity' \in [Peers -> Draws \union {NoMaterial}] /\ armed' \in [Peers -> Nat]
      /\ archived' \in [Peers -> SUBSET (Peers \X Nat)]
 <2>1. ASSUME NEW x \in SUBSET (Peers \X Nat)
       PROVE  [archived EXCEPT ![n] = x] \in [Peers -> SUBSET (Peers \X Nat)]
   BY <1>6
 <2>2. CASE ~a  BY <1>4, <1>6, <2>2
 <2>3. CASE a
  <3>1. identity' = [identity EXCEPT ![n] = m] /\ armed' = [armed EXCEPT ![n] = 0]
        /\ archived' = [archived EXCEPT ![n] = ArchivedAsSender(n, m)]
    BY <1>4, <2>3
  <3> QED  BY <1>3, <1>6, <1>8, <2>1, <3>1
 <2> QED  BY <2>2, <2>3
<1> HIDE DEF a, m, msg
<1>10. KeyTypeOK'  BY <1>1, <1>2, <1>5, <1>9 DEF KeyTypeOK, PrepMoves
<1>11. HoldingsFit'
 <2> SUFFICES ASSUME NEW p \in Peers
              PROVE  /\ armed'[p] # 0 => armed'[p] = identity'[p].chain
                     /\ sendingChain[p] # 0 => sendingChain[p] = identity'[p].chain
                     /\ identity'[p] # NoMaterial => <<p, identity'[p].chain>> \in archived'[p]
                     /\ ContextKeys(known[p]) \subseteq archived'[p]
                     /\ \A c \in known[p] : c.sender # p
                     /\ known[p] # {} => ConfigureValid(known[p])
                     /\ hearing[p] \subseteq known[p]
   BY <1>2 DEF HoldingsFit
 <2>1. /\ armed[p] # 0 => armed[p] = identity[p].chain
       /\ sendingChain[p] # 0 => sendingChain[p] = identity[p].chain
       /\ identity[p] # NoMaterial => <<p, identity[p].chain>> \in archived[p]
       /\ ContextKeys(known[p]) \subseteq archived[p]
       /\ \A c \in known[p] : c.sender # p
       /\ known[p] # {} => ConfigureValid(known[p])
       /\ hearing[p] \subseteq known[p]
   BY DEF HoldingsFit
 <2>2. CASE p # n \/ ~a  BY <1>7, <2>1, <2>2
 <2>3. CASE p = n /\ a  BY <1>7, <2>1, <2>3 DEF a, ArchivedAsSender, ContextKeys
 <2> QED  BY <2>2, <2>3
<1>12. MaterialFit' /\ RoundsRun' /\ SentFit'
  BY <1>2, <1>5, NodeKeepsMaterial, NodeKeepsRounds, NodeKeepsSent
<1>13. IdentityIssued'  BY <1>1, <1>2, <1>7 DEF MailFits, m, msg, IdentityIssued, IssuedTo
<1>14. MailFits'  BY <1>1, <1>2, TakenMailFits
<1>15. StartsFit'  BY <1>1, <1>2, <1>5, <1>7, TakenStartsFit DEF PrepMoves, Configurations, msg
<1>16. PreparationReaches'
 <2>1. CASE prepState' \notin {"open", "ready"}  BY <2>1 DEF PreparationReaches
 <2>2. CASE prepState' \in {"open", "ready"}
  <3>1. a /\ prepState = "open"  BY <1>5, <2>2
  <3>2. ASSUME n \in DOMAIN senders, NoneOf(n, "sender")' PROVE identity'[n] = senders[n]
    BY <1>1, <1>7, <3>1, <3>2, NoneShift DEF NoneOf, msg, PreparationReaches, m
  <3>3. ~ NoneOf(n, "payload")'
   <4>1. PICK j \in 2 .. Len(mail[n]) : mail[n][j].op = "payload"  BY <1>1 DEF MailFits, msg
   <4>2. /\ Len(mail[n]) = Len(mail'[n]) + 1 /\ Len(mail'[n]) \in Nat
         /\ \A i \in 1 .. Len(mail'[n]) : mail'[n][i] = mail[n][i + 1]
     BY <1>1, TakenMail DEF Shift
   <4>3. j - 1 \in 1 .. Len(mail'[n]) /\ (j - 1) + 1 = j  BY <4>2
   <4> QED  BY <4>1, <4>2, <4>3 DEF NoneOf
  <3>4. NoneOf(n, "receiver")' => NoneOf(n, "receiver")  BY <1>1, NoneKeeps DEF msg
  <3>5. ContextsFor(n, senders) # {} =>
            (NoneOf(n, "receiver")' => known'[n] = ContextsFor(n, senders))
    BY <1>2, <3>1, <3>4 DEF PreparationReaches
  <3> QED  BY <1>1, <1>2, <1>7, <3>1, <3>2, <3>3, <3>5, TakenReaches
 <2> QED  BY <2>1, <2>2
<1>17. ReadyIsQuiet'  BY <1>1, <1>5, TakenReadyIsQuiet DEF PrepMoves
<1>18. RoundsInOrder'  BY <1>1, <1>2, NodeKeepsOrder
<1> QED  BY <1>10, <1>11, <1>12, <1>13, <1>14, <1>15, <1>16, <1>17, <1>18

LEMMA TakePayloadOK ==
    ASSUME KeyInv, NEW n \in Peers, TakePayload(n)
    PROVE  KeyInv'
<1> USE DEF KeyInv
<1> DEFINE msg == mail[n][1]
           chain == msg.chain
<1>1. Taken(n) /\ Head(mail[n]) = msg /\ msg.op = "payload" /\ prepState # "ready"
      /\ msg \in KeyMessages /\ 1 \in 1 .. Len(mail[n]) /\ mail' \in [Peers -> Seq(KeyMessages)]
  BY ConfigurationTaken, TakenMail DEF TakePayload, Configurations
<1>2. /\ issued' = issued /\ senders' = senders /\ prepNumber' = prepNumber
      /\ material' = material /\ hearing' = hearing /\ archived' = archived
      /\ roundOfNode' = roundOfNode /\ started' = started /\ sentIn' = sentIn /\ known' = known
      /\ identity' = identity
  BY DEF TakePayload
<1>3. chain \in Nat  BY <1>1, MessageParts
<1> DEFINE stopped == [sendingChain EXCEPT ![n] = 0]
           armedSo == [armed EXCEPT ![n] = chain]
<1>4. \/ armed' = armed /\ sendingChain' = sendingChain /\ Answer(n, FALSE)
      \/ /\ identity[n].chain = chain /\ sendingChain' = stopped
         /\ armed' = armedSo /\ Answer(n, TRUE)
      \/ armed' = armed /\ sendingChain' = stopped /\ Answer(n, FALSE)
  BY <1>1 DEF TakePayload
<1> DEFINE a == identity[n].chain = chain /\ armed' = armedSo
<1>5. PrepMoves /\ (prepState' \in {"open", "ready"} => a /\ prepState = "open")
 <2>1. CASE Answer(n, FALSE)  BY <1>1, <2>1, AnswerMoves DEF PrepMoves, KeyTypeOK
 <2>2. CASE a /\ Answer(n, TRUE)  BY <1>1, <2>2, AnswerMoves DEF PrepMoves, KeyTypeOK
 <2> QED  BY <1>4, <2>1, <2>2
<1>6. armed \in [Peers -> Nat] /\ sendingChain \in [Peers -> Nat]  BY DEF KeyTypeOK
<1>7. armedSo \in [Peers -> Nat] /\ stopped \in [Peers -> Nat]
      /\ armedSo[n] = chain /\ stopped[n] = 0
      /\ \A p \in Peers : p # n => armedSo[p] = armed[p] /\ stopped[p] = sendingChain[p]
  BY <1>3, <1>6
<1> HIDE DEF stopped, armedSo
<1>8. armed' \in {armed, armedSo} /\ sendingChain' \in {sendingChain, stopped}
      /\ (armed' = armed \/ a)
  BY <1>4, Zenon
<1>9. armed' \in [Peers -> Nat] /\ sendingChain' \in [Peers -> Nat]  BY <1>6, <1>7, <1>8
<1>10. KeyTypeOK'  BY <1>1, <1>2, <1>5, <1>9 DEF KeyTypeOK, PrepMoves
<1>11. HoldingsFit'
 <2> SUFFICES ASSUME NEW p \in Peers
              PROVE  /\ armed'[p] # 0 => armed'[p] = identity[p].chain
                     /\ sendingChain'[p] # 0 => sendingChain'[p] = identity[p].chain
   BY <1>2 DEF HoldingsFit
 <2>1. /\ armed[p] # 0 => armed[p] = identity[p].chain
       /\ sendingChain[p] # 0 => sendingChain[p] = identity[p].chain
   BY DEF HoldingsFit
 <2>2. sendingChain'[p] \in {0, sendingChain[p]}  BY <1>7, <1>8
 <2>3. armed'[p] = armed[p] \/ (p = n /\ armed'[p] = identity[n].chain)  BY <1>7, <1>8
 <2> QED  BY <2>1, <2>2, <2>3
<1>12. MaterialFit' /\ RoundsRun' /\ SentFit'
  BY <1>2, <1>5, NodeKeepsMaterial, NodeKeepsRounds, NodeKeepsSent
<1>13. IdentityIssued'  BY <1>2 DEF IdentityIssued, IssuedTo
<1>14. MailFits'  BY <1>1, <1>2, TakenMailFits
<1>15. StartsFit'  BY <1>1, <1>2, <1>5, TakenStartsFit DEF PrepMoves
<1> HIDE DEF a
<1>16. PreparationReaches'
 <2>1. CASE prepState' \notin {"open", "ready"}  BY <2>1 DEF PreparationReaches
 <2>2. CASE prepState' \in {"open", "ready"}
  <3>1. a /\ prepState = "open"  BY <1>5, <2>2
  <3>2. NoneOf(n, "sender")' => NoneOf(n, "sender")  BY <1>1, NoneKeeps DEF msg
  <3>3. ASSUME n \in DOMAIN senders, NoneOf(n, "payload")'
        PROVE  armed'[n] = senders[n].chain
    BY <1>1, <1>7, <3>1, <3>3, NoneShift DEF NoneOf, msg, a, PreparationReaches, chain
  <3>4. NoneOf(n, "receiver")' => NoneOf(n, "receiver")  BY <1>1, NoneKeeps DEF msg
  <3>5. ContextsFor(n, senders) # {} =>
            (NoneOf(n, "receiver")' => known'[n] = ContextsFor(n, senders))
    BY <1>2, <3>1, <3>4 DEF PreparationReaches
  <3>6. n \in DOMAIN senders => (NoneOf(n, "sender")' => identity'[n] = senders[n])
    BY <1>2, <3>1, <3>2 DEF PreparationReaches
  <3>7. \A p \in Peers : p # n => armed'[p] = armed[p]  BY <1>7, <1>8
  <3> QED  BY <1>1, <1>2, <3>1, <3>3, <3>5, <3>6, <3>7, TakenReaches
 <2> QED  BY <2>1, <2>2
<1>17. ReadyIsQuiet'  BY <1>1, <1>5, TakenReadyIsQuiet DEF PrepMoves
<1>18. RoundsInOrder'  BY <1>1, <1>2, NodeKeepsOrder
<1> QED  BY <1>10, <1>11, <1>12, <1>13, <1>14, <1>15, <1>16, <1>17, <1>18

LEMMA TakeReceiverConfigOK ==
    ASSUME KeyInv, NEW n \in Peers, TakeReceiverConfig(n)
    PROVE  KeyInv'
<1> USE DEF KeyInv
<1> DEFINE msg == mail[n][1]
           contexts == msg.contexts
           a == hearing[n] = {} /\ ConfigureValid(contexts)
           knownSo == [known EXCEPT ![n] = contexts]
           archivedSo == [archived EXCEPT ![n] = ArchivedAsReceiver(n, contexts)]
<1>1. Taken(n) /\ Head(mail[n]) = msg /\ msg.op = "receiver" /\ prepState # "ready"
      /\ msg \in KeyMessages /\ 1 \in 1 .. Len(mail[n]) /\ mail' \in [Peers -> Seq(KeyMessages)]
  BY ConfigurationTaken, TakenMail DEF TakeReceiverConfig, Configurations
<1>2. /\ issued' = issued /\ senders' = senders /\ prepNumber' = prepNumber
      /\ material' = material /\ hearing' = hearing /\ sendingChain' = sendingChain
      /\ roundOfNode' = roundOfNode /\ started' = started /\ sentIn' = sentIn
      /\ identity' = identity /\ armed' = armed
  BY DEF TakeReceiverConfig, holdings, atWork
<1>3. contexts \in SUBSET Contexts /\ \A c \in contexts : c.sender # n
  BY <1>1, MessageParts DEF MailFits
<1>4. \/ ~a /\ Answer(n, FALSE) /\ known' = known /\ archived' = archived
      \/ a /\ Answer(n, TRUE) /\ known' = knownSo /\ archived' = archivedSo
  BY <1>1 DEF TakeReceiverConfig, holdings, KnownAfter
<1>5. PrepMoves /\ (prepState' \in {"open", "ready"} => a /\ prepState = "open")
 <2>1. CASE ~a /\ Answer(n, FALSE)  BY <1>1, <2>1, AnswerMoves DEF PrepMoves, KeyTypeOK
 <2>2. CASE a /\ Answer(n, TRUE)  BY <1>1, <2>2, AnswerMoves DEF PrepMoves, KeyTypeOK
 <2> QED  BY <1>4, <2>1, <2>2
<1>6. known \in [Peers -> SUBSET Contexts] /\ archived \in [Peers -> SUBSET (Peers \X Nat)]
  BY DEF KeyTypeOK
<1>7. ArchivedAsReceiver(n, contexts) \in SUBSET (Peers \X Nat)
 <2>1. ContextKeys(contexts) \subseteq Peers \X Nat
  <3> SUFFICES ASSUME NEW c \in contexts PROVE c.sender \in Peers /\ c.chain \in Nat
    BY DEF ContextKeys
  <3>1. PICK p \in Peers, d \in Draws : c = ContextOf(p, d)  BY <1>3 DEF Contexts
  <3> QED  BY <3>1, AuthorityParameters DEF ContextOf
 <2> QED  BY <1>6, <2>1 DEF ArchivedAsReceiver
<1>8. /\ knownSo \in [Peers -> SUBSET Contexts] /\ knownSo[n] = contexts
      /\ \A p \in Peers : p # n => knownSo[p] = known[p]
  BY <1>3, <1>6
<1>9. /\ archivedSo \in [Peers -> SUBSET (Peers \X Nat)]
      /\ archivedSo[n] = ArchivedAsReceiver(n, contexts)
      /\ \A p \in Peers : p # n => archivedSo[p] = archived[p]
  BY <1>6, <1>7
<1> HIDE DEF a, knownSo, archivedSo, contexts, msg
<1>10. KeyTypeOK'  BY <1>1, <1>2, <1>4, <1>5, <1>6, <1>8, <1>9 DEF KeyTypeOK, PrepMoves
<1>11. HoldingsFit'
 <2> SUFFICES ASSUME NEW p \in Peers
              PROVE  /\ identity[p] # NoMaterial => <<p, identity[p].chain>> \in archived'[p]
                     /\ ContextKeys(known'[p]) \subseteq archived'[p]
                     /\ \A c \in known'[p] : c.sender # p
                     /\ known'[p] # {} => ConfigureValid(known'[p])
                     /\ hearing[p] \subseteq known'[p]
   BY <1>2 DEF HoldingsFit
 <2>1. /\ identity[p] # NoMaterial => <<p, identity[p].chain>> \in archived[p]
       /\ ContextKeys(known[p]) \subseteq archived[p]
       /\ \A c \in known[p] : c.sender # p
       /\ known[p] # {} => ConfigureValid(known[p])
       /\ hearing[p] \subseteq known[p]
   BY DEF HoldingsFit
 <2>2. CASE p # n \/ ~a  BY <1>4, <1>8, <1>9, <2>1, <2>2
 <2>3. CASE p = n /\ a  BY <1>3, <1>4, <1>8, <1>9, <2>1, <2>3 DEF a, ArchivedAsReceiver
 <2> QED  BY <2>2, <2>3
<1>12. MaterialFit' /\ RoundsRun' /\ SentFit'
  BY <1>2, <1>5, NodeKeepsMaterial, NodeKeepsRounds, NodeKeepsSent
<1>13. IdentityIssued'  BY <1>2 DEF IdentityIssued, IssuedTo
<1>14. MailFits'  BY <1>1, <1>2, TakenMailFits
<1>15. StartsFit'  BY <1>1, <1>2, <1>5, TakenStartsFit DEF PrepMoves
<1>16. PreparationReaches'
 <2>1. CASE prepState' \notin {"open", "ready"}  BY <2>1 DEF PreparationReaches
 <2>2. CASE prepState' \in {"open", "ready"}
  <3>1. a /\ prepState = "open"  BY <1>5, <2>2
  <3>2. NoneOf(n, "sender")' => NoneOf(n, "sender")  BY <1>1, NoneKeeps DEF msg
  <3>3. NoneOf(n, "payload")' => NoneOf(n, "payload")  BY <1>1, NoneKeeps DEF msg
  <3>4. ASSUME ContextsFor(n, senders) # {}, NoneOf(n, "receiver")'
        PROVE  known'[n] = ContextsFor(n, senders)
   <4>1. IsLast(n, 1, "receiver")  BY <1>1, <3>4, NoneShift DEF NoneOf, msg
   <4>2. known'[n] = contexts  BY <1>4, <1>8, <3>1
   <4> QED  BY <1>1, <3>1, <3>4, <4>1, <4>2 DEF PreparationReaches, contexts, msg
  <3>5. n \in DOMAIN senders =>
            /\ NoneOf(n, "sender")' => identity'[n] = senders[n]
            /\ NoneOf(n, "payload")' => armed'[n] = senders[n].chain
    BY <1>2, <3>1, <3>2, <3>3 DEF PreparationReaches
  <3>6. \A p \in Peers : p # n => known'[p] = known[p]  BY <1>4, <1>8
  <3> QED  BY <1>1, <1>2, <3>1, <3>4, <3>5, <3>6, TakenReaches
 <2> QED  BY <2>1, <2>2
<1>17. ReadyIsQuiet'  BY <1>1, <1>5, TakenReadyIsQuiet DEF PrepMoves
<1>18. RoundsInOrder'  BY <1>1, <1>2, NodeKeepsOrder
<1> QED  BY <1>10, <1>11, <1>12, <1>13, <1>14, <1>15, <1>16, <1>17, <1>18

LEMMA TakeStartOK ==
    ASSUME KeyInv, NEW n \in Peers, TakeStart(n)
    PROVE  KeyInv'
<1> USE DEF KeyInv
<1> DEFINE msg == mail[n][1]
           round == msg.round
           idle == known[n] = {} /\ armed[n] = 0
           new == [by |-> n, is |-> identity[n], round |-> round]
<1>1. Taken(n) /\ Head(mail[n]) = msg /\ msg.op = "start"
      /\ msg \in KeyMessages /\ 1 \in 1 .. Len(mail[n]) /\ mail' \in [Peers -> Seq(KeyMessages)]
  BY TakenMail DEF TakeStart
<1>2. /\ issued' = issued /\ senders' = senders /\ prepNumber' = prepNumber
      /\ material' = material /\ archived' = archived /\ prepState' = prepState
      /\ started' = started /\ known' = known /\ identity' = identity /\ armed' = armed
  BY DEF TakeStart, managerKeyVars, holdings
<1>3. round \in Rounds  BY <1>1, MessageParts
<1>4. /\ HoldsIssued(n, identity[n], round.prep)
      /\ identity[n] # NoMaterial => IssuedTo(n, identity[n], round.prep)
      /\ round.prep <= prepNumber /\ round.start <= started
      /\ round.prep = prepNumber => prepState \in {"ready", "none"}
  BY <1>1 DEF StartsFit
<1>5. round \in RoundsOut  BY <1>1, <1>3 DEF RoundsOut
<1>6. /\ hearing \in [Peers -> SUBSET Contexts] /\ sendingChain \in [Peers -> Nat]
      /\ roundOfNode \in [Peers -> Rounds] /\ known[n] \in SUBSET Contexts /\ armed[n] \in Nat
      /\ identity[n] \in Draws \union {NoMaterial}
  BY DEF KeyTypeOK
<1>7. \/ hearing' = hearing /\ sendingChain' = sendingChain /\ roundOfNode' = roundOfNode
         /\ sentIn' = sentIn
      \/ /\ hearing' = [hearing EXCEPT ![n] = known[n]]
         /\ sendingChain' = [sendingChain EXCEPT ![n] = armed[n]]
         /\ roundOfNode' = [roundOfNode EXCEPT ![n] = round]
         /\ sentIn' = IF armed[n] = 0 THEN sentIn ELSE sentIn \union {new}
  BY <1>1 DEF TakeStart, atWork
<1> HIDE DEF msg, round, idle, new
<1>8. /\ hearing' \in [Peers -> SUBSET Contexts] /\ sendingChain' \in [Peers -> Nat]
      /\ roundOfNode' \in [Peers -> Rounds]
      /\ \A p \in Peers : hearing'[p] \in {hearing[p], known[p]}
      /\ \A p \in Peers : sendingChain'[p] \in {sendingChain[p], armed[p]}
      /\ \A p \in Peers : roundOfNode'[p] \in {roundOfNode[p], round}
  BY <1>3, <1>6, <1>7
<1>9. \A x \in sentIn' : x \in sentIn \/ (x = new /\ armed[n] # 0)  BY <1>7
<1>10. armed[n] # 0 => identity[n] # NoMaterial /\ identity[n] \in Draws
 <2> SUFFICES ASSUME armed[n] # 0 PROVE identity[n] # NoMaterial /\ identity[n] \in Draws  OBVIOUS
 <2>1. armed[n] = identity[n].chain  BY DEF HoldingsFit
 <2>2. NoMaterial.chain = 0  BY DEF NoMaterial
 <2>3. identity[n] # NoMaterial  BY <2>1, <2>2
 <2> QED  BY <1>6, <2>3
<1>11. new.by = n /\ new.is = identity[n] /\ new.round = round  BY DEF new
<1>12. KeyTypeOK'
 <2>1. sentIn' \subseteq [by : Peers, is : Draws, round : Rounds]
   BY <1>3, <1>9, <1>10 DEF new, KeyTypeOK
 <2> QED  BY <1>1, <1>2, <1>8, <2>1 DEF KeyTypeOK
<1>13. HoldingsFit'  BY <1>2, <1>8 DEF HoldingsFit
<1>14. PrepMoves  BY <1>2 DEF PrepMoves, KeyTypeOK
<1>15. MaterialFit' /\ RoundsRun'  BY <1>2, <1>4, <1>8, <1>14, NodeKeepsMaterial DEF RoundsRun
<1>16. SentFit'
 <2> SUFFICES ASSUME NEW x \in sentIn'
              PROVE  /\ x.round.prep <= prepNumber /\ x.round.start <= started
                     /\ IssuedTo(x.by, x.is, x.round.prep)
                     /\ HoldsIssued(x.by, x.is, x.round.prep)
   BY <1>2 DEF SentFit, IssuedTo, HoldsIssued
 <2>1. CASE x \in sentIn  BY <2>1 DEF SentFit
 <2>2. CASE x = new /\ armed[n] # 0  BY <1>4, <1>10, <1>11, <2>2
 <2> QED  BY <1>9, <2>1, <2>2
<1>17. IdentityIssued'  BY <1>2 DEF IdentityIssued, IssuedTo
<1>18. MailFits'  BY <1>1, <1>2, TakenMailFits
<1>19. StartsFit'  BY <1>1, <1>2, TakenStartsFit
<1>20. PreparationReaches'
 <2>1. CASE prepState' \notin {"open", "ready"}  BY <2>1 DEF PreparationReaches
 <2>2. CASE prepState' \in {"open", "ready"}
   BY <1>1, <1>2, <2>2, NoneKeeps, TakenReaches DEF msg, PreparationReaches
 <2> QED  BY <2>1, <2>2
<1>21. ReadyIsQuiet'  BY <1>1, <1>2, TakenReadyIsQuiet
<1>22. RoundsInOrder'  BY <1>1, <1>2, <1>5, <1>9, <1>11, NodeKeepsOrder
<1> QED  BY <1>12, <1>13, <1>15, <1>16, <1>17, <1>18, <1>19, <1>20, <1>21, <1>22

\* What is at work at a node ends.
WorkEnds ==
    /\ hearing' \in [Peers -> SUBSET Contexts] /\ sendingChain' \in [Peers -> Nat]
    /\ \A p \in Peers : /\ hearing'[p] \subseteq hearing[p]
                        /\ sendingChain'[p] \in {0, sendingChain[p]}
    /\ UNCHANGED <<issued, senders, prepNumber, prepState, material, identity, armed, known,
                   archived, roundOfNode, started, sentIn>>

LEMMA TakeStopOK ==
    ASSUME KeyInv, NEW n \in Peers, TakeStop(n)
    PROVE  KeyInv'
<1> USE DEF KeyInv
<1>1. Taken(n) /\ mail[n][1].op = "stop" /\ mail' \in [Peers -> Seq(KeyMessages)]
  BY TakenMail DEF TakeStop
<1>2. WorkEnds  BY DEF KeyTypeOK, TakeStop, holdings, WorkEnds
<1>3. /\ issued' = issued /\ senders' = senders /\ prepNumber' = prepNumber
      /\ material' = material /\ archived' = archived /\ prepState' = prepState
      /\ started' = started /\ known' = known /\ identity' = identity /\ armed' = armed
      /\ roundOfNode' = roundOfNode /\ sentIn' = sentIn
  BY <1>2 DEF WorkEnds
<1>4. KeyTypeOK'  BY <1>1, <1>2, <1>3 DEF KeyTypeOK, WorkEnds
<1>5. HoldingsFit'  BY <1>2, <1>3 DEF HoldingsFit, WorkEnds
<1>6. PrepMoves  BY <1>3 DEF PrepMoves, KeyTypeOK
<1>7. MaterialFit' /\ RoundsRun' /\ SentFit'
  BY <1>3, <1>6, NodeKeepsMaterial, NodeKeepsRounds, NodeKeepsSent
<1>8. IdentityIssued'  BY <1>3 DEF IdentityIssued, IssuedTo
<1>9. MailFits' /\ StartsFit' /\ ReadyIsQuiet' /\ RoundsInOrder'
  BY <1>1, <1>3, TakenMailFits, TakenStartsFit, TakenReadyIsQuiet, NodeKeepsOrder
<1>10. PreparationReaches'
 <2>1. CASE prepState' \notin {"open", "ready"}  BY <2>1 DEF PreparationReaches
 <2>2. CASE prepState' \in {"open", "ready"}
   BY <1>1, <1>3, <2>2, NoneKeeps, TakenReaches DEF PreparationReaches
 <2> QED  BY <2>1, <2>2
<1> QED  BY <1>4, <1>5, <1>7, <1>8, <1>9, <1>10

LEMMA WorkEndsOK ==
    ASSUME KeyInv, WorkEnds, mail' = mail
    PROVE  KeyInv'
<1> USE DEF KeyInv
<1>1. /\ issued' = issued /\ senders' = senders /\ prepNumber' = prepNumber
      /\ material' = material /\ archived' = archived /\ prepState' = prepState
      /\ started' = started /\ known' = known /\ identity' = identity /\ armed' = armed
      /\ roundOfNode' = roundOfNode /\ sentIn' = sentIn /\ mail' = mail
  BY DEF WorkEnds
<1>2. KeyTypeOK'  BY <1>1 DEF KeyTypeOK, WorkEnds
<1>3. HoldingsFit'  BY <1>1 DEF HoldingsFit, WorkEnds
<1>4. MaterialFit' /\ RoundsRun' /\ SentFit' /\ IdentityIssued'
  BY <1>1 DEF MaterialFit, RoundsRun, SentFit, IdentityIssued, IssuedTo, HoldsIssued
<1>5. MailFits' /\ StartsFit' /\ ReadyIsQuiet'
  BY <1>1 DEF MailFits, StartsFit, ReadyIsQuiet, IssuedTo, HoldsIssued
<1>6. PreparationReaches'  BY <1>1 DEF PreparationReaches, IsLast, NoneOf, ContextsFor
<1>7. RoundsInOrder'  BY <1>1 DEF RoundsOut, RoundsInOrder
<1> QED  BY <1>2, <1>3, <1>4, <1>5, <1>6, <1>7

LEMMA EndsOK ==
    ASSUME KeyInv, NEW n \in Peers, SenderEnds(n) \/ ContextEnds(n)
    PROVE  KeyInv'
<1>1. hearing \in [Peers -> SUBSET Contexts] /\ sendingChain \in [Peers -> Nat]
  BY DEF KeyInv, KeyTypeOK
<1>2. CASE SenderEnds(n)  BY <1>1, <1>2, WorkEndsOK DEF SenderEnds, holdings, WorkEnds
<1>3. CASE ContextEnds(n)
 <2>1. PICK c \in hearing[n] : hearing' = [hearing EXCEPT ![n] = hearing[n] \ {c}]
   BY <1>3 DEF ContextEnds
 <2>2. UNCHANGED <<issued, senders, prepNumber, prepState, material, identity, armed, known,
                   archived, roundOfNode, started, sentIn>>
       /\ sendingChain' = sendingChain /\ mail' = mail
   BY <1>3 DEF ContextEnds, holdings
 <2>3. hearing' \in [Peers -> SUBSET Contexts]
       /\ \A p \in Peers : hearing'[p] \subseteq hearing[p]
   BY <1>1, <2>1
 <2> QED  BY <1>1, <2>2, <2>3, WorkEndsOK DEF WorkEnds
<1> QED  BY <1>2, <1>3

-----------------------------------------------------------------------------
(* The steps of the manager: what they put behind the mail of the nodes.    *)

Adds(more) ==
    /\ more \in [Peers -> Seq(KeyMessages)]
    /\ mail' = [n \in Peers |-> mail[n] \o more[n]]

LEMMA Offsets ==
    ASSUME NEW a \in Nat, NEW b \in Nat
    PROVE  /\ \A k \in 1 .. a : k \in 1 .. a + b
           /\ \A i \in 1 .. a : \A j \in 1 .. b : a + j \in i + 1 .. a + b
           /\ \A i \in 1 .. a : \A j \in i + 1 .. a : j \in 1 .. a /\ j \in i + 1 .. a + b
  OBVIOUS

\* How the mail of p is after the addition.
AddedAt(more, p) ==
    /\ Len(mail[p]) \in Nat /\ Len(more[p]) \in Nat /\ Len(mail'[p]) \in Nat
    /\ Len(mail'[p]) = Len(mail[p]) + Len(more[p])
    /\ \A i \in 1 .. Len(mail[p]) : mail'[p][i] = mail[p][i]
    /\ \A i \in 1 .. Len(more[p]) :
          /\ Len(mail[p]) + i \in 1 .. Len(mail'[p])
          /\ mail'[p][Len(mail[p]) + i] = more[p][i]
    /\ \A i \in 1 .. Len(mail'[p]) :
          \/ i \in 1 .. Len(mail[p])
          \/ /\ i - Len(mail[p]) \in 1 .. Len(more[p])
             /\ mail'[p][i] = more[p][i - Len(mail[p])]

LEMMA AddedMail ==
    ASSUME KeyTypeOK, NEW more, Adds(more)
    PROVE  /\ mail' \in [Peers -> Seq(KeyMessages)]
           /\ \A p \in Peers : AddedAt(more, p)
<1>1. mail \in [Peers -> Seq(KeyMessages)] /\ more \in [Peers -> Seq(KeyMessages)]
  BY DEF KeyTypeOK, Adds
<1>2. mail' = [n \in Peers |-> mail[n] \o more[n]]  BY DEF Adds
<1>3. \A p \in Peers : mail[p] \o more[p] \in Seq(KeyMessages)  BY <1>1
<1>4. mail' \in [Peers -> Seq(KeyMessages)]  BY <1>2, <1>3
<1>5. ASSUME NEW p \in Peers PROVE AddedAt(more, p)
 <2> DEFINE s == mail[p]
            t == more[p]
 <2>1. s \in Seq(KeyMessages) /\ t \in Seq(KeyMessages) /\ mail'[p] = s \o t  BY <1>1, <1>2
 <2>2. Len(s) \in Nat /\ Len(t) \in Nat /\ Len(s \o t) = Len(s) + Len(t)  BY <2>1
 <2>3. \A i \in 1 .. Len(s) + Len(t) :
           (s \o t)[i] = IF i <= Len(s) THEN s[i] ELSE t[i - Len(s)]
   BY <2>1
 <2> HIDE DEF s, t
 <2>4. \A i \in 1 .. Len(s) : mail'[p][i] = s[i]  BY <2>1, <2>2, <2>3
 <2>5. \A i \in 1 .. Len(t) : /\ Len(s) + i \in 1 .. Len(mail'[p])
                              /\ mail'[p][Len(s) + i] = t[i]
  <3> SUFFICES ASSUME NEW i \in 1 .. Len(t)
               PROVE  /\ Len(s) + i \in 1 .. Len(mail'[p])
                      /\ mail'[p][Len(s) + i] = t[i]
    OBVIOUS
  <3>1. Len(s) + i \in 1 .. Len(s) + Len(t) /\ ~(Len(s) + i <= Len(s))
        /\ (Len(s) + i) - Len(s) = i
    BY <2>2
  <3> QED  BY <2>1, <2>2, <2>3, <3>1
 <2>6. \A i \in 1 .. Len(mail'[p]) :
           i \in 1 .. Len(s) \/ (i - Len(s) \in 1 .. Len(t) /\ mail'[p][i] = t[i - Len(s)])
   BY <2>1, <2>2, <2>3
 <2>7. /\ Len(s) \in Nat /\ Len(t) \in Nat /\ Len(mail'[p]) \in Nat
       /\ Len(mail'[p]) = Len(s) + Len(t)
   BY <2>1, <2>2
 <2> QED  BY <2>4, <2>5, <2>6, <2>7, Zenon DEF s, t, AddedAt
<1> QED  BY <1>4, <1>5

LEMMA LastAdded ==
    ASSUME KeyTypeOK, NEW more, Adds(more), NEW p \in Peers, NEW op,
           NEW i \in 1 .. Len(mail'[p]), IsLast(p, i, op)'
    PROVE  \/ /\ i \in 1 .. Len(mail[p]) /\ IsLast(p, i, op)
              /\ \A j \in 1 .. Len(more[p]) : more[p][j].op # op
           \/ \E j \in 1 .. Len(more[p]) : more[p][j].op = op /\ mail'[p][i] = more[p][j]
<1>0. AddedAt(more, p)  BY AddedMail
<1>1. /\ Len(mail[p]) \in Nat /\ Len(more[p]) \in Nat /\ Len(mail'[p]) \in Nat
      /\ Len(mail'[p]) = Len(mail[p]) + Len(more[p])
      /\ \A k \in 1 .. Len(mail[p]) : mail'[p][k] = mail[p][k]
      /\ \A k \in 1 .. Len(more[p]) :
            /\ Len(mail[p]) + k \in 1 .. Len(mail'[p])
            /\ mail'[p][Len(mail[p]) + k] = more[p][k]
      /\ \A k \in 1 .. Len(mail'[p]) :
            \/ k \in 1 .. Len(mail[p])
            \/ /\ k - Len(mail[p]) \in 1 .. Len(more[p])
               /\ mail'[p][k] = more[p][k - Len(mail[p])]
  BY <1>0 DEF AddedAt
<1>2. mail'[p][i].op = op /\ \A j \in i + 1 .. Len(mail'[p]) : mail'[p][j].op # op  BY DEF IsLast
<1>5. /\ Len(mail[p]) \in Nat /\ Len(more[p]) \in Nat
      /\ Len(mail'[p]) = Len(mail[p]) + Len(more[p])
  BY <1>0 DEF AddedAt
<1>3. CASE i \in 1 .. Len(mail[p])
 <2>1. mail[p][i].op = op  BY <1>1, <1>2, <1>3
 <2>2. \A j \in i + 1 .. Len(mail[p]) : mail[p][j].op # op
  <3> SUFFICES ASSUME NEW j \in i + 1 .. Len(mail[p]) PROVE mail[p][j].op # op  OBVIOUS
  <3>1. j \in 1 .. Len(mail[p]) /\ j \in i + 1 .. Len(mail'[p])  BY <1>5, <1>3, Offsets, Zenon
  <3> QED  BY <1>1, <1>2, <3>1
 <2>3. \A j \in 1 .. Len(more[p]) : more[p][j].op # op
  <3> SUFFICES ASSUME NEW j \in 1 .. Len(more[p]) PROVE more[p][j].op # op  OBVIOUS
  <3>1. Len(mail[p]) + j \in i + 1 .. Len(mail'[p])  BY <1>5, <1>3, Offsets, Zenon
  <3> QED  BY <1>1, <1>2, <3>1
 <2> QED  BY <1>3, <2>1, <2>2, <2>3 DEF IsLast
<1>4. CASE i - Len(mail[p]) \in 1 .. Len(more[p]) /\ mail'[p][i] = more[p][i - Len(mail[p])]
  BY <1>2, <1>4
<1> QED  BY <1>1, <1>3, <1>4

LEMMA NoneAdded ==
    ASSUME KeyTypeOK, NEW more, Adds(more), NEW p \in Peers, NEW op, NoneOf(p, op)'
    PROVE  NoneOf(p, op) /\ \A j \in 1 .. Len(more[p]) : more[p][j].op # op
<1>0. AddedAt(more, p)  BY AddedMail
<1>1. /\ Len(mail[p]) \in Nat /\ Len(more[p]) \in Nat
      /\ Len(mail'[p]) = Len(mail[p]) + Len(more[p])
      /\ \A k \in 1 .. Len(mail[p]) : mail'[p][k] = mail[p][k]
      /\ \A k \in 1 .. Len(more[p]) :
            /\ Len(mail[p]) + k \in 1 .. Len(mail'[p])
            /\ mail'[p][Len(mail[p]) + k] = more[p][k]
  BY <1>0 DEF AddedAt
<1>2. \A k \in 1 .. Len(mail'[p]) : mail'[p][k].op # op  BY DEF NoneOf
<1>3. \A k \in 1 .. Len(mail[p]) : k \in 1 .. Len(mail'[p])  BY <1>0, Offsets DEF AddedAt
<1>4. NoneOf(p, op)  BY <1>1, <1>2, <1>3 DEF NoneOf
<1>5. \A j \in 1 .. Len(more[p]) : more[p][j].op # op  BY <1>1, <1>2
<1> QED  BY <1>4, <1>5

\* Only a start brings a round.
LEMMA AddedRoundsOut ==
    ASSUME KeyTypeOK, NEW more, Adds(more), sentIn' = sentIn, NEW r \in RoundsOut'
    PROVE  \/ r \in RoundsOut
           \/ \E p \in Peers : \E i \in 1 .. Len(more[p]) :
                 more[p][i].op = "start" /\ more[p][i].round = r
<1>1. r \in Rounds  BY DEF RoundsOut
<1>2. ASSUME NEW x \in sentIn, x.round = r PROVE r \in RoundsOut  BY <1>1, <1>2 DEF RoundsOut
<1>3. ASSUME NEW p \in Peers, NEW i \in 1 .. Len(mail'[p]),
             mail'[p][i].op = "start", mail'[p][i].round = r
      PROVE  \/ r \in RoundsOut
             \/ \E k \in 1 .. Len(more[p]) : more[p][k].op = "start" /\ more[p][k].round = r
 <2>1. \/ i \in 1 .. Len(mail[p]) /\ mail'[p][i] = mail[p][i]
       \/ /\ i - Len(mail[p]) \in 1 .. Len(more[p])
          /\ mail'[p][i] = more[p][i - Len(mail[p])]
  <3>1. AddedAt(more, p)  BY AddedMail
  <3> QED  BY <3>1 DEF AddedAt
 <2> QED  BY <1>1, <1>3, <2>1 DEF RoundsOut
<1> QED  BY <1>2, <1>3 DEF RoundsOut

-----------------------------------------------------------------------------
(* A preparation issues what nobody has been issued before.                 *)

LEMMA IssueAdds ==
    ASSUME KeyTypeOK, MaterialFit, NEW who \in SUBSET Peers, NEW m \in Issuable(who), Issue(m),
           prepNumber' = prepNumber + 1
    PROVE  /\ DOMAIN m = who
           /\ \A p \in who : m[p] \in Draws /\ m[p].chain # 0
           /\ material' \subseteq Nat \X Peers \X Draws
           /\ material \subseteq material'
           /\ \A x \in material' :
                 \/ x \in material
                 \/ x[1] = prepNumber + 1 /\ x[2] \in who /\ x[3] = m[x[2]]
           /\ \A p \in who : <<prepNumber + 1, p, m[p]>> \in material'
           /\ \A x \in material' : /\ x[1] <= prepNumber' /\ x[3].chain # 0
                                   /\ x[3].chain \in issued'.chains
                                   /\ x[3].seed \in issued'.seeds
           /\ \A x, y \in material' :
                  x[3].chain = y[3].chain \/ x[3].seed = y[3].seed => x = y
<1>1. m \in [who -> {d \in Draws : Fresh(d)}]
      /\ \A p, q \in who : p # q => m[p].chain # m[q].chain /\ m[p].seed # m[q].seed
  BY DEF Issuable
<1>2. DOMAIN m = who /\ \A p \in who : m[p] \in Draws /\ Fresh(m[p])  BY <1>1
<1>3. \A p \in who : m[p].chain # 0 /\ m[p].chain \notin issued.chains
                      /\ m[p].seed \notin issued.seeds
  BY <1>2 DEF Fresh
<1>4. /\ issued'.chains = issued.chains \union {m[p].chain : p \in who}
      /\ issued'.seeds = issued.seeds \union {m[p].seed : p \in who}
      /\ material' = material \union {<<prepNumber + 1, p, m[p]>> : p \in who}
  BY <1>2 DEF Issue
<1>5. prepNumber \in Nat /\ material \subseteq Nat \X Peers \X Draws  BY DEF KeyTypeOK
<1>6. material' \subseteq Nat \X Peers \X Draws  BY <1>2, <1>4, <1>5
<1>7. \A x \in material' :
        \/ x \in material
        \/ /\ x[1] = prepNumber + 1 /\ x[2] \in who /\ x[3] = m[x[2]]
           /\ x = <<prepNumber + 1, x[2], x[3]>>
  BY <1>4
<1>8. \A x \in material : /\ x[1] <= prepNumber /\ x[3].chain # 0 /\ x[1] \in Nat
                          /\ x[3].chain \in issued.chains /\ x[3].seed \in issued.seeds
  BY <1>5 DEF MaterialFit
<1>9. ASSUME NEW x \in material'
      PROVE  /\ x[1] <= prepNumber' /\ x[3].chain # 0
             /\ x[3].chain \in issued'.chains /\ x[3].seed \in issued'.seeds
 <2>1. CASE x \in material  BY <1>4, <1>5, <1>8, <2>1
 <2>2. CASE x[1] = prepNumber + 1 /\ x[2] \in who /\ x[3] = m[x[2]]  BY <1>3, <1>4, <1>5, <2>2
 <2> QED  BY <1>7, <2>1, <2>2
<1>10. ASSUME NEW x \in material', NEW y \in material',
              x[3].chain = y[3].chain \/ x[3].seed = y[3].seed
       PROVE  x = y
 <2>1. CASE x \in material /\ y \in material  BY <1>10, <2>1 DEF MaterialFit
 <2>2. CASE x \in material /\ y \notin material  BY <1>3, <1>7, <1>8, <1>10, <2>2
 <2>3. CASE x \notin material /\ y \in material  BY <1>3, <1>7, <1>8, <1>10, <2>3
 <2>4. CASE x \notin material /\ y \notin material  BY <1>1, <1>7, <1>10, <2>4
 <2> QED  BY <2>1, <2>2, <2>3, <2>4
<1>11. \A p \in who : <<prepNumber + 1, p, m[p]>> \in material'  BY <1>4
<1> QED  BY <1>2, <1>3, <1>4, <1>6, <1>7, <1>9, <1>10, <1>11

\* What a preparation leaves alone when it issues m to who.
Prepares(who, m) ==
    /\ who \in SUBSET Peers /\ m \in Issuable(who) /\ Issue(m)
    /\ prepNumber' = prepNumber + 1
    /\ UNCHANGED <<identity, armed, known, archived, sendingChain, hearing, roundOfNode,
                   started, sentIn>>

LEMMA IssuedStays ==
    ASSUME KeyInv, NEW who, NEW m, Prepares(who, m), NEW n, NEW d, NEW k
    PROVE  IssuedTo(n, d, k) => \E x \in material' : x[1] <= k /\ x[2] = n /\ x[3] = d
  BY IssueAdds DEF Prepares, KeyInv, IssuedTo

LEMMA IssuedLater ==
    ASSUME KeyInv, NEW who, NEW m, Prepares(who, m), NEW n, NEW d
    PROVE  IssuedTo(n, d, prepNumber) =>
               \E x \in material' : x[1] <= prepNumber + 1 /\ x[2] = n /\ x[3] = d
<1> SUFFICES ASSUME IssuedTo(n, d, prepNumber)
             PROVE  \E x \in material' : x[1] <= prepNumber + 1 /\ x[2] = n /\ x[3] = d
  OBVIOUS
<1>1. PICK x \in material : x[1] <= prepNumber /\ x[2] = n /\ x[3] = d  BY DEF IssuedTo
<1>2. x \in material'  BY IssueAdds DEF Prepares, KeyInv
<1>3. x[1] \in Nat /\ prepNumber \in Nat  BY DEF KeyInv, KeyTypeOK
<1>4. x[1] <= prepNumber + 1  BY <1>1, <1>3
<1> QED  BY <1>1, <1>2, <1>4

LEMMA HeldAsIssued ==
    ASSUME KeyInv, NEW who, NEW m, Prepares(who, m), NEW n, NEW d, NEW k \in Nat,
           k <= prepNumber
    PROVE  HoldsIssued(n, d, k) => \A x \in material' : x[1] = k /\ x[2] = n => d = x[3]
<1> SUFFICES ASSUME HoldsIssued(n, d, k), NEW x \in material', x[1] = k, x[2] = n
             PROVE  d = x[3]
  OBVIOUS
<1>1. x \in material \/ x[1] = prepNumber + 1  BY IssueAdds DEF Prepares, KeyInv
<1>2. prepNumber \in Nat  BY DEF KeyInv, KeyTypeOK
<1>3. x \in material  BY <1>1, <1>2
<1> QED  BY <1>3 DEF HoldsIssued

\* What is said of the nodes and of their sending stays true.
LEMMA PreparesOK ==
    ASSUME KeyInv, NEW who, NEW m, Prepares(who, m)
    PROVE  HoldingsFit' /\ IdentityIssued' /\ RoundsRun' /\ SentFit'
<1>1. /\ identity' = identity /\ armed' = armed /\ known' = known /\ archived' = archived
      /\ sendingChain' = sendingChain /\ hearing' = hearing /\ roundOfNode' = roundOfNode
      /\ started' = started /\ sentIn' = sentIn /\ prepNumber' = prepNumber + 1
      /\ prepNumber \in Nat
  BY DEF Prepares, KeyInv, KeyTypeOK
<1>2. HoldingsFit'  BY <1>1 DEF KeyInv, HoldingsFit
<1>3. IdentityIssued'
 <2> SUFFICES ASSUME NEW n \in Peers, identity[n] # NoMaterial
              PROVE  \E x \in material' :
                         x[1] <= prepNumber + 1 /\ x[2] = n /\ x[3] = identity[n]
   BY <1>1 DEF IdentityIssued, IssuedTo
 <2>1. IssuedTo(n, identity[n], prepNumber)  BY DEF KeyInv, IdentityIssued
 <2> QED  BY <2>1, IssuedLater
<1>4. RoundsRun'  BY <1>1 DEF KeyInv, RoundsRun, KeyTypeOK, Rounds
<1>5. SentFit'
 <2> SUFFICES ASSUME NEW x \in sentIn
              PROVE  /\ x.round.prep <= prepNumber + 1 /\ x.round.start <= started
                     /\ \E y \in material' :
                           y[1] <= x.round.prep /\ y[2] = x.by /\ y[3] = x.is
                     /\ \A y \in material' :
                           y[1] = x.round.prep /\ y[2] = x.by => x.is = y[3]
   BY <1>1 DEF SentFit, IssuedTo, HoldsIssued
 <2>1. /\ x.round.prep <= prepNumber /\ x.round.start <= started
       /\ IssuedTo(x.by, x.is, x.round.prep) /\ HoldsIssued(x.by, x.is, x.round.prep)
   BY DEF KeyInv, SentFit
 <2>2. x.round.prep \in Nat  BY DEF KeyInv, KeyTypeOK, Rounds
 <2>3. x.round.prep <= prepNumber + 1  BY <1>1, <2>1, <2>2
 <2> QED  BY <2>1, <2>2, <2>3, IssuedStays, HeldAsIssued
<1> QED  BY <1>2, <1>3, <1>4, <1>5

\* The configuration of a node: one message of each kind it gets, the payload
\* behind the chain it is for.
Configures(s, n, m) ==
    /\ s \in Seq(KeyMessages)
    /\ \A i \in 1 .. Len(s) :
          /\ s[i].op \in Configurations
          /\ s[i].op = "sender" =>
                /\ n \in DOMAIN m /\ s[i].is = m[n]
                /\ \E j \in i + 1 .. Len(s) : s[j].op = "payload"
          /\ s[i].op = "payload" => n \in DOMAIN m /\ s[i].chain = m[n].chain
          /\ s[i].op = "receiver" => s[i].contexts = ContextsFor(n, m)
    /\ n \in DOMAIN m => /\ \E i \in 1 .. Len(s) : s[i].op = "sender"
                         /\ \E i \in 1 .. Len(s) : s[i].op = "payload"
    /\ ContextsFor(n, m) # {} => \E i \in 1 .. Len(s) : s[i].op = "receiver"

LEMMA ConfigurationParts ==
    ASSUME NEW who \in SUBSET Peers, NEW m \in [who -> Draws], NEW n \in Peers
    PROVE  Configures(ConfigurationOf(n, m), n, m)
<1> DEFINE s == ConfigurationOf(n, m)
           contexts == ContextsFor(n, m)
           a == [op |-> "sender", is |-> m[n]]
           b == [op |-> "payload", chain |-> m[n].chain]
           c == [op |-> "receiver", contexts |-> contexts]
<1>1. DOMAIN m = who  OBVIOUS
<1>2. contexts \in SUBSET Contexts  BY DEF ContextsFor, Contexts
<1>3. c \in KeyMessages /\ (n \in who => a \in KeyMessages /\ b \in KeyMessages)
 <2>1. c \in KeyMessages  BY <1>2 DEF KeyMessages
 <2>2. ASSUME n \in who PROVE a \in KeyMessages /\ b \in KeyMessages
   BY <2>2, AuthorityParameters DEF KeyMessages
 <2> QED  BY <2>1, <2>2
<1>4. /\ a.op = "sender" /\ a.is = m[n] /\ b.op = "payload" /\ b.chain = m[n].chain
      /\ c.op = "receiver" /\ c.contexts = contexts
  OBVIOUS
<1>5. s = (IF n \in who THEN <<a, b>> ELSE <<>>)
              \o (IF contexts = {} THEN <<>> ELSE <<c>>)
  BY <1>1 DEF ConfigurationOf
<1> HIDE DEF s, contexts, a, b, c
<1>6. CASE n \in who /\ contexts # {}
 <2>1. s = <<a, b>> \o <<c>>  BY <1>5, <1>6
 <2>2. <<a, b>> \in Seq(KeyMessages) /\ <<c>> \in Seq(KeyMessages)  BY <1>3, <1>6
 <2>3. s \in Seq(KeyMessages) /\ Len(s) = 3 /\ s[1] = a /\ s[2] = b /\ s[3] = c  BY <2>1, <2>2
 <2>4. \A i \in 1 .. Len(s) : i = 1 \/ i = 2 \/ i = 3  BY <2>3
 <2>5. 2 \in 1 + 1 .. Len(s) /\ 1 \in 1 .. Len(s) /\ 2 \in 1 .. Len(s) /\ 3 \in 1 .. Len(s)  BY <2>3
 <2> QED  BY <1>1, <1>4, <1>6, <2>3, <2>4, <2>5 DEF s, contexts, Configurations, Configures
<1>7. CASE n \in who /\ contexts = {}
 <2>1. s = <<a, b>> \o <<>>  BY <1>5, <1>7
 <2>2. s = <<a, b>>  BY <1>3, <1>7, <2>1
 <2>3. s \in Seq(KeyMessages) /\ Len(s) = 2 /\ s[1] = a /\ s[2] = b  BY <1>3, <1>7, <2>2
 <2>4. \A i \in 1 .. Len(s) : i = 1 \/ i = 2  BY <2>3
 <2>5. 2 \in 1 + 1 .. Len(s) /\ 1 \in 1 .. Len(s) /\ 2 \in 1 .. Len(s)  BY <2>3
 <2> QED  BY <1>1, <1>4, <1>7, <2>3, <2>4, <2>5 DEF s, contexts, Configurations, Configures
<1>8. CASE n \notin who /\ contexts # {}
 <2>1. s = <<>> \o <<c>>  BY <1>5, <1>8
 <2>2. s = <<c>>  BY <1>3, <1>8, <2>1
 <2>3. s \in Seq(KeyMessages) /\ Len(s) = 1 /\ s[1] = c  BY <1>3, <1>8, <2>2
 <2>4. \A i \in 1 .. Len(s) : i = 1  BY <2>3
 <2>5. 1 \in 1 .. Len(s)  BY <2>3
 <2> QED  BY <1>1, <1>4, <1>8, <2>3, <2>4, <2>5 DEF s, contexts, Configurations, Configures
<1>9. CASE n \notin who /\ contexts = {}  BY <1>1, <1>5, <1>9 DEF s, contexts, Configures
<1> QED  BY <1>6, <1>7, <1>8, <1>9

LEMMA PrepareKeysOK ==
    ASSUME KeyInv, PrepareKeys
    PROVE  KeyInv'
<1> USE DEF KeyInv
<1>0. PICK who \in Selections : \E m \in Issuable(who) :
          /\ Issue(m) /\ senders' = m
          /\ mail' = [n \in Peers |-> mail[n] \o ConfigurationOf(n, m)]
  BY DEF PrepareKeys
<1>1. PICK m \in Issuable(who) :
          /\ Issue(m) /\ senders' = m
          /\ mail' = [n \in Peers |-> mail[n] \o ConfigurationOf(n, m)]
  BY <1>0
<1>2. who \in SUBSET Peers /\ m \in [who -> Draws] /\ \A p \in who : m[p].chain # 0
  BY <1>1, AuthorityParameters DEF Issuable, Fresh
<1>3. Prepares(who, m) /\ prepState' = "open"
  BY <1>1, <1>2 DEF PrepareKeys, holdings, atWork, Prepares
<1>4. /\ identity' = identity /\ armed' = armed /\ known' = known /\ archived' = archived
      /\ sendingChain' = sendingChain /\ hearing' = hearing /\ roundOfNode' = roundOfNode
      /\ started' = started /\ sentIn' = sentIn /\ prepNumber' = prepNumber + 1
      /\ prepNumber \in Nat /\ prepNumber + 1 \in Nat
  BY <1>3 DEF Prepares, KeyTypeOK
<1> DEFINE more == [n \in Peers |-> ConfigurationOf(n, m)]
<1>5. /\ \A n \in Peers : more[n] \in Seq(KeyMessages)
      /\ \A n \in Peers : \A i \in 1 .. Len(more[n]) :
            /\ more[n][i].op \in Configurations
            /\ more[n][i].op = "sender" =>
                  /\ n \in who /\ more[n][i].is = m[n]
                  /\ \E j \in i + 1 .. Len(more[n]) : more[n][j].op = "payload"
            /\ more[n][i].op = "payload" => n \in who /\ more[n][i].chain = m[n].chain
            /\ more[n][i].op = "receiver" => more[n][i].contexts = ContextsFor(n, m)
      /\ \A n \in who : /\ \E i \in 1 .. Len(more[n]) : more[n][i].op = "sender"
                        /\ \E i \in 1 .. Len(more[n]) : more[n][i].op = "payload"
      /\ \A n \in Peers : ContextsFor(n, m) # {} =>
            \E i \in 1 .. Len(more[n]) : more[n][i].op = "receiver"
 <2>1. \A n \in Peers : more[n] = ConfigurationOf(n, m)  OBVIOUS
 <2>2. \A n \in Peers : Configures(more[n], n, m)  BY <1>2, <2>1, ConfigurationParts
 <2>3. DOMAIN m = who /\ \A n \in who : n \in Peers  BY <1>2
 <2> HIDE DEF more
 <2> QED  BY <2>2, <2>3 DEF Configures
<1>6. Adds(more)  BY <1>1, <1>5 DEF Adds
<1> HIDE DEF more
<1>7. mail' \in [Peers -> Seq(KeyMessages)] /\ \A n \in Peers : AddedAt(more, n)  BY <1>6, AddedMail
<1>8. HoldingsFit' /\ IdentityIssued' /\ RoundsRun' /\ SentFit'  BY <1>3, PreparesOK
<1>9. /\ DOMAIN m = who /\ material' \subseteq Nat \X Peers \X Draws
      /\ \A x \in material' :
            \/ x \in material
            \/ x[1] = prepNumber + 1 /\ x[2] \in who /\ x[3] = m[x[2]]
      /\ \A p \in who : <<prepNumber + 1, p, m[p]>> \in material'
      /\ \A x \in material' : /\ x[1] <= prepNumber' /\ x[3].chain # 0
                              /\ x[3].chain \in issued'.chains /\ x[3].seed \in issued'.seeds
      /\ \A x, y \in material' :
            x[3].chain = y[3].chain \/ x[3].seed = y[3].seed => x = y
  BY <1>3, IssueAdds DEF Prepares
<1>10. KeyTypeOK'  BY <1>1, <1>2, <1>3, <1>4, <1>7, <1>9 DEF KeyTypeOK
<1>11. MaterialFit'
 <2>1. \A x \in material : x[1] <= prepNumber /\ x[1] \in Nat  BY DEF MaterialFit, KeyTypeOK
 <2>2. ASSUME NEW x \in material', x[1] = prepNumber + 1
       PROVE  x[2] \in DOMAIN senders' /\ x[3] = senders'[x[2]]
   BY <1>1, <1>4, <1>9, <2>1, <2>2
 <2> QED  BY <1>3, <1>4, <1>9, <2>2 DEF MaterialFit
<1>12. MailFits'
 <2> SUFFICES ASSUME NEW n \in Peers, NEW i \in 1 .. Len(mail'[n])
              PROVE  /\ mail'[n][i].op = "sender" =>
                           /\ \E x \in material' :
                                 /\ x[1] <= prepNumber + 1 /\ x[2] = n
                                 /\ x[3] = mail'[n][i].is
                           /\ \E j \in i + 1 .. Len(mail'[n]) : mail'[n][j].op = "payload"
                     /\ mail'[n][i].op = "receiver" =>
                           \A c \in mail'[n][i].contexts : c.sender # n
   BY <1>4 DEF MailFits, IssuedTo
 <2>1. AddedAt(more, n)  BY <1>7
 <2>2. CASE i \in 1 .. Len(mail[n])
  <3>1. mail'[n][i] = mail[n][i]  BY <2>1, <2>2 DEF AddedAt
  <3>2. mail[n][i].op = "receiver" => \A c \in mail[n][i].contexts : c.sender # n
    BY <2>2 DEF MailFits
  <3>3. ASSUME mail[n][i].op = "sender"
        PROVE  /\ \E x \in material' :
                     x[1] <= prepNumber + 1 /\ x[2] = n /\ x[3] = mail[n][i].is
               /\ \E j \in i + 1 .. Len(mail'[n]) : mail'[n][j].op = "payload"
   <4>1. IssuedTo(n, mail[n][i].is, prepNumber)  BY <2>2, <3>3 DEF MailFits
   <4>2. PICK j \in i + 1 .. Len(mail[n]) : mail[n][j].op = "payload"  BY <2>2, <3>3 DEF MailFits
   <4>3. /\ Len(mail[n]) \in Nat /\ Len(more[n]) \in Nat
         /\ Len(mail'[n]) = Len(mail[n]) + Len(more[n])
     BY <2>1 DEF AddedAt
   <4>4. j \in 1 .. Len(mail[n]) /\ j \in i + 1 .. Len(mail'[n])
     BY <2>2, <4>2, <4>3, Offsets, Zenon
   <4>5. mail'[n][j] = mail[n][j]  BY <2>1, <4>4 DEF AddedAt
   <4> QED  BY <1>3, <4>1, <4>2, <4>4, <4>5, IssuedLater
  <3> QED  BY <3>1, <3>2, <3>3
 <2>3. CASE i - Len(mail[n]) \in 1 .. Len(more[n]) /\ mail'[n][i] = more[n][i - Len(mail[n])]
  <3> DEFINE k == i - Len(mail[n])
  <3>1. k \in 1 .. Len(more[n]) /\ mail'[n][i] = more[n][k] /\ i = Len(mail[n]) + k
    BY <2>1, <2>3 DEF AddedAt
  <3> HIDE DEF k
  <3>2. ASSUME more[n][k].op = "sender"
        PROVE  /\ \E x \in material' :
                     x[1] <= prepNumber + 1 /\ x[2] = n /\ x[3] = more[n][k].is
               /\ \E j \in i + 1 .. Len(mail'[n]) : mail'[n][j].op = "payload"
   <4>1. n \in who /\ more[n][k].is = m[n]  BY <1>5, <3>1, <3>2
   <4>2. PICK j \in k + 1 .. Len(more[n]) : more[n][j].op = "payload"  BY <1>5, <3>1, <3>2
   <4>3. j \in 1 .. Len(more[n])  BY <2>1, <3>1, <4>2 DEF AddedAt
   <4>4. mail'[n][Len(mail[n]) + j] = more[n][j]
         /\ Len(mail[n]) + j \in 1 .. Len(mail'[n])
     BY <2>1, <4>3 DEF AddedAt
   <4>5. Len(mail[n]) + j \in i + 1 .. Len(mail'[n])
    <5>1. Len(mail[n]) \in Nat /\ Len(mail'[n]) \in Nat  BY <2>1 DEF AddedAt
    <5> DEFINE u == Len(mail[n])
               v == Len(mail'[n])
    <5>2. u \in Nat /\ v \in Nat /\ u + j \in 1 .. v /\ i = u + k  BY <3>1, <4>4, <5>1
    <5> HIDE DEF u, v
    <5>3. u + j \in i + 1 .. v  BY <3>1, <4>2, <5>2
    <5> QED  BY <5>3 DEF u, v
   <4>6. <<prepNumber + 1, n, m[n]>> \in material' /\ prepNumber + 1 <= prepNumber + 1
     BY <1>4, <1>9, <4>1
   <4> QED  BY <4>1, <4>2, <4>4, <4>5, <4>6
  <3>3. ASSUME more[n][k].op = "receiver", NEW c \in more[n][k].contexts
        PROVE  c.sender # n
    BY <1>5, <3>1, <3>3 DEF ContextsFor, ContextOf
  <3> QED  BY <3>1, <3>2, <3>3
 <2> QED  BY <2>1, <2>2, <2>3 DEF AddedAt
<1>13. StartsFit'
 <2> SUFFICES ASSUME NEW n \in Peers, NEW i \in 1 .. Len(mail'[n]), mail'[n][i].op = "start"
              PROVE  /\ \A j \in 1 .. i : mail'[n][j].op \notin Configurations
                     /\ mail'[n][i].round.prep <= prepNumber + 1
                     /\ mail'[n][i].round.start <= started
                     /\ mail'[n][i].round.prep # prepNumber + 1
                     /\ identity[n] # NoMaterial =>
                           \E x \in material' :
                              /\ x[1] <= mail'[n][i].round.prep /\ x[2] = n
                              /\ x[3] = identity[n]
                     /\ \A x \in material' :
                           x[1] = mail'[n][i].round.prep /\ x[2] = n => identity[n] = x[3]
   BY <1>4 DEF StartsFit, IssuedTo, HoldsIssued
 <2>1. AddedAt(more, n)  BY <1>7
 <2>2. i \in 1 .. Len(mail[n])
  <3>1. \A k \in 1 .. Len(more[n]) : more[n][k].op # "start"  BY <1>5 DEF Configurations
  <3>2. \/ i \in 1 .. Len(mail[n])
        \/ /\ i - Len(mail[n]) \in 1 .. Len(more[n])
           /\ mail'[n][i] = more[n][i - Len(mail[n])]
    BY <2>1 DEF AddedAt
  <3> QED  BY <3>1, <3>2
 <2>3. mail'[n][i] = mail[n][i] /\ \A j \in 1 .. i : mail'[n][j] = mail[n][j]
   BY <2>1, <2>2 DEF AddedAt
 <2>4. mail[n][i] \in KeyMessages /\ mail[n][i].op = "start"  BY <2>2, <2>3 DEF KeyTypeOK
 <2> DEFINE round == mail[n][i].round
 <2>5. round.prep \in Nat  BY <2>4, MessageParts DEF Rounds
 <2>6. /\ \A j \in 1 .. i : mail[n][j].op \notin Configurations
       /\ round.prep <= prepNumber /\ round.start <= started
       /\ identity[n] # NoMaterial => IssuedTo(n, identity[n], round.prep)
       /\ HoldsIssued(n, identity[n], round.prep)
   BY <2>2, <2>4 DEF StartsFit
 <2> HIDE DEF round
 <2>7. round.prep <= prepNumber + 1 /\ round.prep # prepNumber + 1  BY <1>4, <2>5, <2>6
 <2>8. /\ identity[n] # NoMaterial =>
             \E x \in material' : x[1] <= round.prep /\ x[2] = n /\ x[3] = identity[n]
       /\ \A x \in material' : x[1] = round.prep /\ x[2] = n => identity[n] = x[3]
   BY <1>3, <2>5, <2>6, IssuedStays, HeldAsIssued
 <2> QED  BY <2>3, <2>6, <2>7, <2>8 DEF round
<1>14. PreparationReaches'
 <2> SUFFICES ASSUME NEW n \in Peers
              PROVE  /\ n \in who =>
                           /\ \A i \in 1 .. Len(mail'[n]) :
                                 /\ IsLast(n, i, "sender")' => mail'[n][i].is = m[n]
                                 /\ IsLast(n, i, "payload")' =>
                                       mail'[n][i].chain = m[n].chain
                           /\ ~NoneOf(n, "sender")' /\ ~NoneOf(n, "payload")'
                     /\ ContextsFor(n, m) # {} =>
                           /\ \A i \in 1 .. Len(mail'[n]) : IsLast(n, i, "receiver")' =>
                                 mail'[n][i].contexts = ContextsFor(n, m)
                           /\ ~NoneOf(n, "receiver")'
  <3>1. senders' = m /\ DOMAIN senders' = who  BY <1>1, <1>9
  <3>2. \A n \in Peers : ContextsFor(n, senders)' = ContextsFor(n, m)  BY <3>1 DEF ContextsFor
  <3> QED  BY <3>1, <3>2, Zenon DEF PreparationReaches
 <2>1. n \in who => ~NoneOf(n, "sender")' /\ ~NoneOf(n, "payload")'  BY <1>5, <1>6, NoneAdded
 <2>2. ContextsFor(n, m) # {} => ~NoneOf(n, "receiver")'  BY <1>5, <1>6, NoneAdded
 <2>3. ASSUME n \in who, NEW i \in 1 .. Len(mail'[n]), IsLast(n, i, "sender")'
       PROVE  mail'[n][i].is = m[n]
  <3>1. \E j \in 1 .. Len(more[n]) : more[n][j].op = "sender" /\ mail'[n][i] = more[n][j]
    BY <1>5, <1>6, <2>3, LastAdded
  <3> QED  BY <1>5, <3>1
 <2>4. ASSUME n \in who, NEW i \in 1 .. Len(mail'[n]), IsLast(n, i, "payload")'
       PROVE  mail'[n][i].chain = m[n].chain
   BY <1>5, <1>6, <2>4, LastAdded
 <2>5. ASSUME ContextsFor(n, m) # {}, NEW i \in 1 .. Len(mail'[n]), IsLast(n, i, "receiver")'
       PROVE  mail'[n][i].contexts = ContextsFor(n, m)
   BY <1>5, <1>6, <2>5, LastAdded
 <2> QED  BY <2>1, <2>2, <2>3, <2>4, <2>5
<1>15. ReadyIsQuiet'  BY <1>3 DEF ReadyIsQuiet
<1>16. RoundsInOrder'
 <2>1. \A r \in RoundsOut' : r \in RoundsOut  BY <1>4, <1>5, <1>6, AddedRoundsOut DEF Configurations
 <2>2. \A r \in RoundsOut : r.prep <= prepNumber /\ r.start <= started /\ r.prep \in Nat
   BY DEF RoundsInOrder, RoundsOut, Rounds
 <2>3. \A r \in RoundsOut : r.prep <= prepNumber + 1  BY <1>4, <2>2
 <2> QED  BY <1>4, <2>1, <2>2, <2>3 DEF RoundsInOrder
<1> QED  BY <1>8, <1>10, <1>11, <1>12, <1>13, <1>14, <1>15, <1>16

LEMMA AuthorityExhaustedOK ==
    ASSUME KeyInv, AuthorityExhausted
    PROVE  KeyInv'
<1> USE DEF KeyInv
<1>0. PICK who \in Selections : \E part \in SUBSET who : \E m \in Issuable(part) : Issue(m)
  BY DEF AuthorityExhausted
<1>1. PICK part \in SUBSET who : \E m \in Issuable(part) : Issue(m)  BY <1>0
<1>2. PICK m \in Issuable(part) : Issue(m)  BY <1>1
<1>3. /\ Prepares(part, m) /\ prepState' = "none" /\ senders' = <<>> /\ mail' = mail
      /\ part \in SUBSET Peers
  BY <1>2, AuthorityParameters DEF AuthorityExhausted, ForgetRound, holdings, atWork, Prepares
<1>4. /\ identity' = identity /\ armed' = armed /\ known' = known /\ archived' = archived
      /\ sendingChain' = sendingChain /\ hearing' = hearing /\ roundOfNode' = roundOfNode
      /\ started' = started /\ sentIn' = sentIn /\ prepNumber' = prepNumber + 1
      /\ prepNumber \in Nat /\ prepNumber + 1 \in Nat
  BY <1>3 DEF Prepares, KeyTypeOK
<1>5. HoldingsFit' /\ IdentityIssued' /\ RoundsRun' /\ SentFit'  BY <1>3, PreparesOK
<1>6. /\ material' \subseteq Nat \X Peers \X Draws
      /\ \A x \in material' : /\ x[1] <= prepNumber' /\ x[3].chain # 0
                              /\ x[3].chain \in issued'.chains /\ x[3].seed \in issued'.seeds
      /\ \A x, y \in material' :
            x[3].chain = y[3].chain \/ x[3].seed = y[3].seed => x = y
  BY <1>3, IssueAdds DEF Prepares
<1>7. DOMAIN senders' = {}  BY <1>3
<1>8. KeyTypeOK'  BY <1>3, <1>4, <1>6, <1>7 DEF KeyTypeOK
<1>9. MaterialFit'  BY <1>3, <1>6, <1>7 DEF MaterialFit
<1>10. MailFits'
 <2> SUFFICES ASSUME NEW n \in Peers, NEW i \in 1 .. Len(mail[n]), mail[n][i].op = "sender"
              PROVE  \E x \in material' :
                         x[1] <= prepNumber + 1 /\ x[2] = n /\ x[3] = mail[n][i].is
   BY <1>3, <1>4 DEF MailFits, IssuedTo
 <2>1. IssuedTo(n, mail[n][i].is, prepNumber)  BY DEF MailFits
 <2> QED  BY <1>3, <2>1, IssuedLater
<1>11. StartsFit'
 <2> SUFFICES ASSUME NEW n \in Peers, NEW i \in 1 .. Len(mail[n]), mail[n][i].op = "start"
              PROVE  /\ \A j \in 1 .. i : mail[n][j].op \notin Configurations
                     /\ mail[n][i].round.prep <= prepNumber + 1
                     /\ mail[n][i].round.start <= started
                     /\ identity[n] # NoMaterial =>
                           \E x \in material' :
                              /\ x[1] <= mail[n][i].round.prep /\ x[2] = n
                              /\ x[3] = identity[n]
                     /\ \A x \in material' :
                           x[1] = mail[n][i].round.prep /\ x[2] = n => identity[n] = x[3]
   BY <1>3, <1>4 DEF StartsFit, IssuedTo, HoldsIssued
 <2>1. mail[n][i] \in KeyMessages  BY DEF KeyTypeOK
 <2> DEFINE round == mail[n][i].round
 <2>2. round.prep \in Nat  BY <2>1, MessageParts DEF Rounds
 <2>3. /\ \A j \in 1 .. i : mail[n][j].op \notin Configurations
       /\ round.prep <= prepNumber /\ round.start <= started
       /\ identity[n] # NoMaterial => IssuedTo(n, identity[n], round.prep)
       /\ HoldsIssued(n, identity[n], round.prep)
   BY DEF StartsFit
 <2> HIDE DEF round
 <2>4. round.prep <= prepNumber + 1  BY <1>4, <2>2, <2>3
 <2>5. /\ identity[n] # NoMaterial =>
             \E x \in material' : x[1] <= round.prep /\ x[2] = n /\ x[3] = identity[n]
       /\ \A x \in material' : x[1] = round.prep /\ x[2] = n => identity[n] = x[3]
   BY <1>3, <2>2, <2>3, IssuedStays, HeldAsIssued
 <2> QED  BY <2>3, <2>4, <2>5 DEF round
<1>12. PreparationReaches' /\ ReadyIsQuiet'  BY <1>3 DEF PreparationReaches, ReadyIsQuiet
<1>13. RoundsInOrder'
 <2>1. RoundsOut' = RoundsOut  BY <1>3, <1>4 DEF RoundsOut
 <2>2. \A r \in RoundsOut : r.prep <= prepNumber /\ r.start <= started /\ r.prep \in Nat
   BY DEF RoundsInOrder, RoundsOut, Rounds
 <2>3. \A r \in RoundsOut : r.prep <= prepNumber + 1  BY <1>4, <2>2
 <2> QED  BY <1>4, <2>1, <2>2, <2>3 DEF RoundsInOrder
<1> QED  BY <1>5, <1>8, <1>9, <1>10, <1>11, <1>12, <1>13

-----------------------------------------------------------------------------
(* Start and stop go to every node, behind what it has not taken yet.       *)

\* The mail of every node gets the message, and what the nodes hold stays.
Tells(message, more) ==
    /\ message \in KeyMessages /\ message.op \notin Configurations
    /\ more = [n \in Peers |-> <<message>>]
    /\ ToAll(message)
    /\ UNCHANGED <<issued, senders, prepNumber, prepState, material, holdings, atWork, sentIn>>

LEMMA TellsAdds ==
    ASSUME KeyTypeOK, NEW message, NEW more, Tells(message, more)
    PROVE  /\ Adds(more)
           /\ \A n \in Peers : /\ Len(more[n]) = 1 /\ 1 \in 1 .. Len(more[n])
                              /\ \A k \in 1 .. Len(more[n]) : more[n][k] = message
<1>1. /\ message \in KeyMessages /\ more = [n \in Peers |-> <<message>>]
      /\ mail' = [n \in Peers |-> Append(mail[n], message)]
  BY DEF Tells, ToAll
<1>2. \A n \in Peers : /\ mail[n] \in Seq(KeyMessages) /\ more[n] = <<message>>
                       /\ more[n] \in Seq(KeyMessages)
  BY <1>1 DEF KeyTypeOK
<1>3. \A n \in Peers : Append(mail[n], message) = mail[n] \o more[n]  BY <1>1, <1>2
<1>4. more \in [Peers -> Seq(KeyMessages)]  BY <1>1, <1>2
<1>5. mail' = [n \in Peers |-> mail[n] \o more[n]]  BY <1>1, <1>3
<1>6. ASSUME NEW n \in Peers
      PROVE  /\ Len(more[n]) = 1 /\ 1 \in 1 .. Len(more[n])
             /\ \A k \in 1 .. Len(more[n]) : more[n][k] = message
 <2>1. more[n] = <<message>>  BY <1>2
 <2>2. Len(<<message>>) = 1 /\ <<message>>[1] = message  OBVIOUS
 <2>3. 1 \in 1 .. 1 /\ \A k \in 1 .. 1 : k = 1  OBVIOUS
 <2>4. Len(more[n]) = 1 /\ more[n][1] = message  BY <2>1, <2>2
 <2> QED  BY <2>3, <2>4, Zenon
<1> QED  BY <1>4, <1>5, <1>6 DEF Adds

\* Such a message leaves alone what is said of the others in the mail.
LEMMA TellsOK ==
    ASSUME KeyInv, NEW message, NEW more, Tells(message, more), started' \in Nat
    PROVE  /\ KeyTypeOK' /\ HoldingsFit' /\ MaterialFit' /\ IdentityIssued' /\ MailFits'
           /\ PreparationReaches' /\ ReadyIsQuiet' /\ RoundsRun'
<1> USE DEF KeyInv
<1>1. Adds(more) /\ \A n \in Peers : \A k \in 1 .. Len(more[n]) : more[n][k] = message  BY TellsAdds
<1>2. /\ issued' = issued /\ senders' = senders /\ prepNumber' = prepNumber
      /\ prepState' = prepState /\ material' = material /\ identity' = identity
      /\ armed' = armed /\ known' = known /\ archived' = archived /\ sentIn' = sentIn
      /\ sendingChain' = sendingChain /\ hearing' = hearing /\ roundOfNode' = roundOfNode
  BY DEF Tells, holdings, atWork
<1>3. message.op \notin Configurations  BY DEF Tells
<1>4. mail' \in [Peers -> Seq(KeyMessages)] /\ \A n \in Peers : AddedAt(more, n)  BY <1>1, AddedMail
<1>5. KeyTypeOK'  BY <1>2, <1>4 DEF KeyTypeOK
<1>6. HoldingsFit' /\ MaterialFit' /\ IdentityIssued' /\ RoundsRun'
  BY <1>2 DEF HoldingsFit, MaterialFit, IdentityIssued, RoundsRun, IssuedTo
<1>7. ASSUME NEW n \in Peers, NEW i \in 1 .. Len(mail'[n])
      PROVE  (i \in 1 .. Len(mail[n]) /\ mail'[n][i] = mail[n][i]) \/ mail'[n][i] = message
 <2>1. AddedAt(more, n)  BY <1>4
 <2>2. \A k \in 1 .. Len(more[n]) : more[n][k] = message  BY <1>1
 <2>3. \/ i \in 1 .. Len(mail[n])
       \/ /\ i - Len(mail[n]) \in 1 .. Len(more[n])
          /\ mail'[n][i] = more[n][i - Len(mail[n])]
   BY <2>1 DEF AddedAt
 <2>4. i \in 1 .. Len(mail[n]) => mail'[n][i] = mail[n][i]  BY <2>1 DEF AddedAt
 <2> QED  BY <2>2, <2>3, <2>4
<1>8. MailFits'
 <2> SUFFICES ASSUME NEW n \in Peers, NEW i \in 1 .. Len(mail'[n])
              PROVE  /\ mail'[n][i].op = "sender" =>
                           /\ IssuedTo(n, mail'[n][i].is, prepNumber)
                           /\ \E j \in i + 1 .. Len(mail'[n]) : mail'[n][j].op = "payload"
                     /\ mail'[n][i].op = "receiver" =>
                           \A c \in mail'[n][i].contexts : c.sender # n
   BY <1>2 DEF MailFits, IssuedTo
 <2>1. CASE mail'[n][i] = message  BY <1>3, <2>1 DEF Configurations
 <2>2. CASE i \in 1 .. Len(mail[n]) /\ mail'[n][i] = mail[n][i]
  <3>1. mail[n][i].op = "receiver" => \A c \in mail[n][i].contexts : c.sender # n
    BY <2>2 DEF MailFits
  <3>2. ASSUME mail[n][i].op = "sender"
        PROVE  /\ IssuedTo(n, mail[n][i].is, prepNumber)
               /\ \E j \in i + 1 .. Len(mail'[n]) : mail'[n][j].op = "payload"
   <4>1. PICK j \in i + 1 .. Len(mail[n]) : mail[n][j].op = "payload"  BY <2>2, <3>2 DEF MailFits
   <4>2. /\ Len(mail[n]) \in Nat /\ Len(more[n]) \in Nat
         /\ Len(mail'[n]) = Len(mail[n]) + Len(more[n])
     BY <1>4 DEF AddedAt
   <4>3. j \in 1 .. Len(mail[n]) /\ j \in i + 1 .. Len(mail'[n])
     BY <2>2, <4>1, <4>2, Offsets, Zenon
   <4>4. mail'[n][j] = mail[n][j]  BY <1>4, <4>3 DEF AddedAt
   <4> QED  BY <2>2, <3>2, <4>1, <4>3, <4>4 DEF MailFits
  <3> QED  BY <2>2, <3>1, <3>2
 <2> QED  BY <1>7, <2>1, <2>2
<1>9. ReadyIsQuiet'  BY <1>2, <1>3, <1>7 DEF ReadyIsQuiet
<1>10. PreparationReaches'
 <2> SUFFICES ASSUME prepState \in {"open", "ready"}, NEW n \in Peers
              PROVE  /\ n \in DOMAIN senders =>
                           /\ \A i \in 1 .. Len(mail'[n]) :
                                 /\ IsLast(n, i, "sender")' => mail'[n][i].is = senders[n]
                                 /\ IsLast(n, i, "payload")' =>
                                       mail'[n][i].chain = senders[n].chain
                           /\ NoneOf(n, "sender")' => identity[n] = senders[n]
                           /\ NoneOf(n, "payload")' => armed[n] = senders[n].chain
                     /\ ContextsFor(n, senders) # {} =>
                           /\ \A i \in 1 .. Len(mail'[n]) : IsLast(n, i, "receiver")' =>
                                 mail'[n][i].contexts = ContextsFor(n, senders)
                           /\ NoneOf(n, "receiver")' => known[n] = ContextsFor(n, senders)
   BY <1>2 DEF PreparationReaches, ContextsFor
 <2>1. /\ n \in DOMAIN senders =>
             /\ \A i \in 1 .. Len(mail[n]) :
                   /\ IsLast(n, i, "sender") => mail[n][i].is = senders[n]
                   /\ IsLast(n, i, "payload") => mail[n][i].chain = senders[n].chain
             /\ NoneOf(n, "sender") => identity[n] = senders[n]
             /\ NoneOf(n, "payload") => armed[n] = senders[n].chain
       /\ ContextsFor(n, senders) # {} =>
             /\ \A i \in 1 .. Len(mail[n]) :
                   IsLast(n, i, "receiver") => mail[n][i].contexts = ContextsFor(n, senders)
             /\ NoneOf(n, "receiver") => known[n] = ContextsFor(n, senders)
   BY DEF PreparationReaches
 <2>2. ASSUME NEW op \in Configurations, NEW i \in 1 .. Len(mail'[n]), IsLast(n, i, op)'
       PROVE  i \in 1 .. Len(mail[n]) /\ mail'[n][i] = mail[n][i] /\ IsLast(n, i, op)
  <3>1. \A j \in 1 .. Len(more[n]) : more[n][j].op # op  BY <1>1, <1>3
  <3>2. i \in 1 .. Len(mail[n]) /\ IsLast(n, i, op)  BY <1>1, <2>2, <3>1, LastAdded
  <3> QED  BY <1>4, <3>2 DEF AddedAt
 <2>3. \A op : NoneOf(n, op)' => NoneOf(n, op)  BY <1>1, NoneAdded
 <2>4. "sender" \in Configurations /\ "payload" \in Configurations
       /\ "receiver" \in Configurations
   BY DEF Configurations
 <2> QED  BY <2>1, <2>2, <2>3, <2>4
<1> QED  BY <1>5, <1>6, <1>8, <1>9, <1>10

LEMMA StopKeysOK ==
    ASSUME KeyInv, StopKeys
    PROVE  KeyInv'
<1> USE DEF KeyInv
<1> DEFINE message == [op |-> "stop"]
           more == [n \in Peers |-> <<message>>]
<1>1. Tells(message, more) /\ started' = started /\ started' \in Nat /\ message.op = "stop"
  BY DEF StopKeys, Tells, KeyMessages, Configurations, KeyTypeOK
<1> HIDE DEF message, more
<1>2. Adds(more) /\ \A n \in Peers : \A k \in 1 .. Len(more[n]) : more[n][k] = message
  BY <1>1, TellsAdds
<1>3. /\ prepNumber' = prepNumber /\ prepState' = prepState /\ material' = material
      /\ identity' = identity /\ sentIn' = sentIn
  BY <1>1 DEF Tells, holdings
<1>4. \A n \in Peers : \A i \in 1 .. Len(more[n]) : more[n][i].op = "stop"  BY <1>1, <1>2
<1>5. SentFit'  BY <1>1, <1>3, NodeKeepsSent
<1>6. RoundsInOrder'  BY <1>1, <1>2, <1>3, <1>4, AddedRoundsOut DEF RoundsInOrder
<1>7. StartsFit'
 <2> SUFFICES ASSUME NEW n \in Peers, NEW i \in 1 .. Len(mail'[n]), mail'[n][i].op = "start"
              PROVE  /\ \A j \in 1 .. i : mail'[n][j].op \notin Configurations
                     /\ mail'[n][i].round.prep <= prepNumber
                     /\ mail'[n][i].round.start <= started
                     /\ mail'[n][i].round.prep = prepNumber => prepState \in {"ready", "none"}
                     /\ identity[n] # NoMaterial =>
                           IssuedTo(n, identity[n], mail'[n][i].round.prep)
                     /\ HoldsIssued(n, identity[n], mail'[n][i].round.prep)
   BY <1>1, <1>3 DEF StartsFit, IssuedTo, HoldsIssued
 <2>1. AddedAt(more, n)  BY <1>2, AddedMail
 <2>2. i \in 1 .. Len(mail[n])  BY <1>4, <2>1 DEF AddedAt
 <2>3. Len(mail[n]) \in Nat  BY <2>1 DEF AddedAt
 <2>4. \A j \in 1 .. i : j \in 1 .. Len(mail[n])  BY <2>2, <2>3
 <2>5. mail'[n][i] = mail[n][i] /\ \A j \in 1 .. i : mail'[n][j] = mail[n][j]
   BY <2>1, <2>2, <2>4 DEF AddedAt
 <2> QED  BY <2>2, <2>5 DEF StartsFit
<1> QED  BY <1>1, <1>5, <1>6, <1>7, TellsOK

LEMMA StartKeysOK ==
    ASSUME KeyInv, StartKeys
    PROVE  KeyInv'
<1> USE DEF KeyInv
<1> DEFINE new == [prep |-> prepNumber, start |-> started + 1]
           message == [op |-> "start", round |-> new]
           more == [n \in Peers |-> <<message>>]
<1>1. prepNumber \in Nat /\ started \in Nat /\ prepState = "ready"
      /\ started' = started + 1 /\ started' \in Nat
  BY DEF KeyTypeOK, StartKeys
<1>2. new \in Rounds /\ new.prep = prepNumber /\ new.start = started + 1  BY <1>1 DEF Rounds
<1>3. message \in KeyMessages /\ message.op = "start" /\ message.round = new
  BY <1>2 DEF KeyMessages
<1>4. ToAll(message)  BY DEF StartKeys
<1>5. Tells(message, more)  BY <1>3, <1>4 DEF StartKeys, Tells, Configurations
<1> HIDE DEF message, more, new
<1>6. Adds(more) /\ \A n \in Peers : \A k \in 1 .. Len(more[n]) : more[n][k] = message
  BY <1>5, TellsAdds
<1>7. /\ prepNumber' = prepNumber /\ prepState' = prepState /\ material' = material
      /\ identity' = identity /\ sentIn' = sentIn /\ senders' = senders
  BY <1>5 DEF Tells, holdings
<1>8. SentFit'
 <2> SUFFICES ASSUME NEW x \in sentIn PROVE x.round.start <= started + 1
   BY <1>1, <1>7 DEF SentFit, IssuedTo, HoldsIssued
 <2>1. x.round.start <= started /\ x.round.start \in Nat  BY DEF SentFit, KeyTypeOK, Rounds
 <2> QED  BY <1>1, <2>1
<1>9. RoundsInOrder'
 <2>1. \A r \in RoundsOut' : r \in RoundsOut \/ r = new  BY <1>3, <1>6, <1>7, AddedRoundsOut
 <2>2. \A r \in RoundsOut : /\ r.prep <= prepNumber /\ r.start <= started
                            /\ r.prep \in Nat /\ r.start \in Nat
   BY DEF RoundsInOrder, RoundsOut, Rounds
 <2>3. \A r \in RoundsOut' : r.prep <= prepNumber /\ r.start <= started + 1
   BY <1>1, <1>2, <2>1, <2>2
 <2>4. ASSUME NEW r \in RoundsOut', NEW q \in RoundsOut', r.start < q.start
       PROVE  r.prep <= q.prep
  <3>1. CASE q = new  BY <1>2, <2>3, <3>1
  <3>2. CASE q \in RoundsOut /\ r = new  BY <1>1, <1>2, <2>2, <2>4, <3>2
  <3>3. CASE q \in RoundsOut /\ r \in RoundsOut  BY <2>4, <3>3 DEF RoundsInOrder
  <3> QED  BY <2>1, <3>1, <3>2, <3>3
 <2> QED  BY <1>1, <1>7, <2>3, <2>4 DEF RoundsInOrder
<1>10. StartsFit'
 <2> SUFFICES ASSUME NEW n \in Peers, NEW i \in 1 .. Len(mail'[n]), mail'[n][i].op = "start"
              PROVE  /\ \A j \in 1 .. i : mail'[n][j].op \notin Configurations
                     /\ mail'[n][i].round.prep <= prepNumber
                     /\ mail'[n][i].round.start <= started + 1
                     /\ identity[n] # NoMaterial =>
                           IssuedTo(n, identity[n], mail'[n][i].round.prep)
                     /\ HoldsIssued(n, identity[n], mail'[n][i].round.prep)
   BY <1>1, <1>7 DEF StartsFit, IssuedTo, HoldsIssued
 <2>1. AddedAt(more, n)  BY <1>6, AddedMail
 <2>2. /\ Len(mail[n]) \in Nat
       /\ \A j \in 1 .. Len(mail[n]) : mail'[n][j] = mail[n][j]
       /\ \A j \in 1 .. Len(mail'[n]) : j \in 1 .. Len(mail[n]) \/ mail'[n][j] = message
   BY <1>6, <2>1 DEF AddedAt
 <2>3. \A j \in 1 .. Len(mail'[n]) : mail'[n][j].op \notin Configurations
   BY <1>1, <1>3, <2>2 DEF ReadyIsQuiet, Configurations
 <2>4. \A j \in 1 .. i : mail'[n][j].op \notin Configurations
  <3>1. Len(mail'[n]) \in Nat  BY <2>1 DEF AddedAt
  <3>2. \A j \in 1 .. i : j \in 1 .. Len(mail'[n])  BY <3>1
  <3> QED  BY <2>3, <3>2
 <2>5. CASE i \in 1 .. Len(mail[n])
  <3>1. mail'[n][i] = mail[n][i] /\ mail[n][i].op = "start"  BY <2>2, <2>5
  <3>2. mail[n][i] \in KeyMessages  BY <2>5 DEF KeyTypeOK
  <3>3. mail[n][i].round.start \in Nat  BY <3>1, <3>2, MessageParts DEF Rounds
  <3>4. /\ mail[n][i].round.prep <= prepNumber /\ mail[n][i].round.start <= started
        /\ identity[n] # NoMaterial => IssuedTo(n, identity[n], mail[n][i].round.prep)
        /\ HoldsIssued(n, identity[n], mail[n][i].round.prep)
    BY <2>5, <3>1 DEF StartsFit
  <3>5. mail[n][i].round.start <= started + 1  BY <1>1, <3>3, <3>4
  <3> QED  BY <2>4, <3>1, <3>4, <3>5
 <2>6. CASE mail'[n][i] = message
  <3>1. identity[n] # NoMaterial => IssuedTo(n, identity[n], prepNumber)  BY DEF IdentityIssued
  <3>2. HoldsIssued(n, identity[n], prepNumber)
   <4> SUFFICES ASSUME NEW x \in material, x[1] = prepNumber, x[2] = n
                PROVE  identity[n] = x[3]
     BY DEF HoldsIssued
   <4>1. n \in DOMAIN senders /\ x[3] = senders[n]  BY <1>1 DEF MaterialFit
   <4>2. NoneOf(n, "sender")  BY <1>1 DEF NoneOf, ReadyIsQuiet, Configurations
   <4> QED  BY <1>1, <4>1, <4>2 DEF PreparationReaches
  <3>3. prepNumber <= prepNumber /\ started + 1 <= started + 1  BY <1>1
  <3> QED  BY <1>2, <1>3, <2>4, <2>6, <3>1, <3>2, <3>3
 <2> QED  BY <2>2, <2>5, <2>6
<1> QED  BY <1>1, <1>5, <1>8, <1>9, <1>10, TellsOK

-----------------------------------------------------------------------------
(* The invariant holds and makes the keys safe.                             *)

LEMMA KeyInitOK == KeyInit => KeyInv
<1> SUFFICES ASSUME KeyInit PROVE KeyInv  OBVIOUS
<1>1. /\ \A n \in Peers : /\ mail[n] = <<>> /\ identity[n] = NoMaterial /\ armed[n] = 0
                          /\ known[n] = {} /\ archived[n] = {} /\ sendingChain[n] = 0
                          /\ hearing[n] = {} /\ roundOfNode[n] = NoRound
      /\ senders = <<>> /\ prepNumber = 0 /\ prepState = "none" /\ started = 0
      /\ material = {} /\ sentIn = {}
  BY DEF KeyInit
<1>2. \A n \in Peers : Len(mail[n]) = 0  BY <1>1
<1>3. NoRound \in Rounds /\ NoRound.prep = 0  BY DEF NoRound, Rounds
<1>4. DOMAIN senders = {}  BY <1>1
<1>5. KeyTypeOK  BY <1>1, <1>3, <1>4 DEF KeyInit, KeyTypeOK
<1>6. HoldingsFit  BY <1>1 DEF HoldingsFit, ContextKeys
<1>7. MaterialFit /\ IdentityIssued /\ SentFit
  BY <1>1, <1>4 DEF MaterialFit, IdentityIssued, SentFit
<1>8. MailFits /\ StartsFit /\ ReadyIsQuiet /\ PreparationReaches
  BY <1>1, <1>2 DEF MailFits, StartsFit, ReadyIsQuiet, PreparationReaches
<1>9. RoundsRun  BY <1>1, <1>3 DEF RoundsRun
<1>10. RoundsInOrder  BY <1>1, <1>2 DEF RoundsOut, RoundsInOrder
<1> QED  BY <1>5, <1>6, <1>7, <1>8, <1>9, <1>10 DEF KeyInv

LEMMA KeyStepOK == KeyInv /\ [KeyNext]_keyVars => KeyInv'
<1> SUFFICES ASSUME KeyInv, [KeyNext]_keyVars PROVE KeyInv'  OBVIOUS
<1>1. CASE UNCHANGED keyVars
  BY <1>1, WorkEndsOK DEF keyVars, managerKeyVars, holdings, atWork, WorkEnds, KeyInv, KeyTypeOK
<1>2. CASE PrepareKeys  BY <1>2, PrepareKeysOK
<1>3. CASE AuthorityExhausted  BY <1>3, AuthorityExhaustedOK
<1>4. CASE StartKeys  BY <1>4, StartKeysOK
<1>5. CASE StopKeys  BY <1>5, StopKeysOK
<1>6. CASE \E n \in Peers :
               \/ TakeSenderConfig(n) \/ TakePayload(n) \/ TakeReceiverConfig(n)
               \/ TakeStart(n) \/ TakeStop(n) \/ SenderEnds(n) \/ ContextEnds(n)
  BY <1>6, TakeSenderConfigOK, TakePayloadOK, TakeReceiverConfigOK, TakeStartOK, TakeStopOK,
     EndsOK
<1> QED  BY <1>1, <1>2, <1>3, <1>4, <1>5, <1>6 DEF KeyNext, KeyStep

LEMMA KeysOnce == ASSUME KeyInv PROVE KeysUsedOnce
<1> USE DEF KeyInv
<1> SUFFICES ASSUME NEW x \in sentIn, NEW y \in sentIn,
                    x.is.chain = y.is.chain \/ x.is.seed = y.is.seed,
                    x.round.start < y.round.start \/ x.by # y.by
             PROVE  /\ x.by = y.by
                    /\ \/ x.round.prep = y.round.prep
                       \/ ~\E m \in material : m[1] = y.round.prep /\ m[2] = y.by
  BY DEF KeysUsedOnce
<1>1. /\ x.round \in Rounds /\ y.round \in Rounds
      /\ x.round.prep \in Nat /\ y.round.prep \in Nat
  BY DEF KeyTypeOK, Rounds
<1>2. PICK u \in material : u[1] <= x.round.prep /\ u[2] = x.by /\ u[3] = x.is
  BY DEF SentFit, IssuedTo
<1>3. PICK v \in material : v[1] <= y.round.prep /\ v[2] = y.by /\ v[3] = y.is
  BY DEF SentFit, IssuedTo
<1>4. u = v  BY <1>2, <1>3 DEF MaterialFit
<1>5. x.by = y.by /\ x.round.start < y.round.start  BY <1>2, <1>3, <1>4
<1>6. x.round.prep <= y.round.prep  BY <1>1, <1>5 DEF RoundsOut, RoundsInOrder
<1>7. ASSUME NEW m \in material, m[1] = y.round.prep, m[2] = y.by
      PROVE  x.round.prep = y.round.prep
  BY <1>1, <1>2, <1>3, <1>4, <1>6, <1>7 DEF SentFit, HoldsIssued, MaterialFit
<1> QED  BY <1>5, <1>7

\* Once everybody has agreed, every node holds what the preparation gave it.
LEMMA ReadyHolds ==
    ASSUME KeyInv, prepState = "ready", NEW n \in Peers
    PROVE  /\ n \in DOMAIN senders => identity[n] = senders[n]
           /\ ContextsFor(n, senders) # {} => known[n] = ContextsFor(n, senders)
  BY DEF KeyInv, ReadyIsQuiet, NoneOf, Configurations, PreparationReaches

LEMMA RolesRun == ASSUME KeyInv PROVE GivenRolesRun
<1> USE DEF KeyInv
<1> SUFFICES ASSUME NEW n \in Peers, RunsNow(n)
             PROVE  /\ n \in DOMAIN senders => sendingChain[n] \in {0, senders[n].chain}
                    /\ ContextsFor(n, senders) # {} =>
                          hearing[n] \subseteq ContextsFor(n, senders)
  BY DEF GivenRolesRun
<1>1. prepState \in {"ready", "none"}  BY DEF RunsNow, RoundNow, RoundsRun
<1>2. CASE prepState = "none"  BY <1>2 DEF MaterialFit, ContextsFor
<1>3. CASE prepState = "ready"  BY <1>3, ReadyHolds, ZenonT(60) DEF HoldingsFit
<1> QED  BY <1>1, <1>2, <1>3

LEMMA ContextFound ==
    ASSUME NEW contexts, ConfigureValid(contexts), NEW c \in contexts
    PROVE  FindContext(contexts, c.ip, c.chain) = c
  BY DEF ConfigureValid, FindContext

LEMMA Resolved == ASSUME KeyInv PROVE SenderResolved
<1> SUFFICES ASSUME prepState = "ready", NEW p \in DOMAIN senders, NEW n \in Peers \ {p}
             PROVE  FindContext(known[n], Host[p], senders[p].chain) = ContextOf(p, senders[p])
  BY DEF SenderResolved
<1> DEFINE c == ContextOf(p, senders[p])
<1>1. c \in ContextsFor(n, senders)  BY DEF ContextsFor
<1>2. known[n] = ContextsFor(n, senders) /\ known[n] # {}  BY <1>1, ReadyHolds
<1>3. ConfigureValid(known[n])  BY <1>2 DEF KeyInv, HoldingsFit
<1>4. c.ip = Host[p] /\ c.chain = senders[p].chain  BY DEF ContextOf
<1> HIDE DEF c
<1>5. FindContext(known[n], c.ip, c.chain) = c  BY <1>1, <1>2, <1>3, ContextFound
<1> QED  BY <1>4, <1>5 DEF c

LEMMA Archived == ASSUME KeyInv PROVE ArchiveReady
<1> USE DEF KeyInv
<1> SUFFICES ASSUME NEW n \in Peers
             PROVE  /\ sendingChain[n] # 0 => <<n, sendingChain[n]>> \in archived[n]
                    /\ ContextKeys(hearing[n]) \subseteq archived[n]
  BY DEF ArchiveReady
<1>1. ASSUME sendingChain[n] # 0 PROVE <<n, sendingChain[n]>> \in archived[n]
 <2>1. sendingChain[n] = identity[n].chain  BY <1>1 DEF HoldingsFit
 <2>2. NoMaterial.chain = 0  BY DEF NoMaterial
 <2>3. identity[n] # NoMaterial  BY <1>1, <2>1, <2>2
 <2> QED  BY <2>1, <2>3 DEF HoldingsFit
<1>2. ContextKeys(hearing[n]) \subseteq ContextKeys(known[n])  BY DEF ContextKeys, HoldingsFit
<1> QED  BY <1>1, <1>2 DEF HoldingsFit

LEMMA Agreed == LookupsAgree
<1> SUFFICES ASSUME NEW n \in Peers, ContextsFor(n, senders) # {},
                    StoreValid(ContextsFor(n, senders))
             PROVE  /\ ConfigureValid(ContextsFor(n, senders))
                    /\ \A p \in Peers : \A d \in Draws :
                           FindContext(ContextsFor(n, senders), Host[p], d.chain)
                               = StoreFind(ContextsFor(n, senders), Host[p], d.chain)
  BY Zenon DEF LookupsAgree
<1> DEFINE contexts == ContextsFor(n, senders)
<1>1. \A c, d \in contexts :
        /\ c.ip = d.ip => c.sender = d.sender
        /\ c.sender = d.sender => c.ip = d.ip
        /\ c.sender = d.sender /\ c.chain = d.chain => c = d
  BY Zenon DEF StoreValid
<1> HIDE DEF contexts
<1>2. ConfigureValid(contexts)  BY <1>1 DEF ConfigureValid, contexts
<1>3. ASSUME NEW ip, NEW chain
      PROVE  FindContext(contexts, ip, chain) = StoreFind(contexts, ip, chain)
 <2> DEFINE sendersAt == {c.sender : c \in {x \in contexts : x.ip = ip}}
            found == {c \in contexts : c.sender \in sendersAt /\ c.chain = chain}
 <2>1. StoreFind(contexts, ip, chain) =
           IF sendersAt = {} THEN Unknown
           ELSE IF found = {} THEN UnknownChain ELSE CHOOSE c \in found : TRUE
   BY Zenon DEF StoreFind
 <2>2. \A c \in contexts :
         /\ c.ip = ip => c.sender \in sendersAt
         /\ c.sender \in sendersAt => c.ip = ip
   BY <1>1
 <2>3. sendersAt # {} => \E c \in contexts : c.ip = ip  OBVIOUS
 <2>4. \A c :
         /\ c \in found => c \in contexts /\ c.ip = ip /\ c.chain = chain
         /\ c \in contexts /\ c.ip = ip /\ c.chain = chain => c \in found
   BY <2>2
 <2>5. \A c \in contexts : c.ip = ip => sendersAt # {}  BY <2>2
 <2> HIDE DEF sendersAt, found
 <2>6. CASE \E c \in contexts : c.ip = ip /\ c.chain = chain
  <3>1. PICK c \in contexts : c.ip = ip /\ c.chain = chain  BY <2>6
  <3>2. FindContext(contexts, ip, chain) = c  BY <1>2, <3>1, ContextFound
  <3>3. c \in found /\ \A d \in found : d = c  BY <1>1, <2>4, <3>1
  <3>4. (CHOOSE d \in found : TRUE) = c  BY <3>3
  <3> QED  BY <2>1, <2>5, <3>1, <3>2, <3>3, <3>4
 <2>7. CASE ~\E c \in contexts : c.ip = ip /\ c.chain = chain
   BY <2>1, <2>3, <2>4, <2>5, <2>7 DEF FindContext
 <2> QED  BY <2>6, <2>7
<1> QED  BY <1>2, <1>3 DEF contexts

\* KeysSafe: what a preparation hands out serves its round, and that round only,
\* for any number of peers, preparations, starts and undelivered messages.
THEOREM KeysSafeHolds == KeySpec => []KeysSafe
<1>1. KeyInv => KeysSafe  BY KeysOnce, RolesRun, Resolved, Archived, Agreed DEF KeysSafe
<1>2. KeySpec => []KeyInv  BY KeyInitOK, KeyStepOK, PTL DEF KeySpec
<1> QED  BY <1>1, <1>2, PTL

-----------------------------------------------------------------------------
(* The location of damaged packets (GroupLocation). Two columns of the      *)
(* matrix are polynomials over a prime field that agree at few points, so   *)
(* the damaged columns of a group cannot spoil every row of an intact one.  *)
(* First the arithmetic modulo a prime.                                     *)

Divides(q, n) == \E k \in Int : n = q * k

LEMMA DivisionFacts ==
    ASSUME NEW n \in Nat, NEW q \in Nat \ {0}
    PROVE  /\ n \div q \in Nat /\ n % q \in Nat /\ n % q < q
           /\ n = q * (n \div q) + (n % q)
  OBVIOUS

LEMMA DividesSum ==
    ASSUME NEW q \in Int, NEW m \in Int, NEW n \in Int, Divides(q, m), Divides(q, n)
    PROVE  Divides(q, m + n) /\ Divides(q, m - n)
<1>1. PICK k \in Int : m = q * k  BY DEF Divides
<1>2. PICK l \in Int : n = q * l  BY DEF Divides
<1>3. m + n = q * (k + l) /\ m - n = q * (k - l) /\ k + l \in Int /\ k - l \in Int  BY <1>1, <1>2
<1> QED  BY <1>3 DEF Divides

LEMMA DividesProduct ==
    ASSUME NEW q \in Int, NEW m \in Int, NEW n \in Int, Divides(q, n)
    PROVE  Divides(q, m * n)
<1>1. PICK k \in Int : n = q * k  BY DEF Divides
<1>2. m * (q * k) = q * (m * k) /\ m * k \in Int  OBVIOUS
<1> QED  BY <1>1, <1>2 DEF Divides

LEMMA DividesRemainder ==
    ASSUME NEW q \in Nat \ {0}, NEW n \in Nat
    PROVE  Divides(q, n - (n % q))
<1>1. n = q * (n \div q) + (n % q) /\ n \div q \in Nat  BY DivisionFacts
<1>2. n - (n % q) = q * (n \div q) /\ n \div q \in Int  BY <1>1
<1> QED  BY <1>2 DEF Divides

\* A multiple of q that is smaller than q is 0.
LEMMA SmallMultiple ==
    ASSUME NEW q \in Nat \ {0}, NEW n \in Int, n < q, -n < q, Divides(q, n)
    PROVE  n = 0
<1>1. PICK k \in Int : n = q * k  BY DEF Divides
<1>2. CASE k >= 1  BY <1>1, <1>2
<1>3. CASE k <= -1  BY <1>1, <1>3
<1>4. CASE k = 0  BY <1>1, <1>4
<1> QED  BY <1>2, <1>3, <1>4

\* A prime that divides a product divides one of the factors (Euclid): the least
\* positive multiple of v's cofactors divides the prime.
LEMMA EuclidPositive ==
    ASSUME NEW q \in Nat, IsPrime(q), NEW n \in Nat, n > 0, n < q, NEW v \in Int,
           Divides(q, n * v)
    PROVE  Divides(q, v)
<1> DEFINE T == {d \in Nat : d > 0 /\ Divides(q, d * v)}
<1>1. T \in SUBSET Nat /\ T # {}  OBVIOUS
<1>2. PICK d \in T : \A e \in T : d <= e  BY <1>1, LeastNat
<1>3. d \in Nat /\ d > 0 /\ d <= n /\ Divides(q, d * v)  BY <1>2
<1>4. /\ q \div d \in Nat /\ q % d \in Nat /\ q % d < d
      /\ q = d * (q \div d) + (q % d)
 <2>1. d \in Nat \ {0}  BY <1>3
 <2> HIDE DEF T
 <2> QED  BY <2>1, DivisionFacts
<1>5. Divides(q, (q % d) * v)
 <2> DEFINE a == q \div d
            r == q % d
 <2>1. a \in Int /\ r \in Int /\ q = d * a + r  BY <1>4
 <2> HIDE DEF a, r
 <2>2. Divides(q, a * (d * v))
  <3>1. d * v \in Int  BY <1>3
  <3> DEFINE w == d * v
  <3> HIDE DEF w
  <3>2. w \in Int /\ Divides(q, w)  BY <1>3, <3>1 DEF w
  <3>3. Divides(q, a * w)
   <4>1. q \in Int  OBVIOUS
   <4> HIDE DEF T
   <4> QED  BY <2>1, <3>2, <4>1, DividesProduct
  <3> QED  BY <3>3 DEF w
 <2>3. Divides(q, q * v)  BY DEF Divides
 <2>4. q * v - a * (d * v) = r * v  BY <1>3, <2>1
 <2>5. q * v \in Int /\ a * (d * v) \in Int  BY <1>3, <2>1
 <2>6. Divides(q, q * v - a * (d * v))  BY <2>2, <2>3, <2>5, DividesSum
 <2> QED  BY <2>4, <2>6 DEF r
<1>6. q % d = 0  BY <1>2, <1>4, <1>5
<1>7. d = 1
 <2>1. d \in 2 .. q - 1 => q % d # 0  BY DEF IsPrime
 <2> QED  BY <1>3, <1>6, <2>1
<1> QED  BY <1>3, <1>7

LEMMA Euclid ==
    ASSUME NEW q \in Nat, IsPrime(q), NEW n \in Int, n # 0, n < q, -n < q, NEW v \in Int,
           Divides(q, n * v)
    PROVE  Divides(q, v)
<1>1. CASE n > 0  BY <1>1, EuclidPositive
<1>2. CASE n < 0
 <2>1. PICK k \in Int : n * v = q * k  BY DEF Divides
 <2>2. (-n) * v = q * (-k) /\ -k \in Int  BY <2>1
 <2>3. Divides(q, (-n) * v)  BY <2>2 DEF Divides
 <2> DEFINE m == -n
 <2>4. m \in Nat /\ m > 0 /\ m < q /\ Divides(q, m * v)  BY <1>2, <2>3
 <2> HIDE DEF m
 <2> QED  BY <2>4, EuclidPositive
<1> QED  BY <1>1, <1>2

-----------------------------------------------------------------------------
(* Polynomials.  a[0] .. a[k - 1] are the coefficients, t[j] is what Horner's *)
(* rule has after it has read them from a[k - 1] down to a[j].               *)

Coefficients(k) == [0 .. k - 1 -> Int]

IsHorner(t, a, k, x) ==
    /\ t \in [0 .. k -> Int]
    /\ t[k] = 0
    /\ \A j \in 0 .. k - 1 : t[j] = a[j] + x * t[j + 1]

\* The values of Horner's rule at a root are the coefficients of the quotient.
Quotient(t, k) == [j \in 0 .. k - 1 |-> t[j + 1]]

\* Horner's rule can be applied to every polynomial and point.
LEMMA HornerExists ==
    ASSUME NEW k \in Nat, NEW a \in Coefficients(k), NEW x \in Int
    PROVE  \E t : IsHorner(t, a, k, x)
<1> DEFINE step == [n \in 1 .. k |-> [v \in Int |-> a[k - n] + x * v]]
<1>1. \A n \in 1 .. k : k - n \in 0 .. k - 1 /\ a[k - n] \in Int  BY DEF Coefficients
<1>2. \A n \in 1 .. k, v \in Int : a[k - n] + x * v \in Int  BY <1>1
<1>3. /\ step \in [1 .. k -> [Int -> Int]]
      /\ \A n \in 1 .. k, v \in Int : step[n][v] = a[k - n] + x * v
  BY <1>2
<1>4. 0 \in Int  OBVIOUS
<1> HIDE DEF step
<1>5. PICK h \in [0 .. k -> Int] :
          h[0] = 0 /\ \A n \in 1 .. k : h[n] = step[n][h[n - 1]]
 <2>1. RecursionInput(k, Int, 0, step)  BY <1>3, <1>4 DEF RecursionInput
 <2>2. \E h \in [0 .. k -> Int] : IsRecursion(h, k, 0, step)  BY <2>1, RecursionExists
 <2> QED  BY <2>2 DEF IsRecursion
<1> DEFINE t == [j \in 0 .. k |-> h[k - j]]
<1>6. \A j \in 0 .. k : k - j \in 0 .. k  OBVIOUS
<1>7. t \in [0 .. k -> Int] /\ \A j \in 0 .. k : t[j] = h[k - j]  BY <1>6
<1>8. t[k] = 0  BY <1>5, <1>7
<1> HIDE DEF t
<1>9. ASSUME NEW j \in 0 .. k - 1
      PROVE  t[j] = a[j] + x * t[j + 1]
 <2>1. /\ k - j \in 1 .. k /\ j \in 0 .. k /\ j + 1 \in 0 .. k
       /\ k - (k - j) = j /\ (k - j) - 1 = k - (j + 1) /\ (k - j) - 1 \in 0 .. k
   OBVIOUS
 <2>2. t[j] = h[k - j] /\ t[j + 1] = h[(k - j) - 1] /\ h[(k - j) - 1] \in Int  BY <1>7, <2>1
 <2>3. h[k - j] = step[k - j][h[(k - j) - 1]]  BY <1>5, <2>1
 <2>4. step[k - j][h[(k - j) - 1]] = a[k - (k - j)] + x * h[(k - j) - 1]  BY <1>3, <2>1, <2>2
 <2> QED  BY <2>1, <2>2, <2>3, <2>4
<1> QED  BY <1>7, <1>8, <1>9 DEF IsHorner

\* Dividing by the difference to x: the values of Horner's rule at x are the
\* coefficients of the quotient.
LEMMA HornerQuotient ==
    ASSUME NEW k \in Nat, NEW a \in Coefficients(k + 1), NEW x \in Int, NEW e \in Int,
           NEW t, IsHorner(t, a, k + 1, x), NEW s, IsHorner(s, a, k + 1, e),
           NEW w, IsHorner(w, Quotient(t, k), k, e)
    PROVE  s[0] - t[0] = (e - x) * w[0]
<1> DEFINE b == Quotient(t, k)
           T == {n \in Nat : n <= k => s[k - n] - t[k - n] = (e - x) * w[k - n]}
<1>1. /\ t \in [0 .. k + 1 -> Int] /\ t[k + 1] = 0
      /\ \A j \in 0 .. k : t[j] = a[j] + x * t[j + 1]
  BY DEF IsHorner
<1>2. /\ s \in [0 .. k + 1 -> Int] /\ s[k + 1] = 0
      /\ \A j \in 0 .. k : s[j] = a[j] + e * s[j + 1]
  BY DEF IsHorner
<1>3. /\ w \in [0 .. k -> Int] /\ w[k] = 0
      /\ \A j \in 0 .. k - 1 : w[j] = t[j + 1] + e * w[j + 1]
  BY DEF Quotient, IsHorner
<1>4. \A j \in 0 .. k : a[j] \in Int  BY DEF Coefficients
<1>5. 0 \in T  BY <1>1, <1>2, <1>3, <1>4
<1>6. ASSUME NEW n \in T
      PROVE  n + 1 \in T
 <2>1. SUFFICES ASSUME n + 1 <= k
                PROVE  s[k - (n + 1)] - t[k - (n + 1)] = (e - x) * w[k - (n + 1)]
   OBVIOUS
 <2> DEFINE j == k - (n + 1)
 <2>2. /\ n \in Nat /\ j \in 0 .. k - 1 /\ j \in 0 .. k /\ j + 1 \in 0 .. k
       /\ j + 1 \in 0 .. k + 1 /\ k - n = j + 1
   BY <2>1
 <2>3. s[j + 1] - t[j + 1] = (e - x) * w[j + 1]  BY <2>1, <2>2
 <2>4. /\ t[j] = a[j] + x * t[j + 1] /\ s[j] = a[j] + e * s[j + 1]
       /\ w[j] = t[j + 1] + e * w[j + 1]
   BY <1>1, <1>2, <1>3, <2>2
 <2>5. a[j] \in Int /\ s[j + 1] \in Int /\ t[j + 1] \in Int /\ w[j + 1] \in Int
   BY <1>1, <1>2, <1>3, <1>4, <2>2
 <2> DEFINE A == a[j]
            S == s[j + 1]
            P == t[j + 1]
            W == w[j + 1]
 <2>6. A \in Int /\ S \in Int /\ P \in Int /\ W \in Int /\ S - P = (e - x) * W  BY <2>3, <2>5
 <2> HIDE DEF A, S, P, W
 <2>7. (A + e * S) - (A + x * P) = (e - x) * (P + e * W)
  <3>1. S = P + (e - x) * W  BY <2>6
  <3>2. e * S = e * P + (e - x) * (e * W)  BY <2>6, <3>1
  <3>3. (e - x) * (P + e * W) = (e - x) * P + (e - x) * (e * W)  BY <2>6
  <3>4. (e - x) * P = e * P - x * P  BY <2>6
  <3>5. e * S \in Int /\ x * P \in Int /\ e * P \in Int /\ (e - x) * (e * W) \in Int  BY <2>6
  <3> QED  BY <2>6, <3>2, <3>3, <3>4, <3>5
 <2> QED  BY <2>4, <2>7 DEF A, S, P, W
<1>7. T = Nat
 <2>1. T \in SUBSET Nat  OBVIOUS
 <2> HIDE DEF T
 <2> QED  BY <1>5, <1>6, <2>1, NatSetInduction
<1>8. k \in {n \in Nat : n <= k => s[k - n] - t[k - n] = (e - x) * w[k - n]}  BY <1>7
<1>9. k - k = 0  OBVIOUS
<1> HIDE DEF T
<1> QED  BY <1>8, <1>9

\* The members of R are roots modulo q.
Roots(R, a, k, q) == \A x \in R : \E t : IsHorner(t, a, k, x) /\ Divides(q, t[0])

\* Another root of the polynomial is a root of its quotient by the first one.
LEMMA RootOfQuotient ==
    ASSUME NEW q \in Nat, IsPrime(q), NEW k \in Nat, NEW a \in Coefficients(k + 1),
           NEW x \in 0 .. q - 1, NEW t, IsHorner(t, a, k + 1, x), Divides(q, t[0]),
           NEW e \in 0 .. q - 1, e # x, NEW s, IsHorner(s, a, k + 1, e), Divides(q, s[0])
    PROVE  \E w : IsHorner(w, Quotient(t, k), k, e) /\ Divides(q, w[0])
<1> DEFINE b == Quotient(t, k)
<1>1. t \in [0 .. k + 1 -> Int] /\ s \in [0 .. k + 1 -> Int]  BY DEF IsHorner
<1>2. b \in Coefficients(k)  BY <1>1 DEF Coefficients, Quotient
<1>3. x \in Int /\ e \in Int /\ q \in Int  OBVIOUS
<1>4. PICK w : IsHorner(w, b, k, e)  BY <1>2, <1>3, HornerExists
<1>5. s[0] - t[0] = (e - x) * w[0]  BY <1>3, <1>4, HornerQuotient
<1>6. t[0] \in Int /\ s[0] \in Int /\ w[0] \in Int  BY <1>1, <1>4 DEF IsHorner
<1>7. Divides(q, (e - x) * w[0])  BY <1>3, <1>5, <1>6, DividesSum
<1> DEFINE n == e - x
<1>8. n \in Int /\ n # 0 /\ n < q /\ -n < q  OBVIOUS
<1>9. Divides(q, n * w[0])  BY <1>7
<1> HIDE DEF n
<1>10. Divides(q, w[0])  BY <1>6, <1>8, <1>9, Euclid
<1> QED  BY <1>4, <1>10

\* When the quotient is 0 modulo q and x a root, the polynomial is 0 modulo q.
LEMMA CoefficientsDivided ==
    ASSUME NEW q \in Nat, NEW k \in Nat, NEW a \in Coefficients(k + 1), NEW x \in Int,
           NEW t, IsHorner(t, a, k + 1, x), Divides(q, t[0]),
           \A j \in 0 .. k - 1 : Divides(q, t[j + 1])
    PROVE  \A j \in 0 .. k : Divides(q, a[j])
<1>1. /\ t \in [0 .. k + 1 -> Int] /\ t[k + 1] = 0
      /\ \A j \in 0 .. k : t[j] = a[j] + x * t[j + 1]
  BY DEF IsHorner
<1>2. ASSUME NEW j \in 0 .. k + 1
      PROVE  Divides(q, t[j])
 <2>1. CASE j = 0  BY <2>1
 <2>2. CASE j = k + 1
  <3>1. 0 = q * 0  OBVIOUS
  <3>2. Divides(q, 0)  BY <3>1 DEF Divides
  <3> QED  BY <1>1, <2>2, <3>2
 <2>3. CASE j # 0 /\ j # k + 1  BY <2>3
 <2> QED  BY <2>1, <2>2, <2>3
<1>3. ASSUME NEW j \in 0 .. k
      PROVE  Divides(q, a[j])
 <2>1. j \in 0 .. k + 1 /\ j + 1 \in 0 .. k + 1  OBVIOUS
 <2>2. Divides(q, t[j]) /\ Divides(q, t[j + 1])  BY <1>2, <2>1
 <2>3. t[j] \in Int /\ t[j + 1] \in Int /\ a[j] \in Int /\ q \in Int
  <3>1. \A i \in 0 .. k : a[i] \in Int  BY DEF Coefficients
  <3> QED  BY <1>1, <2>1, <3>1
 <2> DEFINE u == t[j]
            v == t[j + 1]
            c == a[j]
 <2>4. u \in Int /\ v \in Int /\ c \in Int /\ u = c + x * v /\ Divides(q, u) /\ Divides(q, v)
   BY <1>1, <2>2, <2>3
 <2> HIDE DEF u, v, c
 <2> DEFINE m == x * v
 <2>5. m \in Int /\ u - m = c  BY <2>4
 <2>6. Divides(q, m)  BY <2>3, <2>4, DividesProduct
 <2> HIDE DEF m
 <2>7. Divides(q, u - m)  BY <2>3, <2>4, <2>5, <2>6, DividesSum
 <2> QED  BY <2>5, <2>7 DEF c
<1> QED  BY <1>3

\* A polynomial with as many roots modulo a prime as it has coefficients is 0.
LEMMA RootBound ==
    ASSUME NEW q \in Nat, IsPrime(q)
    PROVE  \A k \in Nat : \A a \in Coefficients(k), R \in SUBSET (0 .. q - 1) :
             Cardinality(R) >= k /\ Roots(R, a, k, q) =>
                 \A j \in 0 .. k - 1 : Divides(q, a[j])
<1> DEFINE Bound(k) == \A a \in Coefficients(k), R \in SUBSET (0 .. q - 1) :
                         Cardinality(R) >= k /\ Roots(R, a, k, q) =>
                             \A j \in 0 .. k - 1 : Divides(q, a[j])
           T == {k \in Nat : Bound(k)}
<1>1. \A R \in SUBSET (0 .. q - 1) : IsFiniteSet(R) /\ Cardinality(R) \in Nat
 <2>1. IsFiniteSet(0 .. q - 1)  BY FS_Interval
 <2> QED  BY <2>1, FS_Subset, FS_CardinalityType
<1>2. 0 \in T  OBVIOUS
<1>3. ASSUME NEW k \in T
      PROVE  k + 1 \in T
 <2> k \in Nat  OBVIOUS
 <2> SUFFICES ASSUME NEW a \in Coefficients(k + 1), NEW R \in SUBSET (0 .. q - 1),
                     Cardinality(R) >= k + 1, Roots(R, a, k + 1, q)
              PROVE  \A j \in 0 .. k : Divides(q, a[j])
  <3>1. k + 1 \in Nat /\ (k + 1) - 1 = k  OBVIOUS
  <3> QED  BY <3>1
 <2>1. R # {}  BY FS_EmptySet
 <2>2. PICK x \in R : TRUE  BY <2>1
 <2>3. x \in 0 .. q - 1 /\ x \in Int  OBVIOUS
 <2>4. PICK t : IsHorner(t, a, k + 1, x) /\ Divides(q, t[0])  BY DEF Roots
 <2> DEFINE b == Quotient(t, k)
            S == R \ {x}
 <2>5. b \in Coefficients(k) /\ \A j \in 0 .. k - 1 : b[j] = t[j + 1]
   BY <2>4 DEF IsHorner, Coefficients, Quotient
 <2>6. S \in SUBSET (0 .. q - 1) /\ Cardinality(S) >= k  BY <1>1, FS_RemoveElement
 <2>7. Roots(S, b, k, q)
  <3> SUFFICES ASSUME NEW e \in S
               PROVE  \E w : IsHorner(w, b, k, e) /\ Divides(q, w[0])
    BY DEF Roots
  <3>1. e \in R /\ e # x /\ e \in 0 .. q - 1  OBVIOUS
  <3>2. PICK s : IsHorner(s, a, k + 1, e) /\ Divides(q, s[0])  BY <3>1 DEF Roots
  <3> HIDE DEF T, Bound, S
  <3> QED  BY <2>3, <2>4, <3>1, <3>2, RootOfQuotient
 <2>8. Bound(k)  OBVIOUS
 <2> HIDE DEF T, b, S
 <2>9. \A j \in 0 .. k - 1 : Divides(q, b[j])  BY <2>5, <2>6, <2>7, <2>8
 <2>10. \A j \in 0 .. k - 1 : Divides(q, t[j + 1])  BY <2>5, <2>9
 <2> HIDE DEF Bound
 <2> QED  BY <2>3, <2>4, <2>10, CoefficientsDivided
<1>4. T = Nat
 <2>1. T \in SUBSET Nat  OBVIOUS
 <2> HIDE DEF T
 <2> QED  BY <1>2, <1>3, <2>1, NatSetInduction
<1> QED  BY <1>4

\* The value of the difference of two polynomials is that of their values.
LEMMA HornerDifference ==
    ASSUME NEW k \in Nat, NEW a \in Coefficients(k), NEW b \in Coefficients(k), NEW x \in Int,
           NEW t, IsHorner(t, a, k, x), NEW s, IsHorner(s, b, k, x)
    PROVE  IsHorner([j \in 0 .. k |-> t[j] - s[j]], [j \in 0 .. k - 1 |-> a[j] - b[j]], k, x)
<1> DEFINE u == [j \in 0 .. k |-> t[j] - s[j]]
           c == [j \in 0 .. k - 1 |-> a[j] - b[j]]
<1>1. /\ t \in [0 .. k -> Int] /\ t[k] = 0 /\ \A j \in 0 .. k - 1 : t[j] = a[j] + x * t[j + 1]
      /\ s \in [0 .. k -> Int] /\ s[k] = 0 /\ \A j \in 0 .. k - 1 : s[j] = b[j] + x * s[j + 1]
  BY DEF IsHorner
<1>2. u \in [0 .. k -> Int] /\ \A j \in 0 .. k : u[j] = t[j] - s[j]  BY <1>1
<1>3. \A j \in 0 .. k - 1 : c[j] = a[j] - b[j] /\ a[j] \in Int /\ b[j] \in Int  BY DEF Coefficients
<1> HIDE DEF u, c
<1>4. u[k] = 0  BY <1>1, <1>2
<1>5. ASSUME NEW j \in 0 .. k - 1
      PROVE  u[j] = c[j] + x * u[j + 1]
 <2>1. j \in 0 .. k /\ j + 1 \in 0 .. k  OBVIOUS
 <2> DEFINE A == a[j]
            B == b[j]
            P == t[j + 1]
            Q == s[j + 1]
 <2>2. A \in Int /\ B \in Int /\ P \in Int /\ Q \in Int  BY <1>1, <1>3, <2>1
 <2>3. /\ u[j] = (A + x * P) - (B + x * Q)
       /\ u[j + 1] = P - Q /\ c[j] = A - B
   BY <1>1, <1>2, <1>3, <2>1
 <2> HIDE DEF A, B, P, Q
 <2>4. (A + x * P) - (B + x * Q) = (A - B) + x * (P - Q)  BY <2>2
 <2> QED  BY <2>3, <2>4
<1> QED  BY <1>2, <1>4, <1>5 DEF IsHorner, u, c

-----------------------------------------------------------------------------
(* Columns.  r[j] is what is left of a column's number when j digits have    *)
(* been read.                                                               *)

IsRests(r, column, q, m) ==
    /\ r \in [0 .. m -> Nat]
    /\ r[0] = column
    /\ \A j \in 0 .. m - 1 : r[j + 1] = r[j] \div q

DigitsOf(r, q, m) == [j \in 0 .. m - 1 |-> r[j] % q]

\* Every column has digits.
LEMMA RestsExist ==
    ASSUME NEW column \in Nat, NEW q \in Nat \ {0}, NEW m \in Nat
    PROVE  \E r : IsRests(r, column, q, m)
<1> DEFINE step == [n \in 1 .. m |-> [v \in Nat |-> v \div q]]
<1>1. \A v \in Nat : v \div q \in Nat  BY DivisionFacts
<1>2. /\ step \in [1 .. m -> [Nat -> Nat]]
      /\ \A n \in 1 .. m, v \in Nat : step[n][v] = v \div q
  BY <1>1
<1> HIDE DEF step
<1>3. RecursionInput(m, Nat, column, step)  BY <1>2 DEF RecursionInput
<1>4. PICK h \in [0 .. m -> Nat] : IsRecursion(h, m, column, step)  BY <1>3, RecursionExists
<1>5. ASSUME NEW j \in 0 .. m - 1
      PROVE  h[j + 1] = h[j] \div q
 <2>1. j + 1 \in 1 .. m /\ (j + 1) - 1 = j /\ j \in 0 .. m  OBVIOUS
 <2>2. h[j + 1] = step[j + 1][h[j]]  BY <1>4, <2>1 DEF IsRecursion
 <2>3. h[j] \in Nat  BY <2>1
 <2> QED  BY <1>2, <2>1, <2>2, <2>3
<1>6. h[0] = column  BY <1>4 DEF IsRecursion
<1>7. IsRests(h, column, q, m)  BY <1>5, <1>6 DEF IsRests
<1> QED  BY <1>7

\* A digit and the rest after it make the rest before it.
LEMMA DigitsAreCoefficients ==
    ASSUME NEW column \in Nat, NEW q \in Nat \ {0}, NEW m \in Nat,
           NEW r, IsRests(r, column, q, m)
    PROVE  /\ DigitsOf(r, q, m) \in Coefficients(m)
           /\ \A j \in 0 .. m - 1 : /\ r[j] \in Nat /\ r[j + 1] \in Nat
                                    /\ DigitsOf(r, q, m)[j] = r[j] % q
                                    /\ r[j] % q \in 0 .. q - 1
                                    /\ r[j] = q * r[j + 1] + (r[j] % q)
<1>1. /\ r \in [0 .. m -> Nat]
      /\ \A j \in 0 .. m - 1 : r[j + 1] = r[j] \div q
  BY DEF IsRests
<1>2. ASSUME NEW j \in 0 .. m - 1
      PROVE  /\ r[j] \in Nat /\ r[j + 1] \in Nat
             /\ r[j] % q \in 0 .. q - 1
             /\ r[j] = q * r[j + 1] + (r[j] % q)
 <2>1. r[j] \in Nat /\ r[j + 1] \in Nat  BY <1>1
 <2>2. /\ r[j] % q \in Nat /\ r[j] % q < q
       /\ r[j] = q * (r[j] \div q) + (r[j] % q)
   BY <2>1, DivisionFacts
 <2>3. r[j] % q \in 0 .. q - 1  BY <2>2
 <2>4. r[j] = q * r[j + 1] + (r[j] % q)  BY <1>1, <2>2
 <2> QED  BY <2>1, <2>3, <2>4
<1>3. DigitsOf(r, q, m) \in Coefficients(m)  BY <1>2 DEF DigitsOf, Coefficients
<1> QED  BY <1>2, <1>3 DEF DigitsOf

\* Columns with the same digits are the same, when the digits are all there is.
LEMMA DigitsTell ==
    ASSUME NEW c \in Nat, NEW d \in Nat, NEW q \in Nat \ {0}, NEW m \in Nat,
           NEW r, IsRests(r, c, q, m), r[m] = 0,
           NEW s, IsRests(s, d, q, m), s[m] = 0,
           \A j \in 0 .. m - 1 : r[j] % q = s[j] % q
    PROVE  c = d
<1> DEFINE T == {n \in Nat : n <= m => r[m - n] = s[m - n]}
<1>1. 0 \in T  OBVIOUS
<1>2. ASSUME NEW n \in T
      PROVE  n + 1 \in T
 <2>1. SUFFICES ASSUME n + 1 <= m PROVE r[m - (n + 1)] = s[m - (n + 1)]  OBVIOUS
 <2> DEFINE j == m - (n + 1)
 <2>2. n \in Nat /\ j \in 0 .. m - 1 /\ j + 1 = m - n  BY <2>1
 <2>3. r[j + 1] = s[j + 1]  BY <2>1, <2>2
 <2> HIDE DEF j, T
 <2>4. r[j] = q * r[j + 1] + (r[j] % q) /\ s[j] = q * s[j + 1] + (s[j] % q)
   BY <2>2, DigitsAreCoefficients
 <2>5. r[j] % q = s[j] % q  BY <2>2
 <2>6. r[j] = s[j]  BY <2>3, <2>4, <2>5
 <2> QED  BY <2>6 DEF j
<1>3. T = Nat
 <2>1. T \in SUBSET Nat  OBVIOUS
 <2> HIDE DEF T
 <2> QED  BY <1>1, <1>2, <2>1, NatSetInduction
<1>4. m \in {n \in Nat : n <= m => r[m - n] = s[m - n]}  BY <1>3
<1>5. m - m = 0  OBVIOUS
<1> HIDE DEF T
<1>6. r[0] = s[0]  BY <1>4, <1>5
<1> QED  BY <1>6 DEF IsRests

\* What the table of Symbol satisfies: the values of the polynomial of i digits.
IsValue(f, column, e, q, m) ==
    f = [i \in 0 .. m |->
           [rest \in 0 .. column |->
              IF i = 0 THEN 0 ELSE ((rest % q) + e * f[i - 1][rest \div q]) % q]]

LEMMA SymbolIsValue ==
    ASSUME NEW column, NEW e, NEW best
    PROVE  Symbol(column, e, best) =
             (CHOOSE f : IsValue(f, column, e, best.field, best.message))[best.message][column]
  BY DEF Symbol, IsValue

LEMMA ValueExists ==
    ASSUME NEW column \in Nat, NEW e \in Nat, NEW q \in Nat \ {0}, NEW m \in Nat
    PROVE  \E f \in [0 .. m -> [0 .. column -> 0 .. q - 1]] : IsValue(f, column, e, q, m)
<1> DEFINE A == [0 .. column -> 0 .. q - 1]
           base == [rest \in 0 .. column |-> 0]
           Next(v) == [rest \in 0 .. column |-> ((rest % q) + e * v[rest \div q]) % q]
           step == [n \in 1 .. m |-> [v \in A |-> Next(v)]]
<1>1. \A n \in Nat : n % q \in 0 .. q - 1  BY DivisionFacts
<1>2. \A rest \in 0 .. column : rest \div q \in 0 .. column /\ rest % q \in Nat
 <2> SUFFICES ASSUME NEW rest \in 0 .. column
              PROVE  rest \div q \in 0 .. column /\ rest % q \in Nat
   OBVIOUS
 <2> DEFINE p == rest \div q
 <2>1. p \in Nat /\ rest % q \in Nat /\ rest = q * p + (rest % q)  BY DivisionFacts
 <2>2. q * p >= p  BY <2>1
 <2> QED  BY <2>1, <2>2
<1>3. base \in A  OBVIOUS
<1>4. ASSUME NEW v \in A
      PROVE  Next(v) \in A
 <2> SUFFICES ASSUME NEW rest \in 0 .. column
              PROVE  ((rest % q) + e * v[rest \div q]) % q \in 0 .. q - 1
   OBVIOUS
 <2> DEFINE y == v[rest \div q]
 <2>1. y \in Nat /\ rest % q \in Nat
  <3> DEFINE p == rest \div q
  <3>1. p \in 0 .. column /\ rest % q \in Nat  BY <1>2
  <3> HIDE DEF p
  <3>2. v[p] \in 0 .. q - 1  BY <3>1
  <3>3. v[p] \in Nat  BY <3>2
  <3> QED  BY <3>1, <3>3 DEF p
 <2> HIDE DEF y
 <2>2. e * y \in Nat  BY <2>1
 <2>3. (rest % q) + e * y \in Nat  BY <2>1, <2>2
 <2>4. ((rest % q) + e * y) % q \in 0 .. q - 1  BY <1>1, <2>3
 <2> QED  BY <2>4 DEF y
<1> HIDE DEF A, Next, base
<1>5. step \in [1 .. m -> [A -> A]] /\ \A n \in 1 .. m, v \in A : step[n][v] = Next(v)  BY <1>4
<1> HIDE DEF step
<1>6. RecursionInput(m, A, base, step)  BY <1>3, <1>5 DEF RecursionInput
<1>7. PICK h \in [0 .. m -> A] : IsRecursion(h, m, base, step)  BY <1>6, RecursionExists
<1> DEFINE table == [i \in 0 .. m |->
             [rest \in 0 .. column |->
                IF i = 0 THEN 0 ELSE ((rest % q) + e * h[i - 1][rest \div q]) % q]]
<1>8. ASSUME NEW i \in 0 .. m
      PROVE  h[i] = [rest \in 0 .. column |->
                IF i = 0 THEN 0 ELSE ((rest % q) + e * h[i - 1][rest \div q]) % q]
 <2>1. CASE i = 0  BY <1>7, <2>1 DEF IsRecursion, base
 <2>2. CASE i # 0
  <3>1. i \in 1 .. m /\ i - 1 \in 0 .. m  BY <2>2
  <3>2. h[i] = Next(h[i - 1])  BY <1>5, <1>7, <3>1 DEF IsRecursion
  <3> QED  BY <2>2, <3>2 DEF Next
 <2> QED  BY <2>1, <2>2
<1>9. h = table  BY <1>8
<1>10. IsValue(h, column, e, q, m)  BY <1>9 DEF IsValue
<1>11. h \in [0 .. m -> [0 .. column -> 0 .. q - 1]]  BY DEF A
<1> QED  BY <1>10, <1>11

IsTable(f, symbol, column, e, q, m) ==
    /\ f \in [0 .. m -> [0 .. column -> 0 .. q - 1]]
    /\ symbol = f[m][column]
    /\ f[0] = [rest \in 0 .. column |-> 0]
    /\ \A i \in 1 .. m, rest \in 0 .. column :
         f[i][rest] = ((rest % q) + e * f[i - 1][rest \div q]) % q

\* The table by which Symbol is defined exists, and its values are below the field.
LEMMA SymbolTable ==
    ASSUME NEW column \in Nat, NEW e \in Nat, NEW q \in Nat \ {0}, NEW m \in Nat,
           NEW best, best.field = q, best.message = m
    PROVE  \E f : IsTable(f, Symbol(column, e, best), column, e, q, m)
<1> DEFINE f == CHOOSE g : IsValue(g, column, e, q, m)
<1>1. q \in Nat \ {0} /\ m \in Nat  OBVIOUS
<1>2. Symbol(column, e, best) = f[m][column]  BY SymbolIsValue
<1>3. PICK g \in [0 .. m -> [0 .. column -> 0 .. q - 1]] : IsValue(g, column, e, q, m)
  BY <1>1, ValueExists
<1>4. IsValue(f, column, e, q, m)  BY <1>3
<1> HIDE DEF f
<1>5. f = [i \in 0 .. m |->
           [rest \in 0 .. column |->
              IF i = 0 THEN 0 ELSE ((rest % q) + e * f[i - 1][rest \div q]) % q]]
  BY <1>4 DEF IsValue
<1>6. f[0] = [rest \in 0 .. column |-> 0]  BY <1>1, <1>5
<1>7. ASSUME NEW i \in 1 .. m, NEW rest \in 0 .. column
      PROVE  f[i][rest] = ((rest % q) + e * f[i - 1][rest \div q]) % q
 <2>1. i \in 0 .. m /\ i # 0  OBVIOUS
 <2>2. f[i] = [p \in 0 .. column |->
             IF i = 0 THEN 0 ELSE ((p % q) + e * f[i - 1][p \div q]) % q]
   BY <1>5, <2>1
 <2> QED  BY <2>1, <2>2
<1>8. f \in [0 .. m -> [0 .. column -> 0 .. q - 1]]
 <2>1. DOMAIN f = 0 .. m  BY <1>5
 <2>2. \A i \in 0 .. m : f[i] \in [0 .. column -> 0 .. q - 1]
  <3>1. f = g
   <4> DEFINE N == {n \in Nat : n \in 0 .. m => f[n] = g[n]}
   <4>1. \A i \in 0 .. m : g[i] = [rest \in 0 .. column |->
           IF i = 0 THEN 0 ELSE ((rest % q) + e * g[i - 1][rest \div q]) % q]
     BY <1>3 DEF IsValue
   <4>2. \A i \in 0 .. m : f[i] = [rest \in 0 .. column |->
           IF i = 0 THEN 0 ELSE ((rest % q) + e * f[i - 1][rest \div q]) % q]
     BY <1>5
   <4>3. 0 \in N  BY <1>1, <1>6, <4>1
   <4>4. ASSUME NEW n \in N
         PROVE  n + 1 \in N
    <5>1. n \in Nat /\ (n \in 0 .. m => f[n] = g[n])  OBVIOUS
    <5> HIDE DEF N
    <5>2. SUFFICES ASSUME n + 1 \in 0 .. m PROVE f[n + 1] = g[n + 1]  BY <5>1 DEF N
    <5>3. n \in 0 .. m /\ n + 1 # 0 /\ (n + 1) - 1 = n /\ f[n] = g[n]  BY <1>1, <5>1, <5>2
    <5>4. f[n + 1] = [rest \in 0 .. column |->
          IF n + 1 = 0 THEN 0 ELSE ((rest % q) + e * f[(n + 1) - 1][rest \div q]) % q]
      BY <4>2, <5>2
    <5>5. g[n + 1] = [rest \in 0 .. column |->
          IF n + 1 = 0 THEN 0 ELSE ((rest % q) + e * g[(n + 1) - 1][rest \div q]) % q]
      BY <4>1, <5>2
    <5> QED  BY <5>3, <5>4, <5>5, ZenonT(60)
   <4>5. N = Nat
    <5>1. N \in SUBSET Nat  OBVIOUS
    <5> HIDE DEF N
    <5> QED  BY <4>3, <4>4, <5>1, NatSetInduction
   <4>6. \A n \in Nat : n \in 0 .. m => f[n] = g[n]  BY <4>5
   <4>7. \A i \in 0 .. m : f[i] = g[i]  BY <4>6
   <4>8. DOMAIN g = 0 .. m  OBVIOUS
   <4>9. f = [i \in 0 .. m |-> f[i]] /\ g = [i \in 0 .. m |-> g[i]]  BY <1>5
   <4> QED  BY <4>7, <4>9
  <3> QED  BY <3>1
 <2> QED  BY <1>5, <2>1, <2>2
<1>9. IsTable(f, Symbol(column, e, best), column, e, q, m)
  BY <1>2, <1>6, <1>7, <1>8, Zenon DEF IsTable
<1> QED  BY <1>9

\* Reading a digit leaves no more than there was.
LEMMA RestsFall ==
    ASSUME NEW column \in Nat, NEW q \in Nat \ {0}, NEW m \in Nat,
           NEW r, IsRests(r, column, q, m)
    PROVE  \A j \in 0 .. m : r[j] \in 0 .. column
<1> DEFINE T == {n \in Nat : n <= m => r[n] \in 0 .. column}
<1>1. 0 \in T  BY DEF IsRests
<1>2. ASSUME NEW n \in T
      PROVE  n + 1 \in T
 <2>1. n \in Nat /\ (n <= m => r[n] \in 0 .. column)  OBVIOUS
 <2>2. SUFFICES ASSUME n + 1 <= m PROVE r[n + 1] \in 0 .. column  OBVIOUS
 <2> HIDE DEF T
 <2>3. n \in 0 .. m - 1 /\ r[n] \in 0 .. column  BY <2>1, <2>2
 <2>4. r[n + 1] = r[n] \div q  BY <2>3 DEF IsRests
 <2> DEFINE p == r[n]
            d == p \div q
 <2>5. p \in Nat /\ p <= column  BY <2>3
 <2> HIDE DEF p
 <2>6. d \in Nat /\ p % q \in Nat /\ p = q * d + (p % q)  BY <2>5, DivisionFacts
 <2> HIDE DEF d
 <2>7. q * d >= d  BY <2>6
 <2>8. d \in 0 .. column  BY <2>5, <2>6, <2>7
 <2> QED  BY <2>4, <2>8 DEF d, p
<1>3. T = Nat
 <2>1. T \in SUBSET Nat  OBVIOUS
 <2> HIDE DEF T
 <2> QED  BY <1>1, <1>2, <2>1, NatSetInduction
<1>4. \A n \in Nat : n <= m => r[n] \in 0 .. column  BY <1>3
<1> QED  BY <1>4

\* The symbol is the value of the polynomial of the column's digits, modulo the field.
LEMMA SymbolIsPolynomial ==
    ASSUME NEW column \in Nat, NEW e \in Nat, NEW q \in Nat \ {0}, NEW m \in Nat,
           NEW best, best.field = q, best.message = m,
           NEW r, IsRests(r, column, q, m), NEW t, IsHorner(t, DigitsOf(r, q, m), m, e)
    PROVE  /\ Symbol(column, e, best) \in 0 .. q - 1
           /\ Divides(q, t[0] - Symbol(column, e, best))
<1> DEFINE symbol == Symbol(column, e, best)
           a == DigitsOf(r, q, m)
<1>1. q \in Nat \ {0} /\ q \in Int /\ m \in Nat /\ IsRests(r, column, q, m) /\ IsHorner(t, a, m, e)
  OBVIOUS
<1>0. PICK f : IsTable(f, symbol, column, e, q, m)  BY SymbolTable
<1> HIDE DEF symbol, a
<1>2. /\ f \in [0 .. m -> [0 .. column -> 0 .. q - 1]]
      /\ symbol = f[m][column]
      /\ f[0] = [rest \in 0 .. column |-> 0]
      /\ \A i \in 1 .. m, rest \in 0 .. column :
           f[i][rest] = ((rest % q) + e * f[i - 1][rest \div q]) % q
  BY <1>0, Zenon DEF IsTable
<1>3. /\ r \in [0 .. m -> Nat] /\ r[0] = column
      /\ \A j \in 0 .. m - 1 : r[j + 1] = r[j] \div q
  BY <1>1 DEF IsRests
<1>4. \A j \in 0 .. m : r[j] \in 0 .. column  BY <1>1, RestsFall
<1>5. \A j \in 0 .. m - 1 : a[j] = r[j] % q /\ a[j] \in Int  BY <1>1, DigitsAreCoefficients DEF a
<1>6. /\ t \in [0 .. m -> Int] /\ t[m] = 0
      /\ \A j \in 0 .. m - 1 : t[j] = a[j] + e * t[j + 1]
  BY <1>1 DEF IsHorner
<1> DEFINE T == {n \in Nat : n <= m => Divides(q, t[m - n] - f[n][r[m - n]])}
<1>7. 0 \in T
 <2>1. m - 0 = m /\ m \in 0 .. m  BY <1>1
 <2>2. f[0][r[m]] = 0  BY <1>2, <1>4, <2>1
 <2>3. t[m] - f[0][r[m]] = q * 0  BY <1>1, <1>6, <2>2
 <2> DEFINE d == t[m] - f[0][r[m]]
 <2> HIDE DEF d
 <2>4. Divides(q, d)  BY <2>3 DEF d, Divides
 <2> QED  BY <2>1, <2>4 DEF d
<1>8. ASSUME NEW n \in T
      PROVE  n + 1 \in T
 <2>1. n \in Nat /\ (n <= m => Divides(q, t[m - n] - f[n][r[m - n]]))  OBVIOUS
 <2>2. SUFFICES ASSUME n + 1 <= m
                PROVE  Divides(q, t[m - (n + 1)] - f[n + 1][r[m - (n + 1)]])
   OBVIOUS
 <2> HIDE DEF T
 <2> DEFINE j == m - (n + 1)
 <2>3. /\ j \in 0 .. m - 1 /\ j \in 0 .. m /\ j + 1 \in 0 .. m /\ m - n = j + 1
       /\ n \in 0 .. m /\ n + 1 \in 1 .. m /\ (n + 1) - 1 = n
   BY <1>1, <2>1, <2>2
 <2> HIDE DEF j
 <2> DEFINE y == f[n][r[j + 1]]
            z == (r[j] % q) + e * y
            u == t[j + 1]
 <2>4. y \in Nat /\ u \in Int /\ r[j] \in Nat
  <3>1. r[j + 1] \in 0 .. column  BY <1>4, <2>3
  <3>2. f[n][r[j + 1]] \in 0 .. q - 1  BY <1>2, <2>3, <3>1, ZenonT(60)
  <3> QED
   <4>1. t[j + 1] \in Int /\ r[j] \in Nat  BY <1>3, <1>6, <2>3
   <4> HIDE DEF z
   <4>2. y \in 0 .. q - 1  BY <3>2
   <4>3. y \in Nat
    <5> HIDE DEF y
    <5> QED  BY <4>2
   <4> QED  BY <4>1, <4>3
 <2>5. Divides(q, u - y)  BY <2>1, <2>2, <2>3
 <2>6. f[n + 1][r[j]] = z % q
  <3>1. r[j] \in 0 .. column /\ r[j + 1] = r[j] \div q  BY <1>3, <1>4, <2>3
  <3>2. f[n + 1][r[j]] = ((r[j] % q) + e * f[(n + 1) - 1][r[j] \div q]) % q
    BY <1>2, <2>3, <3>1, Zenon
  <3> QED  BY <2>3, <3>1, <3>2
 <2>7. t[j] = (r[j] % q) + e * u  BY <1>5, <1>6, <2>3
 <2> HIDE DEF y, u
 <2>8. z \in Nat /\ r[j] % q \in Nat /\ e * y \in Int /\ e * u \in Int  BY <1>1, <2>4, DivisionFacts
 <2>9. Divides(q, z - (z % q)) /\ z % q \in Int
  <3>1. z \in Nat  BY <2>8
  <3> HIDE DEF z
  <3>2. Divides(q, z - (z % q))  BY <3>1, DividesRemainder
  <3>3. z % q \in Nat  BY <3>1, DivisionFacts
  <3> QED  BY <3>2, <3>3
 <2>10. Divides(q, e * (u - y)) /\ e * (u - y) = e * u - e * y
  <3> DEFINE w == u - y
  <3>1. w \in Int /\ e * w = e * u - e * y  BY <2>4
  <3> HIDE DEF w
  <3>2. Divides(q, w)  BY <2>5 DEF w
  <3> HIDE DEF z
  <3>3. Divides(q, e * w)
   <4>1. q \in Int /\ e \in Int /\ w \in Int  BY <1>1, <3>1
   <4> QED  BY <3>2, <4>1, DividesProduct
  <3> QED  BY <3>1, <3>3 DEF w
 <2> DEFINE d == z - (z % q)
            p == e * (u - y)
 <2>11. d \in Int /\ p \in Int /\ Divides(q, d) /\ Divides(q, p)  BY <2>4, <2>8, <2>9, <2>10
 <2>12. t[j] - (z % q) = d + p
  <3> DEFINE f1 == e * y
             f2 == e * u
             f3 == r[j] % q
             f4 == z % q
             f5 == e * (u - y)
  <3>1. /\ t[j] = f3 + f2 /\ z = f3 + f1 /\ f5 = f2 - f1 /\ d = z - f4 /\ p = f5
        /\ f1 \in Int /\ f2 \in Int /\ f3 \in Int /\ f4 \in Int /\ z \in Int
    BY <2>7, <2>8, <2>9, <2>10
  <3> HIDE DEF f1, f2, f3, f4, f5, d, p, z
  <3>2. t[j] - f4 = d + p  BY <3>1
  <3> QED  BY <3>2 DEF f4
 <2> HIDE DEF d, p, z
 <2>13. Divides(q, d + p)  BY <1>1, <2>11, DividesSum
 <2>14. Divides(q, t[j] - f[n + 1][r[j]])  BY <2>6, <2>12, <2>13
 <2> QED  BY <2>14 DEF j
<1>9. T = Nat
 <2>1. T \in SUBSET Nat  OBVIOUS
 <2> HIDE DEF T
 <2> QED  BY <1>7, <1>8, <2>1, NatSetInduction
<1>10. m \in {n \in Nat : n <= m => Divides(q, t[m - n] - f[n][r[m - n]])}  BY <1>1, <1>9
<1> HIDE DEF T
<1>11. m - m = 0  BY <1>1
<1>12. Divides(q, t[0] - f[m][r[0]])  BY <1>1, <1>10, <1>11
<1>13. symbol \in 0 .. q - 1  BY <1>1, <1>2
<1> QED  BY <1>2, <1>3, <1>12, <1>13 DEF symbol

-----------------------------------------------------------------------------
(* The digits that are read are all there is.                              *)

IsCapacity(f, q) ==
    f = [e \in 0 .. MaxMessage |-> IF e = 0 THEN 1 ELSE q * f[e - 1]]

Capacity(q) == CHOOSE f : IsCapacity(f, q)

Enough(e, size, q) == Capacity(q)[e] >= size

LEMMA MinExponentIs ==
    ASSUME NEW size, NEW q
    PROVE  MinExponent(size, q) =
             IF size > 1 /\ \E e \in 1 .. MaxMessage : Enough(e, size, q)
             THEN CHOOSE e \in 1 .. MaxMessage :
                    Enough(e, size, q) /\ \A f \in 1 .. e - 1 : ~Enough(f, size, q)
             ELSE 0
  BY DEF MinExponent, Enough, Capacity, IsCapacity

\* The table by which MinExponent is defined exists: the powers of the field.
LEMMA CapacityIs ==
    ASSUME NEW q \in Nat
    PROVE  /\ Capacity(q) \in [0 .. MaxMessage -> Nat]
           /\ Capacity(q)[0] = 1
           /\ \A e \in 1 .. MaxMessage : Capacity(q)[e] = q * Capacity(q)[e - 1]
<1> DEFINE step == [n \in 1 .. MaxMessage |-> [v \in Nat |-> q * v]]
<1>1. MaxMessage \in Nat  BY DEF MaxMessage
<1>2. \A v \in Nat : q * v \in Nat  OBVIOUS
<1>3. /\ step \in [1 .. MaxMessage -> [Nat -> Nat]]
      /\ \A n \in 1 .. MaxMessage, v \in Nat : step[n][v] = q * v
  BY <1>2
<1> HIDE DEF step
<1>4. RecursionInput(MaxMessage, Nat, 1, step)  BY <1>1, <1>3 DEF RecursionInput
<1>5. PICK h \in [0 .. MaxMessage -> Nat] : IsRecursion(h, MaxMessage, 1, step)
  BY <1>4, RecursionExists
<1>6. ASSUME NEW e \in 0 .. MaxMessage
      PROVE  h[e] = IF e = 0 THEN 1 ELSE q * h[e - 1]
 <2>1. CASE e = 0  BY <1>5, <2>1 DEF IsRecursion
 <2>2. CASE e # 0
  <3>1. e \in 1 .. MaxMessage /\ e - 1 \in 0 .. MaxMessage  BY <1>1, <2>2
  <3>2. h[e] = step[e][h[e - 1]] /\ h[e - 1] \in Nat  BY <1>5, <3>1 DEF IsRecursion
  <3> QED  BY <1>3, <2>2, <3>1, <3>2
 <2> QED  BY <2>1, <2>2
<1>7. IsCapacity(h, q)  BY <1>6 DEF IsCapacity
<1>8. IsCapacity(Capacity(q), q)  BY <1>7 DEF Capacity
<1> DEFINE g == Capacity(q)
<1> HIDE DEF g
<1>9. g = [e \in 0 .. MaxMessage |-> IF e = 0 THEN 1 ELSE q * g[e - 1]]  BY <1>8 DEF IsCapacity, g
<1>10. g[0] = 1 /\ \A e \in 1 .. MaxMessage : g[e] = q * g[e - 1]  BY <1>1, <1>9
<1>11. \A e \in 0 .. MaxMessage : g[e] \in Nat
 <2> DEFINE T == {n \in Nat : n <= MaxMessage => g[n] \in Nat}
 <2>1. 0 \in T  BY <1>10
 <2>2. ASSUME NEW n \in T
       PROVE  n + 1 \in T
  <3>1. SUFFICES ASSUME n + 1 <= MaxMessage PROVE g[n + 1] \in Nat  OBVIOUS
  <3>2. n + 1 \in 1 .. MaxMessage /\ (n + 1) - 1 = n /\ g[n] \in Nat  BY <1>1, <3>1
  <3>3. g[n + 1] = q * g[n]  BY <1>10, <3>2
  <3> QED  BY <1>2, <3>2, <3>3
 <2>3. T = Nat
  <3>1. T \in SUBSET Nat  OBVIOUS
  <3> HIDE DEF T
  <3> QED  BY <2>1, <2>2, <3>1, NatSetInduction
 <2>4. \A n \in Nat : n <= MaxMessage => g[n] \in Nat  BY <2>3
 <2> QED  BY <1>1, <2>4
<1>12. g \in [0 .. MaxMessage -> Nat]  BY <1>9, <1>11
<1> QED  BY <1>10, <1>12 DEF g

\* The digits of MinExponent tell size columns apart.
LEMMA MinExponentSuffices ==
    ASSUME NEW size \in Nat, NEW q \in Nat, MinExponent(size, q) # 0
    PROVE  /\ MinExponent(size, q) \in 1 .. MaxMessage
           /\ size > 1
           /\ Capacity(q)[MinExponent(size, q)] >= size
<1> DEFINE Least(e) == Enough(e, size, q) /\ \A f \in 1 .. e - 1 : ~Enough(f, size, q)
           T == {e \in 1 .. MaxMessage : Enough(e, size, q)}
<1>1. /\ size > 1 /\ \E e \in 1 .. MaxMessage : Enough(e, size, q)
      /\ MinExponent(size, q) = CHOOSE e \in 1 .. MaxMessage : Least(e)
  BY MinExponentIs
<1>2. T \in SUBSET Nat /\ T # {}  BY <1>1
<1>3. PICK d \in T : \A e \in T : d <= e  BY <1>2, LeastNat
<1>4. Least(d)
 <2> SUFFICES ASSUME NEW f \in 1 .. d - 1, Enough(f, size, q)
              PROVE  FALSE
   OBVIOUS
 <2>1. d \in 1 .. MaxMessage /\ MaxMessage \in Nat  BY DEF MaxMessage
 <2>2. f \in T  BY <2>1
 <2>3. d <= f  BY <1>3, <2>2
 <2> QED  BY <2>1, <2>3
<1>5. d \in 1 .. MaxMessage  OBVIOUS
<1> HIDE DEF Least, T
<1>6. \E e \in 1 .. MaxMessage : Least(e)  BY <1>4, <1>5
<1>7. MinExponent(size, q) \in 1 .. MaxMessage /\ Least(MinExponent(size, q))  BY <1>1, <1>6
<1> QED  BY <1>1, <1>7 DEF Least, Enough

\* After so many digits nothing of the column is left.
LEMMA RestsEnd ==
    ASSUME NEW column \in Nat, NEW q \in Nat \ {0}, NEW m \in 0 .. MaxMessage,
           column < Capacity(q)[m], NEW r, IsRests(r, column, q, m)
    PROVE  r[m] = 0
<1> DEFINE g == Capacity(q)
           T == {n \in Nat : n <= m => r[n] < g[m - n]}
<1>1. /\ g \in [0 .. MaxMessage -> Nat] /\ g[0] = 1
      /\ \A e \in 1 .. MaxMessage : g[e] = q * g[e - 1]
  BY CapacityIs
<1>2. /\ r \in [0 .. m -> Nat] /\ r[0] = column
      /\ \A j \in 0 .. m - 1 : r[j + 1] = r[j] \div q
  BY DEF IsRests
<1>3. MaxMessage \in Nat /\ m \in Nat /\ m <= MaxMessage  BY DEF MaxMessage
<1>4. column < g[m]  OBVIOUS
<1> HIDE DEF g
<1>5. 0 \in T  BY <1>2, <1>3, <1>4
<1>6. ASSUME NEW n \in T
      PROVE  n + 1 \in T
 <2>1. n \in Nat /\ (n <= m => r[n] < g[m - n])  OBVIOUS
 <2>2. SUFFICES ASSUME n + 1 <= m PROVE r[n + 1] < g[m - (n + 1)]  OBVIOUS
 <2> HIDE DEF T
 <2> DEFINE j == m - (n + 1)
            p == r[n]
            d == p \div q
            c == g[j]
 <2>3. /\ n \in 0 .. m - 1 /\ n \in 0 .. m /\ j \in 0 .. MaxMessage
       /\ m - n = j + 1 /\ j + 1 \in 1 .. MaxMessage /\ (j + 1) - 1 = j
   BY <1>3, <2>1, <2>2
 <2>4. r[n + 1] = d /\ p \in Nat  BY <1>2, <2>3
 <2>5. p < g[j + 1] /\ g[j + 1] = q * c /\ c \in Nat  BY <1>1, <2>1, <2>2, <2>3
 <2>6. d < c
  <3> HIDE DEF p, c
  <3>1. d \in Nat /\ p % q \in Nat /\ p = q * d + (p % q)  BY <2>4, DivisionFacts
  <3>2. p < q * c  BY <2>5
  <3> HIDE DEF d
  <3>3. ASSUME d >= c PROVE q * d >= q * c  BY <2>5, <3>1, <3>3
  <3> QED  BY <2>4, <2>5, <3>1, <3>2, <3>3
 <2> QED  BY <2>4, <2>6
<1>7. T = Nat
 <2>1. T \in SUBSET Nat  OBVIOUS
 <2> HIDE DEF T
 <2> QED  BY <1>5, <1>6, <2>1, NatSetInduction
<1>8. m \in {n \in Nat : n <= m => r[n] < g[m - n]}  BY <1>3, <1>7
<1> HIDE DEF T
<1>9. m - m = 0 /\ m \in 0 .. m  BY <1>3
<1> QED  BY <1>1, <1>2, <1>3, <1>8, <1>9

\* Two columns have the same symbol at fewer points than they have digits.
LEMMA ColumnsDiffer ==
    ASSUME NEW size \in Nat, NEW q \in Nat, IsPrime(q), NEW m \in Nat, m > 0,
           MinExponent(size, q) = m, NEW best, best.field = q, best.message = m,
           NEW c \in 0 .. size - 1, NEW d \in 0 .. size - 1, c # d,
           NEW P \in SUBSET (0 .. q - 1),
           \A e \in P : Symbol(c, e, best) = Symbol(d, e, best)
    PROVE  Cardinality(P) <= m - 1
<1>1. q \in Nat \ {0} /\ q \in Int /\ c \in Nat /\ d \in Nat  BY DEF IsPrime
<1>2. m \in 0 .. MaxMessage /\ Capacity(q)[m] >= size /\ Capacity(q)[m] \in Nat
 <2>1. m \in 1 .. MaxMessage /\ Capacity(q)[m] >= size  BY MinExponentSuffices
 <2>2. m \in 0 .. MaxMessage  BY <2>1 DEF MaxMessage
 <2> QED  BY <2>1, <2>2, CapacityIs
<1>3. c < Capacity(q)[m] /\ d < Capacity(q)[m]  BY <1>2
<1>4. PICK r : IsRests(r, c, q, m)  BY <1>1, RestsExist
<1>5. PICK s : IsRests(s, d, q, m)  BY <1>1, RestsExist
<1>6. r[m] = 0 /\ s[m] = 0  BY <1>1, <1>2, <1>3, <1>4, <1>5, RestsEnd
<1> DEFINE a == DigitsOf(r, q, m)
           b == DigitsOf(s, q, m)
           p == [j \in 0 .. m - 1 |-> a[j] - b[j]]
<1>7. /\ a \in Coefficients(m) /\ b \in Coefficients(m)
      /\ \A j \in 0 .. m - 1 : /\ a[j] = r[j] % q /\ a[j] \in 0 .. q - 1
                               /\ b[j] = s[j] % q /\ b[j] \in 0 .. q - 1
 <2>1. /\ a \in Coefficients(m)
       /\ \A j \in 0 .. m - 1 : a[j] = r[j] % q /\ r[j] % q \in 0 .. q - 1
   BY <1>1, <1>4, DigitsAreCoefficients
 <2>2. /\ b \in Coefficients(m)
       /\ \A j \in 0 .. m - 1 : b[j] = s[j] % q /\ s[j] % q \in 0 .. q - 1
   BY <1>1, <1>5, DigitsAreCoefficients
 <2> HIDE DEF a, b
 <2> QED  BY <2>1, <2>2
<1> HIDE DEF a, b
<1>8. /\ p \in Coefficients(m)
      /\ \A j \in 0 .. m - 1 : p[j] = a[j] - b[j]
  BY <1>7 DEF Coefficients
<1>9. Roots(P, p, m, q)
 <2> SUFFICES ASSUME NEW e \in P
              PROVE  \E w : IsHorner(w, p, m, e) /\ Divides(q, w[0])
   BY DEF Roots
 <2>1. e \in Nat /\ e \in Int  OBVIOUS
 <2>2. PICK t : IsHorner(t, a, m, e)  BY <1>7, <2>1, HornerExists
 <2>3. PICK u : IsHorner(u, b, m, e)  BY <1>7, <2>1, HornerExists
 <2> DEFINE x == Symbol(c, e, best)
            w == [j \in 0 .. m |-> t[j] - u[j]]
 <2>4. IsHorner(w, p, m, e)  BY <1>7, <2>1, <2>2, <2>3, HornerDifference
 <2>5. x \in 0 .. q - 1 /\ Divides(q, t[0] - x)  BY <1>1, <1>4, <2>1, <2>2, SymbolIsPolynomial DEF a
 <2>6. Divides(q, u[0] - x)  BY <1>1, <1>5, <2>1, <2>3, SymbolIsPolynomial DEF b
 <2> HIDE DEF x
 <2>7. t[0] \in Int /\ u[0] \in Int /\ x \in Int /\ w[0] = t[0] - u[0]
   BY <2>2, <2>3, <2>5 DEF IsHorner
 <2> HIDE DEF w
 <2>8. Divides(q, w[0])
  <3> DEFINE g == t[0] - x
             h == u[0] - x
  <3>1. g \in Int /\ h \in Int /\ g - h = w[0]  BY <2>7
  <3>2. Divides(q, g) /\ Divides(q, h)  BY <2>5, <2>6
  <3> HIDE DEF g, h
  <3>3. Divides(q, g - h)  BY <1>1, <3>1, <3>2, DividesSum
  <3> QED  BY <3>1, <3>3
 <2> QED  BY <2>4, <2>8
<1> HIDE DEF p
<1>10. Cardinality(P) \in Nat
 <2>1. IsFiniteSet(0 .. q - 1)  BY <1>1, FS_Interval
 <2> QED  BY <2>1, FS_Subset, FS_CardinalityType
<1>11. SUFFICES ASSUME Cardinality(P) >= m PROVE FALSE  BY <1>10
<1>12. \A j \in 0 .. m - 1 : Divides(q, p[j])  BY <1>8, <1>9, <1>11, RootBound
<1>13. \A j \in 0 .. m - 1 : r[j] % q = s[j] % q
 <2> SUFFICES ASSUME NEW j \in 0 .. m - 1 PROVE a[j] = b[j]  BY <1>7
 <2> DEFINE n == p[j]
 <2>1. n = a[j] - b[j] /\ a[j] \in 0 .. q - 1 /\ b[j] \in 0 .. q - 1 /\ Divides(q, n)
   BY <1>7, <1>8, <1>12
 <2> HIDE DEF n
 <2>2. n \in Int /\ n < q /\ -n < q  BY <1>1, <2>1
 <2>3. n = 0  BY <1>1, <2>1, <2>2, SmallMultiple
 <2> QED  BY <2>1, <2>3
<1>14. c = d  BY <1>1, <1>4, <1>5, <1>6, <1>13, DigitsTell
<1> QED  BY <1>14

-----------------------------------------------------------------------------
(* The matrix.                                                             *)

\* The union of sets of at most k members has at most k for each of them.
LEMMA UnionBound ==
    ASSUME NEW k \in Nat
    PROVE  \A D, f : /\ IsFiniteSet(D)
                     /\ \A d \in D : IsFiniteSet(f[d]) /\ Cardinality(f[d]) <= k
                     => /\ IsFiniteSet(UNION {f[d] : d \in D})
                        /\ Cardinality(UNION {f[d] : d \in D}) <= Cardinality(D) * k
<1> DEFINE Small(D, f) == \A d \in D : IsFiniteSet(f[d]) /\ Cardinality(f[d]) <= k
           All(D, f) == UNION {f[d] : d \in D}
           Bound(n) == \A D, f : IsFiniteSet(D) /\ Cardinality(D) = n /\ Small(D, f)
                           => IsFiniteSet(All(D, f)) /\ Cardinality(All(D, f)) <= n * k
           T == {n \in Nat : Bound(n)}
<1>1. 0 \in T
 <2> SUFFICES ASSUME NEW D, NEW f, IsFiniteSet(D), Cardinality(D) = 0
              PROVE  IsFiniteSet(All(D, f)) /\ Cardinality(All(D, f)) <= 0 * k
   OBVIOUS
 <2>1. D = {}  BY FS_EmptySet
 <2>2. All(D, f) = {}  BY <2>1
 <2>3. IsFiniteSet({}) /\ Cardinality({}) = 0 /\ 0 * k = 0  BY FS_EmptySet
 <2> QED  BY <2>2, <2>3
<1>2. ASSUME NEW n \in T
      PROVE  n + 1 \in T
 <2>1. n \in Nat /\ Bound(n)  OBVIOUS
 <2> SUFFICES ASSUME NEW D, NEW f, IsFiniteSet(D), Cardinality(D) = n + 1, Small(D, f)
              PROVE  IsFiniteSet(All(D, f)) /\ Cardinality(All(D, f)) <= (n + 1) * k
  <3>1. Bound(n + 1) => n + 1 \in T
   <4> HIDE DEF Bound
   <4> QED  BY <2>1
  <3> HIDE DEF T, Small, All
  <3>2. SUFFICES Bound(n + 1)  BY <3>1
  <3> QED  OBVIOUS
 <2>2. D # {}
  <3>1. Cardinality({}) = 0  BY FS_EmptySet
  <3> HIDE DEF T, Bound, Small
  <3> QED  BY <2>1, <3>1
 <2>3. PICK x \in D : TRUE  BY <2>2
 <2> DEFINE E == D \ {x}
 <2>4. IsFiniteSet(E) /\ Cardinality(E) = n
  <3>1. IsFiniteSet(E) /\ Cardinality(E) = Cardinality(D) - 1  BY FS_RemoveElement
  <3> QED  BY <2>1, <3>1
 <2>5. Small(E, f)  OBVIOUS
 <2> HIDE DEF T, Bound
 <2>6. IsFiniteSet(All(E, f)) /\ Cardinality(All(E, f)) <= n * k
  <3>1. IsFiniteSet(E) /\ Cardinality(E) = n /\ Small(E, f)
         => IsFiniteSet(All(E, f)) /\ Cardinality(All(E, f)) <= n * k
   <4>1. \A X, g : IsFiniteSet(X) /\ Cardinality(X) = n /\ Small(X, g)
                     => IsFiniteSet(All(X, g)) /\ Cardinality(All(X, g)) <= n * k
     BY <2>1, Zenon DEF Bound
   <4> HIDE DEF Small, All, E
   <4> QED  BY <4>1, Zenon
  <3> QED  BY <2>4, <2>5, <3>1
 <2>7. IsFiniteSet(f[x]) /\ Cardinality(f[x]) <= k  BY <2>3
 <2>8. All(D, f) = All(E, f) \union f[x]  BY <2>3
 <2> DEFINE A == All(E, f)
            B == f[x]
 <2>9. IsFiniteSet(A) /\ IsFiniteSet(B) /\ Cardinality(A) <= n * k /\ Cardinality(B) <= k
   BY <2>6, <2>7
 <2> HIDE DEF A, B, All, Small
 <2>10. /\ IsFiniteSet(A \union B)
        /\ Cardinality(A \union B) = Cardinality(A) + Cardinality(B) - Cardinality(A \cap B)
   BY <2>9, FS_Union
 <2>11. Cardinality(A) \in Nat /\ Cardinality(B) \in Nat /\ Cardinality(A \cap B) \in Nat
   BY <2>9, FS_Subset, FS_CardinalityType
 <2>12. (n + 1) * k = n * k + k /\ n * k \in Nat  BY <2>1
 <2>13. Cardinality(A \union B) <= (n + 1) * k  BY <2>9, <2>10, <2>11, <2>12
 <2> QED  BY <2>8, <2>10, <2>13 DEF A, B
<1>3. T = Nat
 <2>1. T \in SUBSET Nat  OBVIOUS
 <2> HIDE DEF T
 <2> QED  BY <1>1, <1>2, <2>1, NatSetInduction
<1>4. \A n \in Nat : Bound(n)  BY <1>3
<1> HIDE DEF T
<1> SUFFICES ASSUME NEW D, NEW f, IsFiniteSet(D), Small(D, f)
             PROVE  IsFiniteSet(All(D, f)) /\ Cardinality(All(D, f)) <= Cardinality(D) * k
  OBVIOUS
<1>5. Cardinality(D) \in Nat  BY FS_CardinalityType
<1> QED  BY <1>4, <1>5

\* What the parameters of a candidate are.
Fits(c, s) ==
    /\ c.field \in Nat /\ IsPrime(c.field)
    /\ c.message \in Nat /\ c.message > 0 /\ c.message = MinExponent(s.size, c.field)
    /\ c.length \in Nat /\ c.length = c.message + 2 * s.threshold /\ c.length <= c.field
    /\ RowTotal(c) = c.length * c.field /\ RowTotal(c) \in Nat

LEMMA CandidateType ==
    ASSUME NEW s, s.size \in Nat, s.threshold \in Nat, NEW c \in Candidates(s)
    PROVE  Fits(c, s)
<1> DEFINE m == MinExponent(s.size, c.field)
           q == c.field
           n == s.threshold
<1>1. /\ c.field \in 2 * n + 1 .. MaxField /\ IsPrime(c.field)
      /\ c.message = m /\ c.length = m + 2 * n
      /\ c.message > 0 /\ c.length <= c.field
  BY DEF Candidates
<1>2. q \in Nat /\ n \in Nat  BY <1>1, MaxFieldAssumption
<1>3. m # 0  BY <1>1
<1>4. m \in Nat  BY <1>2, <1>3, MinExponentSuffices DEF MaxMessage
<1> HIDE DEF m, n
<1>5. m + 2 * n \in Nat  BY <1>2, <1>4
<1> DEFINE l == c.length
<1>6. l \in Nat /\ q \in Nat  BY <1>1, <1>2, <1>5
<1> HIDE DEF l, q
<1>7. l * q \in Nat  BY <1>6
<1> QED  BY <1>1, <1>2, <1>4, <1>6, <1>7 DEF Fits, RowTotal, l, q, m, n

\* The parameters of a matrix are chosen among the candidates.
LEMMA BestIsCandidate ==
    ASSUME NEW s, s.size \in Nat, s.threshold \in Nat, Candidates(s) # {}
    PROVE  BestParameters(s) \in Candidates(s)
<1> DEFINE C == Candidates(s)
           Best(c) == \A d \in C : RowTotal(c) < RowTotal(d)
                                   \/ (RowTotal(c) = RowTotal(d) /\ c.field <= d.field)
           Totals == {RowTotal(c) : c \in C}
<1>1. \A c \in C : c.field \in Nat /\ RowTotal(c) \in Nat  BY CandidateType DEF Fits
<1>2. Totals \in SUBSET Nat /\ Totals # {}  BY <1>1
<1>3. PICK n \in Totals : \A k \in Totals : n <= k  BY <1>2, LeastNat
<1> DEFINE FieldsFound == {c.field : c \in {d \in C : RowTotal(d) = n}}
<1>4. FieldsFound \in SUBSET Nat /\ FieldsFound # {}  BY <1>1, <1>3
<1>5. PICK q \in FieldsFound : \A p \in FieldsFound : q <= p  BY <1>4, LeastNat
<1>6. PICK c \in C : RowTotal(c) = n /\ c.field = q  OBVIOUS
<1>7. Best(c)
 <2> SUFFICES ASSUME NEW d \in C
              PROVE  RowTotal(c) < RowTotal(d)
                     \/ (RowTotal(c) = RowTotal(d) /\ c.field <= d.field)
   OBVIOUS
 <2>1. n <= RowTotal(d) /\ n \in Nat /\ RowTotal(d) \in Nat  BY <1>1, <1>3, <1>2
 <2>2. CASE n = RowTotal(d)  BY <1>5, <1>6, <2>2
 <2>3. CASE n # RowTotal(d)  BY <1>6, <2>1, <2>3
 <2> QED  BY <2>2, <2>3
<1>8. BestParameters(s) = CHOOSE x \in C : Best(x)  BY DEF BestParameters
<1> HIDE DEF Best, C
<1>9. (CHOOSE x \in C : Best(x)) \in C  BY <1>6, <1>7
<1> QED  BY <1>8, <1>9 DEF C

\* The row of a point and a value is in the matrix and belongs to them.
LEMMA RowNumber ==
    ASSUME NEW q \in Nat \ {0}, NEW l \in Nat, NEW e \in 0 .. l - 1, NEW v \in 0 .. q - 1
    PROVE  /\ e * q + v + 1 \in 1 .. l * q
           /\ ((e * q + v + 1) - 1) \div q = e /\ ((e * q + v + 1) - 1) % q = v
<1> DEFINE n == e * q + v
           p == n \div q
           w == n % q
<1>1. e * q \in Nat /\ (e + 1) * q = e * q + q /\ (e + 1) * q <= l * q /\ l * q \in Nat  OBVIOUS
<1>2. n \in Nat /\ n + 1 \in 1 .. l * q /\ (n + 1) - 1 = n
 <2> DEFINE x == e * q
            y == l * q
 <2>1. x \in Nat /\ y \in Nat /\ x + q <= y  BY <1>1
 <2> HIDE DEF x, y
 <2>2. x + v \in Nat /\ (x + v) + 1 \in 1 .. y /\ ((x + v) + 1) - 1 = x + v  BY <2>1
 <2> QED  BY <2>2 DEF x, y
<1>3. n = e * q + v  OBVIOUS
<1> HIDE DEF n
<1>4. p \in Nat /\ w \in Nat /\ w < q /\ n = q * p + w  BY <1>2, DivisionFacts
<1> HIDE DEF p, w
<1>5. v - w = q * (p - e)  BY <1>3, <1>4
<1>6. v - w = 0
 <2> DEFINE d == v - w
 <2>1. d \in Int /\ d < q /\ -d < q /\ p - e \in Int  BY <1>4
 <2>2. Divides(q, d)  BY <1>5, <2>1 DEF Divides
 <2> HIDE DEF d
 <2>3. d = 0  BY <2>1, <2>2, SmallMultiple
 <2> QED  BY <2>3 DEF d
<1>7. v = w  BY <1>4, <1>6
<1>8. p = e
 <2> DEFINE k == p - e
 <2>1. k \in Int /\ q * k = 0  BY <1>4, <1>5, <1>6
 <2> HIDE DEF k
 <2>2. k = 0  BY <2>1
 <2> QED  BY <1>4, <2>2 DEF k
<1>9. e * q + v + 1 = n + 1  BY <1>1 DEF n
<1> QED  BY <1>2, <1>7, <1>8, <1>9 DEF p, w

-----------------------------------------------------------------------------
ValidGroup(s) ==
    s.size \in Nat /\ s.threshold \in Nat /\ s.threshold > 0 /\ Candidates(s) # {}

\* Every intact column is in a row that holds no damaged one: each damaged column
\* spoils fewer of the points than the polynomials have digits.
LEMMA CleanRow ==
    ASSUME NEW s, ValidGroup(s), Separates(s),
           NEW c \in 0 .. s.size - 1, NEW D \in SUBSET (0 .. s.size - 1),
           Cardinality(D) <= s.threshold, c \notin D
    PROVE  \E r \in DOMAIN Matrix(s) : c \in Matrix(s)[r] /\ Matrix(s)[r] \cap D = {}
<1> DEFINE best == BestParameters(s)
           q == best.field
           m == best.message
           l == best.length
           n == s.threshold
           size == s.size
<1>1. /\ q \in Nat /\ IsPrime(q) /\ m \in Nat /\ m > 0 /\ m = MinExponent(size, q)
      /\ l \in Nat /\ l <= q /\ RowTotal(best) = l * q
  BY BestIsCandidate, CandidateType DEF ValidGroup, Fits
<1>2. n \in Nat /\ size \in Nat /\ n * (m - 1) < l  BY DEF ValidGroup, Separates
<1>3. q \in Nat \ {0} /\ best.field = q /\ best.message = m  BY <1>1 DEF IsPrime
<1> HIDE DEF best, q, m, l, n, size
<1> DEFINE sym(d, e) == Symbol(d, e, best)
           spoiled == [d \in D |-> {e \in 0 .. l - 1 : sym(d, e) = sym(c, e)}]
           all == UNION {spoiled[d] : d \in D}
<1>4. D \in SUBSET (0 .. size - 1) /\ c \in 0 .. size - 1 /\ Cardinality(D) <= n  BY DEF size, n
<1>5. IsFiniteSet(D) /\ Cardinality(D) \in Nat
 <2>1. IsFiniteSet(0 .. size - 1)  BY <1>2, FS_Interval
 <2> QED  BY <1>4, <2>1, FS_Subset, FS_CardinalityType
<1>6. ASSUME NEW d \in D
      PROVE  IsFiniteSet(spoiled[d]) /\ Cardinality(spoiled[d]) <= m - 1
 <2> DEFINE P == spoiled[d]
 <2>1. P \in SUBSET (0 .. q - 1)  BY <1>1
 <2>2. \A e \in P : Symbol(c, e, best) = Symbol(d, e, best)  OBVIOUS
 <2>3. c # d /\ d \in 0 .. size - 1  BY <1>4
 <2> HIDE DEF P
 <2>4. Cardinality(P) <= m - 1  BY <1>1, <1>2, <1>3, <1>4, <2>1, <2>2, <2>3, ColumnsDiffer
 <2>5. IsFiniteSet(P)
  <3>1. IsFiniteSet(0 .. q - 1)  BY <1>1, FS_Interval
  <3> QED  BY <2>1, <3>1, FS_Subset
 <2> QED  BY <2>4, <2>5 DEF P
<1>7. IsFiniteSet(all) /\ Cardinality(all) <= Cardinality(D) * (m - 1)
 <2> HIDE DEF spoiled
 <2> DEFINE k == m - 1
 <2>1. k \in Nat /\ \A d \in D : IsFiniteSet(spoiled[d]) /\ Cardinality(spoiled[d]) <= k
   BY <1>1, <1>6
 <2> HIDE DEF k
 <2>2. IsFiniteSet(all) /\ Cardinality(all) <= Cardinality(D) * k  BY <1>5, <2>1, UnionBound
 <2> QED  BY <2>2 DEF k
<1>8. Cardinality(all) < l
 <2> DEFINE k == m - 1
            x == Cardinality(D)
 <2>1. k \in Nat /\ x \in Nat /\ x <= n /\ n \in Nat  BY <1>1, <1>2, <1>4, <1>5
 <2>2. Cardinality(all) \in Nat /\ Cardinality(all) <= x * k /\ n * k < l
   BY <1>2, <1>7, FS_CardinalityType
 <2> HIDE DEF k, x, all
 <2>3. x * k <= n * k /\ x * k \in Nat /\ n * k \in Nat  BY <2>1
 <2> QED  BY <1>1, <2>2, <2>3
<1>9. \E e \in 0 .. l - 1 : e \notin all
 <2>1. SUFFICES ASSUME (0 .. l - 1) \in SUBSET all PROVE FALSE  OBVIOUS
 <2>2. Cardinality(0 .. l - 1) = l  BY <1>1, FS_Interval
 <2> HIDE DEF all
 <2>3. Cardinality(0 .. l - 1) <= Cardinality(all)  BY <1>7, <2>1, FS_Subset
 <2>4. Cardinality(all) \in Nat  BY <1>7, FS_CardinalityType
 <2> QED  BY <1>1, <1>8, <2>2, <2>3, <2>4
<1>10. PICK e \in 0 .. l - 1 : \A d \in D : sym(d, e) # sym(c, e)  BY <1>9
<1> DEFINE v == sym(c, e)
           r == e * q + v + 1
<1>11. v \in 0 .. q - 1
 <2>1. c \in Nat /\ e \in Nat  BY <1>2, <1>4
 <2>2. PICK w : IsRests(w, c, q, m)  BY <1>1, <1>3, <2>1, RestsExist
 <2>3. DigitsOf(w, q, m) \in Coefficients(m)  BY <1>1, <1>3, <2>1, <2>2, DigitsAreCoefficients
 <2>4. PICK t : IsHorner(t, DigitsOf(w, q, m), m, e)  BY <1>1, <2>1, <2>3, HornerExists
 <2> QED  BY <1>1, <1>3, <2>1, <2>2, <2>4, SymbolIsPolynomial
<1> HIDE DEF v
<1>12. r \in 1 .. l * q /\ (r - 1) \div q = e /\ (r - 1) % q = v  BY <1>1, <1>3, <1>11, RowNumber
<1> HIDE DEF r, spoiled, all
<1>13. Matrix(s) = [i \in 1 .. l * q |->
          {d \in 0 .. size - 1 : sym(d, (i - 1) \div q) = (i - 1) % q}]
  BY <1>1 DEF Matrix, best, q, size
<1>14. r \in DOMAIN Matrix(s) /\ Matrix(s)[r] = {d \in 0 .. size - 1 : sym(d, e) = v}
  BY <1>12, <1>13
<1>15. c \in Matrix(s)[r]  BY <1>4, <1>14 DEF v
<1>16. Matrix(s)[r] \cap D = {}
 <2>1. \A d \in D : sym(d, e) # v  BY <1>10 DEF v
 <2> HIDE DEF sym
 <2> QED  BY <1>14, <2>1
<1> QED  BY <1>14, <1>15, <1>16

Effects == {"sent", "altered", "lost"}

Verdict == Locate(Matrices[shape], shape.threshold, Slots,
                  Aggregate(Matrices[shape], SentMacs(Len(arrived))))

LocationInvariant ==
    /\ shape \in Shapes
    /\ arrived \in Seq(Effects) /\ Len(arrived) <= shape.size
    /\ located = NotLocated \/ located = Verdict

LEMMA ShapeIsGroup ==
    ASSUME NEW s \in Shapes
    PROVE  ValidGroup(s) /\ Matrices[s] = Matrix(s)
  BY ShapesAssumption DEF ValidGroup, ValidShape, Matrices

\* A packet has a good slot only when it was sent as it arrived.
LEMMA SlotTells ==
    ASSUME LocationInvariant
    PROVE  /\ Len(arrived) \in Nat /\ DOMAIN arrived = 1 .. Len(arrived)
           /\ Len(Slots) = Len(arrived)
           /\ Len(SentMacs(Len(arrived))) = Len(arrived)
           /\ \A i \in 1 .. Len(arrived) :
                /\ arrived[i] \in Effects
                /\ SentMacs(Len(arrived))[i] = <<i, "sent">>
                /\ arrived[i] = "sent" => Slots[i] = <<i, "sent">>
                /\ arrived[i] # "sent" => Slots[i] = NoMac \/ Slots[i] # <<i, "sent">>
                /\ <<i, "sent">> # NoMac
<1> DEFINE n == Len(arrived)
           macs == SentMacs(n)
<1>1. arrived \in Seq(Effects)  BY DEF LocationInvariant
<1>2. n \in Nat /\ DOMAIN arrived = 1 .. n /\ \A i \in 1 .. n : arrived[i] \in Effects
  BY <1>1, LenProperties
<1> HIDE DEF n
<1>3. /\ Slots = [i \in 1 .. n |-> IF arrived[i] = "lost" THEN NoMac ELSE <<i, arrived[i]>>]
      /\ macs = [i \in 1 .. n |-> <<i, "sent">>]
  BY <1>2 DEF Slots, SentMacs
<1> HIDE DEF macs
<1>4. Len(Slots) = n
 <2>1. DOMAIN Slots = 1 .. n  BY <1>3
 <2> DEFINE S == {Slots[i] : i \in 1 .. n}
 <2>2. \A i \in 1 .. n : Slots[i] \in S  OBVIOUS
 <2> HIDE DEF S
 <2>3. Slots = [i \in 1 .. n |-> Slots[i]]  BY <1>3, Zenon
 <2>4. Slots \in [1 .. n -> S]  BY <2>2, <2>3, Zenon
 <2>5. Slots \in Seq(S)  BY <1>2, <2>4
 <2> QED  BY <1>2, <2>1, <2>5, LenProperties
<1>5. Len(macs) = n  BY <1>2, <1>3, LenProperties
<1>6. ASSUME NEW i \in 1 .. n
      PROVE  /\ macs[i] = <<i, "sent">>
             /\ arrived[i] = "sent" => Slots[i] = <<i, "sent">>
             /\ arrived[i] # "sent" => Slots[i] = NoMac \/ Slots[i] # <<i, "sent">>
             /\ <<i, "sent">> # NoMac
  BY <1>3 DEF NoMac
<1> QED  BY <1>2, <1>4, <1>5, <1>6 DEF n, macs

\* The damaged packets are positions of the group.
LEMMA DamageIs ==
    ASSUME LocationInvariant
    PROVE  /\ Damaged = {c \in 0 .. Len(arrived) - 1 : arrived[c + 1] # "sent"}
           /\ IsFiniteSet(0 .. Len(arrived) - 1)
           /\ (0 .. Len(arrived) - 1) \in SUBSET (0 .. shape.size - 1)
<1> DEFINE n == Len(arrived)
<1>1. n \in Nat /\ DOMAIN arrived = 1 .. n  BY SlotTells
<1>2. n <= shape.size /\ shape.size \in Nat  BY ShapeIsGroup DEF LocationInvariant, ValidGroup
<1> HIDE DEF n
<1>3. Damaged = {c \in 0 .. n - 1 : arrived[c + 1] # "sent"}
 <2>1. \A c \in Damaged : c \in 0 .. n - 1 /\ arrived[c + 1] # "sent"  BY <1>1 DEF Damaged
 <2>2. ASSUME NEW c \in 0 .. n - 1, arrived[c + 1] # "sent"
       PROVE  c \in Damaged
   BY <1>1, <2>2 DEF Damaged
 <2> QED  BY <2>1, <2>2
<1>4. IsFiniteSet(0 .. n - 1)  BY <1>1, FS_Interval
<1>5. (0 .. n - 1) \in SUBSET (0 .. shape.size - 1)  BY <1>1, <1>2
<1> QED  BY <1>3, <1>4, <1>5 DEF n

\* A position with a row that matches holds no damage, and a row that holds no
\* damage matches.
LEMMA VerdictIs ==
    ASSUME LocationInvariant
    PROVE  /\ Verdict.bad \in SUBSET (0 .. Len(arrived) - 1)
           /\ Damaged \subseteq Verdict.bad
           /\ Verdict.exceeded = (Cardinality(Verdict.bad) > shape.threshold)
           /\ \A c \in 0 .. Len(arrived) - 1 :
                (\E r \in DOMAIN Matrix(shape) : c \in Matrix(shape)[r] /\ Matrix(shape)[r] \cap Damaged = {})
                    => c \notin Verdict.bad
<1> DEFINE n == Len(arrived)
           rows == Matrix(shape)
           macs == SentMacs(n)
           taus == Aggregate(rows, macs)
           matching == {r \in DOMAIN rows : RowJudged(rows[r], Slots) /\ RowMacs(rows[r], Slots) = taus[r]}
           good == {c \in 0 .. n - 1 : \E r \in matching : c \in rows[r]}
<1>1. shape \in Shapes /\ Matrices[shape] = rows  BY ShapeIsGroup DEF LocationInvariant
<1>2. /\ n \in Nat /\ Len(Slots) = n /\ Len(macs) = n
      /\ \A i \in 1 .. n : /\ macs[i] = <<i, "sent">> /\ <<i, "sent">> # NoMac
                           /\ arrived[i] = "sent" => Slots[i] = <<i, "sent">>
                           /\ arrived[i] # "sent" => Slots[i] = NoMac \/ Slots[i] # <<i, "sent">>
  BY SlotTells
<1>3. Damaged = {c \in 0 .. n - 1 : arrived[c + 1] # "sent"}  BY DamageIs
<1>4. /\ Verdict.bad = (0 .. n - 1) \ good
      /\ Verdict.exceeded = (Cardinality((0 .. n - 1) \ good) > shape.threshold)
 <2> HIDE DEF rows, macs, taus
 <2>1. Verdict = Locate(rows, shape.threshold, Slots, taus)  BY <1>1 DEF Verdict, taus, macs
 <2>2. Locate(rows, shape.threshold, Slots, taus) =
         [good |-> good, bad |-> (0 .. n - 1) \ good,
          exceeded |-> Cardinality((0 .. n - 1) \ good) > shape.threshold]
   BY <1>2 DEF Locate
 <2> HIDE DEF good
 <2> QED  BY <2>1, <2>2
<1> HIDE DEF rows, macs, n
<1>5. \A r \in DOMAIN rows : taus[r] = RowMacs(rows[r], macs)  BY DEF Aggregate
<1> HIDE DEF taus
<1>6. ASSUME NEW r \in DOMAIN rows
      PROVE  /\ r \in matching => \A c \in Damaged : c \notin rows[r]
             /\ (\E c \in 0 .. n - 1 : c \in rows[r]) /\ rows[r] \cap Damaged = {} => r \in matching
 <2> DEFINE present == {c \in rows[r] : c < n}
            row == rows[r]
 <2>1. /\ RowMacs(row, Slots) = [c \in present |-> Slots[c + 1]]
       /\ RowMacs(row, macs) = [c \in present |-> macs[c + 1]]
       /\ RowJudged(row, Slots) <=> present # {} /\ \A c \in present : Slots[c + 1] # NoMac
   BY <1>2 DEF RowMacs, RowJudged
 <2>2. row \in SUBSET Nat  BY DEF Matrix, rows
 <2>3. \A c \in present : c \in 0 .. n - 1 /\ c + 1 \in 1 .. n  BY <1>2, <2>2
 <2>4. ASSUME r \in matching, NEW c \in Damaged, c \in row
       PROVE  FALSE
  <3>1. c \in 0 .. n - 1 /\ arrived[c + 1] # "sent"  BY <1>3
  <3>2. c \in present /\ c + 1 \in 1 .. n  BY <1>2, <2>4, <3>1
  <3>3. Slots[c + 1] # NoMac /\ RowMacs(row, Slots) = RowMacs(row, macs)  BY <1>5, <2>1, <2>4, <3>2
  <3>4. Slots[c + 1] = macs[c + 1]
   <4> DEFINE f == [x \in present |-> Slots[x + 1]]
              g == [x \in present |-> macs[x + 1]]
   <4>1. f = g  BY <2>1, <3>3
   <4>2. f[c] = Slots[c + 1] /\ g[c] = macs[c + 1]  BY <3>2
   <4> QED  BY <4>1, <4>2
  <3> QED  BY <1>2, <3>1, <3>2, <3>3, <3>4
 <2>5. ASSUME NEW c \in 0 .. n - 1, c \in row, row \cap Damaged = {}
       PROVE  r \in matching
  <3>1. c \in present  BY <1>2, <2>5
  <3>2. \A x \in present : arrived[x + 1] = "sent"  BY <1>3, <2>3, <2>5
  <3>3. \A x \in present : Slots[x + 1] = <<x + 1, "sent">> /\ macs[x + 1] = <<x + 1, "sent">>
                           /\ <<x + 1, "sent">> # NoMac
    BY <1>2, <2>3, <3>2
  <3>4. RowJudged(row, Slots)  BY <2>1, <3>1, <3>3
  <3>5. RowMacs(row, Slots) = RowMacs(row, macs)  BY <2>1, <3>3
  <3> QED  BY <1>5, <3>4, <3>5
 <2> QED  BY <2>4, <2>5
<1>7. Damaged \subseteq (0 .. n - 1) \ good
 <2> SUFFICES ASSUME NEW c \in Damaged
              PROVE  c \in 0 .. n - 1 /\ c \notin good
   OBVIOUS
 <2>1. \A r \in matching : c \notin rows[r]  BY <1>6
 <2> QED  BY <1>3, <2>1
<1>8. \A c \in 0 .. n - 1 :
        (\E r \in DOMAIN rows : c \in rows[r] /\ rows[r] \cap Damaged = {}) => c \in good
  BY <1>6
<1> QED  BY <1>4, <1>7, <1>8 DEF n, rows

\* A damaged packet is never located as good, and the verdict counts what it has.
DamageIsLocated ==
    located # NotLocated =>
      /\ Damaged \subseteq located.bad
      /\ located.exceeded <=> Cardinality(located.bad) > shape.threshold
      /\ Cardinality(Damaged) > shape.threshold => located.exceeded

LEMMA LocationIsSafe ==
    ASSUME LocationInvariant
    PROVE  DamageIsLocated
<1> SUFFICES ASSUME located # NotLocated
             PROVE  /\ Damaged \subseteq located.bad
                    /\ located.exceeded <=> Cardinality(located.bad) > shape.threshold
                    /\ Cardinality(Damaged) > shape.threshold => located.exceeded
  BY DEF DamageIsLocated
<1>1. located = Verdict  BY DEF LocationInvariant
<1> DEFINE bad == located.bad
           n == Len(arrived)
<1>2. /\ bad \in SUBSET (0 .. n - 1) /\ Damaged \subseteq bad
      /\ located.exceeded = (Cardinality(bad) > shape.threshold)
  BY <1>1, VerdictIs
<1>3. IsFiniteSet(0 .. n - 1)  BY DamageIs
<1>4. IsFiniteSet(bad)  BY <1>2, <1>3, FS_Subset
<1>5. IsFiniteSet(Damaged) /\ Cardinality(Damaged) <= Cardinality(bad)  BY <1>2, <1>4, FS_Subset
<1>6. Cardinality(Damaged) \in Nat /\ Cardinality(bad) \in Nat  BY <1>4, <1>5, FS_CardinalityType
<1>7. shape.threshold \in Nat  BY ShapeIsGroup DEF LocationInvariant, ValidGroup
<1>8. Cardinality(Damaged) > shape.threshold => Cardinality(bad) > shape.threshold
  BY <1>5, <1>6, <1>7
<1> HIDE DEF bad
<1> QED  BY <1>2, <1>8, Zenon DEF bad

LEMMA LocationIsExact ==
    ASSUME LocationInvariant, Separates(shape)
    PROVE  LocatesExactly
<1>1. DamageIsLocated  BY LocationIsSafe
<1> SUFFICES ASSUME located # NotLocated, Cardinality(Damaged) <= shape.threshold
             PROVE  located.bad = Damaged
  BY <1>1, Zenon DEF DamageIsLocated, LocatesExactly
<1>2. located = Verdict  BY DEF LocationInvariant
<1>3. /\ Damaged \subseteq Verdict.bad /\ Verdict.bad \in SUBSET (0 .. Len(arrived) - 1)
      /\ \A c \in 0 .. Len(arrived) - 1 :
           (\E r \in DOMAIN Matrix(shape) : c \in Matrix(shape)[r] /\ Matrix(shape)[r] \cap Damaged = {})
               => c \notin Verdict.bad
  BY VerdictIs
<1>4. /\ Damaged \in SUBSET (0 .. shape.size - 1)
      /\ (0 .. Len(arrived) - 1) \in SUBSET (0 .. shape.size - 1)
  BY DamageIs
<1>5. ValidGroup(shape)  BY ShapeIsGroup DEF LocationInvariant
<1>6. ASSUME NEW c \in 0 .. Len(arrived) - 1, c \notin Damaged
      PROVE  c \notin Verdict.bad
  BY <1>3, <1>4, <1>5, <1>6, CleanRow
<1> QED  BY <1>2, <1>3, <1>6

LEMMA LocationInvariantHolds == MatrixSpec => []LocationInvariant
<1>1. MatrixInit => LocationInvariant
 <2> SUFFICES ASSUME MatrixInit PROVE LocationInvariant  OBVIOUS
 <2>1. shape \in Shapes /\ arrived = <<>> /\ located = NotLocated  BY DEF MatrixInit
 <2>2. <<>> \in Seq(Effects) /\ Len(<<>>) = 0  OBVIOUS
 <2>3. shape.size \in Nat  BY <2>1, ShapeIsGroup DEF ValidGroup
 <2> QED  BY <2>1, <2>2, <2>3 DEF LocationInvariant
<1>2. LocationInvariant /\ [MatrixNext]_matrixVars => LocationInvariant'
 <2> SUFFICES ASSUME LocationInvariant, [MatrixNext]_matrixVars
              PROVE  LocationInvariant'
   OBVIOUS
 <2>1. CASE \E effect \in {"sent", "altered", "lost"} : Carry(effect)
  <3>1. PICK effect \in Effects : Carry(effect)  BY <2>1 DEF Effects
  <3>2. /\ Len(arrived) < shape.size /\ located' = NotLocated
        /\ arrived' = Append(arrived, effect) /\ shape' = shape
    BY <3>1 DEF Carry
  <3>3. shape \in Shapes /\ arrived \in Seq(Effects)  BY DEF LocationInvariant
  <3>4. arrived' \in Seq(Effects) /\ Len(arrived') = Len(arrived) + 1 /\ Len(arrived) \in Nat
    BY <3>2, <3>3, AppendProperties, LenProperties
  <3>5. shape.size \in Nat  BY <3>3, ShapeIsGroup DEF ValidGroup
  <3>6. Len(arrived') <= shape.size  BY <3>2, <3>4, <3>5
  <3> QED  BY <3>2, <3>3, <3>4, <3>6 DEF LocationInvariant
 <2>2. CASE LocateGroup  BY <2>2 DEF LocateGroup, Verdict, Slots, LocationInvariant
 <2>3. CASE UNCHANGED matrixVars  BY <2>3 DEF matrixVars, Verdict, Slots, LocationInvariant
 <2> QED  BY <2>1, <2>2, <2>3 DEF MatrixNext
<1> QED  BY <1>1, <1>2, PTL DEF MatrixSpec

\* Whatever the matrix: a damaged packet is never taken for a good one, and more
\* of them than the threshold are reported as too many.
THEOREM DamageIsLocatedHolds == MatrixSpec => []DamageIsLocated
<1>1. LocationInvariant => DamageIsLocated  BY LocationIsSafe
<1> QED  BY <1>1, LocationInvariantHolds, PTL

\* When the points of the matrix outnumber what the threshold's columns can
\* spoil, the located packets are exactly the damaged ones.
THEOREM LocatesExactlyHolds ==
    ASSUME \A s \in Shapes : Separates(s)
    PROVE  MatrixSpec => []LocatesExactly
<1>1. LocationInvariant => LocatesExactly  BY LocationIsExact DEF LocationInvariant
<1> QED  BY <1>1, LocationInvariantHolds, PTL

-----------------------------------------------------------------------------
(* A round (TeslaStrategy). First the arithmetic of intervals and groups.    *)

\* What a round is: its numbers, and that its context is valid.
Shaped(w) ==
    /\ w.mode \in {"native", "improved"}
    /\ w.total \in Nat \ {0} /\ w.perInterval \in Nat \ {0} /\ w.delay \in Nat \ {0}
    /\ w.shape \in Shapes

\* A multiple of n, and what lies above it and below the next one.
LEMMA QuotientIs ==
    ASSUME NEW n \in Nat \ {0}, NEW k \in Nat, NEW x \in Nat, k * n <= x, x < (k + 1) * n
    PROVE  x \div n = k
<1> DEFINE q == x \div n
           a == n * q
<1>1. q \in Nat /\ x = n * q + (x % n) /\ x % n \in Nat /\ x % n < n  BY DivisionFacts
<1>2. a \in Nat /\ a <= x /\ x < a + n  BY <1>1
<1>3. CASE q > k
 <2>1. q * n >= (k + 1) * n
  <3>1. q >= k + 1  BY <1>1, <1>3
  <3> HIDE DEF q
  <3>2. PICK d \in Nat : q = (k + 1) + d
   <4>1. q \in Nat  BY <1>1
   <4>2. q - (k + 1) \in Nat /\ q = (k + 1) + (q - (k + 1))  BY <3>1, <4>1
   <4> QED  BY <4>2
  <3>3. q * n = (k + 1) * n + d * n /\ d * n \in Nat /\ (k + 1) * n \in Nat  BY <3>2
  <3> QED  BY <3>3
 <2>2. a = q * n  BY <1>1
 <2> HIDE DEF a, q
 <2>3. (k + 1) * n \in Nat  OBVIOUS
 <2> QED  BY <1>2, <2>1, <2>2, <2>3
<1>4. CASE q < k
 <2>1. k * n >= q * n + n
  <3>1. k - (q + 1) \in Nat  BY <1>1, <1>4
  <3> HIDE DEF q
  <3>2. PICK d \in Nat : k = (q + 1) + d
   <4>1. q \in Nat  BY <1>1
   <4> QED  BY <3>1, <4>1
  <3>3. k * n = q * n + n + d * n /\ d * n \in Nat /\ q * n \in Nat  BY <1>1, <3>2
  <3> QED  BY <3>3
 <2>2. a = q * n  BY <1>1
 <2> HIDE DEF a, q
 <2>3. k * n \in Nat  OBVIOUS
 <2> QED  BY <1>2, <2>1, <2>2, <2>3
<1>5. CASE q = k  BY <1>5
<1> QED  BY <1>1, <1>3, <1>4, <1>5

LEMMA IntervalOf ==
    ASSUME NEW w, Shaped(w), NEW p \in 1 .. w.total
    PROVE  /\ ExpectedInterval(w, p) \in 1 .. DataIntervalCount(w)
           /\ DataIntervalCount(w) \in Nat
           /\ p \in PacketsIn(w, ExpectedInterval(w, p))
           /\ FirstOf(w, ExpectedInterval(w, p)) \in 1 .. p
<1> DEFINE n == w.perInterval
           t == w.total
           q == (p - 1) \div n
           s == (t - 1) \div n
           a == n * q
           b == n * s
<1>1. n \in Nat \ {0} /\ t \in Nat /\ p \in Nat /\ p >= 1 /\ p <= t /\ p - 1 \in Nat /\ t - 1 \in Nat
  BY DEF Shaped
<1> HIDE DEF n, t
<1>2. q \in Nat /\ (p - 1) = n * q + ((p - 1) % n) /\ (p - 1) % n \in Nat /\ (p - 1) % n < n
  BY <1>1, DivisionFacts
<1>3. s \in Nat /\ (t - 1) = n * s + ((t - 1) % n) /\ (t - 1) % n \in Nat /\ (t - 1) % n < n
  BY <1>1, DivisionFacts
<1>4. a \in Nat /\ b \in Nat /\ a <= p - 1 /\ p - 1 < a + n /\ b <= t - 1 /\ t - 1 < b + n
  BY <1>1, <1>2, <1>3
<1>5. ExpectedInterval(w, p) = q + 1 /\ DataIntervalCount(w) = s + 1
  BY DEF ExpectedInterval, DataIntervalCount, n, t
<1> HIDE DEF q, s
<1>6. q <= s
 <2> SUFFICES ASSUME q > s PROVE FALSE  BY <1>2, <1>3
 <2>1. q - (s + 1) \in Nat  BY <1>2, <1>3
 <2>2. PICK d \in Nat : q = (s + 1) + d  BY <1>2, <1>3, <2>1
 <2>3. n * q = n * s + n + n * d /\ n * d \in Nat  BY <1>1, <1>3, <2>2
 <2> DEFINE c == n * d
 <2>4. a = b + n + c /\ c \in Nat  BY <2>3
 <2> HIDE DEF a, b, c
 <2> QED  BY <1>1, <1>4, <2>4
<1>7. FirstOf(w, q + 1) = a + 1  BY <1>1, <1>2 DEF FirstOf, n
<1>8. LastOf(w, q + 1) = IF t < a + n THEN t ELSE a + n
 <2>1. (q + 1) * n = a + n  BY <1>1, <1>2
 <2> QED  BY <2>1 DEF LastOf, MinOf2, n, t
<1> HIDE DEF a, b
<1>9. p \in (a + 1) .. (IF t < a + n THEN t ELSE a + n)  BY <1>1, <1>4
<1>10. q + 1 \in 1 .. s + 1 /\ s + 1 \in Nat /\ a + 1 \in 1 .. p  BY <1>1, <1>2, <1>3, <1>4, <1>6
<1> QED  BY <1>5, <1>7, <1>8, <1>9, <1>10 DEF PacketsIn

\* The packets of an interval, and only they, are expected in it.
LEMMA InInterval ==
    ASSUME NEW w, Shaped(w), NEW i \in Nat \ {0}, NEW p \in PacketsIn(w, i)
    PROVE  /\ p \in 1 .. w.total /\ ExpectedInterval(w, p) = i
           /\ FirstOf(w, i) \in Nat \ {0} /\ LastOf(w, i) \in Nat
           /\ FirstOf(w, i) <= p /\ p <= LastOf(w, i) /\ LastOf(w, i) <= w.total
<1> DEFINE n == w.perInterval
           t == w.total
           k == i - 1
           a == k * n
<1>1. n \in Nat \ {0} /\ t \in Nat /\ k \in Nat /\ i = k + 1  BY DEF Shaped
<1>2. FirstOf(w, i) = a + 1  BY DEF FirstOf
<1> HIDE DEF n, t, k
<1>3. (k + 1) * n = a + n /\ a \in Nat  BY <1>1
<1>4. LastOf(w, i) = IF t < a + n THEN t ELSE a + n  BY <1>1, <1>3 DEF LastOf, MinOf2, n, t
<1> DEFINE last == IF t < a + n THEN t ELSE a + n
<1>5. p \in (a + 1) .. last  BY <1>2, <1>4 DEF PacketsIn
<1> HIDE DEF a
<1>6. p \in Nat /\ p >= a + 1 /\ p <= last /\ p <= t /\ p - 1 \in Nat /\ a <= p - 1 /\ p - 1 < a + n
      /\ last \in Nat /\ last <= t
  BY <1>1, <1>3, <1>5
<1>7. (p - 1) \div n = k  BY <1>1, <1>3, <1>6, QuotientIs DEF a
<1>8. ExpectedInterval(w, p) = i  BY <1>1, <1>7 DEF ExpectedInterval, n
<1>9. p \in 1 .. t  BY <1>1, <1>3, <1>6
<1>10. a + 1 \in Nat \ {0}  BY <1>3
<1> QED  BY <1>2, <1>4, <1>6, <1>8, <1>9, <1>10 DEF t

LEMMA RemainderIs ==
    ASSUME NEW n \in Nat \ {0}, NEW k \in Nat, NEW r \in Nat, r < n
    PROVE  (k * n + r) % n = r
<1> DEFINE a == k * n
           x == a + r
<1>1. a \in Nat /\ x \in Nat /\ (k + 1) * n = a + n  OBVIOUS
<1>2. x \div n = k
 <2>1. k * n <= x /\ x < (k + 1) * n
  <3> HIDE DEF a
  <3>1. a <= x /\ x < a + n  BY <1>1
  <3> QED  BY <1>1, <3>1 DEF a
 <2> HIDE DEF x
 <2> QED  BY <1>1, <2>1, QuotientIs
<1>3. x = n * (x \div n) + (x % n) /\ x % n \in Nat  BY <1>1, DivisionFacts
<1>4. n * k = a  OBVIOUS
<1> DEFINE b == x % n
<1>5. x = a + b  BY <1>2, <1>3, <1>4
<1> HIDE DEF a, b
<1> QED  BY <1>1, <1>3, <1>5 DEF b, a

LEMMA IntervalHasPackets ==
    ASSUME NEW w, Shaped(w), NEW i \in 1 .. DataIntervalCount(w)
    PROVE  /\ i \in Nat \ {0}
           /\ FirstOf(w, i) \in PacketsIn(w, i)
           /\ FirstOf(w, i) \in Nat \ {0} /\ LastOf(w, i) \in Nat /\ FirstOf(w, i) <= LastOf(w, i)
<1> DEFINE n == w.perInterval
           t == w.total
           s == (t - 1) \div n
           k == i - 1
           a == k * n
           b == n * s
<1>1. n \in Nat \ {0} /\ t \in Nat /\ t >= 1 /\ t - 1 \in Nat  BY DEF Shaped
<1> HIDE DEF n, t
<1>2. s \in Nat /\ (t - 1) = n * s + ((t - 1) % n) /\ (t - 1) % n \in Nat  BY <1>1, DivisionFacts
<1>3. b \in Nat /\ b <= t - 1  BY <1>1, <1>2
<1>4. DataIntervalCount(w) = s + 1  BY DEF ExpectedInterval, DataIntervalCount, n, t
<1> HIDE DEF s
<1>5. i \in Nat \ {0} /\ k \in Nat /\ k <= s /\ i = k + 1  BY <1>2, <1>4
<1> HIDE DEF k
<1>6. a \in Nat /\ a <= b
 <2>1. PICK d \in Nat : s = k + d
  <3>1. s - k \in Nat /\ s = k + (s - k)  BY <1>2, <1>5
  <3> QED  BY <3>1
 <2>2. n * s = k * n + n * d /\ n * d \in Nat /\ k * n \in Nat  BY <1>1, <1>5, <2>1
 <2> QED  BY <2>2
<1>7. FirstOf(w, i) = a + 1  BY DEF FirstOf, n, k
<1>8. i * n = a + n  BY <1>1, <1>5
<1>9. LastOf(w, i) = IF t < a + n THEN t ELSE a + n  BY <1>8 DEF LastOf, MinOf2, n, t
<1> HIDE DEF a, b
<1>10. (a + 1) <= (IF t < a + n THEN t ELSE a + n) /\ (IF t < a + n THEN t ELSE a + n) \in Nat
  BY <1>1, <1>3, <1>6
<1> QED  BY <1>5, <1>6, <1>7, <1>9, <1>10 DEF PacketsIn

\* In native mode an interval is one group.
LEMMA NativeGroup ==
    ASSUME NEW w, Shaped(w), w.mode = "native", NEW i \in Nat \ {0}, NEW p \in PacketsIn(w, i)
    PROVE  /\ GroupFirst(w, p) = FirstOf(w, i)
           /\ ExpectedInterval(w, FirstOf(w, i)) = i
           /\ GroupLast(w, FirstOf(w, i)) = LastOf(w, i)
  BY InInterval DEF PacketsIn, GroupFirst, GroupLast

\* In improved mode the k-th group of an interval has at most size packets, and
\* each of them finds its first.
LEMMA ImprovedGroup ==
    ASSUME NEW w, Shaped(w), w.mode = "improved", NEW i \in 1 .. DataIntervalCount(w),
           NEW k \in DOMAIN GroupStarts(w, i), NEW f, f = GroupStarts(w, i)[k]
    PROVE  /\ f \in PacketsIn(w, i) /\ GroupLast(w, f) \in PacketsIn(w, i)
           /\ f \in Nat \ {0} /\ GroupLast(w, f) \in Nat /\ f <= GroupLast(w, f)
           /\ \A p \in f .. GroupLast(w, f) : p \in PacketsIn(w, i) /\ GroupFirst(w, p) = f
<1> DEFINE s == w.shape.size
           F == FirstOf(w, i)
           L == LastOf(w, i)
           c == (L - F) \div s
           b == s * c
           j == k - 1
           a == j * s
<1>1. s \in Nat \ {0}  BY ShapesAssumption DEF Shaped, ValidShape
<1>2. i \in Nat \ {0} /\ F \in Nat \ {0} /\ L \in Nat /\ F <= L /\ L - F \in Nat
  BY IntervalHasPackets
<1>3. c \in Nat /\ L - F = s * c + ((L - F) % s) /\ (L - F) % s \in Nat
  BY <1>1, <1>2, DivisionFacts
<1>4. b \in Nat /\ b <= L - F  BY <1>1, <1>2, <1>3
<1>5. k \in 1 .. c + 1 /\ f = F + a  BY DEF GroupStarts
<1> HIDE DEF s, F, L, c
<1>6. j \in Nat /\ j <= c  BY <1>3, <1>5
<1> HIDE DEF j
<1>7. a \in Nat /\ a <= b
 <2>1. PICK d \in Nat : c = j + d
  <3>1. c - j \in Nat /\ c = j + (c - j)  BY <1>3, <1>6
  <3> QED  BY <3>1
 <2>2. s * c = j * s + s * d /\ s * d \in Nat /\ j * s \in Nat  BY <1>1, <1>6, <2>1
 <2> QED  BY <2>2
<1> DEFINE last == IF L < (f + s) - 1 THEN L ELSE (f + s) - 1
<1>8. f \in Nat \ {0} /\ F <= f /\ f <= L /\ last \in Nat /\ f <= last /\ last <= L /\ last < f + s
 <2> HIDE DEF a, b
 <2> QED  BY <1>1, <1>2, <1>4, <1>5, <1>7
<1>9. PacketsIn(w, i) = F .. L  BY DEF PacketsIn, F, L
<1>10. f \in PacketsIn(w, i)  BY <1>2, <1>8, <1>9
<1>11. ExpectedInterval(w, f) = i  BY <1>2, <1>10, InInterval
<1>12. GroupLast(w, f) = last  BY <1>1, <1>8, <1>11 DEF GroupLast, MinOf2, L, s
<1> HIDE DEF last
<1>13. last \in PacketsIn(w, i)  BY <1>2, <1>8, <1>9
<1>14. ASSUME NEW p \in f .. last
       PROVE  p \in PacketsIn(w, i) /\ GroupFirst(w, p) = f
 <2>1. p \in PacketsIn(w, i) /\ p \in Nat /\ p - f \in Nat /\ p - f < s  BY <1>1, <1>2, <1>8, <1>9
 <2>2. ExpectedInterval(w, p) = i  BY <1>2, <2>1, InInterval
 <2> DEFINE r == p - f
 <2>3. r \in Nat /\ r < s  BY <2>1
 <2>4. p - F = a + r
  <3> HIDE DEF a
  <3> QED  BY <1>2, <1>5, <1>7, <1>8, <2>1
 <2> HIDE DEF r
 <2>5. (j * s + r) % s = r  BY <1>1, <1>6, <2>3, RemainderIs
 <2>6. (p - F) % s = r  BY <2>4, <2>5
 <2>7. GroupFirst(w, p) = p - ((p - F) % s)  BY <2>2 DEF GroupFirst, F, s
 <2> QED  BY <1>8, <2>1, <2>6, <2>7 DEF r
<1> QED  BY <1>8, <1>10, <1>12, <1>13, <1>14

-----------------------------------------------------------------------------
(* The blocks of a datagram, as they are written and as they are read.     *)

IsSequence(s) == \E S : s \in Seq(S)

KeyBlocks(w, p) == IF CarriesKey(w, ExpectedInterval(w, p), p) THEN 1 ELSE 0

LEMMA TausAre ==
    ASSUME NEW s \in Shapes
    PROVE  TauCount(s) \in Nat /\ DOMAIN Matrices[s] = 1 .. TauCount(s)
<1> DEFINE best == BestParameters(s)
<1>1. ValidGroup(s) /\ Matrices[s] = Matrix(s)  BY ShapeIsGroup
<1>2. s.size \in Nat /\ s.threshold \in Nat /\ Candidates(s) # {}  BY <1>1 DEF ValidGroup
<1>3. best \in Candidates(s)  BY <1>2, BestIsCandidate
<1> HIDE DEF best
<1>4. Fits(best, s)  BY <1>2, <1>3, CandidateType
<1>5. RowTotal(best) \in Nat  BY <1>4 DEF Fits
<1>6. DOMAIN Matrix(s) = 1 .. RowTotal(best)  BY DEF Matrix, best
<1> QED  BY <1>1, <1>5, <1>6 DEF TauCount, best

LEMMA BlockCounts ==
    ASSUME NEW w, Shaped(w), NEW p
    PROVE  KeyBlocks(w, p) \in {0, 1} /\ TagBlocks(w, p) \in Nat
  BY TausAre DEF Shaped, KeyBlocks, TagBlocks

\* A sequence of one block.
LEMMA OneBlock ==
    ASSUME NEW x
    PROVE  <<x>> \in Seq({x}) /\ Len(<<x>>) = 1 /\ <<x>>[1] = x
  OBVIOUS

LEMMA EnumeratedIsSequence ==
    ASSUME NEW f, NEW n \in Nat, NEW g, f = [j \in 1 .. n |-> g[j]]
    PROVE  IsSequence(f) /\ Len(f) = n
<1> DEFINE S == {g[j] : j \in 1 .. n}
<1>1. \A j \in 1 .. n : g[j] \in S  OBVIOUS
<1> HIDE DEF S
<1>2. f \in [1 .. n -> S]  BY <1>1
<1>3. f \in Seq(S)  BY <1>2
<1>4. DOMAIN f = 1 .. n  OBVIOUS
<1>5. Len(f) = n  BY <1>3, <1>4, LenProperties
<1> QED  BY <1>3, <1>5 DEF IsSequence

LEMMA ConcatIs ==
    ASSUME NEW a, NEW b, IsSequence(a), IsSequence(b)
    PROVE  /\ IsSequence(a \o b) /\ Len(a \o b) = Len(a) + Len(b)
           /\ Len(a) \in Nat /\ Len(b) \in Nat
           /\ \A i \in 1 .. Len(a) : (a \o b)[i] = a[i]
           /\ \A j \in 1 .. Len(b) : (a \o b)[Len(a) + j] = b[j]
<1>1. PICK S : a \in Seq(S)  BY DEF IsSequence
<1>2. PICK T : b \in Seq(T)  BY DEF IsSequence
<1> DEFINE U == S \union T
<1>3. a \in Seq(U) /\ b \in Seq(U)  BY <1>1, <1>2, SeqMonotonic
<1> HIDE DEF U
<1> DEFINE m == Len(a)
           n == Len(b)
           c == a \o b
<1>4. m \in Nat /\ n \in Nat  BY <1>3, LenProperties
<1>5. /\ c \in Seq(U) /\ Len(c) = m + n
      /\ \A i \in 1 .. m + n : c[i] = IF i <= m THEN a[i] ELSE b[i - m]
  BY <1>3, ConcatProperties
<1> HIDE DEF m, n, c
<1>6. \A i \in 1 .. m : c[i] = a[i]  BY <1>4, <1>5
<1>7. ASSUME NEW j \in 1 .. n
      PROVE  c[m + j] = b[j]
  BY <1>4, <1>5
<1>8. IsSequence(c)  BY <1>5 DEF IsSequence
<1> QED  BY <1>4, <1>5, <1>6, <1>7, <1>8 DEF m, n, c

\* The tags of the last packet of a group: a tau for each row, then the tag over all.
TagsOfGroup(tags, n, rows, macs, key, group) ==
    /\ IsSequence(tags) /\ Len(tags) = n + 1
    /\ \A r \in 1 .. n : tags[r] = RowMacs(rows[r], macs)
    /\ tags[n + 1] = <<key, group, Aggregate(rows, macs)>>

LEMMA ImprovedTagsAre ==
    ASSUME NEW w, Shaped(w), NEW group, NEW key
    PROVE  TagsOfGroup(ImprovedTags(w, group, key), TauCount(w.shape), Matrices[w.shape],
                       PacketMacSlots(group, key), key, group)
<1> DEFINE taus == Aggregate(Matrices[w.shape], PacketMacSlots(group, key))
           fast == <<key, group, taus>>
           n == TauCount(w.shape)
<1>1. n \in Nat /\ DOMAIN Matrices[w.shape] = 1 .. n  BY TausAre DEF Shaped
<1>2. taus = [r \in 1 .. n |-> RowMacs(Matrices[w.shape][r], PacketMacSlots(group, key))]
  BY <1>1 DEF Aggregate
<1> DEFINE g == [r \in 1 .. n |-> RowMacs(Matrices[w.shape][r], PacketMacSlots(group, key))]
<1>3. \A r \in 1 .. n : taus[r] = RowMacs(Matrices[w.shape][r], PacketMacSlots(group, key))  BY <1>2
<1>4. taus = [r \in 1 .. n |-> taus[r]]  BY <1>2
<1> HIDE DEF n
<1>5. IsSequence(taus) /\ Len(taus) = n  BY <1>1, <1>4, EnumeratedIsSequence
<1> HIDE DEF taus
<1>6. PICK S : taus \in Seq(S)  BY <1>5 DEF IsSequence
<1> DEFINE U == S \union {fast}
<1>7. taus \in Seq(U) /\ fast \in U  BY <1>6, SeqMonotonic
<1> HIDE DEF U, fast
<1> DEFINE all == Append(taus, fast)
<1>8. /\ all \in Seq(U) /\ Len(all) = Len(taus) + 1
      /\ \A i \in 1 .. Len(taus) : all[i] = taus[i]
      /\ all[Len(taus) + 1] = fast
  BY <1>7, AppendProperties
<1>9. ImprovedTags(w, group, key) = all  BY DEF ImprovedTags, WithFastTag, FastGroupTag, fast, taus
<1> HIDE DEF all
<1> QED  BY <1>3, <1>5, <1>8, <1>9 DEF IsSequence, fast, taus, n, TagsOfGroup

LEMMA TagsAreSequence ==
    ASSUME NEW w, Shaped(w), NEW p
    PROVE  IsSequence(Tags(w, p))
<1> DEFINE i == ExpectedInterval(w, p)
           first == GroupFirst(w, p)
           group == SentGroup(w, first)
           mac == NativeMacs(group, i)[(p - first) + 1]
<1>1. CASE w.mode = "native"  BY <1>1, OneBlock DEF Tags, IsSequence
<1>2. CASE w.mode # "native" /\ p = GroupLast(w, first)
  BY <1>2, ImprovedTagsAre DEF Tags, TagsOfGroup
<1>3. CASE w.mode # "native" /\ p # GroupLast(w, first)  BY <1>3, EmptySeq DEF Tags, IsSequence
<1> QED  BY <1>1, <1>2, <1>3

\* A datagram has the message, then the key if there is one, then the tags.
SentBlock(w, p) == Encode(DataPacket(w, p)).blocks

Spread(w, p, b) ==
    /\ IsSequence(b) /\ Len(b) = (1 + KeyBlocks(w, p)) + TagBlocks(w, p)

LEMMA SentParts ==
    ASSUME NEW w, Shaped(w), NEW p \in 1 .. w.total, EncodeValid(w, DataPacket(w, p))
    PROVE  /\ Spread(w, p, SentBlock(w, p))
           /\ SentBlock(w, p)[1] = Message(w, p)
           /\ Len(Tags(w, p)) = TagBlocks(w, p)
           /\ \A j \in 1 .. TagBlocks(w, p) :
                SentBlock(w, p)[(1 + KeyBlocks(w, p)) + j] = Tags(w, p)[j]
<1> DEFINE i == ExpectedInterval(w, p)
           m == <<Message(w, p)>>
           key == Disclosure(w, i, p)
           tags == Tags(w, p)
           k == KeyBlocks(w, p)
           t == TagBlocks(w, p)
           head == m \o key
           all == head \o tags
<1>1. p \in Nat /\ p # 0  BY DEF Shaped
<1>2. DataPacket(w, p) = [interval |-> i, index |-> p, message |-> m, key |-> key, tags |-> tags]
  BY DEF DataPacket
<1>3. ((key # <<>>) <=> CarriesKey(w, i, p)) /\ Len(tags) = t
 <2> DEFINE P == DataPacket(w, p)
 <2>1. P.index = p /\ P.interval = i /\ P.key = key /\ P.tags = tags  BY <1>2
 <2>2. EncodeValid(w, P) /\ P.index # 0  BY <1>1, <2>1
 <2> HIDE DEF P, i, key, tags
 <2>3. ((P.key # <<>>) <=> CarriesKey(w, P.interval, P.index)) /\ Len(P.tags) = TagBlocks(w, P.index)
   BY <2>2, Zenon DEF EncodeValid
 <2> QED  BY <2>1, <2>3, Zenon
<1>4. SentBlock(w, p) = all  BY <1>2 DEF SentBlock, Encode
<1>5. IsSequence(m) /\ Len(m) = 1 /\ m[1] = Message(w, p)  BY OneBlock DEF IsSequence
<1>6. IsSequence(tags)  BY TagsAreSequence
<1>7. k \in {0, 1} /\ t \in Nat  BY BlockCounts
<1>8. IsSequence(key) /\ Len(key) = k
 <2>1. CASE key = <<>>  BY <1>3, <2>1, EmptySeq DEF KeyBlocks, IsSequence
 <2>2. CASE key # <<>>  BY <1>3, <2>2, OneBlock DEF KeyBlocks, Disclosure, IsSequence
 <2> QED  BY <2>1, <2>2
<1> HIDE DEF m, key, tags, k, t
<1>9. IsSequence(head) /\ Len(head) = 1 + k /\ head[1] = Message(w, p)
 <2>1. IsSequence(head) /\ Len(head) = Len(m) + Len(key) /\ \A j \in 1 .. Len(m) : head[j] = m[j]
   BY <1>5, <1>8, ConcatIs
 <2> QED  BY <1>5, <1>8, <2>1
<1> HIDE DEF head
<1>10. /\ IsSequence(all) /\ Len(all) = Len(head) + Len(tags)
       /\ \A j \in 1 .. Len(head) : all[j] = head[j]
       /\ \A j \in 1 .. Len(tags) : all[Len(head) + j] = tags[j]
  BY <1>6, <1>9, ConcatIs
<1> HIDE DEF all
<1>11. all[1] = Message(w, p)  BY <1>7, <1>9, <1>10
<1> QED  BY <1>3, <1>4, <1>9, <1>10, <1>11 DEF Spread, k, t, tags

\* What may stand for the j-th tag of packet p: what was sent, or what the channel
\* writes in its place, over the last tag or over another one.
Plausible(w, p, j, b) ==
    \/ b = Tags(w, p)[j]
    \/ b = << <<Outside>> >>
    \/ j = TagBlocks(w, p) /\ b = <<Outside>>

AsSent(w, p, d) ==
    /\ d.index = p /\ d.interval = ExpectedInterval(w, p)
    /\ Spread(w, p, d.blocks)
    /\ \A j \in 1 .. TagBlocks(w, p) : Plausible(w, p, j, d.blocks[(1 + KeyBlocks(w, p)) + j])

\* The message and the tags of a datagram, read where they were written.
LEMMA DecodeIs ==
    ASSUME NEW w, Shaped(w), NEW p \in 1 .. w.total, NEW d, AsSent(w, p, d)
    PROVE  /\ Decode(w, d).message = <<d.blocks[1]>>
           /\ IsSequence(Decode(w, d).tags) /\ Len(Decode(w, d).tags) = TagBlocks(w, p)
           /\ \A j \in 1 .. TagBlocks(w, p) :
                /\ Decode(w, d).tags[j] = d.blocks[(1 + KeyBlocks(w, p)) + j]
                /\ Plausible(w, p, j, Decode(w, d).tags[j])
<1> DEFINE b == d.blocks
           k == KeyBlocks(w, p)
           t == TagBlocks(w, p)
           from == IF CarriesKey(w, d.interval, d.index) THEN 3 ELSE 2
           tags == SubSeq(b, from, Len(b))
<1>1. /\ d.index = p /\ d.interval = ExpectedInterval(w, p) /\ IsSequence(b) /\ Len(b) = (1 + k) + t
      /\ \A j \in 1 .. t : Plausible(w, p, j, b[(1 + k) + j])
  BY DEF AsSent, Spread
<1>2. k \in {0, 1} /\ t \in Nat  BY BlockCounts
<1>3. p # 0  OBVIOUS
<1>4. Decode(w, d).message = SubSeq(b, 1, 1) /\ Decode(w, d).tags = tags  BY <1>1, <1>3 DEF Decode
<1>5. from = (1 + k) + 1  BY <1>1 DEF KeyBlocks
<1>6. SubSeq(b, 1, 1) = <<b[1]>>
 <2> DEFINE s == SubSeq(b, 1, 1)
 <2>1. \A i \in 1 .. 1 : b[i] \in {b[1]}  OBVIOUS
 <2>2. s \in Seq({b[1]}) /\ Len(s) = 1 /\ s[1] = b[1]
  <3> HIDE DEF b
  <3>1. /\ s \in Seq({b[1]}) /\ Len(s) = IF 1 <= 1 THEN 1 - 1 + 1 ELSE 0
        /\ \A i \in 1 .. 1 - 1 + 1 : s[i] = b[1 + i - 1]
    BY <2>1, SubSeqProperties
  <3> HIDE DEF s
  <3> QED  BY <3>1
 <2>3. <<b[1]>> \in Seq({b[1]}) /\ Len(<<b[1]>>) = 1 /\ <<b[1]>>[1] = b[1]  BY OneBlock
 <2> HIDE DEF s, b
 <2>4. \A i \in 1 .. Len(s) : s[i] = <<b[1]>>[i]  BY <2>2, <2>3
 <2>5. s = <<b[1]>>  BY <2>2, <2>3, <2>4, SeqEqual
 <2> QED  BY <2>5 DEF s
<1> HIDE DEF from
<1>7. /\ IsSequence(tags) /\ Len(tags) = t
      /\ \A j \in 1 .. t : tags[j] = b[(1 + k) + j]
 <2> DEFINE n == Len(b)
            S == {b[i] : i \in from .. n}
 <2>1. \A i \in from .. n : b[i] \in S  OBVIOUS
 <2>2. from \in Int /\ n \in Int /\ n = (1 + k) + t  BY <1>1, <1>2, <1>5
 <2> HIDE DEF S, n, b, k, t
 <2> DEFINE s == SubSeq(b, from, n)
 <2>3. /\ s \in Seq(S) /\ Len(s) = IF from <= n THEN n - from + 1 ELSE 0
       /\ \A i \in 1 .. n - from + 1 : s[i] = b[from + i - 1]
   BY <2>1, <2>2, SubSeqProperties
 <2> HIDE DEF s
 <2>4. n - from + 1 = t /\ (from <= n => n - from + 1 = t) /\ (~ (from <= n) => t = 0)
   BY <1>2, <1>5, <2>2
 <2>5. Len(s) = t  BY <2>3, <2>4
 <2>6. \A j \in 1 .. t : from + j - 1 = (1 + k) + j  BY <1>2, <1>5
 <2>7. \A j \in 1 .. t : s[j] = b[(1 + k) + j]  BY <2>3, <2>4, <2>6
 <2> QED  BY <2>3, <2>5, <2>7 DEF IsSequence, s, n
<1> HIDE DEF tags
<1>8. \A j \in 1 .. t : Plausible(w, p, j, tags[j])  BY <1>1, <1>7
<1> QED  BY <1>4, <1>6, <1>7, <1>8 DEF b, k, t

-----------------------------------------------------------------------------
(* Groups, and what was signed of them.                                     *)

\* The slots and the MACs of a group, by packet.
SlotsAre(slots, f, last, slot) ==
    /\ DOMAIN slots = 1 .. (last - f) + 1 /\ Len(slots) = (last - f) + 1
    /\ \A p \in f .. last : (p - f) + 1 \in 1 .. (last - f) + 1 /\ slots[(p - f) + 1] = slot[p]

MacsAre(macs, f, last, slot, key, interval) ==
    /\ DOMAIN macs = 1 .. (last - f) + 1 /\ Len(macs) = (last - f) + 1
    /\ \A p \in f .. last :
         macs[(p - f) + 1] = IF slot[p] = <<>> THEN NoMac ELSE <<key, interval, p, slot[p][1]>>

LEMMA GroupIs ==
    ASSUME NEW w, NEW f \in Nat \ {0}, GroupLast(w, f) \in Nat, f <= GroupLast(w, f), NEW slot, NEW key
    PROVE  /\ SlotsAre(GroupWith(w, f, slot).slots, f, GroupLast(w, f), slot)
           /\ MacsAre(PacketMacSlots(GroupWith(w, f, slot), key), f, GroupLast(w, f), slot, key,
                      ExpectedInterval(w, f))
<1> DEFINE last == GroupLast(w, f)
           g == GroupWith(w, f, slot)
           n == (last - f) + 1
           slots == [i \in 1 .. n |-> slot[f + i - 1]]
           macs == PacketMacSlots(g, key)
           Mac(i) == IF slots[i] = <<>> THEN NoMac
                     ELSE PacketMac(key, ExpectedInterval(w, f), f + i - 1, slots[i][1])
<1>0. last \in Nat /\ f <= last  OBVIOUS
<1>2. g.interval = ExpectedInterval(w, f) /\ g.first = f /\ g.slots = slots  BY DEF GroupWith
<1> HIDE DEF last, g
<1>1. n \in Nat  BY <1>0
<1>3. Len(slots) = n
 <2> DEFINE h == [i \in 1 .. n |-> slot[f + i - 1]]
 <2>1. slots = [i \in 1 .. n |-> h[i]]  OBVIOUS
 <2> HIDE DEF h, slots, n
 <2> QED  BY <1>1, <2>1, EnumeratedIsSequence
<1>4. DOMAIN slots = 1 .. n  OBVIOUS
<1> HIDE DEF n
<1>5. macs = [i \in 1 .. n |-> Mac(i)]  BY <1>2, <1>4 DEF PacketMacSlots
<1>6. DOMAIN macs = 1 .. n /\ \A i \in 1 .. n : macs[i] = Mac(i)  BY <1>5
<1>7. Len(macs) = n
 <2>1. macs = [i \in 1 .. n |-> macs[i]]  BY <1>5
 <2> HIDE DEF macs
 <2> QED  BY <1>1, <2>1, EnumeratedIsSequence
<1> HIDE DEF macs
<1>8. ASSUME NEW p \in f .. last
      PROVE  /\ (p - f) + 1 \in 1 .. n
             /\ slots[(p - f) + 1] = slot[p]
             /\ macs[(p - f) + 1] = IF slot[p] = <<>> THEN NoMac
                                    ELSE <<key, ExpectedInterval(w, f), p, slot[p][1]>>
 <2> DEFINE i == (p - f) + 1
 <2>1. i \in 1 .. n /\ f + i - 1 = p  BY <1>0 DEF n
 <2> HIDE DEF i
 <2>2. slots[i] = slot[p]  BY <2>1
 <2>3. macs[i] = Mac(i)  BY <1>6, <2>1
 <2> HIDE DEF slots
 <2>4. macs[i] = IF slot[p] = <<>> THEN NoMac ELSE <<key, ExpectedInterval(w, f), p, slot[p][1]>>
   BY <2>1, <2>2, <2>3 DEF PacketMac
 <2> QED  BY <2>1, <2>2, <2>4 DEF i
<1>9. SlotsAre(slots, f, last, slot)  BY <1>3, <1>4, <1>8 DEF n, SlotsAre
<1>10. MacsAre(macs, f, last, slot, key, ExpectedInterval(w, f))  BY <1>6, <1>7, <1>8 DEF n, MacsAre
<1> QED  BY <1>2, <1>9, <1>10 DEF last, g, macs

\* What the sender's group has in the place of a packet.
SentSlots(slots, w, f, last) ==
    /\ DOMAIN slots = 1 .. (last - f) + 1
    /\ \A p \in f .. last : slots[(p - f) + 1] = <<Message(w, p)>>

SentMacsAre(macs, w, f, last, key, interval) ==
    /\ Len(macs) = (last - f) + 1
    /\ \A p \in f .. last : macs[(p - f) + 1] = <<key, interval, p, Message(w, p)>>

LEMMA SentGroupIs ==
    ASSUME NEW w, NEW f \in Nat \ {0}, GroupLast(w, f) \in Nat, f <= GroupLast(w, f),
           GroupLast(w, f) <= w.total, w.total \in Nat, NEW key
    PROVE  /\ SentSlots(SentGroup(w, f).slots, w, f, GroupLast(w, f))
           /\ SentMacsAre(PacketMacSlots(SentGroup(w, f), key), w, f, GroupLast(w, f), key,
                          ExpectedInterval(w, f))
<1> DEFINE slot == [p \in 1 .. w.total |-> <<Message(w, p)>>]
           g == SentGroup(w, f)
           last == GroupLast(w, f)
<1>1. g = GroupWith(w, f, slot)  BY DEF SentGroup
<1>2. \A p \in f .. last : slot[p] = <<Message(w, p)>> /\ slot[p] # <<>> /\ slot[p][1] = Message(w, p)
  OBVIOUS
<1> HIDE DEF slot
<1>3. /\ SlotsAre(GroupWith(w, f, slot).slots, f, GroupLast(w, f), slot)
      /\ MacsAre(PacketMacSlots(GroupWith(w, f, slot), key), f, GroupLast(w, f), slot, key,
                 ExpectedInterval(w, f))
  BY GroupIs
<1> HIDE DEF g, last
<1>4. SlotsAre(g.slots, f, last, slot) /\ MacsAre(PacketMacSlots(g, key), f, last, slot, key, ExpectedInterval(w, f))
  BY <1>1, <1>3 DEF last
<1>5. SentSlots(g.slots, w, f, last)  BY <1>2, <1>4 DEF SlotsAre, SentSlots
<1>6. SentMacsAre(PacketMacSlots(g, key), w, f, last, key, ExpectedInterval(w, f))
  BY <1>2, <1>4 DEF MacsAre, SentMacsAre
<1> QED  BY <1>5, <1>6 DEF g, last

LEMMA NativeTag ==
    ASSUME NEW w, Shaped(w), w.mode = "native", NEW i \in Nat \ {0}, NEW p \in PacketsIn(w, i)
    PROVE  Tags(w, p) = << <<i, i, p, Message(w, p)>> >>
<1> DEFINE f == FirstOf(w, i)
           last == LastOf(w, i)
           mac == <<i, i, p, Message(w, p)>>
<1>1. /\ ExpectedInterval(w, p) = i /\ f \in Nat \ {0} /\ last \in Nat /\ last <= w.total
      /\ f <= p /\ p <= last /\ p \in 1 .. w.total
  BY InInterval
<1>2. GroupFirst(w, p) = f /\ ExpectedInterval(w, f) = i /\ GroupLast(w, f) = last  BY NativeGroup
<1>3. f <= last /\ p \in f .. last /\ w.total \in Nat  BY <1>1 DEF Shaped
<1>4. Tags(w, p) = <<PacketMacSlots(SentGroup(w, f), i)[(p - f) + 1]>>
  BY <1>1, <1>2 DEF Tags, NativeMacs
<1> HIDE DEF f, last
<1>5. SentMacsAre(PacketMacSlots(SentGroup(w, f), i), w, f, GroupLast(w, f), i, ExpectedInterval(w, f))
  BY <1>1, <1>2, <1>3, SentGroupIs
<1>6. PacketMacSlots(SentGroup(w, f), i)[(p - f) + 1] = mac  BY <1>2, <1>3, <1>5 DEF SentMacsAre
<1> HIDE DEF mac
<1> QED  BY <1>4, <1>6 DEF mac

\* A MAC and a group's tag are none of the marks the channel writes.
LEMMA MarksAreNoTags ==
    ASSUME NEW a, NEW b, NEW c, NEW d, NEW e
    PROVE  <<a, b, c, d>> # <<e>> /\ <<a, b, c>> # <<e>> /\ <<a, b, c, d>> # NoMac
  BY DEF NoMac

LEMMA FrontIs ==
    ASSUME NEW s, NEW n \in Nat, IsSequence(s), Len(s) = n + 1
    PROVE  Last(s) = s[n + 1] /\ \A j \in 1 .. n : Front(s)[j] = s[j]
<1>1. \A i \in 1 .. n : s[i] \in {s[j] : j \in 1 .. n}  OBVIOUS
<1>2. Len(s) - 1 = n  OBVIOUS
<1>3. \A i \in 1 .. n - 1 + 1 : SubSeq(s, 1, n)[i] = s[1 + i - 1]  BY <1>1, SubSeqProperties
<1>4. \A j \in 1 .. n : SubSeq(s, 1, n)[j] = s[j]  BY <1>3
<1> QED  BY <1>2, <1>4 DEF Front, Last

LEMMA IntervalsAreNumbers ==
    ASSUME NEW w, Shaped(w)
    PROVE  DataIntervalCount(w) \in Nat \ {0}
  BY IntervalOf DEF Shaped

-----------------------------------------------------------------------------
(* What is on the air, and that it follows the codec's rules.               *)

\* What a datagram that can arrive is: if it can be read, it stands as it was sent,
\* whatever became of its message and its key.
Arriving(w, d) ==
    /\ d.interval \in Nat
    /\ d.index # 0 => d.index \in 1 .. w.total /\ (DecodeValid(w, d) => AsSent(w, d.index, d))

IsDatagram(d) == DOMAIN d = {"interval", "index", "blocks"} /\ d.interval \in Nat

OnTheAir(w, d) ==
    /\ IsDatagram(d)
    /\ d.index # 0 => d.index \in 1 .. w.total /\ AsSent(w, d.index, d)

LEMMA DataSent ==
    ASSUME NEW w, Shaped(w), NEW p \in 1 .. w.total, EncodeValid(w, DataPacket(w, p)),
           NEW d, d = Encode(DataPacket(w, p))
    PROVE  IsDatagram(d) /\ d.index = p /\ d.interval = ExpectedInterval(w, p) /\ AsSent(w, p, d)
<1> DEFINE i == ExpectedInterval(w, p)
<1>1. i \in Nat  BY IntervalOf
<1>2. /\ DOMAIN d = {"interval", "index", "blocks"} /\ d.interval = i /\ d.index = p
      /\ d.blocks = SentBlock(w, p)
  BY DEF Encode, DataPacket, SentBlock
<1>3. /\ Spread(w, p, SentBlock(w, p))
      /\ \A j \in 1 .. TagBlocks(w, p) :
           SentBlock(w, p)[(1 + KeyBlocks(w, p)) + j] = Tags(w, p)[j]
  BY SentParts
<1>4. AsSent(w, p, d)  BY <1>2, <1>3 DEF AsSent, Plausible
<1> QED  BY <1>1, <1>2, <1>4 DEF IsDatagram

LEMMA SentOnTheAir ==
    ASSUME NEW w, Shaped(w), Buildable(w), NEW i \in 1 .. FinalInterval(w),
           NEW n \in DOMAIN Datagrams(w, i)
    PROVE  OnTheAir(w, Datagrams(w, i)[n]) /\ Datagrams(w, i)[n].interval = i
<1> DEFINE packet == IntervalPackets(w, i)[n]
           d == Encode(packet)
           f == FirstOf(w, i)
           last == LastOf(w, i)
<1>1. n \in DOMAIN IntervalPackets(w, i) /\ Datagrams(w, i)[n] = d  BY DEF Datagrams
<1>2. EncodeValid(w, packet)  BY <1>1 DEF Buildable
<1>3. CASE i <= DataIntervalCount(w)
 <2>1. i \in 1 .. DataIntervalCount(w)  BY <1>3, IntervalsAreNumbers
 <2>2. f \in Nat \ {0} /\ last \in Nat /\ f <= last /\ i \in Nat \ {0}  BY <2>1, IntervalHasPackets
 <2>3. IntervalPackets(w, i) = [m \in 1 .. last - f + 1 |-> DataPacket(w, f + m - 1)]
   BY <1>3 DEF IntervalPackets
 <2> DEFINE p == f + n - 1
 <2>4. n \in 1 .. last - f + 1  BY <1>1, <2>3
 <2>5. packet = DataPacket(w, p)  BY <2>3, <2>4
 <2>6. p \in f .. last  BY <2>2, <2>4
 <2> HIDE DEF packet, p
 <2>7. p \in 1 .. w.total /\ ExpectedInterval(w, p) = i  BY <2>2, <2>6, InInterval DEF PacketsIn
 <2>8. IsDatagram(d) /\ d.index = p /\ d.interval = i /\ AsSent(w, p, d)
   BY <1>2, <2>5, <2>7, DataSent
 <2> HIDE DEF d
 <2> QED  BY <1>1, <2>7, <2>8 DEF OnTheAir
<1>4. CASE ~ (i <= DataIntervalCount(w))
 <2>1. IntervalPackets(w, i) = <<TailPacket(w, i)>>  BY <1>4 DEF IntervalPackets
 <2>2. n = 1  BY <1>1, <2>1
 <2>3. packet = TailPacket(w, i)  BY <2>1, <2>2
 <2>4. DOMAIN d = {"interval", "index", "blocks"} /\ d.interval = i /\ d.index = 0
   BY <2>3 DEF Encode, TailPacket
 <2>5. i \in Nat  BY IntervalsAreNumbers DEF FinalInterval, Shaped
 <2> HIDE DEF d
 <2> QED  BY <1>1, <2>4, <2>5 DEF OnTheAir, IsDatagram
<1> QED  BY <1>3, <1>4

LEMMA OnTheAirArrives ==
    ASSUME NEW w, NEW d, OnTheAir(w, d)
    PROVE  Arriving(w, d)
  BY DEF OnTheAir, Arriving, IsDatagram

\* A datagram of a block too few is none that can be read, or a tail.
LEMMA CutArrives ==
    ASSUME NEW w, Shaped(w), NEW d, OnTheAir(w, d)
    PROVE  /\ Arriving(w, [d EXCEPT !.blocks = Front(@)])
           /\ d.index # 0 => ~ DecodeValid(w, [d EXCEPT !.blocks = Front(@)])
<1> DEFINE b == d.blocks
           c == Front(b)
           e == [d EXCEPT !.blocks = c]
           p == d.index
<1>1. IsDatagram(d)  BY DEF OnTheAir
<1> HIDE DEF c
<1>2. e.interval = d.interval /\ e.index = d.index /\ e.blocks = c  BY <1>1 DEF IsDatagram
<1>3. d.index # 0 => p \in 1 .. w.total /\ ~ DecodeValid(w, e)
 <2> SUFFICES ASSUME d.index # 0 PROVE p \in 1 .. w.total /\ ~ DecodeValid(w, e)  OBVIOUS
 <2>1. p \in 1 .. w.total /\ AsSent(w, p, d)  BY DEF OnTheAir
 <2>2. /\ IsSequence(b) /\ Len(b) = (1 + KeyBlocks(w, p)) + TagBlocks(w, p)
       /\ d.interval = ExpectedInterval(w, p)
   BY <2>1 DEF AsSent, Spread
 <2>3. KeyBlocks(w, p) \in {0, 1} /\ TagBlocks(w, p) \in Nat  BY BlockCounts
 <2> HIDE DEF b, e
 <2>4. Len(c) = Len(b) - 1
  <3>1. PICK S : b \in Seq(S)  BY <2>2 DEF IsSequence
  <3> DEFINE n == Len(b)
  <3>2. n \in Nat /\ n >= 1  BY <2>2, <2>3
  <3>3. \A x \in 1 .. n : b[x] \in S  BY <3>1
  <3> HIDE DEF n
  <3>4. n - 1 \in Int /\ 1 \in Int /\ \A x \in 1 .. n - 1 : b[x] \in S  BY <3>2, <3>3
  <3> DEFINE t == SubSeq(b, 1, n - 1)
  <3>5. Len(t) = IF 1 <= n - 1 THEN n - 1 - 1 + 1 ELSE 0  BY <3>4, SubSeqProperties
  <3> HIDE DEF t
  <3>6. Len(t) = n - 1  BY <3>2, <3>5
  <3> QED  BY <3>6 DEF c, t, n, Front
 <2>5. ExpectedBlocks(w, e) = (1 + KeyBlocks(w, p)) + TagBlocks(w, p)
   BY <1>2, <2>2 DEF ExpectedBlocks, KeyBlocks
 <2>6. Len(e.blocks) # ExpectedBlocks(w, e)  BY <1>2, <2>2, <2>3, <2>4, <2>5
 <2> QED  BY <2>1, <2>6 DEF DecodeValid
<1>4. [d EXCEPT !.blocks = Front(@)] = e  BY DEF c
<1> HIDE DEF e
<1> QED  BY <1>1, <1>2, <1>3, <1>4 DEF Arriving, IsDatagram

\* The first packet of an interval, as the sender and as the codec tell it.
LEMMA KeyAgrees ==
    ASSUME NEW w, Shaped(w), NEW p \in 1 .. w.total
    PROVE  (p = FirstOf(w, ExpectedInterval(w, p))) <=> ((p - 1) % w.perInterval = 0)
<1> DEFINE n == w.perInterval
           q == (p - 1) \div n
           x == (p - 1) % n
           a == n * q
<1>1. n \in Nat \ {0} /\ p \in Nat /\ p >= 1 /\ p - 1 \in Nat  BY DEF Shaped
<1>2. FirstOf(w, ExpectedInterval(w, p)) = ((q + 1) - 1) * n + 1  BY DEF FirstOf, ExpectedInterval
<1> HIDE DEF n
<1>3. q \in Nat /\ p - 1 = n * q + x /\ x \in Nat  BY <1>1, DivisionFacts
<1>4. ((q + 1) - 1) * n = a /\ a \in Nat  BY <1>1, <1>3
<1> HIDE DEF q, x
<1>5. p - 1 = a + x  BY <1>3
<1> HIDE DEF a
<1>6. (p = a + 1) <=> (x = 0)  BY <1>1, <1>3, <1>4, <1>5
<1> QED  BY <1>2, <1>4, <1>6 DEF x, n

\* The last packet of a group, as the sender and as the codec tell it.
LEMMA GroupEndAgrees ==
    ASSUME NEW w, Shaped(w), w.mode = "improved", w.perInterval % w.shape.size = 0,
           NEW p \in 1 .. w.total
    PROVE  (p = GroupLast(w, GroupFirst(w, p))) <=> (p % w.shape.size = 0 \/ p = w.total)
<1> DEFINE n == w.perInterval
           s == w.shape.size
           t == w.total
           i == ExpectedInterval(w, p)
           q == (p - 1) \div n
           y == (p - 1) % n
           c == n \div s
           k == y \div s
           x == y % s
           a == n * q
           b == s * k
           f == p - x
           L == LastOf(w, i)
           e == (f + s) - 1
           m == s * (c * q)
<1>1. /\ n \in Nat \ {0} /\ t \in Nat /\ p \in Nat /\ p >= 1 /\ p <= t /\ p - 1 \in Nat
      /\ s \in Nat \ {0} /\ n % s = 0
  BY ShapesAssumption DEF Shaped, ValidShape
<1>2. i = q + 1 /\ FirstOf(w, i) = ((q + 1) - 1) * n + 1  BY DEF ExpectedInterval, FirstOf
<1>3. LastOf(w, i) = IF t < (q + 1) * n THEN t ELSE (q + 1) * n  BY <1>2 DEF LastOf, MinOf2
<1>4. GroupFirst(w, p) = p - ((p - FirstOf(w, i)) % s)  BY DEF GroupFirst
<1> HIDE DEF n, s, t, i
<1>5. q \in Nat /\ p - 1 = n * q + y /\ y \in Nat /\ y < n  BY <1>1, DivisionFacts
<1>6. c \in Nat /\ n = s * c + (n % s)  BY <1>1, DivisionFacts
<1>7. k \in Nat /\ y = s * k + x /\ x \in Nat /\ x < s  BY <1>1, <1>5, DivisionFacts
<1> HIDE DEF q, y, c, k, x
<1>8. /\ a \in Nat /\ b \in Nat /\ ((q + 1) - 1) * n = a /\ (q + 1) * n = a + n
      /\ p - 1 = a + y /\ y = b + x
  BY <1>1, <1>5, <1>7
<1>9. n = s * c /\ a = m /\ m \in Nat
 <2>1. n = s * c  BY <1>1, <1>6
 <2>2. a = (s * c) * q  BY <2>1
 <2>3. (s * c) * q = s * (c * q) /\ s * (c * q) \in Nat  BY <1>1, <1>5, <1>6
 <2> HIDE DEF a
 <2> QED  BY <2>1, <2>2, <2>3
<1>10. GroupFirst(w, p) = f
 <2> HIDE DEF a
 <2>1. p - FirstOf(w, i) = y  BY <1>1, <1>2, <1>5, <1>8
 <2> QED  BY <1>4, <2>1 DEF x
<1>11. ExpectedInterval(w, f) = i
 <2> DEFINE z == a + b
 <2>1. z \in Nat /\ a <= z /\ z < a + n /\ f - 1 = z
  <3> HIDE DEF a, b
  <3> QED  BY <1>1, <1>5, <1>7, <1>8
 <2>2. q * n = a  BY <1>1, <1>5
 <2> HIDE DEF z, a, f
 <2>3. z \div n = q
  <3>1. q * n <= z /\ z < (q + 1) * n  BY <1>8, <2>1, <2>2
  <3>2. n \in Nat \ {0} /\ q \in Nat /\ z \in Nat  BY <1>1, <1>5, <2>1
  <3> QED  BY <3>1, <3>2, QuotientIs
 <2>4. (f - 1) \div n = q  BY <2>1, <2>3
 <2> QED  BY <1>2, <2>4 DEF ExpectedInterval, n
<1>12. GroupLast(w, f) = IF L < e THEN L ELSE e  BY <1>1, <1>7, <1>11 DEF GroupLast, MinOf2, s
<1>13. L = IF t < a + n THEN t ELSE a + n  BY <1>3, <1>8
<1> HIDE DEF L, a
<1>14. L \in Nat /\ p <= L /\ L <= t /\ (L = t \/ L = a + n)  BY <1>1, <1>5, <1>8, <1>13
<1>15. e \in Nat /\ p <= e /\ ((p = e) <=> (x + 1 = s))  BY <1>1, <1>7
<1>16. x + 1 = s => p % s = 0
 <2> SUFFICES ASSUME x + 1 = s PROVE p % s = 0  OBVIOUS
 <2> DEFINE u == (c * q + k) + 1
 <2>1. c * q \in Nat /\ u \in Nat  BY <1>5, <1>6, <1>7
 <2>2. u * s = (m + b) + s  BY <1>1, <1>5, <1>6, <1>7
 <2> HIDE DEF u, m, b
 <2>3. p = u * s + 0  BY <1>1, <1>5, <1>7, <1>8, <1>9, <2>1, <2>2
 <2> QED  BY <1>1, <2>1, <2>3, RemainderIs
<1>17. x + 1 # s => p % s # 0
 <2> SUFFICES ASSUME x + 1 # s PROVE p % s # 0  OBVIOUS
 <2> DEFINE u == c * q + k
 <2>1. c * q \in Nat /\ u \in Nat  BY <1>5, <1>6, <1>7
 <2>2. u * s = m + b  BY <1>1, <1>5, <1>6, <1>7
 <2>3. x + 1 \in Nat /\ x + 1 < s  BY <1>1, <1>7
 <2> HIDE DEF u, m, b
 <2>4. p = u * s + (x + 1)  BY <1>1, <1>5, <1>7, <1>8, <1>9, <2>1, <2>2
 <2>5. p % s = x + 1  BY <1>1, <2>1, <2>3, <2>4, RemainderIs
 <2> QED  BY <1>7, <2>5
<1>18. p = a + n => p % s = 0
 <2> SUFFICES ASSUME p = a + n PROVE p % s = 0  OBVIOUS
 <2> DEFINE u == c * q + c
 <2>1. c * q \in Nat /\ u \in Nat  BY <1>5, <1>6
 <2>2. u * s = m + s * c  BY <1>1, <1>5, <1>6
 <2> DEFINE g == s * c
 <2>3. n = g /\ g \in Nat /\ u * s = m + g  BY <1>1, <1>9, <2>2
 <2> HIDE DEF u, m, g
 <2>4. p = u * s + 0  BY <1>1, <1>9, <2>1, <2>3
 <2> QED  BY <1>1, <2>1, <2>4, RemainderIs
<1> HIDE DEF e
<1>19. (p = GroupLast(w, f)) <=> (p = e \/ p = L)  BY <1>12, <1>14, <1>15
<1>20. (p = e \/ p = L) <=> (p % s = 0 \/ p = t)
 <2>1. ASSUME p = e \/ p = L PROVE p % s = 0 \/ p = t  BY <1>14, <1>15, <1>16, <1>18, <2>1
 <2>2. ASSUME p % s = 0 \/ p = t PROVE p = e \/ p = L  BY <1>1, <1>14, <1>15, <1>17, <2>2
 <2> QED  BY <2>1, <2>2
<1> QED  BY <1>10, <1>19, <1>20 DEF s, t

LEMMA DataEncodable ==
    ASSUME NEW w, Shaped(w), w.mode = "improved" => w.perInterval % w.shape.size = 0,
           NEW p \in 1 .. w.total
    PROVE  EncodeValid(w, DataPacket(w, p))
<1> DEFINE i == ExpectedInterval(w, p)
           first == GroupFirst(w, p)
           packet == DataPacket(w, p)
<1>1. p \in Nat /\ p > 0 /\ p <= w.total  BY DEF Shaped
<1>2. /\ packet.index = p /\ packet.interval = i
      /\ packet.key = Disclosure(w, i, p) /\ packet.tags = Tags(w, p)
  BY DEF DataPacket
<1> HIDE DEF packet, i
<1>3. (Disclosure(w, i, p) # <<>>) <=> CarriesKey(w, i, p)
 <2>1. (p = FirstOf(w, i)) <=> ((p - 1) % w.perInterval = 0)  BY KeyAgrees DEF i
 <2>2. CASE p = FirstOf(w, i) /\ i > w.delay  BY <1>1, <2>1, <2>2 DEF Disclosure, CarriesKey
 <2>3. CASE ~ (p = FirstOf(w, i) /\ i > w.delay)  BY <2>1, <2>3 DEF Disclosure, CarriesKey
 <2> QED  BY <2>2, <2>3
<1>4. Len(Tags(w, p)) = TagBlocks(w, p)
 <2>1. CASE w.mode = "native"
  <3> DEFINE mac == NativeMacs(SentGroup(w, first), i)[p - first + 1]
  <3>1. Tags(w, p) = <<mac>>  BY <2>1 DEF Tags, i
  <3> HIDE DEF mac
  <3>2. Len(Tags(w, p)) = 1  BY <3>1, OneBlock
  <3> QED  BY <2>1, <3>2 DEF TagBlocks
 <2>2. CASE w.mode = "improved"
  <3>0. w.mode # "native"  BY <2>2
  <3>1. (p = GroupLast(w, first)) <=> (p % w.shape.size = 0 \/ p = w.total)  BY <2>2, GroupEndAgrees
  <3>2. CASE p = GroupLast(w, first)
   <4>1. Tags(w, p) = ImprovedTags(w, SentGroup(w, first), i)  BY <3>0, <3>2 DEF Tags, i
   <4>2. Len(ImprovedTags(w, SentGroup(w, first), i)) = TauCount(w.shape) + 1
     BY ImprovedTagsAre DEF TagsOfGroup
   <4>3. GroupEnd(w, p)  BY <1>1, <2>2, <3>1, <3>2 DEF GroupEnd
   <4> QED  BY <2>2, <4>1, <4>2, <4>3 DEF TagBlocks
  <3>3. CASE p # GroupLast(w, first)
    BY <2>2, <3>0, <3>1, <3>3, EmptySeq DEF Tags, GroupEnd, TagBlocks
  <3> QED  BY <3>2, <3>3
 <2> QED  BY <2>1, <2>2 DEF Shaped
<1>5. packet.index # 0 /\ packet.index <= w.total  BY <1>1, <1>2
<1>6. packet.interval = ExpectedInterval(w, packet.index)  BY <1>2 DEF i
<1>7. (packet.key # <<>>) <=> CarriesKey(w, packet.interval, packet.index)  BY <1>2, <1>3, Zenon
<1>8. Len(packet.tags) = TagBlocks(w, packet.index)  BY <1>2, <1>4
<1>9. EncodeValid(w, packet)  BY <1>5, <1>6, <1>7, <1>8, Zenon DEF EncodeValid
<1> QED  BY <1>9 DEF packet

GroupOf(w, i, first) ==
    w.mode = "improved" /\ \E k \in DOMAIN GroupStarts(w, i) : first = GroupStarts(w, i)[k]

-----------------------------------------------------------------------------
(* What a group's tags locate.                                             *)

\* The first copy of the attack node, and the first that is the same datagram.
LEMMA FirstIndex ==
    ASSUME NEW q, IsSequence(q), NEW I \in SUBSET (1 .. Len(q)), NEW x, x = IF I # {} THEN Min(I) ELSE 0
    PROVE  (x # 0 <=> I # {}) /\ (x # 0 => x \in I)
<1>1. Len(q) \in Nat
 <2>1. PICK S : q \in Seq(S)  BY DEF IsSequence
 <2> QED  BY <2>1, LenProperties
<1>2. I # {} => Min(I) \in I
 <2> SUFFICES ASSUME I # {} PROVE Min(I) \in I  OBVIOUS
 <2>1. I \in SUBSET Nat  BY <1>1
 <2>2. \E y \in I : \A z \in I : y <= z  BY <2>1, LeastNat
 <2> QED  BY <2>2 DEF Min
<1>3. \A y \in I : y # 0  BY <1>1
<1> HIDE DEF Min
<1> QED  BY <1>2, <1>3

LEMMA GroupInRound ==
    ASSUME NEW w, Shaped(w), NEW i \in 1 .. DataIntervalCount(w), NEW f, GroupOf(w, i, f)
    PROVE  /\ GroupLast(w, f) \in f .. GroupLast(w, f)
           /\ f .. GroupLast(w, f) \subseteq 1 .. w.total
           /\ f .. GroupLast(w, f) \subseteq PacketsIn(w, i)
<1>1. PICK k \in DOMAIN GroupStarts(w, i) : w.mode = "improved" /\ f = GroupStarts(w, i)[k]
  BY DEF GroupOf
<1>2. /\ f \in Nat \ {0} /\ GroupLast(w, f) \in Nat /\ f <= GroupLast(w, f)
      /\ \A p \in f .. GroupLast(w, f) : p \in PacketsIn(w, i)
  BY <1>1, ImprovedGroup
<1>3. \A p \in PacketsIn(w, i) : p \in 1 .. w.total  BY InInterval
<1> QED  BY <1>2, <1>3

\* Whatever the slots and the MACs are: with the tags of what was sent, the
\* positions that differ are found.
Differ(m, macs, sent, D) ==
    /\ m \in Nat /\ Len(macs) = m /\ Len(sent) = m /\ \A x \in 1 .. m : sent[x] # NoMac
    /\ D \in SUBSET (0 .. m - 1)
    /\ \A c \in 0 .. m - 1 : c \in D <=> macs[c + 1] # sent[c + 1]

LEMMA LocateIs ==
    ASSUME NEW s \in Shapes, Separates(s), NEW m, m <= s.size,
           NEW macs, NEW sent, NEW D, Differ(m, macs, sent, D),
           NEW taus, \A q \in DOMAIN Matrix(s) : taus[q] = RowMacs(Matrix(s)[q], sent),
           NEW bad, bad = Locate(Matrices[s], s.threshold, macs, taus).bad
    PROVE  /\ D \subseteq bad /\ bad \subseteq 0 .. m - 1
           /\ Cardinality(D) <= s.threshold => bad = D
<1> DEFINE rows == Matrix(s)
           matching == {q \in DOMAIN rows : RowJudged(rows[q], macs) /\ RowMacs(rows[q], macs) = taus[q]}
           good == {c \in 0 .. m - 1 : \E q \in matching : c \in rows[q]}
<1> USE DEF Differ
<1>1. Matrices[s] = rows /\ ValidGroup(s)  BY ShapeIsGroup
<1>2. bad = (0 .. m - 1) \ good
 <2> HIDE DEF rows
 <2>1. Locate(rows, s.threshold, macs, taus) =
         [good |-> good, bad |-> (0 .. m - 1) \ good,
          exceeded |-> Cardinality((0 .. m - 1) \ good) > s.threshold]
   BY DEF Locate
 <2> HIDE DEF good
 <2> QED  BY <1>1, <2>1
<1>3. \A q \in DOMAIN rows : rows[q] \in SUBSET Nat  BY DEF Matrix
<1> HIDE DEF rows
<1>4. ASSUME NEW q \in DOMAIN rows
      PROVE  /\ q \in matching => \A c \in D : c \notin rows[q]
             /\ (\E c \in 0 .. m - 1 : c \in rows[q]) /\ rows[q] \cap D = {} => q \in matching
 <2> DEFINE row == rows[q]
            present == {c \in row : c < m}
 <2>1. /\ RowMacs(row, macs) = [c \in present |-> macs[c + 1]]
       /\ RowMacs(row, sent) = [c \in present |-> sent[c + 1]]
       /\ RowJudged(row, macs) <=> present # {} /\ \A c \in present : macs[c + 1] # NoMac
   BY DEF RowMacs, RowJudged
 <2>2. \A c \in present : c \in 0 .. m - 1 /\ c + 1 \in 1 .. m  BY <1>3
 <2>3. taus[q] = RowMacs(row, sent)  BY DEF rows
 <2>4. ASSUME q \in matching, NEW c \in D, c \in row
       PROVE  FALSE
  <3>1. c \in present /\ macs[c + 1] # sent[c + 1]  BY <2>4
  <3>2. RowMacs(row, macs) = RowMacs(row, sent)  BY <2>3, <2>4
  <3> DEFINE f == [x \in present |-> macs[x + 1]]
             g == [x \in present |-> sent[x + 1]]
  <3>3. f = g  BY <2>1, <3>2
  <3>4. f[c] = macs[c + 1] /\ g[c] = sent[c + 1]  BY <3>1
  <3> QED  BY <3>1, <3>3, <3>4
 <2>5. ASSUME NEW c \in 0 .. m - 1, c \in row, row \cap D = {}
       PROVE  q \in matching
  <3>1. c \in present  BY <2>5
  <3>2. \A x \in present : macs[x + 1] = sent[x + 1] /\ sent[x + 1] # NoMac  BY <2>2, <2>5
  <3>3. RowJudged(row, macs)  BY <2>1, <3>1, <3>2
  <3>4. RowMacs(row, macs) = RowMacs(row, sent)  BY <2>1, <3>2
  <3> QED  BY <2>3, <3>3, <3>4
 <2> QED  BY <2>4, <2>5
<1>5. D \subseteq bad
 <2> SUFFICES ASSUME NEW c \in D
              PROVE  c \in 0 .. m - 1 /\ c \notin good
   BY <1>2
 <2>1. \A q \in matching : c \notin rows[q]  BY <1>4
 <2> QED  BY <2>1
<1> DEFINE HasCleanRow(E, c) == \E q \in DOMAIN Matrix(s) : c \in Matrix(s)[q] /\ Matrix(s)[q] \cap E = {}
<1>7. \A E \in SUBSET (0 .. s.size - 1) : \A c \in 0 .. s.size - 1 :
         Cardinality(E) <= s.threshold /\ c \notin E => HasCleanRow(E, c)
  BY <1>1, CleanRow
<1> HIDE DEF HasCleanRow
<1>6. ASSUME Cardinality(D) <= s.threshold, NEW c \in 0 .. m - 1, c \notin D
      PROVE  c \in good
 <2>1. D \in SUBSET (0 .. s.size - 1) /\ c \in 0 .. s.size - 1  BY <1>1 DEF ValidGroup
 <2> HIDE DEF matching
 <2>4. HasCleanRow(D, c)  BY <1>6, <1>7, <2>1, Zenon
 <2>2. PICK q \in DOMAIN Matrix(s) : c \in Matrix(s)[q] /\ Matrix(s)[q] \cap D = {}
   BY <2>4 DEF HasCleanRow
 <2>3. q \in matching  BY <1>4, <1>6, <2>2 DEF rows
 <2> QED  BY <2>2, <2>3 DEF rows
<1> HIDE DEF good
<1> QED  BY <1>2, <1>5, <1>6

\* Every packet of an interval is in one of its groups.
LEMMA GroupsCover ==
    ASSUME NEW w, Shaped(w), w.mode = "improved", NEW i \in 1 .. DataIntervalCount(w), NEW p \in PacketsIn(w, i)
    PROVE  \E k \in DOMAIN GroupStarts(w, i) : p \in GroupStarts(w, i)[k] .. GroupLast(w, GroupStarts(w, i)[k])
<1> DEFINE s == w.shape.size
           F == FirstOf(w, i)
           L == LastOf(w, i)
           c == (L - F) \div s
           x == p - F
           j == x \div s
           k == j + 1
           f == GroupStarts(w, i)[k]
<1>1. s \in Nat \ {0}  BY ShapesAssumption DEF Shaped, ValidShape
<1>2. i \in Nat \ {0} /\ F \in Nat \ {0} /\ L \in Nat /\ F <= L /\ L - F \in Nat
  BY IntervalHasPackets
<1>3. p \in Nat /\ F <= p /\ p <= L /\ x \in Nat /\ x <= L - F  BY <1>2 DEF PacketsIn
<1>4. /\ c \in Nat /\ L - F = s * c + ((L - F) % s) /\ (L - F) % s \in Nat /\ (L - F) % s < s
      /\ j \in Nat /\ x = s * j + (x % s) /\ x % s \in Nat /\ x % s < s
  BY <1>1, <1>2, <1>3, DivisionFacts
<1>5. DOMAIN GroupStarts(w, i) = 1 .. c + 1 /\ \A m \in 1 .. c + 1 : GroupStarts(w, i)[m] = F + (m - 1) * s
  BY DEF GroupStarts
<1> DEFINE u == (L - F) % s
           v == x % s
           last == IF L < (f + s) - 1 THEN L ELSE (f + s) - 1
<1>6. j <= c
 <2> SUFFICES ASSUME ~ (j <= c) PROVE FALSE  OBVIOUS
 <2>1. j - (c + 1) \in Nat /\ j = (c + 1) + (j - (c + 1))  BY <1>4
 <2>2. PICK d \in Nat : j = (c + 1) + d  BY <2>1
 <2> HIDE DEF s, L, F, c, x, j
 <2>3. s * j = (s * c + s) + s * d /\ s * d \in Nat /\ s * c \in Nat  BY <1>1, <1>4, <2>2
 <2> QED  BY <1>1, <1>2, <1>3, <1>4, <2>3
<1>7. k \in 1 .. c + 1 /\ k - 1 = j  BY <1>4, <1>6
<1>8. f = F + j * s  BY <1>5, <1>7
<1>9. k \in DOMAIN GroupStarts(w, i)  BY <1>5, <1>7
<1> HIDE DEF k
<1>10. ExpectedInterval(w, f) = i  BY <1>2, <1>9, ImprovedGroup, InInterval
<1>11. j * s = s * j /\ s * j \in Nat
 <2> HIDE DEF s, j
 <2> QED  BY <1>1, <1>4
<1>12. f \in Nat /\ f <= p /\ p < f + s
 <2> DEFINE a == s * j
 <2>1. a \in Nat /\ f = F + a /\ x = a + v /\ v \in Nat /\ v < s  BY <1>4, <1>8, <1>11
 <2> HIDE DEF a, f, v, s
 <2> QED  BY <1>1, <1>2, <1>3, <2>1
<1>13. GroupLast(w, f) = last
 <2> HIDE DEF f
 <2>1. f + s - 1 = (f + s) - 1  BY <1>1, <1>12
 <2> QED  BY <1>10, <2>1 DEF GroupLast, MinOf2
<1>14. last \in Nat /\ p <= last
 <2> HIDE DEF f, s
 <2> QED  BY <1>1, <1>2, <1>3, <1>12
<1> HIDE DEF last, f
<1>15. p \in f .. GroupLast(w, f)  BY <1>3, <1>12, <1>13, <1>14
<1> QED  BY <1>9, <1>15 DEF f

\* What is sent can be read, unless a block is cut.
LEMMA SentIsReadable ==
    ASSUME NEW w, Shaped(w), NEW d, OnTheAir(w, d), d.index # 0
    PROVE  DecodeValid(w, d)
<1>1. d.index \in 1 .. w.total /\ AsSent(w, d.index, d) /\ w.total \in Nat  BY DEF OnTheAir, Shaped
<1> DEFINE p == d.index
<1>2. d.interval = ExpectedInterval(w, p) /\ Len(d.blocks) = (1 + KeyBlocks(w, p)) + TagBlocks(w, p)
  BY <1>1 DEF AsSent, Spread
<1>3. ExpectedBlocks(w, d) = (1 + KeyBlocks(w, p)) + TagBlocks(w, p)
  BY <1>2 DEF ExpectedBlocks, KeyBlocks
<1>4. d.interval > 0  BY <1>1, <1>2, IntervalOf
<1>5. d.index <= w.total  BY <1>1
<1> QED  BY <1>2, <1>3, <1>4, <1>5 DEF DecodeValid, HeaderValid

\* A data packet on the air, as its sender built it.
LEMMA DataOnTheAir ==
    ASSUME NEW w, Shaped(w), Buildable(w), NEW i \in 1 .. FinalInterval(w),
           NEW n \in DOMAIN Datagrams(w, i), NEW d, d = Datagrams(w, i)[n]
    PROVE  /\ i <= DataIntervalCount(w) => d.index = FirstOf(w, i) + n - 1
           /\ d.index # 0 =>
                /\ d.blocks[1] = Message(w, d.index)
                /\ \A j \in 1 .. TagBlocks(w, d.index) :
                     d.blocks[(1 + KeyBlocks(w, d.index)) + j] = Tags(w, d.index)[j]
<1> DEFINE packet == IntervalPackets(w, i)[n]
           f == FirstOf(w, i)
           last == LastOf(w, i)
<1>1. n \in DOMAIN IntervalPackets(w, i) /\ d = Encode(packet)  BY DEF Datagrams
<1>2. EncodeValid(w, packet)  BY <1>1 DEF Buildable
<1>3. CASE i <= DataIntervalCount(w)
 <2>1. i \in 1 .. DataIntervalCount(w)  BY <1>3, IntervalsAreNumbers
 <2>2. f \in Nat \ {0} /\ last \in Nat /\ f <= last /\ i \in Nat \ {0}  BY <2>1, IntervalHasPackets
 <2>3. IntervalPackets(w, i) = [m \in 1 .. last - f + 1 |-> DataPacket(w, f + m - 1)]
   BY <1>3 DEF IntervalPackets
 <2> DEFINE p == f + n - 1
 <2>4. n \in 1 .. last - f + 1  BY <1>1, <2>3
 <2>5. packet = DataPacket(w, p)  BY <2>3, <2>4
 <2>6. p \in f .. last  BY <2>2, <2>4
 <2>10. p = FirstOf(w, i) + n - 1  OBVIOUS
 <2> HIDE DEF packet, p
 <2>7. p \in 1 .. w.total  BY <2>2, <2>6, InInterval DEF PacketsIn
 <2>8. d.index = p /\ d.blocks = SentBlock(w, p)  BY <1>1, <2>5 DEF Encode, DataPacket, SentBlock
 <2>9. /\ SentBlock(w, p)[1] = Message(w, p)
       /\ \A j \in 1 .. TagBlocks(w, p) :
            SentBlock(w, p)[(1 + KeyBlocks(w, p)) + j] = Tags(w, p)[j]
   BY <1>2, <2>5, <2>7, SentParts
 <2> QED  BY <2>8, <2>9, <2>10
<1>4. CASE ~ (i <= DataIntervalCount(w))
 <2>1. IntervalPackets(w, i) = <<TailPacket(w, i)>>  BY <1>4 DEF IntervalPackets
 <2>2. n = 1  BY <1>1, <2>1
 <2>3. packet = TailPacket(w, i)  BY <2>1, <2>2
 <2>4. d.index = 0  BY <1>1, <2>3 DEF Encode, TailPacket
 <2> QED  BY <1>4, <2>4
<1> QED  BY <1>3, <1>4

-----------------------------------------------------------------------------
(* The payload, which the messages of a round give back.                   *)

LEMMA PaddedIs ==
    ASSUME NEW bytes \in Seq(Nat), Len(bytes) <= MessageSize
    PROVE  /\ Padded(bytes) \in Seq(Nat) /\ Len(Padded(bytes)) = MessageSize
           /\ \A k \in 1 .. MessageSize :
                Padded(bytes)[k] = IF k <= Len(bytes) THEN bytes[k] ELSE 0
<1> DEFINE n == MessageSize - Len(bytes)
           zeros == [i \in 1 .. n |-> 0]
<1>1. MessageSize \in Nat /\ n \in Nat /\ Len(bytes) \in Nat  BY MessageSizeAssumption
<1>2. zeros \in Seq(Nat) /\ Len(zeros) = n /\ \A i \in 1 .. n : zeros[i] = 0  BY <1>1
<1>3. Padded(bytes) = bytes \o zeros  BY DEF Padded
<1> HIDE DEF zeros
<1> QED  BY <1>1, <1>2, <1>3

LEMMA TextComesBack ==
    ASSUME NEW bytes \in Seq(Nat), bytes # <<>>, Len(bytes) <= MessageSize,
           \A k \in DOMAIN bytes : bytes[k] # 0
    PROVE  Text(Padded(bytes)) = bytes
<1> DEFINE m == Padded(bytes)
           n == Len(bytes)
           marked == {i \in DOMAIN m : m[i] # 0} \cup {0}
<1>1. /\ m \in Seq(Nat) /\ Len(m) = MessageSize /\ DOMAIN m = 1 .. MessageSize
      /\ \A k \in 1 .. MessageSize : m[k] = IF k <= n THEN bytes[k] ELSE 0
  BY PaddedIs
<1>2. n \in Nat \ {0} /\ MessageSize \in Nat /\ n <= MessageSize /\ DOMAIN bytes = 1 .. n
  BY MessageSizeAssumption
<1> HIDE DEF m
<1>3. \A i \in 1 .. MessageSize : m[i] # 0 <=> i <= n  BY <1>1, <1>2
<1>4. marked = 0 .. n  BY <1>1, <1>2, <1>3
<1>5. Max(marked) = n
 <2> DEFINE Is(x) == x \in 0 .. n /\ \A y \in 0 .. n : x >= y
 <2>1. Is(n) /\ \A x : Is(x) => x = n  BY <1>2
 <2>2. Max(marked) = CHOOSE x \in 0 .. n : \A y \in 0 .. n : x >= y  BY <1>4 DEF Max
 <2> QED  BY <2>1, <2>2
<1>6. Text(m) = SubSeq(m, 1, n)  BY <1>5 DEF Text
<1>7. /\ SubSeq(m, 1, n) \in Seq(Nat) /\ Len(SubSeq(m, 1, n)) = n
      /\ \A i \in 1 .. n : SubSeq(m, 1, n)[i] = m[i]
  BY <1>1, <1>2
<1>8. SubSeq(m, 1, n) = bytes  BY <1>1, <1>2, <1>7
<1> QED  BY <1>6, <1>8 DEF m

\* The sequences that FlattenSeq joins one by one.
IsJoining(f, s) == f = [i \in 1 .. Len(s) |-> IF i = 1 THEN s[i] ELSE f[i - 1] \o s[i]]

LEMMA FlattenIsJoining ==
    ASSUME NEW s, Len(s) # 0
    PROVE  FlattenSeq(s) = (CHOOSE f : IsJoining(f, s))[Len(s)]
  BY DEF FlattenSeq, IsJoining

LEMMA JoiningExists ==
    ASSUME NEW S, NEW s \in Seq(Seq(S)), Len(s) # 0
    PROVE  \E f : IsJoining(f, s)
<1> DEFINE N == Len(s)
           step == [n \in 1 .. N |-> [a \in Seq(S) |-> a \o s[n]]]
<1>1. N \in Nat /\ \A n \in 1 .. N : s[n] \in Seq(S)  BY ElementOfSeq
<1>2. \A n \in 1 .. N, a \in Seq(S) : a \o s[n] \in Seq(S)  BY <1>1
<1>3. <<>> \in Seq(S) /\ step \in [1 .. N -> [Seq(S) -> Seq(S)]]  BY <1>2
<1>4. \A n \in 1 .. N, a \in Seq(S) : step[n][a] = a \o s[n]  OBVIOUS
<1> HIDE DEF step, N
<1>5. PICK h \in [0 .. N -> Seq(S)] : IsRecursion(h, N, <<>>, step)
  BY <1>1, <1>3, RecursionExists DEF RecursionInput
<1> DEFINE f == [i \in 1 .. N |-> h[i]]
<1>6. ASSUME NEW i \in 1 .. N
      PROVE  f[i] = IF i = 1 THEN s[i] ELSE f[i - 1] \o s[i]
 <2>1. h[i] = step[i][h[i - 1]] /\ h[0] = <<>> /\ h[i - 1] \in Seq(S)  BY <1>1, <1>5 DEF IsRecursion
 <2>2. h[i] = h[i - 1] \o s[i]  BY <1>4, <2>1
 <2>3. CASE i = 1
  <3>1. s[i] \in Seq(S)  BY <1>1
  <3>2. <<>> \o s[i] = s[i]  BY <3>1
  <3>3. h[i - 1] = <<>>  BY <2>1, <2>3
  <3>4. f[i] = h[i]  OBVIOUS
  <3>5. f[i] = s[i]  BY <2>2, <3>2, <3>3, <3>4, Zenon
  <3> QED  BY <2>3, <3>5, Zenon
 <2>4. CASE i # 1
  <3>1. i - 1 \in 1 .. N  BY <1>1, <2>4
  <3> QED  BY <2>2, <2>4, <3>1
 <2> QED  BY <2>3, <2>4
<1>7. f = [i \in 1 .. N |-> IF i = 1 THEN s[i] ELSE f[i - 1] \o s[i]]  BY <1>6
<1> QED  BY <1>7 DEF IsJoining, N

LEMMA JoiningIs ==
    ASSUME NEW S, NEW s \in Seq(Seq(S)), Len(s) # 0
    PROVE  \E f : /\ FlattenSeq(s) = f[Len(s)] /\ f[1] = s[1]
                  /\ \A i \in 2 .. Len(s) : f[i] = f[i - 1] \o s[i]
<1> DEFINE f == CHOOSE f : IsJoining(f, s)
<1>1. IsJoining(f, s)  BY JoiningExists
<1>2. FlattenSeq(s) = f[Len(s)]  BY FlattenIsJoining
<1> HIDE DEF f
<1>3. Len(s) \in Nat  OBVIOUS
<1>4. f[1] = s[1] /\ \A i \in 2 .. Len(s) : f[i] = f[i - 1] \o s[i]
 <2>1. \A i \in 1 .. Len(s) : f[i] = IF i = 1 THEN s[i] ELSE f[i - 1] \o s[i]  BY <1>1 DEF IsJoining
 <2>2. 1 \in 1 .. Len(s) /\ \A i \in 2 .. Len(s) : i \in 1 .. Len(s) /\ i # 1  BY <1>3
 <2> QED  BY <2>1, <2>2, Zenon
<1> QED  BY <1>2, <1>4

\* The byte at a place of a file, and the padding after it.
ByteAt(bytes, k) == IF k <= Len(bytes) THEN bytes[k] ELSE 0

LEMMA PacketsOfFile ==
    ASSUME NEW bytes \in Seq(Nat), bytes # <<>>, NEW n, n = FilePackets(bytes)
    PROVE  /\ n \in Nat \ {0} /\ n * MessageSize \in Nat /\ Len(bytes) <= n * MessageSize
           /\ \A p \in 1 .. n : (p - 1) * MessageSize \in Nat /\ (p - 1) * MessageSize < Len(bytes)
<1> DEFINE M == MessageSize
           length == Len(bytes)
           t == length + M - 1
<1>1. M \in Nat \ {0} /\ length \in Nat \ {0} /\ t \in Nat  BY MessageSizeAssumption
<1>2. n = t \div M  BY DEF FilePackets
<1>3. n \in Nat /\ t % M \in Nat /\ t % M < M /\ t = M * n + (t % M)  BY <1>1, <1>2, DivisionFacts
<1>4. \A a, b \in Nat : a * b \in Nat /\ a * b = b * a  BY SMT
<1>5. \A a, b, c \in Nat : a <= b => a * c <= b * c  BY SMT
<1>6. \A b \in Nat : 0 * b = 0  BY SMT
<1>7. n * M \in Nat /\ n * M = M * n  BY <1>1, <1>3, <1>4
<1> HIDE DEF t, M, length
<1>8. t = length + M - 1  BY DEF t
<1>9. length <= n * M  BY <1>1, <1>3, <1>7, <1>8
<1>10. n # 0  BY <1>1, <1>3, <1>6, <1>9
<1>11. ASSUME NEW p \in 1 .. n
       PROVE  (p - 1) * M \in Nat /\ (p - 1) * M < length
 <2>1. p - 1 \in Nat /\ n - 1 \in Nat /\ p - 1 <= n - 1  BY <1>3, <1>10
 <2>2. (p - 1) * M \in Nat /\ (p - 1) * M <= (n - 1) * M /\ (n - 1) * M \in Nat
   BY <1>1, <1>4, <1>5, <2>1
 <2>3. (n - 1) * M = n * M - M  BY <1>1, <1>3, SMT
 <2>4. n * M - M < length  BY <1>1, <1>3, <1>7, <1>8
 <2> QED  BY <1>1, <2>2, <2>3, <2>4
<1> QED  BY <1>3, <1>7, <1>9, <1>10, <1>11 DEF M, length

\* Part of a sequence.
LEMMA SubSeqIs ==
    ASSUME NEW S, NEW s \in Seq(S), NEW a \in 1 .. Len(s), NEW b \in 1 .. Len(s), a <= b
    PROVE  /\ SubSeq(s, a, b) \in Seq(S) /\ Len(SubSeq(s, a, b)) = b - a + 1
           /\ \A k \in 1 .. b - a + 1 : SubSeq(s, a, b)[k] = s[a + k - 1]
  BY ElementOfSeq, SubSeqProperties

\* A sequence holds the bytes of a file after a place.
Holds(bytes, from, s, n) ==
    s \in Seq(Nat) /\ Len(s) = n /\ \A k \in 1 .. n : s[k] = ByteAt(bytes, from + k)

LEMMA JoinedBytes ==
    ASSUME NEW bytes, NEW x \in Nat, NEW y \in Nat, NEW a, NEW b,
           Holds(bytes, 0, a, x), Holds(bytes, x, b, y)
    PROVE  Holds(bytes, 0, a \o b, x + y)
<1>0. /\ a \in Seq(Nat) /\ Len(a) = x /\ \A k \in 1 .. x : a[k] = ByteAt(bytes, k)
      /\ b \in Seq(Nat) /\ Len(b) = y /\ \A k \in 1 .. y : b[k] = ByteAt(bytes, x + k)
  BY DEF Holds
<1>1. /\ a \o b \in Seq(Nat) /\ Len(a \o b) = x + y
      /\ \A k \in 1 .. x + y : (a \o b)[k] = IF k <= x THEN a[k] ELSE b[k - x]
  BY <1>0, ConcatProperties
<1>2. ASSUME NEW k \in 1 .. x + y
      PROVE  (a \o b)[k] = ByteAt(bytes, k)
 <2>1. CASE k <= x  BY <1>0, <1>1, <2>1
 <2>2. CASE ~ (k <= x)  BY <1>0, <1>1, <2>2
 <2> QED  BY <2>1, <2>2
<1>3. \A k \in 1 .. x + y : 0 + k = k  OBVIOUS
<1> QED  BY <1>1, <1>2, <1>3 DEF Holds

LEMMA SliceIs ==
    ASSUME NEW bytes \in Seq(Nat), NEW offset \in Nat, offset < Len(bytes), NEW m,
           m = Padded(SubSeq(bytes, offset + 1, offset + MinOf2(MessageSize, Len(bytes) - offset)))
    PROVE  /\ m \in Seq(Nat) /\ Len(m) = MessageSize
           /\ \A k \in 1 .. MessageSize : m[k] = ByteAt(bytes, offset + k)
<1> DEFINE n == MinOf2(MessageSize, Len(bytes) - offset)
           part == SubSeq(bytes, offset + 1, offset + n)
<1>1. MessageSize \in Nat \ {0} /\ Len(bytes) \in Nat  BY MessageSizeAssumption
<1>2. n \in Nat \ {0} /\ n <= MessageSize /\ offset + n <= Len(bytes)
      /\ \A k \in 1 .. MessageSize : k <= n <=> offset + k <= Len(bytes)
  BY <1>1 DEF MinOf2
<1> HIDE DEF n
<1> DEFINE from == offset + 1
           to == offset + n
<1>3. part \in Seq(Nat) /\ Len(part) = n /\ \A k \in 1 .. n : part[k] = bytes[offset + k]
 <2>1. from \in 1 .. Len(bytes) /\ to \in 1 .. Len(bytes) /\ from <= to /\ to - from + 1 = n
   BY <1>1, <1>2
 <2>2. \A k \in 1 .. n : from + k - 1 = offset + k /\ offset + k \in 1 .. Len(bytes)  BY <1>1, <1>2
 <2>3. part = SubSeq(bytes, from, to)  OBVIOUS
 <2> HIDE DEF from, to, part
 <2>4. /\ SubSeq(bytes, from, to) \in Seq(Nat) /\ Len(SubSeq(bytes, from, to)) = to - from + 1
       /\ \A k \in 1 .. to - from + 1 : SubSeq(bytes, from, to)[k] = bytes[from + k - 1]
   BY <1>1, <2>1, SubSeqIs
 <2> QED  BY <2>1, <2>2, <2>3, <2>4
<1>4. m = Padded(part)  BY DEF n
<1> HIDE DEF part
<1>5. /\ m \in Seq(Nat) /\ Len(m) = MessageSize
      /\ \A k \in 1 .. MessageSize : m[k] = IF k <= n THEN part[k] ELSE 0
  BY <1>2, <1>3, <1>4, PaddedIs
<1>6. ASSUME NEW k \in 1 .. MessageSize
      PROVE  m[k] = ByteAt(bytes, offset + k)
 <2>1. CASE k <= n
  <3>1. offset + k <= Len(bytes) /\ k \in 1 .. n  BY <1>2, <2>1
  <3> QED  BY <1>3, <1>5, <2>1, <3>1 DEF ByteAt
 <2>2. CASE ~ (k <= n)  BY <1>2, <1>5, <2>2 DEF ByteAt
 <2> QED  BY <2>1, <2>2
<1> QED  BY <1>5, <1>6

LEMMA FileSlices ==
    ASSUME NEW w, w.payload.kind = "file", w.payload.bytes \in Seq(Nat), w.payload.bytes # <<>>,
           NEW p \in 1 .. FilePackets(w.payload.bytes)
    PROVE  /\ Message(w, p) \in Seq(Nat) /\ Len(Message(w, p)) = MessageSize
           /\ \A k \in 1 .. MessageSize :
                Message(w, p)[k] = ByteAt(w.payload.bytes, (p - 1) * MessageSize + k)
<1> DEFINE bytes == w.payload.bytes
           offset == (p - 1) * MessageSize
           m == Message(w, p)
<1>1. offset \in Nat /\ offset < Len(bytes)  BY PacketsOfFile
<1>2. w.payload.kind # "text"  OBVIOUS
<1>3. m = Padded(SubSeq(bytes, offset + 1, offset + MinOf2(MessageSize, Len(bytes) - offset)))
  BY <1>2 DEF Message
<1>4. bytes \in Seq(Nat)  OBVIOUS
<1> HIDE DEF m, offset, bytes
<1>5. /\ m \in Seq(Nat) /\ Len(m) = MessageSize
      /\ \A k \in 1 .. MessageSize : m[k] = ByteAt(bytes, offset + k)
  BY <1>1, <1>3, <1>4, SliceIs
<1> QED  BY <1>5 DEF m, offset, bytes

LEMMA FileComesBack ==
    ASSUME NEW w, w.payload.kind = "file", w.payload.bytes \in Seq(Nat), w.payload.bytes # <<>>,
           w.total = FilePackets(w.payload.bytes),
           NEW messages, Len(messages) = w.total, messages \in Seq(Seq(Nat)),
           \A n \in 1 .. w.total : messages[n] = Message(w, n)
    PROVE  RecoveredFile(w, messages) = w.payload.bytes
<1> DEFINE bytes == w.payload.bytes
           N == w.total
           M == MessageSize
<1>1. /\ N \in Nat \ {0} /\ N * M \in Nat /\ Len(bytes) <= N * M  BY PacketsOfFile
<1>2. M \in Nat \ {0} /\ Len(bytes) \in Nat  BY MessageSizeAssumption
<1>4. messages \in Seq(Seq(Nat)) /\ Len(messages) = N  OBVIOUS
<1>3. \A n \in 1 .. N : Holds(bytes, (n - 1) * M, messages[n], M)
 <2> SUFFICES ASSUME NEW n \in 1 .. N
              PROVE  Holds(bytes, (n - 1) * M, messages[n], M)
   OBVIOUS
 <2>1. messages[n] = Message(w, n)  OBVIOUS
 <2>2. /\ Message(w, n) \in Seq(Nat) /\ Len(Message(w, n)) = M
       /\ \A k \in 1 .. M : Message(w, n)[k] = ByteAt(bytes, (n - 1) * M + k)
   BY FileSlices
 <2> HIDE DEF bytes, N, M
 <2> QED  BY <2>1, <2>2, Zenon DEF Holds
<1> HIDE DEF N, M
<1>5. PICK f : /\ FlattenSeq(messages) = f[N] /\ f[1] = messages[1]
               /\ \A i \in 2 .. N : f[i] = f[i - 1] \o messages[i]
 <2>1. Len(messages) # 0  BY <1>1, <1>4
 <2>2. \E f : /\ FlattenSeq(messages) = f[Len(messages)] /\ f[1] = messages[1]
               /\ \A i \in 2 .. Len(messages) : f[i] = f[i - 1] \o messages[i]
   BY <1>4, <2>1, JoiningIs
 <2> QED  BY <1>4, <2>2
<1> DEFINE Right(s, n) == Holds(bytes, 0, s, n * M)
           T == {n \in Nat : n + 1 \in 1 .. N => Right(f[n + 1], n + 1)}
<1> HIDE DEF bytes, N, M
<1>6. \A n \in Nat : n * M \in Nat /\ (n + 1) * M = n * M + M  BY <1>2, SMT
<1>7. 0 \in T
 <2>1. 1 * M = M /\ (1 - 1) * M = 0  BY <1>2, SMT
 <2>2. 1 \in 1 .. N  BY <1>1
 <2>3. Holds(bytes, (1 - 1) * M, messages[1], M)  BY <1>3, <2>2, Zenon
 <2>4. Right(f[1], 1)  BY <1>5, <2>1, <2>3, Zenon
 <2> HIDE DEF Right
 <2> QED  BY <2>4
<1>8. ASSUME NEW n \in T
      PROVE  n + 1 \in T
 <2> SUFFICES ASSUME n + 2 \in 1 .. N PROVE Right(f[n + 2], n + 2)
  <3>1. n \in Nat /\ n + 1 + 1 = n + 2  OBVIOUS
  <3> QED  BY <3>1
 <2>1. n \in Nat /\ n + 1 \in 1 .. N /\ n + 2 \in 2 .. N /\ n + 2 - 1 = n + 1  BY <1>1
 <2>2. PICK i : i = n + 2 /\ i \in 2 .. N /\ i - 1 = n + 1 /\ i \in 1 .. N  BY <2>1
 <2> DEFINE a == f[i - 1]
            b == messages[i]
            x == (i - 1) * M
 <2>3. Holds(bytes, 0, a, x)  BY <2>1, <2>2
 <2>4. Holds(bytes, x, b, M)  BY <1>3, <2>2, Zenon
 <2>5. f[i] = a \o b  BY <1>5, <2>2, Zenon
 <2>6. x \in Nat /\ i * M = x + M
  <3>1. i - 1 \in Nat /\ i - 1 + 1 = i  BY <2>1, <2>2
  <3> HIDE DEF T
  <3> QED  BY <1>6, <3>1, Zenon
 <2> HIDE DEF a, b, x, T
 <2>7. Holds(bytes, 0, a \o b, x + M)  BY <1>2, <2>3, <2>4, <2>6, JoinedBytes
 <2>8. Right(f[i], i)  BY <2>5, <2>6, <2>7, Zenon
 <2> HIDE DEF Right
 <2> QED  BY <2>2, <2>8
<1> HIDE DEF T, Right
<1>9. T = Nat  BY <1>7, <1>8, NatSetInduction DEF T
<1>10. Right(f[N], N)
 <2>1. N - 1 \in Nat /\ N - 1 + 1 = N /\ N \in 1 .. N  BY <1>1
 <2>2. N - 1 \in T  BY <1>9, <2>1
 <2> QED  BY <2>1, <2>2 DEF T
<1> DEFINE all == FlattenSeq(messages)
<1>11. all \in Seq(Nat) /\ Len(all) = N * M /\ \A k \in 1 .. N * M : all[k] = ByteAt(bytes, k)
  BY <1>1, <1>5, <1>10 DEF Right, Holds
<1>12. RecoveredFile(w, messages) = SubSeq(all, 1, Len(bytes))  BY <1>4 DEF RecoveredFile, N, bytes
<1> HIDE DEF all
<1>13. bytes \in Seq(Nat)  BY DEF bytes
<1>14. SubSeq(all, 1, Len(bytes)) = bytes
 <2>1. \A i \in 1 .. Len(bytes) : i \in 1 .. N * M  BY <1>1, <1>2
 <2>2. \A i \in 1 .. Len(bytes) : all[i] = bytes[i]  BY <1>2, <1>11, <2>1 DEF ByteAt
 <2>3. \A i \in 1 .. Len(bytes) : all[i] \in Nat  BY <1>11, <2>1
 <2>4. /\ SubSeq(all, 1, Len(bytes)) \in Seq(Nat)
       /\ Len(SubSeq(all, 1, Len(bytes))) = Len(bytes)
       /\ \A i \in 1 .. Len(bytes) : SubSeq(all, 1, Len(bytes))[i] = all[i]
   BY <1>1, <1>2, <1>11
 <2> QED  BY <1>13, <2>2, <2>4
<1> QED  BY <1>12, <1>14 DEF bytes

-----------------------------------------------------------------------------
(* What the channel writes in a datagram is not what the sender wrote.      *)

\* In improved mode an interval is a number of whole groups.
Grouped(w) == Shaped(w) /\ (w.mode = "improved" => w.perInterval % w.shape.size = 0)

\* Only the last packet of a group has tags.
LEMMA GroupTags ==
    ASSUME NEW w, Grouped(w), w.mode = "improved", NEW i \in 1 .. DataIntervalCount(w),
           NEW k \in DOMAIN GroupStarts(w, i), NEW f, f = GroupStarts(w, i)[k],
           NEW p \in f .. GroupLast(w, f)
    PROVE  /\ p \in 1 .. w.total
           /\ TagBlocks(w, p) = IF p = GroupLast(w, f) THEN TauCount(w.shape) + 1 ELSE 0
<1>3. Shaped(w) /\ w.perInterval % w.shape.size = 0  BY DEF Grouped
<1>1. p \in PacketsIn(w, i) /\ GroupFirst(w, p) = f  BY <1>3, ImprovedGroup
<1>2. p \in 1 .. w.total  BY <1>1, <1>3, InInterval
<1>4. (p = GroupLast(w, f)) <=> (p % w.shape.size = 0 \/ p = w.total)
  BY <1>1, <1>2, <1>3, GroupEndAgrees
<1>5. p > 0  BY <1>2
<1>6. GroupEnd(w, p) <=> p = GroupLast(w, f)  BY <1>4, <1>5, Zenon DEF GroupEnd
<1>7. w.mode # "native"  OBVIOUS
<1> QED  BY <1>2, <1>6, <1>7 DEF TagBlocks

LEMMA RowIsNoMark ==
    ASSUME NEW row, NEW macs, NEW f, NEW last, NEW w, NEW key, NEW interval, f \in Nat, last \in Nat,
           SentMacsAre(macs, w, f, last, key, interval)
    PROVE  RowMacs(row, macs) # << <<Outside>> >>
<1> SUFFICES ASSUME RowMacs(row, macs) = << <<Outside>> >> PROVE FALSE  OBVIOUS
<1> DEFINE S == {c \in row : c < Len(macs)}
           tau == RowMacs(row, macs)
<1>1. tau = [c \in S |-> macs[c + 1]]  BY DEF RowMacs
<1>0. tau = << <<Outside>> >>  OBVIOUS
<1> HIDE DEF tau
<1>2. DOMAIN tau = {1} /\ tau[1] = <<Outside>>
 <2> DEFINE mark == <<Outside>>
 <2>1. tau = <<mark>>  BY <1>0
 <2> HIDE DEF mark
 <2>2. DOMAIN tau = {1} /\ tau[1] = mark  BY <2>1
 <2> QED  BY <2>2 DEF mark
<1>3. 1 \in S /\ macs[2] = <<Outside>>
 <2>1. DOMAIN tau = S  BY <1>1
 <2>2. 1 \in S  BY <1>2, <2>1
 <2>3. tau[1] = macs[1 + 1]  BY <1>1, <2>2
 <2> QED  BY <1>2, <2>2, <2>3
<1>4. f + 1 \in f .. last  BY <1>3 DEF SentMacsAre
<1>5. macs[((f + 1) - f) + 1] = <<key, interval, f + 1, Message(w, f + 1)>>  BY <1>4 DEF SentMacsAre
<1>6. ((f + 1) - f) + 1 = 2  OBVIOUS
<1>7. \E p : macs[2] = <<key, interval, p, Message(w, p)>>  BY <1>5, <1>6
<1> QED  BY <1>3, <1>7, MarksAreNoTags

LEMMA TagIsNoMark ==
    ASSUME NEW w, Grouped(w), NEW p \in 1 .. w.total, NEW j \in 1 .. TagBlocks(w, p)
    PROVE  /\ Tags(w, p)[j] # << <<Outside>> >>
           /\ j = TagBlocks(w, p) => Tags(w, p)[j] # <<Outside>>
<1> DEFINE i == ExpectedInterval(w, p)
           f == GroupFirst(w, p)
           group == SentGroup(w, f)
           n == TauCount(w.shape)
<1>1. Shaped(w) /\ w.mode \in {"native", "improved"} /\ w.total \in Nat  BY DEF Grouped, Shaped
<1>2. i \in 1 .. DataIntervalCount(w) /\ p \in PacketsIn(w, i) /\ i \in Nat \ {0}  BY <1>1, IntervalOf
<1>3. CASE w.mode = "native"
 <2>1. Tags(w, p) = << <<i, i, p, Message(w, p)>> >>  BY <1>1, <1>2, <1>3, NativeTag
 <2>2. TagBlocks(w, p) = 1  BY <1>3 DEF TagBlocks
 <2>3. j = 1  BY <2>2
 <2>4. Tags(w, p)[j] = <<i, i, p, Message(w, p)>>  BY <2>1, <2>3
 <2> QED  BY <2>4, MarksAreNoTags
<1>4. CASE w.mode = "improved"
 <2>1. GroupEnd(w, p) /\ TagBlocks(w, p) = n + 1  BY <1>4 DEF TagBlocks
 <2>2. PICK k \in DOMAIN GroupStarts(w, i) : p \in GroupStarts(w, i)[k] .. GroupLast(w, GroupStarts(w, i)[k])
   BY <1>1, <1>2, <1>4, GroupsCover
 <2>3. GroupFirst(w, p) = GroupStarts(w, i)[k]  BY <1>1, <1>2, <1>4, <2>2, ImprovedGroup
 <2>4. /\ f \in Nat \ {0} /\ GroupLast(w, f) \in Nat /\ f <= GroupLast(w, f)
       /\ GroupLast(w, f) \in PacketsIn(w, i)
   BY <1>1, <1>2, <1>4, <2>3, ImprovedGroup
 <2>5. GroupLast(w, f) <= w.total  BY <1>1, <1>2, <2>4, InInterval
 <2>6. p = GroupLast(w, f)  BY <1>1, <1>4, <2>1, GroupEndAgrees DEF GroupEnd, Grouped
 <2>7. Tags(w, p) = ImprovedTags(w, group, i)  BY <1>4, <2>6 DEF Tags
 <2> DEFINE macs == PacketMacSlots(group, i)
 <2>8. SentMacsAre(macs, w, f, GroupLast(w, f), i, ExpectedInterval(w, f))
   BY <1>1, <2>4, <2>5, SentGroupIs
 <2>9. TagsOfGroup(Tags(w, p), n, Matrices[w.shape], macs, i, group)  BY <1>1, <2>7, ImprovedTagsAre
 <2> HIDE DEF macs, group, f, i, n
 <2>10. n \in Nat /\ j \in 1 .. n + 1  BY <1>1, <2>1, TausAre DEF n, Shaped
 <2>11. CASE j = n + 1  BY <2>9, <2>11, MarksAreNoTags DEF TagsOfGroup
 <2>12. CASE j # n + 1  BY <2>1, <2>4, <2>8, <2>9, <2>10, <2>12, RowIsNoMark DEF TagsOfGroup
 <2> QED  BY <2>11, <2>12
<1> QED  BY <1>1, <1>3, <1>4

LEMMA TailSent ==
    ASSUME NEW w, Shaped(w), NEW i \in Nat, DataIntervalCount(w) < i
    PROVE  /\ DOMAIN Datagrams(w, i) = {1}
           /\ Datagrams(w, i)[1].index = 0 /\ Datagrams(w, i)[1].interval = i
           /\ Datagrams(w, i)[1].blocks = <<i - w.delay>>
<1> DEFINE packet == TailPacket(w, i)
           d == Encode(packet)
<1>1. DataIntervalCount(w) \in Nat  BY IntervalsAreNumbers
<1>2. IntervalPackets(w, i) = <<packet>>  BY <1>1 DEF IntervalPackets
<1>3. d.index = 0 /\ d.interval = i /\ d.blocks = <<>> \o <<i - w.delay>> \o <<>>
  BY DEF Encode, TailPacket
<1>4. <<>> \o <<i - w.delay>> \o <<>> = <<i - w.delay>>  BY DEF Shaped
<1>5. Datagrams(w, i) = [n \in {1} |-> Encode(<<packet>>[n])]  BY <1>2 DEF Datagrams
<1>6. <<packet>>[1] = packet  OBVIOUS
<1> HIDE DEF packet
<1> QED  BY <1>3, <1>4, <1>5, <1>6

LEMMA DatagramNumbers ==
    ASSUME NEW w, Shaped(w), NEW i \in Nat \ {0}, NEW n \in DOMAIN Datagrams(w, i)
    PROVE  n \in Nat
<1>1. DataIntervalCount(w) \in Nat  BY IntervalsAreNumbers
<1>2. CASE DataIntervalCount(w) < i  BY <1>2, TailSent
<1>3. CASE i <= DataIntervalCount(w)  BY <1>3 DEF IntervalPackets, Datagrams
<1> QED  BY <1>1, <1>2, <1>3

\* No two datagrams of an interval carry the same packet.
LEMMA OneCarrier ==
    ASSUME NEW w, Shaped(w), Buildable(w), NEW i \in 1 .. FinalInterval(w),
           NEW n \in DOMAIN Datagrams(w, i), NEW m \in DOMAIN Datagrams(w, i),
           Datagrams(w, i)[n].index = Datagrams(w, i)[m].index
    PROVE  n = m
<1>1. DataIntervalCount(w) \in Nat /\ n \in Nat /\ m \in Nat  BY IntervalsAreNumbers, DatagramNumbers
<1>2. CASE DataIntervalCount(w) < i  BY <1>2, TailSent
<1>3. CASE i <= DataIntervalCount(w)  BY <1>1, <1>3, DataOnTheAir, IntervalHasPackets
<1> QED  BY <1>1, <1>2, <1>3

-----------------------------------------------------------------------------
(* The costs, and the keys on the air.                                     *)

LEMMA SumFunctionIs ==
    ASSUME NEW t, NEW S, S = DOMAIN t
    PROVE  SumFunction(t) = SumOver(t, S)
  BY DEF SumFunction, SumFunctionOnSet, FoldFunctionOnSet, SumOver, MapThenSumSet, MapThenFoldSet

BlockCount(w, i, n) == Len(Datagrams(w, i)[n].blocks)

\* The blocks of a part of an interval's datagrams, and of the first k intervals.
PartBlocks(w, i, F) ==
    SumOver([n \in DOMAIN Datagrams(w, i) |-> IF n \in F THEN BlockCount(w, i, n) ELSE 0], DOMAIN Datagrams(w, i))

BlocksUpTo(w, k) ==
    SumOver([i \in 1 .. FinalInterval(w) |-> IF i <= k THEN BlocksOf(w, i) ELSE 0], 1 .. FinalInterval(w))

LEMMA CountsAreNumbers ==
    ASSUME NEW w, Shaped(w), Buildable(w), NEW i \in 1 .. FinalInterval(w)
    PROVE  /\ IsFiniteSet(DOMAIN Datagrams(w, i))
           /\ \A n \in DOMAIN Datagrams(w, i) : BlockCount(w, i, n) \in Nat
<1>1. DataIntervalCount(w) \in Nat \ {0}  BY IntervalsAreNumbers
<1>2. CASE DataIntervalCount(w) < i
 <2>1. DOMAIN Datagrams(w, i) = {1} /\ Datagrams(w, i)[1].blocks = <<i - w.delay>>
   BY <1>2, TailSent
 <2>2. Len(<<i - w.delay>>) = 1  OBVIOUS
 <2>3. IsFiniteSet({1})  BY FS_Singleton
 <2> QED  BY <2>1, <2>2, <2>3 DEF BlockCount
<1>3. CASE ~ (DataIntervalCount(w) < i)
 <2>0. i \in 1 .. DataIntervalCount(w)  BY <1>1, <1>3
 <2>1. FirstOf(w, i) \in Nat /\ LastOf(w, i) \in Nat /\ FirstOf(w, i) <= LastOf(w, i)
   BY <2>0, IntervalHasPackets
 <2>2. DOMAIN Datagrams(w, i) = 1 .. LastOf(w, i) - FirstOf(w, i) + 1
   BY <2>0 DEF IntervalPackets, Datagrams
 <2>3. IsFiniteSet(DOMAIN Datagrams(w, i))  BY <2>1, <2>2, FS_Interval
 <2>4. ASSUME NEW n \in DOMAIN Datagrams(w, i) PROVE BlockCount(w, i, n) \in Nat
  <3> DEFINE d == Datagrams(w, i)[n]
  <3>1. OnTheAir(w, d)  BY SentOnTheAir
  <3>2. d.index = FirstOf(w, i) + n - 1  BY <2>0, DataOnTheAir
  <3>3. n \in 1 .. LastOf(w, i) - FirstOf(w, i) + 1 /\ FirstOf(w, i) \in Nat \ {0}
    BY <2>0, <2>2, IntervalHasPackets
  <3>4. d.index # 0  BY <2>1, <3>2, <3>3
  <3>5. Spread(w, d.index, d.blocks)  BY <3>1, <3>4 DEF OnTheAir, AsSent
  <3>6. Len(d.blocks) = (1 + KeyBlocks(w, d.index)) + TagBlocks(w, d.index)  BY <3>5 DEF Spread
  <3>7. KeyBlocks(w, d.index) \in {0, 1} /\ TagBlocks(w, d.index) \in Nat  BY BlockCounts
  <3> QED  BY <3>6, <3>7 DEF BlockCount
 <2> QED  BY <2>3, <2>4
<1> QED  BY <1>2, <1>3

LEMMA PartOfInterval ==
    ASSUME NEW w, Shaped(w), Buildable(w), NEW i \in 1 .. FinalInterval(w), NEW F
    PROVE  /\ PartBlocks(w, i, F) \in Nat
           /\ F = {} => PartBlocks(w, i, F) = 0
           /\ F = DOMAIN Datagrams(w, i) => PartBlocks(w, i, F) = BlocksOf(w, i)
           /\ \A n \in F : n \in DOMAIN Datagrams(w, i) =>
                PartBlocks(w, i, F) = PartBlocks(w, i, F \ {n}) + BlockCount(w, i, n)
<1> DEFINE S == DOMAIN Datagrams(w, i)
           t(X) == [n \in S |-> IF n \in X THEN BlockCount(w, i, n) ELSE 0]
<1>1. IsFiniteSet(S) /\ \A n \in S : BlockCount(w, i, n) \in Nat  BY CountsAreNumbers
<1>2. \A X : PartBlocks(w, i, X) = SumOver(t(X), S)  BY DEF PartBlocks
<1>3. \A X : t(X) \in [S -> Nat] /\ t(X) \in [S -> Int]  BY <1>1
<1>4. F = {} => t(F) = [n \in S |-> 0]  OBVIOUS
<1>5. F = S => BlocksOf(w, i) = SumOver(t(F), S)
 <2> SUFFICES ASSUME F = S PROVE BlocksOf(w, i) = SumOver(t(F), S)  OBVIOUS
 <2> DEFINE c == [n \in S |-> Len(Datagrams(w, i)[n].blocks)]
 <2>1. BlocksOf(w, i) = SumFunction(c) /\ S = DOMAIN c  BY DEF BlocksOf
 <2>2. c = t(F)  BY DEF BlockCount
 <2> HIDE DEF c
 <2>3. SumFunction(c) = SumOver(c, S)  BY <2>1, SumFunctionIs
 <2> QED  BY <2>1, <2>2, <2>3
<1>6. ASSUME NEW n \in F, n \in S
      PROVE  SumOver(t(F), S) = SumOver(t(F \ {n}), S) + BlockCount(w, i, n)
 <2> DEFINE a == t(F \ {n})
            b == t(F)
 <2>1. a \in [S -> Int] /\ b \in [S -> Int] /\ a \in [S -> Nat]  BY <1>3
 <2>2. b[n] = BlockCount(w, i, n) /\ a[n] = 0 /\ \A x \in S \ {n} : b[x] = a[x]  BY <1>6
 <2> HIDE DEF a, b
 <2>3. SumOver(b, S) = SumOver(a, S) + b[n] - a[n]  BY <1>1, <1>6, <2>1, <2>2, SumOverUpdate
 <2>4. SumOver(a, S) \in Nat  BY <1>1, <2>1, SumOverType
 <2>5. BlockCount(w, i, n) \in Nat  BY <1>1, <1>6
 <2>6. SumOver(b, S) = SumOver(a, S) + BlockCount(w, i, n)  BY <2>2, <2>3, <2>4, <2>5
 <2> QED  BY <2>6 DEF a, b
<1>7. SumOver(t(F), S) \in Nat  BY <1>1, <1>3, SumOverType
<1>8. F = {} => SumOver(t(F), S) = 0  BY <1>1, <1>4, SumOverZero
<1> HIDE DEF t
<1> QED  BY <1>2, <1>5, <1>6, <1>7, <1>8

LEMMA IntervalsAdd ==
    ASSUME NEW w, Shaped(w), Buildable(w)
    PROVE  /\ BlocksUpTo(w, FinalInterval(w)) = SentBlocks(w)
           /\ BlocksUpTo(w, 1) = BlocksOf(w, 1)
           /\ \A k \in 1 .. FinalInterval(w) : k < FinalInterval(w) =>
                BlocksUpTo(w, k + 1) = BlocksUpTo(w, k) + BlocksOf(w, k + 1)
<1> DEFINE last == FinalInterval(w)
           S == 1 .. last
           t(k) == [i \in S |-> IF i <= k THEN BlocksOf(w, i) ELSE 0]
<1>1. last \in Nat \ {0}  BY IntervalsAreNumbers DEF FinalInterval, Shaped
<1>2. \A k : BlocksUpTo(w, k) = SumOver(t(k), S)  BY DEF BlocksUpTo
<1>3. \A i \in S : BlocksOf(w, i) \in Nat  BY PartOfInterval
<1> HIDE DEF last
<1>4. IsFiniteSet(S)  BY <1>1, FS_Interval
<1>5. \A k \in Int : t(k) \in [S -> Int] /\ t(k) \in [S -> Nat]  BY <1>3
<1>6. ASSUME NEW k \in Nat, NEW p \in S, p = k + 1
      PROVE  SumOver(t(p), S) = SumOver(t(k), S) + BlocksOf(w, p)
 <2> DEFINE a == t(k)
            b == t(p)
 <2>1. a \in [S -> Int] /\ b \in [S -> Int] /\ a \in [S -> Nat] /\ p \in S  BY <1>5, <1>6
 <2>2. b[p] = BlocksOf(w, p) /\ a[p] = 0 /\ \A x \in S \ {p} : b[x] = a[x]  BY <1>1, <1>6
 <2> HIDE DEF a, b, S
 <2>3. SumOver(b, S) = SumOver(a, S) + b[p] - a[p]  BY <1>4, <2>1, <2>2, SumOverUpdate
 <2>4. SumOver(a, S) \in Nat /\ BlocksOf(w, p) \in Nat  BY <1>3, <1>4, <2>1, SumOverType
 <2>5. SumOver(b, S) = SumOver(a, S) + BlocksOf(w, p)  BY <2>2, <2>3, <2>4
 <2> QED  BY <2>5 DEF a, b
<1>7. SumOver(t(0), S) = 0  BY <1>1, <1>4, SumOverZero
<1>8. SumOver(t(last), S) = SentBlocks(w)
 <2> DEFINE c == [i \in S |-> BlocksOf(w, i)]
 <2>1. SentBlocks(w) = SumFunction(c) /\ S = DOMAIN c  BY DEF SentBlocks, last
 <2>2. c = t(last)  BY <1>1
 <2> HIDE DEF c
 <2>3. SumFunction(c) = SumOver(c, S)  BY <2>1, SumFunctionIs
 <2> QED  BY <2>1, <2>2, <2>3
<1>9. SumOver(t(1), S) = BlocksOf(w, 1)
 <2>1. 1 \in S /\ 1 = 0 + 1 /\ 0 \in Nat  BY <1>1
 <2> HIDE DEF t, S
 <2>2. SumOver(t(1), S) = SumOver(t(0), S) + BlocksOf(w, 1)  BY <1>6, <2>1
 <2> QED  BY <1>3, <1>7, <2>1, <2>2
<1> HIDE DEF t
<1>10. ASSUME NEW k \in 1 .. last, k < last
       PROVE  BlocksUpTo(w, k + 1) = BlocksUpTo(w, k) + BlocksOf(w, k + 1)
  BY <1>1, <1>2, <1>6, <1>10
<1> QED  BY <1>2, <1>8, <1>9, <1>10 DEF last

\* The key of the chain with the number asked for is walked down to the commitment.
LEMMA ChainVerifies ==
    ASSUME NEW k \in Nat
    PROVE  KeyVerified(k, k)
<1> DEFINE IsWalk(f) == f = [n \in 0 .. k |-> IF n = 0 THEN k ELSE Hash(f[n - 1])]
           walk == CHOOSE f : IsWalk(f)
           g == [n \in 0 .. k |-> k - n]
           T == {n \in Nat : n <= k => walk[n] = k - n}
<1>1. KeyVerified(k, k) <=> walk[k] = 0  BY DEF KeyVerified
<1>2. ASSUME NEW n \in Nat, n + 1 <= k PROVE Hash(k - n) = k - (n + 1)  BY <1>2 DEF Hash, Outside
<1>3. IsWalk(g)
 <2>1. ASSUME NEW n \in 0 .. k, n # 0 PROVE g[n] = Hash(g[n - 1])  BY <1>2, <2>1
 <2>0. g[0] = k  OBVIOUS
 <2> HIDE DEF g
 <2>2. \A n \in 0 .. k : g[n] = IF n = 0 THEN k ELSE Hash(g[n - 1])  BY <2>0, <2>1
 <2> USE DEF g
 <2>3. g = [n \in 0 .. k |-> g[n]]  OBVIOUS
 <2> HIDE DEF g
 <2> QED  BY <2>2, <2>3
<1>4. IsWalk(walk)  BY <1>3
<1> HIDE DEF walk
<1>5. \A n \in 0 .. k : walk[n] = IF n = 0 THEN k ELSE Hash(walk[n - 1])  BY <1>4
<1>6. 0 \in T  BY <1>5
<1>7. ASSUME NEW n \in T PROVE n + 1 \in T
 <2> SUFFICES ASSUME n + 1 <= k PROVE walk[n + 1] = k - (n + 1)  OBVIOUS
 <2> DEFINE m == n + 1
 <2>1. m \in 0 .. k /\ m # 0 /\ m - 1 = n /\ walk[n] = k - n  BY <1>7
 <2>2. walk[m] = Hash(walk[m - 1])  BY <1>5, <2>1
 <2> QED  BY <1>2, <2>1, <2>2
<1>8. T = Nat  BY <1>6, <1>7, NatSetInduction
<1> QED  BY <1>1, <1>8

LEMMA SentKeyIs ==
    ASSUME NEW w, Shaped(w), NEW p \in 1 .. w.total, EncodeValid(w, DataPacket(w, p)),
           CarriesKey(w, ExpectedInterval(w, p), p)
    PROVE  SentBlock(w, p)[2] = ExpectedInterval(w, p) - w.delay
<1> DEFINE i == ExpectedInterval(w, p)
           k == i - w.delay
           m == <<Message(w, p)>>
           key == Disclosure(w, i, p)
           tags == Tags(w, p)
           head == m \o key
           all == head \o tags
<1>1. p \in Nat /\ p # 0  BY DEF Shaped
<1>2. DataPacket(w, p) = [interval |-> i, index |-> p, message |-> m, key |-> key, tags |-> tags]
  BY DEF DataPacket
<1>3. key = <<k>>
 <2> DEFINE P == DataPacket(w, p)
 <2>1. P.index = p /\ P.interval = i /\ P.key = key  BY <1>2
 <2>2. EncodeValid(w, P) /\ P.index # 0  BY <1>1, <2>1
 <2> HIDE DEF P, key
 <2>3. (P.key # <<>>) <=> CarriesKey(w, P.interval, P.index)  BY <2>2, Zenon DEF EncodeValid
 <2>4. key # <<>>  BY <2>1, <2>3, Zenon
 <2> QED  BY <2>4 DEF Disclosure, key
<1>4. SentBlock(w, p) = all  BY <1>2 DEF SentBlock, Encode
<1>5. IsSequence(m) /\ Len(m) = 1 /\ IsSequence(key) /\ Len(key) = 1 /\ key[1] = k /\ IsSequence(tags)
  BY <1>3, OneBlock, TagsAreSequence DEF IsSequence
<1> HIDE DEF m, key, tags, k
<1>6. IsSequence(head) /\ Len(head) = 2 /\ head[2] = k
 <2>0. IsSequence(m) /\ IsSequence(key)  BY <1>5
 <2>1. /\ IsSequence(head) /\ Len(head) = Len(m) + Len(key)
       /\ Len(m) \in Nat /\ Len(key) \in Nat
       /\ \A j \in 1 .. Len(m) : head[j] = m[j]
       /\ \A j \in 1 .. Len(key) : head[Len(m) + j] = key[j]
   BY <2>0, ConcatIs
 <2>2. head[1 + 1] = key[1]  BY <1>5, <2>1
 <2> QED  BY <1>5, <2>1, <2>2
<1> HIDE DEF head
<1>7. \A j \in 1 .. Len(head) : all[j] = head[j]
 <2>1. all = head \o tags /\ IsSequence(head) /\ IsSequence(tags)  BY <1>5, <1>6
 <2> HIDE DEF all
 <2> QED  BY <2>1, ConcatIs
<1> HIDE DEF all
<1> QED  BY <1>4, <1>6, <1>7 DEF k

\* Every data packet has its datagram.
LEMMA SomeCarrier ==
    ASSUME NEW w, Shaped(w), Buildable(w), NEW p \in 1 .. w.total, NEW i, i = ExpectedInterval(w, p)
    PROVE  \E n \in DOMAIN Datagrams(w, i) : Datagrams(w, i)[n].index = p
<1> DEFINE f == FirstOf(w, i)
           last == LastOf(w, i)
           n == p - f + 1
<1>1. i \in 1 .. DataIntervalCount(w) /\ DataIntervalCount(w) \in Nat /\ p \in PacketsIn(w, i)
  BY IntervalOf
<1>2. f \in Nat /\ last \in Nat /\ f <= p /\ p <= last /\ p \in Nat
  BY <1>1, IntervalHasPackets DEF PacketsIn, Shaped
<1>3. DOMAIN Datagrams(w, i) = 1 .. last - f + 1
 <2>1. IntervalPackets(w, i) = [m \in 1 .. last - f + 1 |-> DataPacket(w, f + m - 1)]
   BY <1>1 DEF IntervalPackets
 <2> HIDE DEF f, last
 <2> QED  BY <2>1 DEF Datagrams
<1>4. i \in 1 .. FinalInterval(w)  BY <1>1 DEF FinalInterval, Shaped
<1> HIDE DEF f, last
<1>5. n \in DOMAIN Datagrams(w, i) /\ f + n - 1 = p  BY <1>2, <1>3
<1>6. Datagrams(w, i)[n].index = FirstOf(w, i) + n - 1  BY <1>1, <1>4, <1>5, DataOnTheAir
<1> QED  BY <1>5, <1>6 DEF f
=============================================================================
