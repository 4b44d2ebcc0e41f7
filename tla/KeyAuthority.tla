---------------------------- MODULE KeyAuthority ----------------------------
(***************************************************************************)
(* Whose chain runs where, from one round to the next: the manager's        *)
(* AuthenticationAuthority issues a chain to every selected sender, the      *)
(* configurations reach the nodes, and each node keeps what it was given     *)
(* until it is given something else.  A start reaches every participant and *)
(* sets to work whatever the node holds, also what an earlier preparation    *)
(* has left there.  Keys and commitments are represented by the seed they    *)
(* derive from.  Lost connections and delayed answers are RoundPreparation,  *)
(* a single node in its locks is NodeRuntime.                               *)
(***************************************************************************)
EXTENDS Integers, Sequences, FiniteSets

CONSTANTS
    Peers,            \* connected nodes; a node's name is its sender ID
    Host,             \* their IP addresses; nodes may share a machine
    Selections,       \* sets of senders an operator selects
    Draws,            \* material the random source may yield; a chain ID may be 0
    MaxPreparations,  \* bound of the model
    MaxStarted,       \* bound of the model: rounds started
    MaxMail           \* bound of the model: messages on the way to one node

ASSUME AuthorityParameters ==
    /\ IsFiniteSet(Peers) /\ Selections \subseteq (SUBSET Peers) \ {{}} /\ \A d \in Draws : d.chain \in Nat
    /\ MaxPreparations \in Nat /\ MaxStarted \in Nat /\ MaxMail \in Nat

VARIABLES
    issued,        \* the authority's sets of chain IDs and seeds, by draw
    senders,       \* m_vecSenderTargets: selected peer -> material
    prepNumber,    \* the preparation whose m_strRoundId the manager holds
    prepState,     \* "none", "open" (requests pending), "rejected" or "ready"
    roundOn,       \* m_bRoundRunning
    resultKeys,    \* m_setReceivedResultKeys
    mail,          \* messages on the way to each node
    identity,      \* node: material of m_optSenderContext, or NoMaterial
    armed,         \* node: chain of the sender runtime, 0 while not configured
    known,         \* node: contexts of the receiver runtime
    archived,      \* node: keys of m_mapArchiveContexts
    sendingChain,  \* node: chain its sender runtime sends, 0 when idle
    hearing,       \* node: contexts of the receiver runtime that are at work
    roundOfNode,   \* node: preparation and start it runs under
    started,       \* bound: rounds started so far
    \* History: material issued; the rounds in which a chain was sent.
    material, sentIn

managerKeyVars == <<issued, senders, prepNumber, prepState, roundOn, resultKeys, material>>
holdings == <<identity, armed, known, archived>>
atWork == <<sendingChain, hearing, roundOfNode>>
keyVars == <<managerKeyVars, mail, holdings, atWork, started, sentIn>>

NoMaterial == [chain |-> 0, seed |-> 0]
NoRound == [prep |-> 0, start |-> 0]

KeyInit ==
    /\ issued = [chains |-> {}, seeds |-> {}] /\ senders = <<>>
    /\ prepNumber = 0 /\ prepState = "none" /\ roundOn = FALSE /\ resultKeys = {}
    /\ mail = [n \in Peers |-> <<>>]
    /\ identity = [n \in Peers |-> NoMaterial] /\ armed = [n \in Peers |-> 0]
    /\ known = [n \in Peers |-> {}] /\ archived = [n \in Peers |-> {}]
    /\ sendingChain = [n \in Peers |-> 0] /\ hearing = [n \in Peers |-> {}]
    /\ roundOfNode = [n \in Peers |-> NoRound] /\ started = 0
    /\ material = {} /\ sentIn = {}

-----------------------------------------------------------------------------
(* AuthenticationAuthority.                                                *)

\* Mutant: only the chain ID of a draw is compared with the ones issued before.
FreshChain(d) == d.chain # 0 /\ d.chain \notin issued.chains

Fresh(d) == d.chain # 0 /\ d.chain \notin issued.chains /\ d.seed \notin issued.seeds

\* What a sequence of calls may issue to the peers of who: draws that are not
\* fresh are drawn again.
Issuable(who) ==
    {m \in [who -> {d \in Draws : Fresh(d)}] :
        \A p, q \in who : p # q => m[p].chain # m[q].chain /\ m[p].seed # m[q].seed}

Issue(m) ==
    /\ issued' = [chains |-> issued.chains \union {m[p].chain : p \in DOMAIN m},
                  seeds  |-> issued.seeds \union {m[p].seed : p \in DOMAIN m}]
    /\ material' = material \union {<<prepNumber + 1, p, m[p]>> : p \in DOMAIN m}

-----------------------------------------------------------------------------
(* The contexts of a receiver.                                             *)

ContextOf(p, m) == [sender |-> p, ip |-> Host[p], chain |-> m.chain, key |-> m.seed]

\* AuthenticationReceiverRuntime::configure: one sender per address, one context
\* per address and chain, at least one context.
ConfigureValid(contexts) ==
    /\ contexts # {}
    /\ \A c, d \in contexts :
           c.ip = d.ip => c.sender = d.sender /\ (c.chain = d.chain => c = d)

Unknown == [error |-> "UnknownSourceIp"]
UnknownChain == [error |-> "UnknownChainId"]

\* resFindContext, by which a datagram is taken or refused.
FindContext(contexts, ip, chain) ==
    IF \E c \in contexts : c.ip = ip /\ c.chain = chain
    THEN CHOOSE c \in contexts : c.ip = ip /\ c.chain = chain
    ELSE IF \E c \in contexts : c.ip = ip THEN UnknownChain ELSE Unknown

\* ReceiverAuthenticationContextStore: replaceAll takes one address per sender as
\* well, and resFind goes by way of the sender of the address.
StoreValid(contexts) ==
    \A c, d \in contexts :
        /\ c.ip = d.ip <=> c.sender = d.sender
        /\ c.sender = d.sender /\ c.chain = d.chain => c = d

StoreFind(contexts, ip, chain) ==
    LET sendersAt == {c.sender : c \in {x \in contexts : x.ip = ip}}
        found     == {c \in contexts : c.sender \in sendersAt /\ c.chain = chain}
    IN  IF sendersAt = {} THEN Unknown
        ELSE IF found = {} THEN UnknownChain ELSE CHOOSE c \in found : TRUE

-----------------------------------------------------------------------------
(* The manager.                                                            *)

\* resetPreparedRound.
ForgetRound == senders' = <<>> /\ prepState' = "none" /\ resultKeys' = {}

ContextsFor(n, m) == {ContextOf(p, m[p]) : p \in DOMAIN m \ {n}}

\* The messages of bPrepareTextRound and bPrepareFileRound for a node.  A sender is
\* told nothing of its own chain as a receiver, and one without other senders
\* nothing at all as a receiver.
ConfigurationOf(n, m) ==
    (IF n \in DOMAIN m THEN <<[op |-> "sender", is |-> m[n]],
                              [op |-> "payload", chain |-> m[n].chain]>> ELSE <<>>)
    \o (IF ContextsFor(n, m) = {} THEN <<>>
        ELSE <<[op |-> "receiver", contexts |-> ContextsFor(n, m)]>>)

PrepareKeys ==
    /\ ~roundOn /\ prepNumber < MaxPreparations /\ Cardinality(Peers) >= 2
    /\ \E who \in Selections : \E m \in Issuable(who) :
           /\ Issue(m) /\ senders' = m
           /\ mail' = [n \in Peers |-> mail[n] \o ConfigurationOf(n, m)]
    /\ prepNumber' = prepNumber + 1 /\ prepState' = "open" /\ resultKeys' = {}
    /\ UNCHANGED <<roundOn, holdings, atWork, started, sentIn>>

\* The random source yields nothing fresh for one of the selected senders: what
\* was issued to the ones before it stays issued, the round is dropped.
AuthorityExhausted ==
    /\ ~roundOn /\ prepNumber < MaxPreparations
    /\ \E who \in Selections :
           /\ Issuable(who) = {}
           /\ \E part \in SUBSET who : \E m \in Issuable(part) :
                  /\ \A p \in who \ part : Issuable(part \union {p}) = {}
                  /\ Issue(m)
    /\ prepNumber' = prepNumber + 1 /\ ForgetRound
    /\ UNCHANGED <<roundOn, mail, holdings, atWork, started, sentIn>>

ToAll(message) == mail' = [n \in Peers |-> Append(mail[n], message)]

\* bStartRoundAt: also a second time for the same preparation.
StartKeys ==
    /\ prepState = "ready" /\ ~roundOn /\ started < MaxStarted
    /\ started' = started + 1 /\ roundOn' = TRUE /\ resultKeys' = {}
    /\ ToAll([op |-> "start", round |-> [prep |-> prepNumber, start |-> started + 1]])
    /\ UNCHANGED <<issued, senders, prepNumber, prepState, material, holdings, atWork, sentIn>>

StopKeys ==
    /\ roundOn /\ roundOn' = FALSE /\ ToAll([op |-> "stop"])
    /\ UNCHANGED <<issued, senders, prepNumber, prepState, resultKeys, material, holdings,
                   atWork, started, sentIn>>

ExpectedResults ==
    Cardinality(DOMAIN senders)
        + Cardinality({x \in Peers \X DOMAIN senders : x[1] # x[2]})

\* The reports of a node in handleNodeControl: those of another preparation are
\* dropped; the round ends when as many have come as were expected, whosever.
Collect(n, keys) ==
    IF roundOfNode[n].prep # prepNumber \/ prepState = "none"
    THEN UNCHANGED <<resultKeys, roundOn>>
    ELSE /\ resultKeys' = resultKeys \union keys
         /\ roundOn' = (roundOn /\ Cardinality(resultKeys') < ExpectedResults)

-----------------------------------------------------------------------------
(* The nodes.                                                              *)

SenderKey(n, chain) == <<n, "sender", n, chain>>
ReceiverKey(n, c) == <<n, "receiver", c.sender, c.chain>>

\* The answer to a configuration: any refusal spoils the preparation, the last
\* acceptance makes it ready.
Answer(n, accepted) ==
    prepState' =
        IF prepState # "open" THEN prepState
        ELSE IF ~accepted THEN "rejected"
        ELSE IF \A p \in Peers : mail'[p] = <<>> THEN "ready" ELSE "open"

KnownAfter(n, contexts) == contexts

\* Archive contexts after a sender configuration, a receiver configuration.
ArchivedAsSender(n, m) ==
    {a \in archived[n] : a[1] # n \/ a[2] = m.chain} \union {<<n, m.chain>>}

ContextKeys(contexts) == {<<c.sender, c.chain>> : c \in contexts}

ArchivedAsReceiver(n, contexts) ==
    LET own == IF identity[n] = NoMaterial THEN {} ELSE {<<n, identity[n].chain>>}
    IN  (archived[n] \intersect own) \union ContextKeys(contexts)

Taken(n) == mail[n] # <<>> /\ mail' = [mail EXCEPT ![n] = Tail(@)]

\* msgApplySenderConfig; ctxCreateVerified re-derives the commitment of the seed.
TakeSenderConfig(n) ==
    /\ Taken(n) /\ Head(mail[n]).op = "sender"
    /\ LET m == Head(mail[n]).is IN
       IF sendingChain[n] # 0
       THEN Answer(n, FALSE) /\ UNCHANGED holdings
       ELSE /\ identity' = [identity EXCEPT ![n] = m]
            /\ armed' = [armed EXCEPT ![n] = 0]
            /\ archived' = [archived EXCEPT ![n] = ArchivedAsSender(n, m)]
            /\ Answer(n, TRUE) /\ UNCHANGED known
    /\ UNCHANGED <<issued, senders, prepNumber, roundOn, resultKeys, material, atWork,
                   started, sentIn>>

\* msgApplyTextPayload, msgApplyFilePayload: the payload has to be for the chain the
\* node holds and may turn out not to be schedulable.  The runtime is stopped first.
TakePayload(n) ==
    /\ Taken(n) /\ Head(mail[n]).op = "payload"
    /\ LET chain == Head(mail[n]).chain IN
       IF identity[n].chain # chain
       THEN Answer(n, FALSE) /\ UNCHANGED <<armed, sendingChain>>
       ELSE /\ sendingChain' = [sendingChain EXCEPT ![n] = 0]
            /\ \/ armed' = [armed EXCEPT ![n] = chain] /\ Answer(n, TRUE)
               \/ UNCHANGED armed /\ Answer(n, FALSE)
    /\ UNCHANGED <<issued, senders, prepNumber, roundOn, resultKeys, material, identity,
                   known, archived, hearing, roundOfNode, started, sentIn>>

\* msgApplyReceiverConfig.
TakeReceiverConfig(n) ==
    /\ Taken(n) /\ Head(mail[n]).op = "receiver"
    /\ LET contexts == Head(mail[n]).contexts IN
       IF hearing[n] # {} \/ ~ConfigureValid(contexts)
       THEN Answer(n, FALSE) /\ UNCHANGED holdings
       ELSE /\ known' = [known EXCEPT ![n] = KnownAfter(n, contexts)]
            /\ archived' = [archived EXCEPT ![n] = ArchivedAsReceiver(n, contexts)]
            /\ Answer(n, TRUE) /\ UNCHANGED <<identity, armed>>
    /\ UNCHANGED <<issued, senders, prepNumber, roundOn, resultKeys, material, atWork,
                   started, sentIn>>

\* The start of msgApplyRoundCommand: every runtime that is configured starts, on
\* what it holds; the sender is stopped first, without a report.
TakeStart(n) ==
    /\ Taken(n) /\ Head(mail[n]).op = "start"
    /\ LET round == Head(mail[n]).round IN
       IF known[n] = {} /\ armed[n] = 0
       THEN UNCHANGED <<atWork, sentIn>>
       ELSE /\ hearing' = [hearing EXCEPT ![n] = known[n]]
            /\ sendingChain' = [sendingChain EXCEPT ![n] = armed[n]]
            /\ roundOfNode' = [roundOfNode EXCEPT ![n] = round]
            /\ sentIn' = IF armed[n] = 0 THEN sentIn
                         ELSE sentIn \union {[by |-> n, is |-> identity[n], round |-> round]}
    /\ UNCHANGED <<managerKeyVars, holdings, started>>

\* Its stop: what is at work reports Stopped.
TakeStop(n) ==
    /\ Taken(n) /\ Head(mail[n]).op = "stop"
    /\ Collect(n, {ReceiverKey(n, c) : c \in hearing[n]}
                    \union {SenderKey(n, chain) : chain \in {sendingChain[n]} \ {0}})
    /\ sendingChain' = [sendingChain EXCEPT ![n] = 0]
    /\ hearing' = [hearing EXCEPT ![n] = {}]
    /\ UNCHANGED <<issued, senders, prepNumber, prepState, material, holdings, roundOfNode,
                   started, sentIn>>

\* A sender, or the context of a receiver, comes to its end and is reported.
SenderEnds(n) ==
    /\ sendingChain[n] # 0 /\ Collect(n, {SenderKey(n, sendingChain[n])})
    /\ sendingChain' = [sendingChain EXCEPT ![n] = 0]
    /\ UNCHANGED <<issued, senders, prepNumber, prepState, material, mail, holdings, hearing,
                   roundOfNode, started, sentIn>>

ContextEnds(n) ==
    /\ \E c \in hearing[n] : /\ Collect(n, {ReceiverKey(n, c)})
                             /\ hearing' = [hearing EXCEPT ![n] = @ \ {c}]
    /\ UNCHANGED <<issued, senders, prepNumber, prepState, material, mail, holdings,
                   sendingChain, roundOfNode, started, sentIn>>

KeyStep ==
    \/ PrepareKeys \/ AuthorityExhausted \/ StartKeys \/ StopKeys
    \/ \E n \in Peers :
           \/ TakeSenderConfig(n) \/ TakePayload(n) \/ TakeReceiverConfig(n) \/ TakeStart(n)
           \/ TakeStop(n) \/ SenderEnds(n) \/ ContextEnds(n)

KeyNext == KeyStep /\ \A n \in Peers : Len(mail'[n]) <= MaxMail

KeySpec == KeyInit /\ [][KeyNext]_keyVars

-----------------------------------------------------------------------------
(* Properties.                                                             *)

RoundNow == [prep |-> prepNumber, start |-> started]
RunsNow(n) == roundOfNode[n] = RoundNow

\* What the preparation of the round gave a node to do, it does and nothing else:
\* a node that was left out in one of its roles may go on with an older chain.
GivenRolesRun ==
    \A n \in Peers : RunsNow(n) =>
        /\ n \in DOMAIN senders => sendingChain[n] \in {0, senders[n].chain}
        /\ ContextsFor(n, senders) # {} => hearing[n] \subseteq ContextsFor(n, senders)

\* Different senders and rounds have different chains, seeds and so keys: a chain
\* whose keys a round has made public is sent again only when the operator starts
\* the same preparation a second time or no longer selects its sender.
KeysUsedOnce ==
    \A x, y \in sentIn :
        /\ x.is.chain = y.is.chain \/ x.is.seed = y.is.seed
        /\ x.round.start < y.round.start \/ x.by # y.by
        => /\ x.by = y.by
           /\ \/ x.round.prep = y.round.prep
              \/ ~\E m \in material : m[1] = y.round.prep /\ m[2] = y.by

\* A datagram of a sender of the round resolves, at every other participant, to
\* that sender and the commitment of its chain.
SenderResolved ==
    prepState = "ready" =>
        \A p \in DOMAIN senders : \A n \in Peers \ {p} :
            FindContext(known[n], Host[p], senders[p].chain) = ContextOf(p, senders[p])

\* Whatever a node has at work has its archive context; without it the result is
\* not archived.
ArchiveReady ==
    \A n \in Peers :
        /\ sendingChain[n] # 0 => <<n, sendingChain[n]>> \in archived[n]
        /\ ContextKeys(hearing[n]) \subseteq archived[n]

\* The context store and the receiver runtime, two implementations of one lookup:
\* what the store takes the runtime takes, and both find the same.
LookupsAgree ==
    \A n \in Peers : LET contexts == ContextsFor(n, senders) IN
        contexts # {} /\ StoreValid(contexts) =>
            /\ ConfigureValid(contexts)
            /\ \A p \in Peers : \A d \in Draws :
                   FindContext(contexts, Host[p], d.chain)
                       = StoreFind(contexts, Host[p], d.chain)

\* What a preparation hands out serves its round, and that round only.
KeysSafe ==
    /\ KeysUsedOnce /\ GivenRolesRun
    /\ SenderResolved /\ ArchiveReady /\ LookupsAgree
=============================================================================
