--------------------------- MODULE ExperimentProofs ---------------------------
(***************************************************************************)
(* ExperimentControl for every number of receivers, rounds, plans and        *)
(* disturbances.  A plan is waiting at the endpoint, going, or over, and     *)
(* never goes back, and messages keep their order on a connection: that      *)
(* orders the messages about a plan on both ways.  The proof first brings    *)
(* every action down to what it does to the manager's side, the endpoint's   *)
(* side and the two queues between them (Moves), and shows the ordering on   *)
(* these; the receivers' queues are a separate half.                         *)
(***************************************************************************)
EXTENDS ExperimentControl, SequenceTheorems, TLAPS

-----------------------------------------------------------------------------
(* The messages, and what belongs together on each side.                      *)

Going == {"Ready"} \union Busy
Alive(id) == tPlan.id = id /\ tState \in {"PlanPending"} \union Going
IsGoing(id) == tPlan.id = id /\ tState \in Going

TestMessages ==
    [type : {"context"}, id : Rounds] \union [type : {"start", "stop"}, id : Nat]
        \union [type : {"decision"}, id : 1 .. MaxPlans, accepted : BOOLEAN]
ManagerMessages ==
    [type : {"plan"}, plan : Plan] \union [type : {"ready"}, id : 1 .. MaxPlans]
        \union [type : {"status"}, id : 0 .. MaxPlans, runs : BOOLEAN, over : BOOLEAN]
ReceiverMessages ==
    [type : {"configure", "stop", "clear", "install"}, id : 0 .. MaxPlans, round : 0 .. LastRound]
Answers == [id : 0 .. MaxPlans, accepted : BOOLEAN]

MessagesOK ==
    /\ toTest \in Seq(TestMessages) /\ toManager \in Seq(ManagerMessages)
    /\ toReceiver \in [Receivers -> Seq(ReceiverMessages)]
    /\ fromReceiver \in [Receivers -> Seq(Answers)]

\* The plan an endpoint has is the last one it has submitted, and the manager has
\* a plan only with a context.
SidesOK ==
    /\ testLink \in BOOLEAN /\ receiverLink \in [Receivers -> BOOLEAN]
    /\ rConfigured \in [Receivers -> 0 .. LastRound] /\ nextAttackId \in 1 .. MaxPlans + 1
    /\ mContext # 0 => testLink
    /\ mPlan # NoPlan => mContext # 0
    /\ mReady \/ mReceivers # {} => mPlan # NoPlan
    /\ tState = "Idle" <=> tContext = 0
    /\ tState \in {"Idle", "ContextReady"} <=> tPlan = NoPlan
    /\ tPlan # NoPlan => tPlan.id = nextAttackId - 1
    /\ mPlan.id < nextAttackId
    /\ \A id \in confirmed : id \in 1 .. MaxPlans /\ id < nextAttackId

-----------------------------------------------------------------------------
(* The receivers.                                                          *)

Clears(message, n) ==
    message.type \in {"configure", "stop"} \/ (message.type = "clear" /\ message.round = n)

\* Every mapping of a round, and every message that installs one, is of the
\* manager's experiment, or a message that clears it is on the way behind it.
QueueFits(queue, mapped, experiment) ==
    /\ \A k \in 1 .. Len(queue) : queue[k].type = "install" =>
          \/ queue[k].round \in experiment
          \/ \E j \in k + 1 .. Len(queue) : Clears(queue[j], queue[k].round)
    /\ mapped # 0 =>
          mapped \in experiment \/ \E j \in 1 .. Len(queue) : Clears(queue[j], mapped)

Experiment(r) == IF r \in mReceivers THEN {mContext} ELSE {}

MappingFits(r) == receiverLink[r] /\ QueueFits(toReceiver[r], attackMapping[r], Experiment(r))
MappingsFit == \A r \in Receivers : r \notin lost => MappingFits(r)

\* A receiver that says it has installed a mapping has.
AnswersFit ==
    \A r \in Receivers : \A k \in 1 .. Len(fromReceiver[r]) :
        fromReceiver[r][k].accepted => <<fromReceiver[r][k].id, r>> \in installed

\* While the manager waits for receivers, all others have answered.
RequestsFit ==
    mRequests # {} =>
        /\ mPlan # NoPlan /\ \A x \in mRequests : x[1] = mPlan.id
        /\ \A r \in Receivers :
              <<mPlan.id, r>> \in mRequests \/ <<mPlan.id, r>> \in installed

-----------------------------------------------------------------------------
(* The plans.                                                              *)

PlanAt(k) == toManager[k].type = "plan"

\* Plans reach the manager in the order of their numbers, each once.
PlansInOrder ==
    \A k \in 1 .. Len(toManager) : PlanAt(k) =>
        /\ toManager[k].plan.id < nextAttackId /\ mPlan.id < toManager[k].plan.id
        /\ toManager[k].plan.id \notin confirmed
        /\ tPlan.id = toManager[k].plan.id => tPlan = toManager[k].plan
        /\ \A m \in 1 .. Len(toManager) :
              m < k /\ PlanAt(m) => toManager[m].plan.id < toManager[k].plan.id

\* A confirmed plan that repeats captured packets has all its mappings.
ConfirmedMapped ==
    /\ mPlan # NoPlan /\ mPlan.id = tPlan.id => mPlan = tPlan
    /\ \A p \in {mPlan, tPlan} : p.id \in confirmed /\ p.kind = "copies" =>
          \A r \in Receivers : <<p.id, r>> \in installed

-----------------------------------------------------------------------------
(* The endpoint.                                                           *)

Refuses(m) == m.type = "decision" /\ ~m.accepted
Accepts(m) == m.type = "decision" /\ m.accepted
Drops(m) == m.type = "context" \/ Refuses(m)
Ends(m) == Drops(m) \/ m.type = "stop"

\* Nothing behind place k of the queue ends a plan.
Open(k) == \A j \in k + 1 .. Len(toTest) : ~Ends(toTest[j])

\* A confirmation on the way is of a plan confirmed; it is of the manager's plan
\* while nothing behind it ends a plan, and a plan that waits for it is not dropped
\* behind it.
DecisionsFit ==
    \A k \in 1 .. Len(toTest) : Accepts(toTest[k]) =>
        /\ toTest[k].id \in confirmed
        /\ mContext # 0 /\ Open(k) => toTest[k].id = mPlan.id
        /\ mPlan # NoPlan /\ toTest[k].id = mPlan.id /\ Alive(mPlan.id) =>
              \A j \in k + 1 .. Len(toTest) : ~Drops(toTest[j])

\* What goes on at the endpoint is confirmed, and is the manager's plan, running for
\* the manager too, unless an order that ends it is on the way.
GoingFits ==
    tState \in Going =>
        /\ tPlan.id \in confirmed
        /\ mContext # 0 /\ Open(0) => tPlan.id = mPlan.id /\ (tState \in Busy => mRunning)
        /\ mPlan # NoPlan /\ tPlan.id = mPlan.id =>
              \A j \in 1 .. Len(toTest) : ~Drops(toTest[j])

IsReady(k, id) == toManager[k].type = "ready" /\ toManager[k].id = id
IsOver(k, id) == toManager[k].type = "status" /\ toManager[k].id = id /\ toManager[k].over
ReadyTold(id) == \E k \in 1 .. Len(toManager) : IsReady(k, id)
OverTold(id) == \E k \in 1 .. Len(toManager) : IsOver(k, id)

\* An order to start is of a plan that the manager has heard is ready: it is no
\* longer waiting.
StartOrdersFit ==
    \A k \in 1 .. Len(toTest) : toTest[k].type = "start" =>
        LET id == toTest[k].id IN
        /\ id \in 1 .. MaxPlans /\ id < nextAttackId
        /\ Alive(id) => tState # "PlanPending"
        /\ ~ReadyTold(id)
        /\ mContext # 0 /\ Open(k) => id = mPlan.id /\ (Alive(id) => mRunning)

\* A status that ends a plan is of a plan that has ended; one of a plan that only is
\* ready comes before the readiness itself.
StatusFits ==
    \A k \in 1 .. Len(toManager) : toManager[k].type = "status" =>
        LET id == toManager[k].id IN
        /\ id < nextAttackId
        /\ toManager[k].over => ~Alive(id)
        /\ ~toManager[k].over /\ ~toManager[k].runs =>
              \E j \in k + 1 .. Len(toManager) : IsReady(j, id)

\* A plan is said to be ready once, after its confirmation and before its end.
ReadyFits ==
    \A k \in 1 .. Len(toManager) : toManager[k].type = "ready" =>
        LET id == toManager[k].id IN
        /\ id < nextAttackId /\ id \in confirmed
        /\ Alive(id) => tState = "Ready"
        /\ ~(mReady /\ mPlan.id = id)
        /\ \A j \in 1 .. Len(toManager) :
              (IsReady(j, id) => j = k) /\ (IsOver(j, id) => k < j)

\* What the manager takes to be ready, or is about to, goes on or is reported over.
ReadinessFits ==
    mPlan # NoPlan /\ (mReady \/ ReadyTold(mPlan.id)) =>
        IsGoing(mPlan.id) \/ OverTold(mPlan.id)

ReceiversFit == MappingsFit /\ AnswersFit /\ RequestsFit

EndpointFits ==
    /\ PlansInOrder /\ DecisionsFit /\ GoingFits /\ StartOrdersFit
    /\ StatusFits /\ ReadyFits /\ ReadinessFits

ExperimentInv ==
    /\ ExperimentTypeOK /\ MessagesOK /\ SidesOK
    /\ ReceiversFit /\ ConfirmedMapped /\ EndpointFits

-----------------------------------------------------------------------------
(* Queues, and what a step does to the manager's and the endpoint's sides.    *)

Appended(q, p, m) ==
    Len(p) = Len(q) + 1 /\ p[Len(p)] = m /\ \A k \in 1 .. Len(q) : p[k] = q[k]

Taken(q, p) == Len(q) = Len(p) + 1 /\ \A k \in 1 .. Len(p) : p[k] = q[k + 1]

LEMMA Appends ==
    ASSUME NEW S, NEW q \in Seq(S), NEW m \in S
    PROVE  /\ Append(q, m) \in Seq(S) /\ Appended(q, Append(q, m), m)
           /\ q \o <<m>> = Append(q, m)
  BY AppendProperties, AppendIsConcat DEF Appended

LEMMA Takes ==
    ASSUME NEW S, NEW q \in Seq(S), q # <<>>
    PROVE  /\ Tail(q) \in Seq(S) /\ Taken(q, Tail(q)) /\ Head(q) = q[1] /\ Head(q) \in S
           /\ Len(q) \in Nat \ {0}
  BY EmptySeq, LenProperties, HeadTailProperties DEF Taken

KeepsEndpoint == UNCHANGED <<tContext, tPlan, tState, nextAttackId>>
KeepsManager == UNCHANGED <<mContext, mPlan, mReady, mRunning, confirmed>>
Unready == mReady' = FALSE /\ mRunning' = FALSE

Says(m) == Appended(toTest, toTest', m)
Hears(type) == toManager[1].type = type /\ Taken(toManager, toManager')
Receives(type) == toTest[1].type = type /\ Taken(toTest, toTest')
Reports(m) == IF testLink THEN Appended(toManager, toManager', m) ELSE toManager' = toManager

StartOrder == [type |-> "start", id |-> mPlan.id]
StopOrder == [type |-> "stop", id |-> mPlan.id]

\* The manager's steps.
Rests == KeepsEndpoint /\ KeepsManager /\ UNCHANGED <<toTest, toManager>>

DropsContext ==
    /\ KeepsEndpoint /\ mContext' = 0 /\ mPlan' = NoPlan /\ Unready /\ UNCHANGED confirmed
    /\ UNCHANGED <<toTest, toManager>> \/ (Len(toTest') = 0 /\ Len(toManager') = 0)

GivesContext ==
    /\ KeepsEndpoint /\ mContext = 0 /\ mContext' \in Rounds
    /\ UNCHANGED <<mPlan, mReady, mRunning, confirmed, toManager>>
    /\ Says([type |-> "context", id |-> mContext'])

OrdersStart ==
    /\ KeepsEndpoint /\ mReady /\ mPlan # NoPlan
    /\ UNCHANGED <<mContext, mPlan, mReady, confirmed, toManager>> /\ mRunning' = TRUE
    /\ Says(StartOrder)

OrdersStop ==
    /\ KeepsEndpoint /\ mContext # 0
    /\ UNCHANGED <<mContext, mPlan, confirmed, toManager>> /\ Unready
    /\ Says(StopOrder)

\* A start that is taken back at once.
OrdersBoth ==
    /\ KeepsEndpoint /\ mReady /\ mPlan # NoPlan
    /\ UNCHANGED <<mContext, mPlan, confirmed, toManager>> /\ Unready
    /\ Len(toTest') = Len(toTest) + 2 /\ \A k \in 1 .. Len(toTest) : toTest'[k] = toTest[k]
    /\ toTest'[Len(toTest) + 1] = StartOrder /\ toTest'[Len(toTest) + 2] = StopOrder

RefusesPlan ==
    /\ KeepsEndpoint /\ mContext # 0 /\ UNCHANGED <<mContext, confirmed>>
    /\ \E id \in 1 .. MaxPlans : Says([type |-> "decision", id |-> id, accepted |-> FALSE])
    /\ \/ mPlan' = NoPlan /\ Unready /\ (UNCHANGED toManager \/ Hears("plan"))
       \/ UNCHANGED <<mPlan, mReady, mRunning>> /\ mPlan # NoPlan /\ Hears("plan")

TakesPlan ==
    /\ KeepsEndpoint /\ mContext # 0 /\ mPlan = NoPlan /\ Hears("plan")
    /\ mPlan' = toManager[1].plan /\ UNCHANGED <<mContext, mReady, mRunning>>
    /\ \/ UNCHANGED <<toTest, confirmed>>
       \/ /\ Says(Decision(mPlan', TRUE)) /\ confirmed' = confirmed \union {mPlan'.id}
          /\ mPlan'.kind = "load"

ConfirmsPlan ==
    /\ KeepsEndpoint /\ mContext # 0 /\ mPlan # NoPlan
    /\ UNCHANGED <<mContext, mPlan, mReady, mRunning, toManager>>
    /\ Says(Decision(mPlan, TRUE)) /\ confirmed' = confirmed \union {mPlan.id}
    /\ \A r \in Receivers : <<mPlan.id, r>> \in installed

HearsReady ==
    /\ KeepsEndpoint /\ mContext # 0 /\ Hears("ready")
    /\ UNCHANGED <<mContext, mPlan, mRunning, confirmed, toTest>>
    /\ IF toManager[1].id = mPlan.id THEN mReady' = TRUE ELSE UNCHANGED mReady

HearsStatus ==
    /\ KeepsEndpoint /\ mContext # 0 /\ Hears("status")
    /\ UNCHANGED <<mContext, mPlan, confirmed, toTest>>
    /\ \/ (mPlan = NoPlan \/ toManager[1].id # mPlan.id) /\ UNCHANGED <<mReady, mRunning>>
       \/ /\ mPlan # NoPlan /\ toManager[1].id = mPlan.id /\ ~toManager[1].over
          /\ UNCHANGED mReady /\ mRunning' = toManager[1].runs
       \/ mPlan # NoPlan /\ toManager[1].id = mPlan.id /\ toManager[1].over /\ Unready

HearsStranger ==
    /\ KeepsEndpoint /\ KeepsManager /\ mContext = 0
    /\ Taken(toManager, toManager') /\ UNCHANGED toTest

ManagerMoves ==
    \/ Rests \/ DropsContext \/ GivesContext \/ OrdersStart \/ OrdersStop \/ OrdersBoth
    \/ RefusesPlan \/ TakesPlan \/ ConfirmsPlan \/ HearsReady \/ HearsStatus \/ HearsStranger

\* The endpoint's steps.
TakesContext ==
    /\ KeepsManager /\ Receives("context") /\ UNCHANGED <<toManager, nextAttackId>>
    /\ tContext' = toTest[1].id /\ tPlan' = NoPlan /\ tState' = "ContextReady"

Submits ==
    /\ KeepsManager /\ UNCHANGED <<toTest, tContext>>
    /\ tState \in {"ContextReady", "Completed", "Stopped"} /\ tState' = "PlanPending"
    /\ nextAttackId \in 1 .. MaxPlans /\ nextAttackId' = nextAttackId + 1
    /\ tPlan' \in Plan /\ tPlan'.id = nextAttackId
    /\ Appended(toManager, toManager', [type |-> "plan", plan |-> tPlan'])

IsRefused ==
    /\ KeepsManager /\ Receives("decision") /\ ~toTest[1].accepted
    /\ tPlan' = NoPlan /\ tState' = StateAfterDiscard
    /\ UNCHANGED <<tContext, nextAttackId, toManager>>

\* The status before the readiness may have fallen to the throttle.
IsAccepted ==
    /\ KeepsManager /\ Receives("decision") /\ toTest[1].accepted
    /\ tPlan.id = toTest[1].id /\ tState = "PlanPending" /\ tState' = "Ready"
    /\ UNCHANGED <<tContext, tPlan, nextAttackId>>
    /\ \/ Reports([type |-> "ready", id |-> tPlan.id])
       \/ /\ testLink /\ Len(toManager') = Len(toManager) + 2
          /\ \A k \in 1 .. Len(toManager) : toManager'[k] = toManager[k]
          /\ toManager'[Len(toManager) + 1] = Status("Ready")
          /\ toManager'[Len(toManager) + 2] = [type |-> "ready", id |-> tPlan.id]

IgnoresOrder ==
    /\ KeepsManager /\ KeepsEndpoint /\ UNCHANGED toManager /\ Taken(toTest, toTest')
    /\ \/ Accepts(toTest[1]) /\ (tPlan.id # toTest[1].id \/ tState # "PlanPending")
       \/ toTest[1].type = "start"
       \/ toTest[1].type = "stop" /\ tState \in {"Idle", "ContextReady"}

Schedules ==
    /\ KeepsManager /\ Receives("start") /\ tPlan.id = toTest[1].id /\ tState = "Ready"
    /\ tState' = "Scheduled" /\ UNCHANGED <<tContext, tPlan, nextAttackId>>
    /\ Reports(Status("Scheduled"))

StopsPlan ==
    /\ KeepsManager /\ tState \notin {"Idle", "ContextReady"} /\ tState' = "Stopped"
    /\ UNCHANGED <<tContext, tPlan, nextAttackId>> /\ Reports(Status("Stopped"))
    /\ Receives("stop") \/ (tState \in Busy /\ UNCHANGED toTest)

Proceeds ==
    /\ KeepsManager /\ UNCHANGED <<tContext, tPlan, nextAttackId, toTest>>
    /\ \/ /\ tState = "Scheduled" /\ tState' = "Running"
          /\ UNCHANGED toManager \/ Reports(Status("Running"))
       \/ tState = "Running" /\ tState' = "Completed" /\ Reports(Status("Completed"))

EndpointMoves ==
    \/ TakesContext \/ Submits \/ IsRefused \/ IsAccepted \/ IgnoresOrder \/ Schedules
    \/ StopsPlan \/ Proceeds

-----------------------------------------------------------------------------
(* Every step is one of these, and keeps the messages well formed.            *)

LEMMA SentOK ==
    ASSUME NEW queues \in [Receivers -> Seq(ReceiverMessages)], NEW S,
           NEW message \in ReceiverMessages
    PROVE  Sent(queues, S, message) \in [Receivers -> Seq(ReceiverMessages)]
  BY AppendProperties DEF Sent

LEMMA TwoInOrder ==
    ASSUME NEW S, NEW a \in S, NEW b \in S
    PROVE  /\ Append(<<a>>, b) \in Seq(S) /\ Len(Append(<<a>>, b)) = 2
           /\ Append(<<a>>, b)[1] = a /\ Append(<<a>>, b)[2] = b
<1> DEFINE t == <<a>>
<1>1. t \in Seq(S) /\ Len(t) = 1 /\ t[1] = a  OBVIOUS
<1> HIDE DEF t
<1>2. Append(t, b) \in Seq(S) /\ Appended(t, Append(t, b), b)  BY <1>1, Appends
<1> DEFINE p == Append(t, b)
<1> HIDE DEF p
<1>3. Len(p) = 2 /\ p[2] = b /\ p[1] = t[1]  BY <1>1, <1>2 DEF Appended, p
<1> QED  BY <1>1, <1>2, <1>3 DEF p, t

LEMMA ContextBound ==
    ASSUME ExperimentTypeOK
    PROVE  mContext \in 0 .. LastRound /\ authRound \in 0 .. LastRound
  BY ExperimentParameters DEF ExperimentTypeOK

LEMMA ClearedOK ==
    ASSUME ExperimentTypeOK, NEW queues \in [Receivers -> Seq(ReceiverMessages)]
    PROVE  Cleared(queues) \in [Receivers -> Seq(ReceiverMessages)] /\ Clear \in ReceiverMessages
<1>1. Clear \in ReceiverMessages  BY ContextBound, ExperimentParameters DEF Clear, ReceiverMessages
<1> QED  BY <1>1, SentOK DEF Cleared

\* What a message to the endpoint does, when there is a connection.
LEMMA TellSays ==
    ASSUME MessagesOK, testLink, NEW m \in TestMessages, Tell(<<m>>)
    PROVE  Says(m) /\ toTest' \in Seq(TestMessages)
  BY Appends DEF MessagesOK, Tell, Says

LEMMA StopTold ==
    ASSUME MessagesOK, testLink, ExperimentTypeOK, StopPlan(<<>>)
    PROVE  Says(StopOrder) /\ toTest' \in Seq(TestMessages)
  BY ExperimentParameters, TellSays DEF StopOrder, TestMessages, ExperimentTypeOK, Plan, NoPlan,
     StopPlan

LEMMA StopOrders ==
    ASSUME ExperimentInv, mContext # 0, StopPlan(<<>>), KeepsEndpoint,
           UNCHANGED <<confirmed, toManager>>
    PROVE  OrdersStop /\ toTest' \in Seq(TestMessages)
  BY StopTold DEF ExperimentInv, SidesOK, StopPlan, FlagsDown, Unready, OrdersStop

LEMMA ContextDrops ==
    ASSUME ClearPreparedState, KeepsEndpoint, UNCHANGED confirmed,
           UNCHANGED <<toTest, toManager>> \/ (toTest' = <<>> /\ toManager' = <<>>)
    PROVE  DropsContext
  BY DEF ClearPreparedState, FlagsDown, Unready, DropsContext

LEMMA PlanId ==
    ASSUME ExperimentTypeOK
    PROVE  /\ mPlan \in Plan \union {NoPlan} /\ mPlan.id \in Nat
           /\ mPlan # NoPlan => mPlan \in Plan /\ mPlan.id \in 1 .. MaxPlans
           /\ tPlan \in Plan \union {NoPlan} /\ tPlan.id \in Nat
           /\ tPlan # NoPlan => tPlan \in Plan /\ tPlan.id \in 1 .. MaxPlans
           /\ NoPlan.id = 0 /\ NoPlan \notin Plan
  BY ExperimentParameters DEF ExperimentTypeOK, Plan, NoPlan

\* A step as the two sides and the queues between them see it.
Moves == (ManagerMoves \/ EndpointMoves) /\ MessagesOK'

-----------------------------------------------------------------------------

LEMMA PrepareRoundMoves == ASSUME ExperimentInv, PrepareRound PROVE Moves
<1>1. KeepsEndpoint /\ UNCHANGED <<confirmed, toTest, toManager, fromReceiver>>
  BY DEF PrepareRound, KeepsEndpoint, testSide
<1>2. Rests \/ DropsContext
 <2>1. CASE mContext # 0  BY <1>1, <2>1, ContextDrops DEF PrepareRound
 <2>2. CASE mContext = 0  BY <1>1, <2>2 DEF PrepareRound, managerSide, Rests, KeepsManager
 <2> QED  BY <2>1, <2>2
<1>3. toReceiver' \in [Receivers -> Seq(ReceiverMessages)]
 <2> DEFINE configure == [type |-> "configure", id |-> 0, round |-> authRound + 1]
 <2>1. configure \in ReceiverMessages
   BY ContextBound, ExperimentParameters DEF ReceiverMessages, PrepareRound, ExperimentInv
 <2>2. toReceiver' = Cleared(Sent(toReceiver, Receivers, configure))  BY DEF PrepareRound
 <2> HIDE DEF configure
 <2> QED  BY <2>1, <2>2, SentOK, ClearedOK DEF ExperimentInv, MessagesOK
<1> QED  BY <1>1, <1>2, <1>3 DEF Moves, ManagerMoves, MessagesOK, ExperimentInv

LEMMA PrepareContextMoves == ASSUME ExperimentInv, PrepareContext PROVE Moves
<1> DEFINE m == [type |-> "context", id |-> authRound]
<1>1. m \in TestMessages /\ authRound \in Rounds
  BY ContextBound DEF TestMessages, PrepareContext, ExperimentInv, Rounds
<1>2. Says(m) /\ toTest' \in Seq(TestMessages)  BY <1>1, TellSays DEF PrepareContext, ExperimentInv
<1>3. GivesContext  BY <1>1, <1>2 DEF GivesContext, PrepareContext, KeepsEndpoint, testSide
<1> QED  BY <1>2, <1>3 DEF Moves, ManagerMoves, MessagesOK, ExperimentInv, PrepareContext

LEMMA StartRoundMoves == ASSUME ExperimentInv, StartRound PROVE Moves
<1>1. KeepsEndpoint /\ UNCHANGED <<confirmed, toManager, fromReceiver>>
  BY DEF StartRound, KeepsEndpoint, testSide
<1>2. /\ ExperimentTypeOK /\ MessagesOK
      /\ mReady => mPlan # NoPlan /\ mContext # 0 /\ testLink
  BY DEF ExperimentInv, SidesOK
<1>3. mReady => StartOrder \in TestMessages /\ StopOrder \in TestMessages
  BY <1>2, PlanId DEF StartOrder, StopOrder, TestMessages
<1>4. CASE UNCHANGED toReceiver /\ mRunning' = mReady /\ Tell(IF mReady THEN <<StartOrder>> ELSE <<>>)
           /\ UNCHANGED <<mContext, mPlan, mReady>>
 <2>1. CASE mReady
   BY <1>1, <1>2, <1>3, <1>4, <2>1, TellSays DEF OrdersStart, Moves, ManagerMoves, MessagesOK
 <2>2. CASE ~mReady
  <3>1. mContext = 0  BY <2>2 DEF StartRound
  <3>2. ~mRunning  BY <1>2, <3>1 DEF ExperimentTypeOK
  <3>3. ~mReady /\ mReady \in BOOLEAN /\ mRunning \in BOOLEAN  BY <1>2, <2>2 DEF ExperimentTypeOK
  <3>4. mRunning' = mRunning  BY <1>4, <3>2, <3>3
  <3>5. toTest' = toTest  BY <1>2, <1>4, <2>2, ConcatEmptySeq DEF MessagesOK, Tell
  <3>6. Rests  BY <1>1, <1>4, <3>4, <3>5 DEF Rests, KeepsManager
  <3> QED  BY <1>1, <1>2, <1>4, <3>5, <3>6 DEF Moves, ManagerMoves, MessagesOK
 <2> QED  BY <2>1, <2>2
<1>5. CASE mReady /\ StopPlan(<<StartOrder>>)
           /\ toReceiver' = Cleared(Sent(toReceiver, Receivers, NodeStop))
 <2>1. toReceiver' \in [Receivers -> Seq(ReceiverMessages)]
  <3>1. NodeStop \in ReceiverMessages
    BY <1>2, ContextBound, ExperimentParameters DEF NodeStop, ReceiverMessages
  <3> QED  BY <1>2, <1>5, <3>1, SentOK, ClearedOK DEF MessagesOK
 <2>2. toTest' = toTest \o Append(<<StartOrder>>, StopOrder)
   BY <1>2, <1>5 DEF StopPlan, Tell, StopOrder
 <2>5. /\ toTest' \in Seq(TestMessages) /\ Len(toTest') = Len(toTest) + 2 /\ Len(toTest) \in Nat
       /\ \A k \in 1 .. Len(toTest) : toTest'[k] = toTest[k]
       /\ toTest'[Len(toTest) + 1] = StartOrder /\ toTest'[Len(toTest) + 2] = StopOrder
  <3> DEFINE t == Append(<<StartOrder>>, StopOrder)
  <3>0. t \in Seq(TestMessages) /\ Len(t) = 2 /\ t[1] = StartOrder /\ t[2] = StopOrder
    BY <1>3, <1>5, TwoInOrder
  <3>1. toTest' = toTest \o t  BY <2>2
  <3>2. toTest \in Seq(TestMessages) /\ Len(toTest) \in Nat  BY <1>2, LenProperties DEF MessagesOK
  <3> HIDE DEF t
  <3>3. toTest \o t \in Seq(TestMessages) /\ Len(toTest \o t) = Len(toTest) + Len(t)
        /\ \A i \in 1 .. Len(toTest) + Len(t) :
              (toTest \o t)[i] = IF i <= Len(toTest) THEN toTest[i] ELSE t[i - Len(toTest)]
    BY <3>0, <3>2, ConcatProperties
  <3> DEFINE n == Len(toTest)
  <3>4. n \in Nat /\ \A i \in 1 .. n + 2 : toTest'[i] = IF i <= n THEN toTest[i] ELSE t[i - n]
    BY <3>0, <3>1, <3>2, <3>3
  <3> HIDE DEF n
  <3>5. toTest'[n + 1] = StartOrder /\ toTest'[n + 2] = StopOrder
        /\ \A k \in 1 .. n : toTest'[k] = toTest[k]
    BY <3>0, <3>4
  <3> QED  BY <3>0, <3>1, <3>2, <3>3, <3>5 DEF n
 <2>6. OrdersBoth  BY <1>1, <1>2, <1>5, <2>5 DEF StopPlan, FlagsDown, Unready, OrdersBoth
 <2> QED  BY <1>1, <1>2, <2>1, <2>5, <2>6 DEF Moves, ManagerMoves, MessagesOK
<1> QED  BY <1>4, <1>5 DEF StartRound, StartOrder

LEMMA StopRoundMoves == ASSUME ExperimentInv, StopAttackRound PROVE Moves
<1>1. KeepsEndpoint /\ UNCHANGED <<confirmed, toManager, fromReceiver>>
  BY DEF StopAttackRound, KeepsEndpoint, testSide
<1>2. ExperimentTypeOK /\ MessagesOK  BY DEF ExperimentInv
<1>3. NodeStop \in ReceiverMessages
  BY <1>2, ContextBound, ExperimentParameters DEF NodeStop, ReceiverMessages
<1>4. CASE mRunning \/ mReady
 <2>1. mContext # 0  BY <1>2, <1>4 DEF ExperimentTypeOK
 <2>2. OrdersStop /\ toTest' \in Seq(TestMessages)  BY <1>1, <1>4, <2>1, StopOrders DEF StopAttackRound
 <2>3. toReceiver' = Sent(Cleared(toReceiver), Receivers, NodeStop)  BY <1>4 DEF StopAttackRound
 <2>4. toReceiver' \in [Receivers -> Seq(ReceiverMessages)]
   BY <1>2, <1>3, <2>3, SentOK, ClearedOK DEF MessagesOK
 <2> QED  BY <1>1, <1>2, <2>2, <2>4 DEF Moves, ManagerMoves, MessagesOK
<1>5. CASE ~(mRunning \/ mReady)
 <2>1. toReceiver' = Sent(toReceiver, Receivers, NodeStop) /\ UNCHANGED <<managerSide, toTest>>
   BY <1>5 DEF StopAttackRound
 <2>2. toReceiver' \in [Receivers -> Seq(ReceiverMessages)]
   BY <1>2, <1>3, <2>1, SentOK DEF MessagesOK
 <2>3. Rests  BY <1>1, <2>1 DEF Rests, KeepsManager, managerSide
 <2> QED  BY <1>1, <1>2, <2>1, <2>2, <2>3 DEF Moves, ManagerMoves, MessagesOK
<1> QED  BY <1>4, <1>5

LEMMA RoundEndsMoves == ASSUME ExperimentInv, RoundEnds PROVE Moves
<1>1. KeepsEndpoint /\ UNCHANGED <<confirmed, toManager, fromReceiver>>
  BY DEF RoundEnds, KeepsEndpoint, testSide
<1>2. ExperimentTypeOK /\ MessagesOK  BY DEF ExperimentInv
<1>4. CASE mRunning \/ mReady
 <2>1. mContext # 0  BY <1>2, <1>4 DEF ExperimentTypeOK
 <2>2. OrdersStop /\ toTest' \in Seq(TestMessages)  BY <1>1, <1>4, <2>1, StopOrders DEF RoundEnds
 <2>3. toReceiver' = Cleared(toReceiver)  BY <1>4 DEF RoundEnds
 <2>4. toReceiver' \in [Receivers -> Seq(ReceiverMessages)]  BY <1>2, <2>3, ClearedOK DEF MessagesOK
 <2> QED  BY <1>1, <1>2, <2>2, <2>4 DEF Moves, ManagerMoves, MessagesOK
<1>5. CASE ~(mRunning \/ mReady)
  BY <1>1, <1>2, <1>5 DEF RoundEnds, Rests, KeepsManager, managerSide, Moves, ManagerMoves,
     MessagesOK
<1> QED  BY <1>4, <1>5

LEMMA StopExperimentMoves == ASSUME ExperimentInv, StopExperiment PROVE Moves
<1>1. KeepsEndpoint /\ UNCHANGED <<confirmed, toManager, fromReceiver>> /\ mContext # 0
  BY DEF StopExperiment, KeepsEndpoint, testSide
<1>2. ExperimentTypeOK /\ MessagesOK  BY DEF ExperimentInv
<1>3. toReceiver' \in [Receivers -> Seq(ReceiverMessages)]
  BY <1>2, ClearedOK DEF MessagesOK, StopExperiment
<1>4. CASE mPlan # NoPlan
  BY <1>1, <1>2, <1>3, <1>4, StopOrders DEF StopExperiment, Moves, ManagerMoves, MessagesOK
<1>5. CASE mPlan = NoPlan
  BY <1>1, <1>2, <1>3, <1>5, ContextDrops DEF StopExperiment, Moves, ManagerMoves, MessagesOK
<1> QED  BY <1>4, <1>5

\* What a message of the endpoint to the manager is.
LEMMA HeardFirst ==
    ASSUME MessagesOK, NEW type, FromTest(type)
    PROVE  /\ Hears(type) /\ Head(toManager) = toManager[1] /\ toManager[1] \in ManagerMessages
           /\ toManager' \in Seq(ManagerMessages)
  BY Takes DEF MessagesOK, FromTest, Hears

LEMMA Rejects ==
    ASSUME ExperimentInv, mContext # 0, NEW plan \in Plan, RejectPlan(plan), KeepsEndpoint,
           UNCHANGED confirmed, UNCHANGED toManager \/ Hears("plan")
    PROVE  RefusesPlan /\ toTest' \in Seq(TestMessages)
<1> DEFINE m == [type |-> "decision", id |-> plan.id, accepted |-> FALSE]
<1>1. plan.id \in 1 .. MaxPlans /\ m \in TestMessages  BY DEF Plan, TestMessages
<1>2. testLink /\ MessagesOK  BY DEF ExperimentInv, SidesOK
<1>3. Tell(<<m>>)  BY DEF RejectPlan, Decision
<1>4. Says(m) /\ toTest' \in Seq(TestMessages)  BY <1>1, <1>2, <1>3, TellSays
<1>5. mPlan' = NoPlan /\ Unready /\ UNCHANGED mContext  BY DEF RejectPlan, FlagsDown, Unready
<1> QED  BY <1>1, <1>4, <1>5 DEF RefusesPlan

LEMMA HandlePlanMoves == ASSUME ExperimentInv, HandlePlan PROVE Moves
<1> DEFINE plan == Head(toManager).plan
           install == [type |-> "install", id |-> plan.id, round |-> mContext]
<1>1. /\ KeepsEndpoint /\ UNCHANGED fromReceiver /\ mContext # 0
      /\ ExperimentTypeOK /\ MessagesOK
  BY DEF HandlePlan, endpointUnchanged, KeepsEndpoint, testSide, ExperimentInv
<1>2. /\ Hears("plan") /\ plan = toManager[1].plan /\ plan \in Plan
      /\ toManager' \in Seq(ManagerMessages)
  BY <1>1, HeardFirst DEF HandlePlan, ManagerMessages, Hears
<1>3. install \in ReceiverMessages /\ Clear \in ReceiverMessages /\ testLink
      /\ Decision(plan, FALSE) \in TestMessages /\ Decision(plan, TRUE) \in TestMessages
 <2>1. plan.id \in 1 .. MaxPlans /\ plan.id \in 0 .. MaxPlans /\ mContext \in 0 .. LastRound
   BY <1>1, <1>2, ContextBound, ExperimentParameters DEF Plan
 <2>2. install \in ReceiverMessages  BY <2>1 DEF ReceiverMessages
 <2> QED
   BY <1>1, <2>1, <2>2, ClearedOK DEF MessagesOK, Decision, TestMessages, ExperimentInv, SidesOK
<1> HIDE DEF install, plan
<1>4. CASE mPlan # NoPlan /\ Tell(<<Decision(plan, FALSE)>>)
           /\ UNCHANGED <<managerSide, toReceiver, confirmed>>
 <2>1. Says(Decision(plan, FALSE)) /\ toTest' \in Seq(TestMessages)  BY <1>1, <1>3, <1>4, TellSays
 <2>2. plan.id \in 1 .. MaxPlans /\ UNCHANGED <<mContext, mPlan, mReady, mRunning, confirmed>>
   BY <1>2, <1>4 DEF Plan, managerSide
 <2>3. RefusesPlan  BY <1>1, <1>2, <1>4, <2>1, <2>2 DEF RefusesPlan, Decision
 <2> QED  BY <1>1, <1>2, <1>4, <2>1, <2>3 DEF Moves, ManagerMoves, MessagesOK
<1>5. CASE RejectPlan(plan) /\ UNCHANGED <<toReceiver, confirmed>>
  BY <1>1, <1>2, <1>5, Rejects DEF Moves, ManagerMoves, MessagesOK
<1>6. CASE /\ mPlan = NoPlan /\ plan.kind = "load"
           /\ mPlan' = plan /\ mPending' = TRUE /\ Tell(<<Decision(plan, TRUE)>>)
           /\ confirmed' = confirmed \union {plan.id}
           /\ UNCHANGED <<mContext, mReady, mRunning, mRequests, mReceivers, toReceiver>>
  BY <1>1, <1>2, <1>3, <1>6, TellSays DEF TakesPlan, Moves, ManagerMoves, MessagesOK
<1>7. CASE /\ mPlan = NoPlan /\ mPlan' = plan
           /\ toReceiver' = Sent(toReceiver, Receivers, install)
           /\ UNCHANGED <<mContext, mReady, mRunning, toTest, confirmed>>
  BY <1>1, <1>2, <1>3, <1>7, SentOK DEF MessagesOK, TakesPlan, Moves, ManagerMoves
<1>8. CASE /\ \E asked \in SUBSET {r \in Receivers : receiverLink[r]} :
                 toReceiver' = Sent(Sent(toReceiver, asked, install), Receivers, Clear)
           /\ RejectPlan(plan) /\ UNCHANGED confirmed
 <2>1. toReceiver' \in [Receivers -> Seq(ReceiverMessages)]
  <3>1. PICK asked \in SUBSET {r \in Receivers : receiverLink[r]} :
            toReceiver' = Sent(Sent(toReceiver, asked, install), Receivers, Clear)
    BY <1>8
  <3>2. Sent(toReceiver, asked, install) \in [Receivers -> Seq(ReceiverMessages)]
    BY <1>1, <1>3, SentOK DEF MessagesOK
  <3> QED  BY <1>3, <3>1, <3>2, SentOK
 <2>2. RefusesPlan /\ toTest' \in Seq(TestMessages)  BY <1>1, <1>2, <1>8, Rejects
 <2> QED  BY <1>1, <1>2, <1>8, <2>1, <2>2 DEF Moves, ManagerMoves, MessagesOK
<1> QED  BY <1>4, <1>5, <1>6, <1>7, <1>8 DEF HandlePlan, plan, install

LEMMA HandleReadyMoves == ASSUME ExperimentInv, HandleReady PROVE Moves
<1>1. /\ KeepsEndpoint /\ mContext # 0 /\ ExperimentTypeOK /\ MessagesOK
      /\ UNCHANGED <<mContext, mPlan, mRunning, confirmed, toTest, toReceiver, fromReceiver>>
  BY DEF HandleReady, endpointUnchanged, KeepsEndpoint, testSide, ExperimentInv
<1>2. Hears("ready") /\ Head(toManager) = toManager[1] /\ toManager' \in Seq(ManagerMessages)
  BY <1>1, HeardFirst DEF HandleReady
<1>3. IF toManager[1].id = mPlan.id THEN mReady' = TRUE ELSE UNCHANGED mReady
  BY <1>2 DEF HandleReady
<1>4. HearsReady  BY <1>1, <1>2, <1>3 DEF HearsReady
<1> QED  BY <1>1, <1>2, <1>4 DEF Moves, ManagerMoves, MessagesOK

LEMMA HandleStatusMoves == ASSUME ExperimentInv, HandleStatus PROVE Moves
<1>1. /\ KeepsEndpoint /\ mContext # 0 /\ ExperimentTypeOK /\ MessagesOK
      /\ UNCHANGED <<confirmed, toTest, fromReceiver>>
  BY DEF HandleStatus, endpointUnchanged, KeepsEndpoint, testSide, ExperimentInv
<1>2. Hears("status") /\ Head(toManager) = toManager[1] /\ toManager' \in Seq(ManagerMessages)
  BY <1>1, HeardFirst DEF HandleStatus
<1>3. CASE (mPlan = NoPlan \/ toManager[1].id # mPlan.id) /\ UNCHANGED <<managerSide, toReceiver>>
  BY <1>1, <1>2, <1>3 DEF HearsStatus, managerSide, Moves, ManagerMoves, MessagesOK
<1>4. CASE /\ mPlan # NoPlan /\ toManager[1].id = mPlan.id /\ ~toManager[1].over
           /\ mRunning' = toManager[1].runs
           /\ UNCHANGED <<mContext, mPlan, mPending, mReady, mRequests, mReceivers, toReceiver>>
  BY <1>1, <1>2, <1>4 DEF HearsStatus, Moves, ManagerMoves, MessagesOK
<1>5. CASE /\ mPlan # NoPlan /\ toManager[1].id = mPlan.id /\ toManager[1].over
           /\ NoMappings /\ FlagsDown /\ toReceiver' = Cleared(toReceiver)
           /\ UNCHANGED <<mContext, mPlan>>
 <2>0. UNCHANGED <<mContext, mPlan, confirmed, toTest>> /\ Unready
   BY <1>1, <1>5 DEF FlagsDown, Unready
 <2>1. HearsStatus  BY <1>1, <1>2, <1>5, <2>0, Zenon DEF HearsStatus
 <2>2. toReceiver' \in [Receivers -> Seq(ReceiverMessages)]  BY <1>1, <1>5, ClearedOK DEF MessagesOK
 <2> QED  BY <1>1, <1>2, <2>1, <2>2 DEF Moves, ManagerMoves, MessagesOK
<1> QED  BY <1>2, <1>3, <1>4, <1>5 DEF HandleStatus

LEMMA HandleStrangerMoves == ASSUME ExperimentInv, HandleStranger PROVE Moves
<1>1. /\ KeepsEndpoint /\ KeepsManager /\ mContext = 0 /\ MessagesOK
      /\ UNCHANGED <<toTest, toReceiver, fromReceiver>>
  BY DEF HandleStranger, endpointUnchanged, KeepsEndpoint, KeepsManager, testSide, managerSide,
         ExperimentInv
<1>2. Taken(toManager, toManager') /\ toManager' \in Seq(ManagerMessages)
  BY Takes DEF HandleStranger, MessagesOK, ExperimentInv
<1>3. HearsStranger  BY <1>1, <1>2 DEF HearsStranger
<1> QED  BY <1>1, <1>2, <1>3 DEF Moves, ManagerMoves, MessagesOK

LEMMA HandleMappingAnswerMoves ==
    ASSUME ExperimentInv, NEW r \in Receivers, HandleMappingAnswer(r) PROVE Moves
<1> DEFINE answer == Head(fromReceiver[r])
           left   == mRequests \ {<<answer.id, r>>}
<1>1. KeepsEndpoint /\ UNCHANGED toManager /\ ExperimentTypeOK /\ MessagesOK
  BY DEF HandleMappingAnswer, KeepsEndpoint, testSide, ExperimentInv
<1>2. /\ fromReceiver' \in [Receivers -> Seq(Answers)] /\ answer \in Answers
      /\ answer = fromReceiver[r][1] /\ Len(fromReceiver[r]) \in Nat \ {0}
  BY <1>1, Takes DEF HandleMappingAnswer, MessagesOK
<1> HIDE DEF answer
<1>3. CASE UNCHANGED <<managerSide, toTest, toReceiver, confirmed>>
  BY <1>1, <1>2, <1>3 DEF Rests, KeepsManager, managerSide, Moves, ManagerMoves, MessagesOK
<1>4. ASSUME <<answer.id, r>> \in mRequests
      PROVE  /\ mPlan # NoPlan /\ mPlan \in Plan /\ mContext # 0 /\ answer.id = mPlan.id /\ testLink
             /\ \A q \in Receivers : <<mPlan.id, q>> \in mRequests \/ <<mPlan.id, q>> \in installed
  BY <1>1, <1>4, PlanId DEF ExperimentInv, ReceiversFit, RequestsFit, SidesOK
<1>5. CASE /\ <<answer.id, r>> \in mRequests /\ ~answer.accepted
           /\ RejectPlan(mPlan) /\ toReceiver' = Cleared(toReceiver) /\ UNCHANGED confirmed
  BY <1>1, <1>2, <1>4, <1>5, Rejects, ClearedOK DEF MessagesOK, Moves, ManagerMoves
<1>6. CASE /\ <<answer.id, r>> \in mRequests /\ answer.accepted /\ left = {}
           /\ Tell(<<Decision(mPlan, TRUE)>>) /\ confirmed' = confirmed \union {mPlan.id}
           /\ UNCHANGED <<mContext, mPlan, mPending, mReady, mRunning, mReceivers, toReceiver>>
 <2>1. Decision(mPlan, TRUE) \in TestMessages
   BY <1>1, <1>4, <1>6, PlanId DEF Decision, TestMessages
 <2>2. Says(Decision(mPlan, TRUE)) /\ toTest' \in Seq(TestMessages)
   BY <1>1, <1>4, <1>6, <2>1, TellSays
 <2>3. <<mPlan.id, r>> \in installed
   BY <1>2, <1>4, <1>6 DEF ExperimentInv, ReceiversFit, AnswersFit
 <2>4. \A q \in Receivers : <<mPlan.id, q>> \in installed  BY <1>4, <1>6, <2>3
 <2>5. ConfirmsPlan  BY <1>1, <1>4, <1>6, <2>2, <2>4 DEF ConfirmsPlan
 <2> QED  BY <1>1, <1>2, <1>6, <2>2, <2>5 DEF Moves, ManagerMoves, MessagesOK
<1>7. CASE /\ UNCHANGED <<toTest, confirmed>>
           /\ UNCHANGED <<mContext, mPlan, mPending, mReady, mRunning, mReceivers, toReceiver>>
  BY <1>1, <1>2, <1>7 DEF Rests, KeepsManager, Moves, ManagerMoves, MessagesOK
<1> QED  BY <1>3, <1>5, <1>6, <1>7 DEF HandleMappingAnswer, answer, AllConfirmed

LEMMA LoseTestMoves == ASSUME ExperimentInv, LoseTest PROVE Moves
<1>1. KeepsEndpoint /\ UNCHANGED <<confirmed, fromReceiver>> /\ toTest' = <<>> /\ toManager' = <<>>
  BY DEF LoseTest, KeepsEndpoint, testSide
<1>2. toReceiver' \in [Receivers -> Seq(ReceiverMessages)]
  BY ClearedOK DEF LoseTest, ExperimentInv, MessagesOK
<1>3. DropsContext
 <2>1. CASE mContext # 0  BY <1>1, <2>1, ContextDrops DEF LoseTest
 <2>2. CASE mContext = 0
  <3>1. mPlan = NoPlan /\ ~mReady /\ ~mRunning  BY <2>2 DEF ExperimentInv, ExperimentTypeOK
  <3>2. UNCHANGED <<mContext, mPlan, mReady, mRunning>>  BY <2>2 DEF LoseTest, managerSide
  <3>3. Unready  BY <3>1, <3>2 DEF Unready
  <3>4. Len(<<>>) = 0  OBVIOUS
  <3> QED  BY <1>1, <2>2, <3>1, <3>2, <3>3, <3>4 DEF DropsContext
 <2> QED  BY <2>1, <2>2
<1>4. <<>> \in Seq(TestMessages) /\ <<>> \in Seq(ManagerMessages)  OBVIOUS
<1> QED  BY <1>1, <1>2, <1>3, <1>4 DEF Moves, ManagerMoves, MessagesOK, ExperimentInv

LEMMA LoseReceiverMoves ==
    ASSUME ExperimentInv, NEW r \in Receivers, LoseReceiver(r) PROVE Moves
<1> DEFINE others == [toReceiver EXCEPT ![r] = <<>>]
<1>1. KeepsEndpoint /\ UNCHANGED <<confirmed, toManager>> /\ ExperimentTypeOK /\ MessagesOK
  BY DEF LoseReceiver, KeepsEndpoint, testSide, ExperimentInv
<1>2. /\ fromReceiver' \in [Receivers -> Seq(Answers)]
      /\ others \in [Receivers -> Seq(ReceiverMessages)]
  BY <1>1 DEF LoseReceiver, MessagesOK
<1> HIDE DEF others
<1>3. CASE ~Cancels(r) /\ toReceiver' = others /\ UNCHANGED <<managerSide, toTest>>
  BY <1>1, <1>2, <1>3 DEF Rests, KeepsManager, managerSide, Moves, ManagerMoves, MessagesOK
<1>4. CASE /\ Cancels(r) /\ toReceiver' = Sent(others, ToClear \ {r}, Clear)
           /\ IF mRunning THEN StopPlan(<<>>) ELSE RejectPlan(mPlan)
 <2>1. mPlan # NoPlan /\ mContext # 0 /\ mPlan \in Plan
   BY <1>1, <1>4, PlanId DEF Cancels, ExperimentInv, SidesOK
 <2>2. toReceiver' \in [Receivers -> Seq(ReceiverMessages)]
   BY <1>1, <1>2, <1>4, SentOK, ClearedOK DEF MessagesOK
 <2>3. (OrdersStop \/ RefusesPlan) /\ toTest' \in Seq(TestMessages)
   BY <1>1, <1>4, <2>1, StopOrders, Rejects
 <2> QED  BY <1>1, <1>2, <2>2, <2>3 DEF Moves, ManagerMoves, MessagesOK
<1> QED  BY <1>3, <1>4 DEF LoseReceiver, others

LEMMA ReconnectMoves == ASSUME ExperimentInv, Reconnect PROVE Moves
  BY DEF Reconnect, Moves, ManagerMoves, Rests, KeepsEndpoint, KeepsManager, testSide, managerSide,
         MessagesOK, ExperimentInv

LEMMA ReceiverHandlesMoves ==
    ASSUME ExperimentInv, NEW r \in Receivers, ReceiverHandles(r) PROVE Moves
<1>1. Rests /\ UNCHANGED <<toTest, toManager>> /\ MessagesOK
  BY DEF ReceiverHandles, Rests, KeepsEndpoint, KeepsManager, testSide, managerSide,
         ExperimentInv
<1>2. /\ toReceiver' \in [Receivers -> Seq(ReceiverMessages)]
      /\ Head(toReceiver[r]) \in ReceiverMessages
  BY <1>1, Takes DEF ReceiverHandles, MessagesOK
<1>3. fromReceiver' \in [Receivers -> Seq(Answers)]
 <2> DEFINE told(accepted) == [fromReceiver EXCEPT ![r] =
                Append(@, [id |-> Head(toReceiver[r]).id, accepted |-> accepted])]
 <2>1. ASSUME NEW accepted \in BOOLEAN
       PROVE  told(accepted) \in [Receivers -> Seq(Answers)]
  <3> DEFINE a == [id |-> Head(toReceiver[r]).id, accepted |-> accepted]
  <3>1. a \in Answers  BY <1>2 DEF Answers, ReceiverMessages
  <3>2. fromReceiver[r] \in Seq(Answers)  BY <1>1 DEF MessagesOK
  <3> HIDE DEF a
  <3>3. Append(fromReceiver[r], a) \in Seq(Answers)  BY <3>1, <3>2, Appends
  <3>4. [fromReceiver EXCEPT ![r] = Append(@, a)] \in [Receivers -> Seq(Answers)]
    BY <1>1, <3>3 DEF MessagesOK
  <3> QED  BY <3>4 DEF a
 <2>2. UNCHANGED fromReceiver \/ fromReceiver' = told(TRUE) \/ fromReceiver' = told(FALSE)
   BY DEF ReceiverHandles
 <2>3. told(TRUE) \in [Receivers -> Seq(Answers)] /\ told(FALSE) \in [Receivers -> Seq(Answers)]
   BY <2>1
 <2> HIDE DEF told
 <2> QED  BY <1>1, <2>2, <2>3 DEF MessagesOK
<1> QED  BY <1>1, <1>2, <1>3 DEF Moves, ManagerMoves, MessagesOK

LEMMA OrderedFirst ==
    ASSUME MessagesOK, NEW type, FromManager(type)
    PROVE  /\ Receives(type) /\ Head(toTest) = toTest[1] /\ toTest[1] \in TestMessages
           /\ toTest' \in Seq(TestMessages) /\ toTest[1].type = type
  BY Takes DEF MessagesOK, FromManager, Receives

LEMMA ReportsSay ==
    ASSUME MessagesOK, NEW m \in ManagerMessages, Report(<<m>>)
    PROVE  Reports(m) /\ toManager' \in Seq(ManagerMessages)
  BY Appends DEF MessagesOK, Report, Reports

LEMMA StatusOK ==
    ASSUME ExperimentTypeOK, NEW state
    PROVE  Status(state) \in ManagerMessages
  BY PlanId, ExperimentParameters DEF NoPlan, Status, ManagerMessages

LEMMA EndpointKeeps ==
    ASSUME ExperimentInv, UNCHANGED managerUnchanged
    PROVE  /\ KeepsManager /\ ExperimentTypeOK /\ MessagesOK
           /\ UNCHANGED <<toReceiver, fromReceiver, testLink, installed>>
  BY DEF managerUnchanged, managerSide, links, receiverState, KeepsManager, ExperimentInv

LEMMA ReceiveContextMoves == ASSUME ExperimentInv, ReceiveContext PROVE Moves
  BY EndpointKeeps, OrderedFirst DEF ReceiveContext, TakesContext, Moves, EndpointMoves, MessagesOK

LEMMA SubmitPlanMoves == ASSUME ExperimentInv, SubmitPlan PROVE Moves
<1> DEFINE m == [type |-> "plan", plan |-> tPlan']
<1>1. KeepsManager /\ MessagesOK /\ ExperimentTypeOK /\ UNCHANGED <<toReceiver, fromReceiver>>
  BY EndpointKeeps DEF SubmitPlan
<1>2. tContext \in Rounds
  BY <1>1, ExperimentParameters DEF SubmitPlan, ExperimentInv, SidesOK, ExperimentTypeOK, Rounds
<1>3. tPlan' \in Plan /\ tPlan'.id = nextAttackId  BY <1>2 DEF SubmitPlan, Plan
<1>4. m \in ManagerMessages  BY <1>3 DEF ManagerMessages
<1>5. Report(<<m>>) /\ testLink  BY DEF SubmitPlan
<1> HIDE DEF m
<1>6. Appended(toManager, toManager', m) /\ toManager' \in Seq(ManagerMessages)
  BY <1>1, <1>4, <1>5, ReportsSay DEF Reports
<1>7. Submits  BY <1>1, <1>3, <1>6 DEF Submits, SubmitPlan, m
<1> QED  BY <1>1, <1>6, <1>7 DEF Moves, EndpointMoves, MessagesOK, SubmitPlan

LEMMA ReceiveDecisionMoves == ASSUME ExperimentInv, ReceiveDecision PROVE Moves
<1> DEFINE ready == [type |-> "ready", id |-> toTest[1].id]
<1>1. /\ KeepsManager /\ MessagesOK /\ ExperimentTypeOK /\ UNCHANGED <<toReceiver, fromReceiver>>
      /\ UNCHANGED <<tContext, nextAttackId>>
  BY EndpointKeeps DEF ReceiveDecision
<1>2. /\ Receives("decision") /\ Head(toTest) = toTest[1] /\ toTest[1] \in TestMessages
      /\ toTest' \in Seq(TestMessages) /\ toTest[1].type = "decision"
  BY <1>1, OrderedFirst DEF ReceiveDecision
<1>3. toTest[1].id \in 1 .. MaxPlans /\ toTest[1].accepted \in BOOLEAN  BY <1>2 DEF TestMessages
<1>4. ready \in ManagerMessages /\ Status("Ready") \in ManagerMessages
  BY <1>1, <1>3, StatusOK DEF ManagerMessages
<1>5. CASE ~toTest[1].accepted /\ tPlan' = NoPlan /\ tState' = StateAfterDiscard
           /\ UNCHANGED toManager
  BY <1>1, <1>2, <1>5 DEF IsRefused, Moves, EndpointMoves, MessagesOK
<1>6. CASE /\ toTest[1].accepted /\ tPlan.id = toTest[1].id /\ tState = "PlanPending"
           /\ tState' = "Ready" /\ UNCHANGED tPlan
           /\ Report(<<ready>>) \/ Report(<<Status("Ready"), ready>>)
 <2> DEFINE s == Status("Ready")
 <2>0. ready = [type |-> "ready", id |-> tPlan.id]  BY <1>6
 <2> HIDE DEF ready, s
 <2>1. CASE Report(<<ready>>)
  <3>1. Reports(ready) /\ toManager' \in Seq(ManagerMessages)  BY <1>1, <1>4, <2>1, ReportsSay
  <3>2. IsAccepted  BY <1>1, <1>2, <1>6, <2>0, <3>1 DEF IsAccepted
  <3> QED  BY <1>1, <1>2, <3>1, <3>2 DEF Moves, EndpointMoves, MessagesOK
 <2>2. CASE Report(<<s, ready>>) /\ testLink
  <3>0. s \in ManagerMessages /\ ready \in ManagerMessages  BY <1>4 DEF s
  <3>1. <<s, ready>> \in Seq(ManagerMessages) /\ Len(<<s, ready>>) = 2
        /\ <<s, ready>>[1] = s /\ <<s, ready>>[2] = ready
    BY <3>0
  <3> DEFINE t == <<s, ready>>
  <3>2. toManager' = toManager \o t /\ toManager \in Seq(ManagerMessages) /\ Len(toManager) \in Nat
    BY <1>1, <2>2, LenProperties DEF Report, MessagesOK
  <3>3. t \in Seq(ManagerMessages) /\ Len(t) = 2 /\ t[1] = s /\ t[2] = ready  BY <3>1
  <3> HIDE DEF t
  <3>4. /\ toManager \o t \in Seq(ManagerMessages) /\ Len(toManager \o t) = Len(toManager) + Len(t)
        /\ \A i \in 1 .. Len(toManager) + Len(t) : (toManager \o t)[i] =
              IF i <= Len(toManager) THEN toManager[i] ELSE t[i - Len(toManager)]
    BY <3>2, <3>3, ConcatProperties
  <3> DEFINE n == Len(toManager)
  <3>5. n \in Nat /\ \A i \in 1 .. n + 2 : toManager'[i] = IF i <= n THEN toManager[i] ELSE t[i - n]
    BY <3>2, <3>3, <3>4
  <3> HIDE DEF n
  <3>6. /\ toManager'[n + 1] = s /\ toManager'[n + 2] = ready
        /\ \A k \in 1 .. n : toManager'[k] = toManager[k]
    BY <3>3, <3>5
  <3>7. toManager' \in Seq(ManagerMessages) /\ Len(toManager') = Len(toManager) + 2
    BY <3>2, <3>3, <3>4
  <3>8. IsAccepted  BY <1>1, <1>2, <1>6, <2>0, <2>2, <3>6, <3>7 DEF IsAccepted, n, s
  <3> QED  BY <1>1, <1>2, <3>7, <3>8 DEF Moves, EndpointMoves, MessagesOK
 <2>3. CASE Report(<<s, ready>>) /\ ~testLink
  <3>1. toManager' = toManager  BY <2>3 DEF Report
  <3>2. Reports(ready)  BY <2>3, <3>1 DEF Reports
  <3>3. IsAccepted  BY <1>1, <1>2, <1>6, <2>0, <3>2 DEF IsAccepted
  <3> QED  BY <1>1, <1>2, <3>1, <3>3 DEF Moves, EndpointMoves, MessagesOK
 <2> QED  BY <1>6, <2>1, <2>2, <2>3 DEF s
<1>7. CASE /\ toTest[1].accepted /\ (tPlan.id # toTest[1].id \/ tState # "PlanPending")
           /\ UNCHANGED <<tPlan, tState, toManager>>
  BY <1>1, <1>2, <1>7 DEF IgnoresOrder, KeepsEndpoint, Accepts, Receives, Moves, EndpointMoves,
     MessagesOK
<1> HIDE DEF ready
<1> QED  BY <1>2, <1>5, <1>6, <1>7 DEF ReceiveDecision, Fits, ready

LEMMA ReceiveStartMoves == ASSUME ExperimentInv, ReceiveStart PROVE Moves
<1>1. /\ KeepsManager /\ MessagesOK /\ ExperimentTypeOK /\ UNCHANGED <<toReceiver, fromReceiver>>
      /\ UNCHANGED <<tContext, tPlan, nextAttackId>>
  BY EndpointKeeps DEF ReceiveStart
<1>2. Receives("start") /\ Head(toTest) = toTest[1] /\ toTest' \in Seq(TestMessages)
  BY <1>1, OrderedFirst DEF ReceiveStart
<1>3. CASE tPlan.id = toTest[1].id /\ tState = "Ready" /\ tState' = "Scheduled"
           /\ Report(<<Status("Scheduled")>>)
  BY <1>1, <1>2, <1>3, ReportsSay, StatusOK DEF Schedules, Moves, EndpointMoves, MessagesOK
<1>4. CASE UNCHANGED <<tState, toManager>>
  BY <1>1, <1>2, <1>4 DEF IgnoresOrder, KeepsEndpoint, Receives, Moves, EndpointMoves, MessagesOK
<1> QED  BY <1>2, <1>3, <1>4 DEF ReceiveStart

LEMMA ReceiveStopMoves == ASSUME ExperimentInv, ReceiveStop PROVE Moves
<1>1. /\ KeepsManager /\ MessagesOK /\ ExperimentTypeOK /\ UNCHANGED <<toReceiver, fromReceiver>>
      /\ UNCHANGED <<tContext, tPlan, nextAttackId>>
  BY EndpointKeeps DEF ReceiveStop
<1>2. Receives("stop") /\ toTest' \in Seq(TestMessages)  BY <1>1, OrderedFirst DEF ReceiveStop
<1>3. CASE tState \in {"Idle", "ContextReady"}
 <2>1. UNCHANGED <<tState, toManager>>  BY <1>3 DEF ReceiveStop, StopAny, Stopped
 <2>2. IgnoresOrder  BY <1>1, <1>2, <1>3, <2>1 DEF IgnoresOrder, KeepsEndpoint, Receives
 <2> QED  BY <1>1, <1>2, <2>1, <2>2 DEF Moves, EndpointMoves, MessagesOK
<1>4. CASE tState \notin {"Idle", "ContextReady"}
 <2>1. tState' = "Stopped" /\ Report(<<Status("Stopped")>>)
   BY <1>4 DEF ReceiveStop, StopAny, Stopped
 <2>2. Reports(Status("Stopped")) /\ toManager' \in Seq(ManagerMessages)
   BY <1>1, <2>1, ReportsSay, StatusOK
 <2>3. StopsPlan  BY <1>1, <1>2, <1>4, <2>1, <2>2 DEF StopsPlan
 <2> QED  BY <1>1, <1>2, <2>2, <2>3 DEF Moves, EndpointMoves, MessagesOK
<1> QED  BY <1>3, <1>4

LEMMA LocalStopMoves == ASSUME ExperimentInv, LocalStop PROVE Moves
<1>1. /\ KeepsManager /\ MessagesOK /\ ExperimentTypeOK /\ UNCHANGED <<toReceiver, fromReceiver>>
      /\ UNCHANGED <<tContext, tPlan, nextAttackId, toTest>> /\ tState \in Busy
  BY EndpointKeeps DEF LocalStop
<1>2. tState \notin {"Idle", "ContextReady"}  BY <1>1 DEF Busy
<1>3. tState' = "Stopped" /\ Report(<<Status("Stopped")>>)  BY <1>2 DEF LocalStop, Stopped
<1>4. Reports(Status("Stopped")) /\ toManager' \in Seq(ManagerMessages)
  BY <1>1, <1>3, ReportsSay, StatusOK
<1>5. StopsPlan  BY <1>1, <1>2, <1>3, <1>4 DEF StopsPlan
<1> QED  BY <1>1, <1>4, <1>5 DEF Moves, EndpointMoves, MessagesOK

LEMMA ExecutesMoves == ASSUME ExperimentInv, Executes PROVE Moves
<1>1. /\ KeepsManager /\ MessagesOK /\ ExperimentTypeOK /\ UNCHANGED <<toReceiver, fromReceiver>>
      /\ UNCHANGED <<tContext, tPlan, nextAttackId, toTest>>
  BY EndpointKeeps DEF Executes
<1>2. CASE tState = "Scheduled" /\ tState' = "Running"
           /\ (Report(<<Status("Running")>>) \/ UNCHANGED toManager)
  BY <1>1, <1>2, ReportsSay, StatusOK DEF MessagesOK, Proceeds, Moves, EndpointMoves
<1>3. CASE tState = "Running" /\ tState' = "Completed" /\ Report(<<Status("Completed")>>)
  BY <1>1, <1>3, ReportsSay, StatusOK DEF Proceeds, Moves, EndpointMoves, MessagesOK
<1> QED  BY <1>2, <1>3 DEF Executes

LEMMA StepMoves == ASSUME ExperimentInv, ExperimentNext PROVE Moves
  BY PrepareRoundMoves, PrepareContextMoves, StartRoundMoves, StopRoundMoves, RoundEndsMoves,
     StopExperimentMoves, HandlePlanMoves, HandleReadyMoves, HandleStatusMoves,
     HandleStrangerMoves, HandleMappingAnswerMoves, LoseTestMoves, LoseReceiverMoves,
     ReconnectMoves, ReceiverHandlesMoves, ReceiveContextMoves, SubmitPlanMoves,
     ReceiveDecisionMoves, ReceiveStartMoves, ReceiveStopMoves, LocalStopMoves, ExecutesMoves
     DEF ExperimentNext, Operator, ManagerHandles, TestHandles, ConnectionsChange

-----------------------------------------------------------------------------
(* Types, and what belongs together on each side.                             *)

\* What the steps of the manager and of the connections keep.
Outward ==
    /\ authRound \in 0 .. LastRound /\ authRunning \in BOOLEAN /\ mPending \in BOOLEAN
    /\ mContext \in 0 .. authRound
    /\ mReceivers \subseteq Receivers /\ mRequests \subseteq (1 .. MaxPlans) \X Receivers
    /\ testLink \in BOOLEAN /\ receiverLink \in [Receivers -> BOOLEAN]
    /\ mContext = 0 => mReceivers = {}
    /\ mContext # 0 => testLink
    /\ mReceivers # {} => mPlan # NoPlan

AtReceivers ==
    /\ attackMapping \in [Receivers -> 0 .. LastRound] /\ rConfigured \in [Receivers -> 0 .. LastRound]

LEMMA OutwardHolds == ASSUME ExperimentInv PROVE Outward /\ AtReceivers
  BY DEF ExperimentInv, ExperimentTypeOK, SidesOK, Outward, AtReceivers

LEMMA StopPlanOutward ==
    ASSUME Outward, NEW before, StopPlan(before), authRound' = authRound, authRunning' \in BOOLEAN,
           testLink' = testLink, receiverLink' \in [Receivers -> BOOLEAN]
    PROVE  Outward'
  BY DEF Outward, StopPlan, NoMappings, FlagsDown

LEMMA RejectPlanOutward ==
    ASSUME Outward, NEW plan, RejectPlan(plan), authRound' = authRound, authRunning' = authRunning,
           testLink' = testLink, receiverLink' \in [Receivers -> BOOLEAN]
    PROVE  Outward'
  BY DEF Outward, RejectPlan, NoMappings, FlagsDown

LEMMA ClearStateOutward ==
    ASSUME Outward, ClearPreparedState, authRound' \in 0 .. LastRound, authRunning' \in BOOLEAN,
           testLink' \in BOOLEAN, receiverLink' = receiverLink
    PROVE  Outward'
<1>1. mContext' = 0 /\ mReceivers' = {} /\ mRequests' = {} /\ mPending' = FALSE
  BY DEF ClearPreparedState, NoMappings, FlagsDown
<1>2. 0 \in 0 .. authRound'  BY ExperimentParameters
<1> QED  BY <1>1, <1>2 DEF Outward

LEMMA SameOutward ==
    ASSUME Outward, UNCHANGED managerSide, authRound' \in authRound .. LastRound,
           authRunning' \in BOOLEAN, testLink' \in BOOLEAN, mContext # 0 => testLink',
           receiverLink' \in [Receivers -> BOOLEAN]
    PROVE  Outward'
  BY DEF Outward, managerSide

LEMMA OperatorOutward == ASSUME ExperimentInv, Operator PROVE Outward'
<1>1. Outward /\ ExperimentTypeOK  BY OutwardHolds DEF ExperimentInv
<1>2. CASE PrepareRound
 <2>1. /\ authRound' \in authRound .. LastRound /\ authRound' \in 0 .. LastRound
       /\ UNCHANGED <<authRunning, testLink, receiverLink>>
   BY <1>1, <1>2, ExperimentParameters DEF PrepareRound, Outward
 <2>2. CASE mContext # 0  BY <1>1, <1>2, <2>1, <2>2, ClearStateOutward DEF PrepareRound, Outward
 <2>3. CASE mContext = 0  BY <1>1, <1>2, <2>1, <2>3, SameOutward DEF PrepareRound, Outward
 <2> QED  BY <2>2, <2>3
<1>3. CASE PrepareContext  BY <1>1, <1>3, ExperimentParameters DEF PrepareContext, Outward, links
<1>4. CASE StartRound
 <2>1. UNCHANGED <<authRound, links>>  BY <1>4 DEF StartRound
 <2>2. CASE authRunning' = TRUE /\ UNCHANGED <<mContext, mPlan, mPending, mReady, mRequests, mReceivers>>
   BY <1>1, <2>1, <2>2 DEF Outward, links
 <2>3. CASE StopPlan(<<[type |-> "start", id |-> mPlan.id]>>) /\ UNCHANGED authRunning
   BY <1>1, <2>1, <2>3, StopPlanOutward DEF links, Outward
 <2> QED  BY <1>4, <2>2, <2>3 DEF StartRound
<1>5. CASE StopAttackRound
 <2>1. UNCHANGED <<authRound, links>> /\ authRunning' \in BOOLEAN  BY <1>5 DEF StopAttackRound
 <2>2. StopPlan(<<>>) \/ UNCHANGED managerSide  BY <1>5 DEF StopAttackRound
 <2>3. CASE StopPlan(<<>>)  BY <1>1, <2>1, <2>3, StopPlanOutward DEF links, Outward
 <2>4. CASE UNCHANGED managerSide
   BY <1>1, <2>1, <2>4, SameOutward, ExperimentParameters DEF links, Outward
 <2> QED  BY <2>2, <2>3, <2>4
<1>6. CASE RoundEnds
 <2>1. UNCHANGED <<authRound, links>> /\ authRunning' \in BOOLEAN  BY <1>6 DEF RoundEnds
 <2>2. StopPlan(<<>>) \/ UNCHANGED managerSide  BY <1>6 DEF RoundEnds
 <2>3. CASE StopPlan(<<>>)  BY <1>1, <2>1, <2>3, StopPlanOutward DEF links, Outward
 <2>4. CASE UNCHANGED managerSide
   BY <1>1, <2>1, <2>4, SameOutward, ExperimentParameters DEF links, Outward
 <2> QED  BY <2>2, <2>3, <2>4
<1>7. CASE StopExperiment
 <2>1. UNCHANGED <<authRound, authRunning, links>>  BY <1>7 DEF StopExperiment
 <2>2. StopPlan(<<>>) \/ ClearPreparedState  BY <1>7 DEF StopExperiment
 <2>3. CASE StopPlan(<<>>)  BY <1>1, <2>1, <2>3, StopPlanOutward DEF links, Outward
 <2>4. CASE ClearPreparedState  BY <1>1, <2>1, <2>4, ClearStateOutward DEF links, Outward
 <2> QED  BY <2>2, <2>3, <2>4
<1> QED  BY <1>2, <1>3, <1>4, <1>5, <1>6, <1>7 DEF Operator

LEMMA HandlesOutward == ASSUME ExperimentInv, ManagerHandles PROVE Outward'
<1>1. Outward /\ ExperimentTypeOK  BY OutwardHolds DEF ExperimentInv
<1>2. CASE HandlePlan
 <2> DEFINE plan == Head(toManager).plan
 <2>1. UNCHANGED <<authRound, authRunning, testLink, receiverLink>> /\ mContext # 0
   BY <1>2 DEF HandlePlan, endpointUnchanged, links
 <2>2. plan \in Plan  BY <1>2, HeardFirst DEF HandlePlan, ManagerMessages, Hears, ExperimentInv
 <2>3. \/ UNCHANGED managerSide \/ RejectPlan(plan)
       \/ mPlan' = plan /\ mPending' = TRUE /\ UNCHANGED <<mContext, mRequests, mReceivers>>
       \/ /\ mPlan' = plan /\ mPending' = TRUE /\ UNCHANGED mContext
          /\ mReceivers' = Receivers /\ mRequests' = {plan.id} \X Receivers
   BY <1>2 DEF HandlePlan
 <2> HIDE DEF plan
 <2>4. CASE UNCHANGED managerSide  BY <1>1, <2>1, <2>4 DEF Outward, managerSide
 <2>5. CASE RejectPlan(plan)  BY <1>1, <2>1, <2>5, RejectPlanOutward DEF Outward
 <2>6. CASE mPlan' = plan /\ mPending' = TRUE /\ UNCHANGED <<mContext, mRequests, mReceivers>>
   BY <1>1, <2>1, <2>2, <2>6, PlanId DEF Outward
 <2>7. CASE /\ mPlan' = plan /\ mPending' = TRUE /\ UNCHANGED mContext
            /\ mReceivers' = Receivers /\ mRequests' = {plan.id} \X Receivers
   BY <1>1, <2>1, <2>2, <2>7, PlanId DEF Plan, Outward
 <2> QED  BY <2>3, <2>4, <2>5, <2>6, <2>7
<1>3. CASE HandleReady  BY <1>1, <1>3, <1>1 DEF HandleReady, endpointUnchanged, links, Outward
<1>4. CASE HandleStatus
  BY <1>1, <1>4 DEF HandleStatus, endpointUnchanged, links, Outward, managerSide, NoMappings,
     FlagsDown
<1>5. CASE HandleStranger
  BY <1>1, <1>5 DEF HandleStranger, endpointUnchanged, links, Outward, managerSide
<1>6. CASE \E r \in Receivers : HandleMappingAnswer(r)
 <2>1. PICK r \in Receivers : HandleMappingAnswer(r)  BY <1>6
 <2>2. UNCHANGED <<authRound, authRunning, testLink, receiverLink>>
   BY <2>1 DEF HandleMappingAnswer, links
 <2>3. \/ UNCHANGED managerSide \/ RejectPlan(mPlan)
       \/ /\ mRequests' = mRequests \ {<<Head(fromReceiver[r]).id, r>>}
          /\ UNCHANGED <<mContext, mPlan, mPending, mReceivers>>
   BY <2>1 DEF HandleMappingAnswer
 <2>4. CASE RejectPlan(mPlan)  BY <1>1, <2>2, <2>4, RejectPlanOutward DEF Outward
 <2>5. CASE UNCHANGED managerSide  BY <1>1, <2>2, <2>5 DEF Outward, managerSide
 <2>6. CASE /\ mRequests' = mRequests \ {<<Head(fromReceiver[r]).id, r>>}
            /\ UNCHANGED <<mContext, mPlan, mPending, mReceivers>>
   BY <1>1, <2>2, <2>6 DEF Outward
 <2> QED  BY <2>3, <2>4, <2>5, <2>6
<1> QED  BY <1>2, <1>3, <1>4, <1>5, <1>6 DEF ManagerHandles

LEMMA ConnectionsOutward == ASSUME ExperimentInv, ConnectionsChange PROVE Outward'
<1>1. Outward /\ ExperimentTypeOK  BY OutwardHolds DEF ExperimentInv
<1>2. CASE LoseTest
 <2>1. /\ UNCHANGED <<authRound, authRunning, receiverLink>> /\ testLink' = FALSE
       /\ authRound' \in 0 .. LastRound
   BY <1>1, <1>2 DEF LoseTest, Outward
 <2>2. CASE mContext # 0  BY <1>1, <1>2, <2>1, <2>2, ClearStateOutward DEF LoseTest, Outward
 <2>3. CASE mContext = 0
  <3>1. UNCHANGED managerSide /\ authRound' \in authRound .. LastRound
    BY <1>1, <1>2, <2>1, <2>3, ExperimentParameters DEF LoseTest, Outward
  <3> QED  BY <1>1, <2>1, <2>3, <3>1, SameOutward DEF Outward
 <2> QED  BY <2>2, <2>3
<1>3. CASE Reconnect  BY <1>1, <1>3 DEF Reconnect, Outward, managerSide
<1>4. CASE \E r \in Receivers : LoseReceiver(r)
 <2>1. PICK r \in Receivers : LoseReceiver(r)  BY <1>4
 <2>2. UNCHANGED <<authRound, authRunning, testLink>> /\ receiverLink' \in [Receivers -> BOOLEAN]
   BY <1>1, <2>1 DEF LoseReceiver, Outward
 <2>3. StopPlan(<<>>) \/ RejectPlan(mPlan) \/ UNCHANGED managerSide  BY <2>1 DEF LoseReceiver
 <2>4. CASE RejectPlan(mPlan)  BY <1>1, <2>2, <2>4, RejectPlanOutward DEF Outward
 <2>5. CASE UNCHANGED managerSide  BY <1>1, <2>2, <2>5 DEF Outward, managerSide
 <2>6. CASE StopPlan(<<>>)  BY <1>1, <2>2, <2>6, StopPlanOutward DEF Outward
 <2> QED  BY <2>3, <2>4, <2>5, <2>6
<1> QED  BY <1>2, <1>3, <1>4 DEF ConnectionsChange

LEMMA EndpointOutward ==
    ASSUME ExperimentInv, UNCHANGED managerUnchanged PROVE Outward' /\ AtReceivers'
  BY OutwardHolds DEF managerUnchanged, managerSide, links, receiverState, Outward, AtReceivers

LEMMA ReceiverOutward ==
    ASSUME ExperimentInv, NEW r \in Receivers, ReceiverHandles(r) PROVE Outward' /\ AtReceivers'
<1>1. Outward /\ AtReceivers  BY OutwardHolds
<1>2. Outward'  BY <1>1 DEF ReceiverHandles, managerSide, links, Outward
<1>3. Head(toReceiver[r]).round \in 0 .. LastRound
 <2>1. toReceiver[r] \in Seq(ReceiverMessages) /\ toReceiver[r] # <<>>
   BY DEF ReceiverHandles, MessagesOK, ExperimentInv
 <2>2. Head(toReceiver[r]) \in ReceiverMessages  BY <2>1, Takes
 <2> QED  BY <2>2 DEF ReceiverMessages
<1> DEFINE round == Head(toReceiver[r]).round
<1>4. /\ \/ UNCHANGED attackMapping
         \/ attackMapping' = [attackMapping EXCEPT ![r] = 0]
         \/ attackMapping' = [attackMapping EXCEPT ![r] = IF @ = round THEN 0 ELSE @]
         \/ attackMapping' = [attackMapping EXCEPT ![r] = round]
      /\ UNCHANGED rConfigured \/ rConfigured' = [rConfigured EXCEPT ![r] = round]
  BY DEF ReceiverHandles
<1> HIDE DEF round
<1>5. round \in 0 .. LastRound /\ 0 \in 0 .. LastRound  BY <1>3, ExperimentParameters DEF round
<1>6. attackMapping' \in [Receivers -> 0 .. LastRound]  BY <1>1, <1>4, <1>5 DEF AtReceivers
<1>7. rConfigured' \in [Receivers -> 0 .. LastRound]  BY <1>1, <1>4, <1>5 DEF AtReceivers
<1> QED  BY <1>2, <1>6, <1>7 DEF AtReceivers

LEMMA StepOutward == ASSUME ExperimentInv, ExperimentNext PROVE Outward' /\ AtReceivers'
<1>1. CASE Operator \/ ManagerHandles \/ ConnectionsChange
 <2>1. UNCHANGED receiverState
   BY <1>1 DEF Operator, ManagerHandles, ConnectionsChange, PrepareRound, PrepareContext,
      StartRound, StopAttackRound, RoundEnds, StopExperiment, HandlePlan, HandleReady, HandleStatus,
      HandleStranger, HandleMappingAnswer, LoseTest, LoseReceiver, Reconnect, endpointUnchanged
 <2>2. AtReceivers'  BY <2>1, OutwardHolds DEF AtReceivers, receiverState
 <2> QED  BY <1>1, <2>2, OperatorOutward, HandlesOutward, ConnectionsOutward
<1>2. CASE TestHandles \/ SubmitPlan \/ LocalStop \/ Executes
  BY <1>2, EndpointOutward DEF TestHandles, SubmitPlan, LocalStop, Executes, ReceiveContext,
     ReceiveDecision, ReceiveStart, ReceiveStop
<1>3. CASE \E r \in Receivers : ReceiverHandles(r)  BY <1>3, ReceiverOutward
<1> QED  BY <1>1, <1>2, <1>3 DEF ExperimentNext

ManagerSideOK ==
    /\ mPlan \in Plan \union {NoPlan} /\ mReady \in BOOLEAN /\ mRunning \in BOOLEAN
    /\ mContext = 0 => mPlan = NoPlan /\ ~mReady /\ ~mRunning
    /\ mReady => mPlan # NoPlan
    /\ mPlan.id < nextAttackId
    /\ \A id \in confirmed : id \in 1 .. MaxPlans /\ id < nextAttackId

EndpointSideOK ==
    /\ tContext \in 0 .. LastRound /\ tPlan \in Plan \union {NoPlan} /\ tState \in States
    /\ nextAttackId \in 1 .. MaxPlans + 1
    /\ tState \in {"PlanPending", "Ready"} \union Busy => tPlan # NoPlan /\ tContext # 0
    /\ tState = "Idle" <=> tContext = 0
    /\ tState \in {"Idle", "ContextReady"} <=> tPlan = NoPlan
    /\ tPlan # NoPlan => tPlan.id = nextAttackId - 1

LEMMA SidesHold == ASSUME ExperimentInv PROVE ManagerSideOK /\ EndpointSideOK
  BY DEF ExperimentInv, ExperimentTypeOK, SidesOK, ManagerSideOK, EndpointSideOK

\* The first messages, and the lengths of the queues.
LEMMA QueuesOK ==
    ASSUME MessagesOK, MessagesOK'
    PROVE  /\ Len(toTest) \in Nat /\ Len(toTest') \in Nat
           /\ Len(toManager) \in Nat /\ Len(toManager') \in Nat
           /\ \A k \in 1 .. Len(toTest) : toTest[k] \in TestMessages
           /\ \A k \in 1 .. Len(toManager) : toManager[k] \in ManagerMessages
           /\ Taken(toTest, toTest') => 1 \in 1 .. Len(toTest) /\ toTest[1] \in TestMessages
           /\ Taken(toManager, toManager') =>
                 1 \in 1 .. Len(toManager) /\ toManager[1] \in ManagerMessages
<1>1. /\ toTest \in Seq(TestMessages) /\ toTest' \in Seq(TestMessages)
      /\ toManager \in Seq(ManagerMessages) /\ toManager' \in Seq(ManagerMessages)
  BY DEF MessagesOK
<1>2. /\ Len(toTest) \in Nat /\ Len(toTest') \in Nat
      /\ Len(toManager) \in Nat /\ Len(toManager') \in Nat
      /\ \A k \in 1 .. Len(toTest) : toTest[k] \in TestMessages
      /\ \A k \in 1 .. Len(toManager) : toManager[k] \in ManagerMessages
  BY <1>1, LenProperties, ElementOfSeq
<1>3. Taken(toTest, toTest') => 1 \in 1 .. Len(toTest)  BY <1>2 DEF Taken
<1>4. Taken(toManager, toManager') => 1 \in 1 .. Len(toManager)  BY <1>2 DEF Taken
<1> QED  BY <1>2, <1>3, <1>4

LEMMA ManagerKept ==
    ASSUME ExperimentInv, MessagesOK', ManagerMoves
    PROVE  ManagerSideOK' /\ EndpointSideOK'
<1>1. ManagerSideOK /\ EndpointSideOK /\ ExperimentTypeOK  BY SidesHold DEF ExperimentInv
<1>2. /\ Taken(toManager, toManager') => toManager[1] \in ManagerMessages /\ 1 \in 1 .. Len(toManager)
      /\ NoPlan \in Plan \union {NoPlan} /\ NoPlan.id = 0
  BY QueuesOK DEF ExperimentInv, NoPlan
<1>3. KeepsEndpoint
  BY DEF ManagerMoves, Rests, DropsContext, GivesContext, OrdersStart, OrdersStop, OrdersBoth,
     RefusesPlan, TakesPlan, ConfirmsPlan, HearsReady, HearsStatus, HearsStranger
<1>4. EndpointSideOK'  BY <1>1, <1>3 DEF EndpointSideOK, KeepsEndpoint
<1> SUFFICES ManagerSideOK'  BY <1>4
<1>5. nextAttackId' = nextAttackId /\ nextAttackId \in 1 .. MaxPlans + 1 /\ MaxPlans \in Nat
  BY <1>1, <1>3, ExperimentParameters DEF KeepsEndpoint, EndpointSideOK
<1> DEFINE none == NoPlan
<1>16. none.id < nextAttackId /\ none \in Plan \union {NoPlan} /\ none = NoPlan  BY <1>2, <1>5
<1> HIDE DEF none
<1>17. ASSUME mPlan' = NoPlan, Unready, UNCHANGED confirmed PROVE ManagerSideOK'
  BY <1>1, <1>5, <1>16, <1>17 DEF Unready, ManagerSideOK
<1>6. CASE Rests \/ HearsStranger
  BY <1>1, <1>5, <1>6 DEF Rests, HearsStranger, KeepsManager, ManagerSideOK
<1>7. CASE DropsContext  BY <1>7, <1>17 DEF DropsContext
<1>8. CASE GivesContext  BY <1>1, <1>5, <1>8 DEF GivesContext, ManagerSideOK
<1>9. CASE OrdersStart  BY <1>1, <1>5, <1>9 DEF OrdersStart, ManagerSideOK
<1>10. CASE OrdersStop \/ OrdersBoth
  BY <1>1, <1>5, <1>10 DEF OrdersStop, OrdersBoth, Unready, ManagerSideOK
<1>11. CASE RefusesPlan
 <2>1. mContext # 0 /\ UNCHANGED <<mContext, confirmed>>
       /\ ((mPlan' = NoPlan /\ Unready) \/ UNCHANGED <<mPlan, mReady, mRunning>>)
   BY <1>11 DEF RefusesPlan
 <2>2. CASE UNCHANGED <<mPlan, mReady, mRunning>>  BY <1>1, <1>5, <2>1, <2>2 DEF ManagerSideOK
 <2> QED  BY <1>17, <2>1, <2>2
<1>12. CASE TakesPlan
 <2>1. /\ mContext # 0 /\ mPlan = NoPlan /\ toManager[1].type = "plan" /\ 1 \in 1 .. Len(toManager)
       /\ mPlan' = toManager[1].plan /\ UNCHANGED <<mContext, mReady, mRunning>>
       /\ confirmed' \subseteq confirmed \union {mPlan'.id}
   BY <1>2, <1>12 DEF TakesPlan, Hears
 <2>2. mPlan' \in Plan /\ mPlan'.id < nextAttackId /\ mPlan'.id \in 1 .. MaxPlans
  <3>1. toManager[1] \in ManagerMessages  BY <1>2, <1>12 DEF TakesPlan, Hears
  <3>2. toManager[1].plan \in Plan  BY <2>1, <3>1 DEF ManagerMessages
  <3>3. toManager[1].plan.id < nextAttackId
    BY <2>1 DEF ExperimentInv, EndpointFits, PlansInOrder, PlanAt
  <3> QED  BY <2>1, <3>2, <3>3 DEF Plan
 <2>3. mPlan' # NoPlan  BY <1>1, <2>2, PlanId
 <2> QED  BY <1>1, <1>5, <2>1, <2>2, <2>3 DEF ManagerSideOK
<1>13. CASE ConfirmsPlan  BY <1>1, <1>5, <1>13, PlanId DEF ConfirmsPlan, ManagerSideOK
<1>14. CASE HearsReady
 <2>1. /\ UNCHANGED <<mContext, mPlan, mRunning, confirmed>> /\ mContext # 0
       /\ toManager[1].type = "ready" /\ toManager[1] \in ManagerMessages
       /\ \/ toManager[1].id = mPlan.id /\ mReady' = TRUE
          \/ UNCHANGED mReady
   BY <1>2, <1>14 DEF HearsReady, Hears
 <2>2. toManager[1].id \in 1 .. MaxPlans  BY <2>1 DEF ManagerMessages
 <2>3. CASE toManager[1].id = mPlan.id /\ mReady' = TRUE
   BY <1>1, <1>2, <1>5, <2>1, <2>2, <2>3 DEF ManagerSideOK
 <2>4. CASE UNCHANGED mReady  BY <1>1, <1>5, <2>1, <2>4 DEF ManagerSideOK
 <2> QED  BY <2>1, <2>3, <2>4
<1>15. CASE HearsStatus
 <2>1. /\ UNCHANGED <<mContext, mPlan, confirmed>> /\ mContext # 0
       /\ toManager[1].type = "status" /\ toManager[1] \in ManagerMessages
       /\ \/ UNCHANGED <<mReady, mRunning>>
          \/ UNCHANGED mReady /\ mRunning' = toManager[1].runs
          \/ Unready
   BY <1>2, <1>15 DEF HearsStatus, Hears
 <2>2. toManager[1].runs \in BOOLEAN  BY <2>1 DEF ManagerMessages
 <2>3. CASE UNCHANGED <<mReady, mRunning>>  BY <1>1, <1>5, <2>1, <2>3 DEF ManagerSideOK
 <2>4. CASE UNCHANGED mReady /\ mRunning' = toManager[1].runs
   BY <1>1, <1>5, <2>1, <2>2, <2>4 DEF ManagerSideOK
 <2>5. CASE Unready  BY <1>1, <1>5, <2>1, <2>5 DEF ManagerSideOK, Unready
 <2> QED  BY <2>1, <2>3, <2>4, <2>5
<1> QED  BY <1>4, <1>6, <1>7, <1>8, <1>9, <1>10, <1>11, <1>12, <1>13, <1>14, <1>15 DEF ManagerMoves

LEMMA EndpointKept ==
    ASSUME ExperimentInv, MessagesOK', EndpointMoves
    PROVE  ManagerSideOK' /\ EndpointSideOK'
<1>1. ManagerSideOK /\ EndpointSideOK /\ ExperimentTypeOK  BY SidesHold DEF ExperimentInv
<1>2. /\ Taken(toTest, toTest') => toTest[1] \in TestMessages /\ 1 \in 1 .. Len(toTest)
      /\ NoPlan \in Plan \union {NoPlan} /\ NoPlan.id = 0 /\ MaxPlans \in Nat /\ LastRound \in Nat
  BY QueuesOK, ExperimentParameters DEF ExperimentInv, NoPlan
<1>3. KeepsManager
  BY DEF EndpointMoves, TakesContext, Submits, IsRefused, IsAccepted, IgnoresOrder, Schedules,
     StopsPlan, Proceeds
<1>4. nextAttackId' \in {nextAttackId, nextAttackId + 1} /\ nextAttackId \in Nat
  BY <1>1 DEF EndpointMoves, TakesContext, Submits, IsRefused, IsAccepted, IgnoresOrder, Schedules,
     StopsPlan, Proceeds, EndpointSideOK, KeepsEndpoint
<1>5. ManagerSideOK'  BY <1>1, <1>2, <1>3, <1>4, PlanId DEF ManagerSideOK, KeepsManager
<1>6. EndpointSideOK'
 <2>1. CASE TakesContext
   BY <1>1, <1>2, <2>1 DEF TakesContext, Receives, TestMessages, Rounds, EndpointSideOK, States,
      Busy
 <2>2. CASE Submits  BY <1>1, <1>2, <2>2, PlanId DEF Submits, EndpointSideOK, States, Busy
 <2>3. CASE IsRefused
   BY <1>1, <1>2, <2>3 DEF IsRefused, StateAfterDiscard, EndpointSideOK, States, Busy
 <2>4. CASE IsAccepted \/ Schedules \/ StopsPlan \/ Proceeds
   BY <1>1, <2>4 DEF IsAccepted, Schedules, StopsPlan, Proceeds, States, Busy, EndpointSideOK
 <2>5. CASE IgnoresOrder  BY <1>1, <2>5 DEF IgnoresOrder, KeepsEndpoint, EndpointSideOK
 <2> QED  BY <2>1, <2>2, <2>3, <2>4, <2>5 DEF EndpointMoves
<1> QED  BY <1>5, <1>6

LEMMA SidesKept ==
    ASSUME ExperimentInv, ExperimentNext
    PROVE  ExperimentTypeOK' /\ MessagesOK' /\ SidesOK'
<1>1. Moves /\ Outward' /\ AtReceivers'  BY StepMoves, StepOutward
<1>2. ManagerSideOK' /\ EndpointSideOK' /\ MessagesOK'  BY <1>1, ManagerKept, EndpointKept DEF Moves
<1>3. ExperimentTypeOK'
  BY <1>1, <1>2 DEF ExperimentTypeOK, Outward, AtReceivers, ManagerSideOK, EndpointSideOK
<1>4. SidesOK'  BY <1>1, <1>2 DEF SidesOK, Outward, AtReceivers, ManagerSideOK, EndpointSideOK
<1> QED  BY <1>2, <1>3, <1>4

-----------------------------------------------------------------------------
(* The plans, and the queues between the two sides.  The manager takes from    *)
(* toManager and adds to toTest, the endpoint the other way round.             *)

\* A step, with all that is shown of it without the plans.
Stepping ==
    /\ ExperimentInv /\ Moves /\ ExperimentTypeOK' /\ MessagesOK' /\ SidesOK'
    /\ installed \subseteq installed'

Shifted(q, p, s) ==
    /\ s \in {0, 1} /\ (Len(p) # 0 => Len(q) = Len(p) + s)
    /\ \A k \in 1 .. Len(p) : k + s \in 1 .. Len(q) /\ p[k] = q[k + s]

Extended(q, p) == Len(q) <= Len(p) /\ \A k \in 1 .. Len(q) : p[k] = q[k]

LEMMA Shifts ==
    ASSUME NEW q, NEW p, Len(q) \in Nat, Len(p) \in Nat
    PROVE  /\ p = q => Shifted(q, p, 0) /\ Extended(q, p)
           /\ Len(p) = 0 => Shifted(q, p, 0)
           /\ Taken(q, p) => Shifted(q, p, 1)
           /\ \A m : Appended(q, p, m) => Extended(q, p)
<1>1. p = q => Shifted(q, p, 0) /\ Extended(q, p)  BY DEF Shifted, Extended
<1>2. Len(p) = 0 => Shifted(q, p, 0)  BY DEF Shifted
<1>3. Taken(q, p) => Shifted(q, p, 1)  BY DEF Shifted, Taken
<1>4. \A m : Appended(q, p, m) => Extended(q, p)  BY DEF Extended, Appended
<1> QED  BY <1>1, <1>2, <1>3, <1>4

LEMMA ManagerQueues ==
    ASSUME Stepping, ManagerMoves
    PROVE  /\ KeepsEndpoint /\ confirmed \subseteq confirmed'
           /\ \E s \in {0, 1} : Shifted(toManager, toManager', s)
                                /\ (s = 1 => Taken(toManager, toManager'))
           /\ Extended(toTest, toTest') \/ (Len(toTest') = 0 /\ mContext' = 0 /\ mPlan' = NoPlan)
<1>1. /\ Len(toTest) \in Nat /\ Len(toTest') \in Nat /\ Len(toManager) \in Nat /\ Len(toManager') \in Nat
  BY QueuesOK DEF Stepping, ExperimentInv
<1>2. KeepsEndpoint /\ confirmed \subseteq confirmed'
  BY DEF ManagerMoves, Rests, DropsContext, GivesContext, OrdersStart, OrdersStop, OrdersBoth,
     RefusesPlan, TakesPlan, ConfirmsPlan, HearsReady, HearsStatus, HearsStranger, KeepsManager
<1>3. UNCHANGED toManager \/ Len(toManager') = 0 \/ Taken(toManager, toManager')
  BY DEF ManagerMoves, Rests, DropsContext, GivesContext, OrdersStart, OrdersStop, OrdersBoth,
     RefusesPlan, TakesPlan, ConfirmsPlan, HearsReady, HearsStatus, HearsStranger, Hears
<1>4. \E s \in {0, 1} : Shifted(toManager, toManager', s)
                        /\ (s = 1 => Taken(toManager, toManager'))
 <2>1. CASE UNCHANGED toManager \/ Len(toManager') = 0  BY <1>1, <2>1, Shifts
 <2>2. CASE Taken(toManager, toManager')  BY <1>1, <2>2, Shifts
 <2> QED  BY <1>3, <2>1, <2>2
<1>5. Extended(toTest, toTest') \/ (Len(toTest') = 0 /\ mContext' = 0 /\ mPlan' = NoPlan)
 <2>1. CASE OrdersBoth  BY <1>1, <2>1 DEF OrdersBoth, Extended
 <2>2. CASE DropsContext  BY <1>1, <2>2, Shifts DEF DropsContext
 <2>3. CASE GivesContext \/ OrdersStart \/ OrdersStop \/ ConfirmsPlan
   BY <1>1, <2>3, Shifts DEF GivesContext, OrdersStart, OrdersStop, ConfirmsPlan, Says
 <2>4. CASE RefusesPlan \/ TakesPlan  BY <1>1, <2>4, Shifts DEF RefusesPlan, TakesPlan, Says
 <2>5. CASE Rests \/ HearsReady \/ HearsStatus \/ HearsStranger
   BY <1>1, <2>5, Shifts DEF Rests, HearsReady, HearsStatus, HearsStranger
 <2> QED  BY <2>1, <2>2, <2>3, <2>4, <2>5 DEF ManagerMoves
<1> QED  BY <1>2, <1>4, <1>5

LEMMA EndpointQueues ==
    ASSUME Stepping, EndpointMoves
    PROVE  /\ KeepsManager /\ Extended(toManager, toManager')
           /\ \E s \in {0, 1} : Shifted(toTest, toTest', s)
                                /\ (s = 1 => Taken(toTest, toTest'))
<1>1. /\ Len(toTest) \in Nat /\ Len(toTest') \in Nat /\ Len(toManager) \in Nat /\ Len(toManager') \in Nat
  BY QueuesOK DEF Stepping, ExperimentInv
<1>2. KeepsManager
  BY DEF EndpointMoves, TakesContext, Submits, IsRefused, IsAccepted, IgnoresOrder, Schedules,
     StopsPlan, Proceeds
<1>3. UNCHANGED toTest \/ Taken(toTest, toTest')
  BY DEF EndpointMoves, TakesContext, Submits, IsRefused, IsAccepted, IgnoresOrder, Schedules,
     StopsPlan, Proceeds, Receives
<1>4. \E s \in {0, 1} : Shifted(toTest, toTest', s) /\ (s = 1 => Taken(toTest, toTest'))
  BY <1>1, <1>3, Shifts
<1>5. \A m : Reports(m) => Extended(toManager, toManager')  BY <1>1, Shifts DEF Reports
<1>6. Extended(toManager, toManager')
 <2>1. CASE IsAccepted
  <3>1. CASE Len(toManager') = Len(toManager) + 2
             /\ \A k \in 1 .. Len(toManager) : toManager'[k] = toManager[k]
    BY <1>1, <3>1 DEF Extended
  <3> QED  BY <1>5, <2>1, <3>1 DEF IsAccepted
 <2>2. CASE TakesContext \/ IsRefused \/ IgnoresOrder
   BY <1>1, <2>2, Shifts DEF TakesContext, IsRefused, IgnoresOrder
 <2>3. CASE Submits  BY <1>1, <2>3, Shifts DEF Submits
 <2>4. CASE Schedules \/ StopsPlan  BY <1>5, <2>4 DEF Schedules, StopsPlan
 <2>5. CASE Proceeds  BY <1>1, <1>5, <2>5, Shifts DEF Proceeds
 <2> QED  BY <2>1, <2>2, <2>3, <2>4, <2>5 DEF EndpointMoves
<1> QED  BY <1>2, <1>4, <1>6

\* The numbers of plans.
LEMMA Numbers ==
    ASSUME Stepping
    PROVE  /\ nextAttackId \in Nat \ {0} /\ mPlan.id \in Nat /\ tPlan.id \in Nat
           /\ nextAttackId' \in Nat \ {0} /\ mPlan'.id \in Nat /\ tPlan'.id \in Nat
           /\ NoPlan.id = 0 /\ mPlan.id < nextAttackId /\ tPlan.id < nextAttackId
           /\ mPlan # NoPlan => mPlan \in Plan /\ mPlan.id # 0
           /\ mPlan' # NoPlan => mPlan' \in Plan /\ mPlan'.id # 0
           /\ tPlan # NoPlan => tPlan.id # 0 /\ tPlan.id = nextAttackId - 1
           /\ tPlan = NoPlan => tPlan.id = 0
           /\ \A id \in confirmed : id \in 1 .. MaxPlans /\ id \in Nat /\ id < nextAttackId
<1>1. /\ ExperimentTypeOK /\ SidesOK /\ ExperimentTypeOK' /\ SidesOK' /\ MaxPlans \in Nat
  BY ExperimentParameters DEF Stepping, ExperimentInv
<1>2. /\ nextAttackId \in Nat \ {0} /\ nextAttackId' \in Nat \ {0} /\ mPlan.id < nextAttackId
      /\ \A id \in confirmed : id \in 1 .. MaxPlans /\ id \in Nat /\ id < nextAttackId
      /\ tPlan # NoPlan => tPlan.id = nextAttackId - 1
  BY <1>1 DEF SidesOK
<1>3. /\ mPlan.id \in Nat /\ tPlan.id \in Nat /\ NoPlan.id = 0
      /\ mPlan # NoPlan => mPlan \in Plan /\ mPlan.id # 0
      /\ tPlan # NoPlan => tPlan.id # 0
  BY <1>1, PlanId
<1>4. mPlan' \in Plan \union {NoPlan} /\ tPlan' \in Plan \union {NoPlan}
  BY <1>1 DEF ExperimentTypeOK
<1>5. /\ mPlan'.id \in Nat /\ tPlan'.id \in Nat
      /\ mPlan' # NoPlan => mPlan' \in Plan /\ mPlan'.id # 0
  BY <1>1, <1>4 DEF Plan, NoPlan
<1>6. tPlan.id < nextAttackId  BY <1>2, <1>3
<1> QED  BY <1>2, <1>3, <1>5, <1>6

\* What follows from one of the endpoint's moves about plans that are not new.
LEMMA NewPlan ==
    ASSUME Stepping, EndpointMoves
    PROVE  /\ nextAttackId <= nextAttackId'
           /\ tPlan' = tPlan \/ tPlan' = NoPlan \/ Submits
           /\ Submits => tPlan'.id = nextAttackId /\ nextAttackId' = nextAttackId + 1
           /\ ~Submits => nextAttackId' = nextAttackId
  BY Numbers DEF EndpointMoves, TakesContext, Submits, IsRefused, IsAccepted, IgnoresOrder, Schedules,
         StopsPlan, Proceeds, KeepsEndpoint

\* What the manager's moves do to its plan.
LEMMA PlanTaken ==
    ASSUME Stepping, TakesPlan
    PROVE  /\ PlanAt(1) /\ 1 \in 1 .. Len(toManager) /\ mPlan' = toManager[1].plan /\ mPlan' \in Plan
           /\ mPlan'.id \notin confirmed /\ mPlan'.id < nextAttackId
           /\ tPlan.id = mPlan'.id => tPlan = mPlan'
           /\ mPlan'.id # 0
<1>1. 1 \in 1 .. Len(toManager) /\ toManager[1] \in ManagerMessages /\ PlanAt(1)
      /\ mPlan' = toManager[1].plan
  BY QueuesOK DEF Stepping, ExperimentInv, TakesPlan, Hears, PlanAt
<1>2. mPlan' \in Plan  BY <1>1 DEF ManagerMessages, PlanAt
<1>3. mPlan'.id # 0  BY <1>2 DEF Plan
<1>4. /\ mPlan'.id \notin confirmed /\ mPlan'.id < nextAttackId
      /\ tPlan.id = mPlan'.id => tPlan = mPlan'
  BY <1>1 DEF Stepping, ExperimentInv, EndpointFits, PlansInOrder
<1> QED  BY <1>1, <1>2, <1>3, <1>4

LEMMA ManagerPlan ==
    ASSUME Stepping, ManagerMoves
    PROVE  /\ mPlan' = mPlan \/ mPlan' = NoPlan \/ TakesPlan
           /\ \A id \in confirmed' : \/ id \in confirmed \/ id = mPlan'.id
  BY DEF ManagerMoves, Rests, DropsContext, GivesContext, OrdersStart, OrdersStop, OrdersBoth,
         RefusesPlan, TakesPlan, ConfirmsPlan, HearsReady, HearsStatus, HearsStranger, KeepsManager

LEMMA PlansInOrderManager == ASSUME Stepping, ManagerMoves PROVE PlansInOrder'
<1>1. PICK s \in {0, 1} : Shifted(toManager, toManager', s) /\ (s = 1 => Taken(toManager, toManager'))
  BY ManagerQueues
<1>2. UNCHANGED <<tPlan, nextAttackId>> /\ PlansInOrder
  BY ManagerQueues DEF KeepsEndpoint, Stepping, ExperimentInv, EndpointFits
<1>3. Len(toManager) \in Nat /\ Len(toManager') \in Nat  BY QueuesOK DEF Stepping, ExperimentInv
<1>4. ASSUME NEW k \in 1 .. Len(toManager'), toManager'[k].type = "plan"
      PROVE  /\ toManager'[k].plan.id < nextAttackId' /\ mPlan'.id < toManager'[k].plan.id
             /\ toManager'[k].plan.id \notin confirmed'
             /\ tPlan'.id = toManager'[k].plan.id => tPlan' = toManager'[k].plan
             /\ \A m \in 1 .. Len(toManager') : m < k /\ toManager'[m].type = "plan" =>
                    toManager'[m].plan.id < toManager'[k].plan.id
 <2> DEFINE p == toManager'[k].plan
            j == k + s
 <2>1. j \in 1 .. Len(toManager) /\ toManager[j].type = "plan" /\ toManager[j].plan = p
   BY <1>1, <1>4 DEF Shifted
 <2>2. p \in Plan /\ p.id \in Nat \ {0}
   BY <2>1, QueuesOK DEF Stepping, ExperimentInv, ManagerMessages, Plan
 <2>3. /\ p.id < nextAttackId /\ mPlan.id < p.id /\ p.id \notin confirmed
       /\ tPlan.id = p.id => tPlan = p
       /\ \A m \in 1 .. Len(toManager) : m < j /\ toManager[m].type = "plan" =>
              toManager[m].plan.id < p.id
  <3> HIDE DEF p, j
  <3> QED  BY <1>2, <2>1 DEF PlansInOrder, PlanAt
 <2>4. j \in Nat /\ k \in Nat /\ (s = 1 => 1 < j)  BY <1>1, <1>3
 <2>7. \A m \in 1 .. Len(toManager') : m < k /\ toManager'[m].type = "plan" =>
           toManager'[m].plan.id < p.id
  <3> SUFFICES ASSUME NEW m \in 1 .. Len(toManager'), m < k, toManager'[m].type = "plan"
               PROVE  toManager'[m].plan.id < p.id
    OBVIOUS
  <3>1. m + s \in 1 .. Len(toManager) /\ toManager'[m] = toManager[m + s] /\ m + s < j
    BY <1>1, <1>3 DEF Shifted
  <3> HIDE DEF p, j
  <3> QED  BY <2>3, <3>1
 <2> HIDE DEF p, j
 <2>5. mPlan'.id < p.id
  <3>1. CASE mPlan' = mPlan \/ mPlan' = NoPlan  BY <2>2, <2>3, <3>1, Numbers
  <3>2. CASE TakesPlan
   <4>1. s = 1
    <5>1. Taken(toManager, toManager')  BY <3>2 DEF TakesPlan, Hears
    <5>2. CASE s = 0  BY <1>1, <1>3, <1>4, <5>1, <5>2 DEF Shifted, Taken
    <5> QED  BY <5>2
   <4> QED  BY <2>3, <2>4, <3>2, <4>1, PlanTaken DEF PlanAt
  <3> QED  BY <3>1, <3>2, ManagerPlan
 <2>6. p.id \notin confirmed'  BY <2>2, <2>3, <2>5, ManagerPlan, Numbers
 <2> QED  BY <1>2, <2>3, <2>5, <2>6, <2>7 DEF p
<1> QED  BY <1>4 DEF PlansInOrder, PlanAt

LEMMA PlansInOrderEndpoint == ASSUME Stepping, EndpointMoves PROVE PlansInOrder'
<1>1. Extended(toManager, toManager')  BY EndpointQueues
<1>2. UNCHANGED <<mPlan, confirmed>> /\ PlansInOrder
  BY EndpointQueues DEF KeepsManager, Stepping, ExperimentInv, EndpointFits
<1>3. Len(toManager) \in Nat /\ Len(toManager') \in Nat  BY QueuesOK DEF Stepping, ExperimentInv
<1>4. ASSUME NEW k \in 1 .. Len(toManager), toManager[k].type = "plan"
      PROVE  /\ toManager[k].plan \in Plan /\ toManager[k].plan.id \in Nat \ {0}
             /\ toManager[k].plan.id < nextAttackId
  BY <1>2, <1>4, QueuesOK DEF Stepping, ExperimentInv, ManagerMessages, Plan, PlansInOrder,
     PlanAt
<1>5. ASSUME NEW k \in 1 .. Len(toManager'), toManager'[k].type = "plan", ~(k <= Len(toManager))
      PROVE  Submits /\ toManager'[k].plan = tPlan' /\ tPlan'.id = nextAttackId
             /\ k = Len(toManager) + 1
 <2>1. \A m : Reports(m) => toManager'[k] = m  BY <1>3, <1>5 DEF Reports, Appended
 <2>2. CASE IsAccepted
  <3>1. CASE /\ Len(toManager') = Len(toManager) + 2
             /\ toManager'[Len(toManager) + 1] = Status("Ready")
             /\ toManager'[Len(toManager) + 2] = [type |-> "ready", id |-> tPlan.id]
    BY <1>3, <1>5, <3>1 DEF Status
  <3> QED  BY <1>5, <2>1, <2>2, <3>1 DEF IsAccepted
 <2>3. CASE TakesContext \/ IsRefused \/ IgnoresOrder
   BY <1>3, <1>5, <2>3 DEF TakesContext, IsRefused, IgnoresOrder
 <2>4. CASE Submits  BY <1>3, <1>5, <2>4 DEF Submits, Appended
 <2>5. CASE Schedules \/ StopsPlan  BY <1>5, <2>1, <2>5 DEF Schedules, StopsPlan, Status
 <2>6. CASE Proceeds  BY <1>3, <1>5, <2>1, <2>6 DEF Proceeds, Status
 <2> QED  BY <2>2, <2>3, <2>4, <2>5, <2>6 DEF EndpointMoves
<1>6. ASSUME NEW k \in 1 .. Len(toManager'), toManager'[k].type = "plan"
      PROVE  /\ toManager'[k].plan.id < nextAttackId' /\ mPlan'.id < toManager'[k].plan.id
             /\ toManager'[k].plan.id \notin confirmed'
             /\ tPlan'.id = toManager'[k].plan.id => tPlan' = toManager'[k].plan
             /\ \A m \in 1 .. Len(toManager') : m < k /\ toManager'[m].type = "plan" =>
                    toManager'[m].plan.id < toManager'[k].plan.id
 <2>1. CASE k <= Len(toManager)
  <3> DEFINE p == toManager[k].plan
  <3>1. k \in 1 .. Len(toManager) /\ toManager'[k] = toManager[k]  BY <1>1, <1>3, <2>1 DEF Extended
  <3>2. p.id \in Nat \ {0} /\ p.id < nextAttackId  BY <1>4, <1>6, <3>1
  <3>3. /\ mPlan.id < p.id /\ p.id \notin confirmed
        /\ tPlan.id = p.id => tPlan = p
        /\ \A m \in 1 .. Len(toManager) : m < k /\ toManager[m].type = "plan" =>
               toManager[m].plan.id < p.id
    BY <1>2, <1>6, <3>1 DEF PlansInOrder, PlanAt
  <3>4. \A m \in 1 .. Len(toManager') : m < k => m \in 1 .. Len(toManager) /\ toManager'[m] = toManager[m]
    BY <1>1, <1>3, <2>1 DEF Extended
  <3> HIDE DEF p
  <3>5. p.id < nextAttackId' /\ (tPlan'.id = p.id => tPlan' = p)  BY <3>2, <3>3, NewPlan, Numbers
  <3>6. toManager'[k].plan = p  BY <3>1 DEF p
  <3> QED  BY <1>2, <3>3, <3>4, <3>5, <3>6
 <2>2. CASE ~(k <= Len(toManager))
  <3>1. Submits /\ toManager'[k].plan = tPlan' /\ tPlan'.id = nextAttackId /\ k = Len(toManager) + 1
    BY <1>5, <1>6, <2>2
  <3>2. ASSUME NEW m \in 1 .. Len(toManager'), m < k, toManager'[m].type = "plan"
        PROVE  toManager'[m].plan.id < nextAttackId
    BY <1>1, <1>3, <1>4, <3>1, <3>2 DEF Extended
  <3>3. nextAttackId < nextAttackId' /\ mPlan.id < nextAttackId /\ nextAttackId \notin confirmed
    BY <3>1, NewPlan, Numbers
  <3> QED  BY <1>2, <3>1, <3>2, <3>3
 <2> QED  BY <2>1, <2>2
<1> QED  BY <1>6 DEF PlansInOrder, PlanAt

LEMMA ConfirmedMappedKept == ASSUME Stepping PROVE ConfirmedMapped'
<1>1. ConfirmedMapped /\ installed \subseteq installed'  BY DEF Stepping, ExperimentInv
<1>2. CASE ManagerMoves
 <2>1. tPlan' = tPlan  BY <1>2, ManagerQueues DEF KeepsEndpoint
 <2>2. mPlan' # NoPlan /\ mPlan'.id = tPlan.id => mPlan' = tPlan
   BY <1>1, <1>2, ManagerPlan, PlanTaken DEF ConfirmedMapped
 <2>3. ASSUME NEW p \in {mPlan', tPlan}, p.id \in confirmed', p.kind = "copies", NEW r \in Receivers
       PROVE  <<p.id, r>> \in installed'
  <3>1. CASE ConfirmsPlan  BY <1>1, <2>3, <3>1 DEF ConfirmsPlan, ConfirmedMapped
  <3>2. CASE TakesPlan
   <4>1. CASE confirmed' = confirmed  BY <1>1, <2>3, <3>2, <4>1, PlanTaken DEF ConfirmedMapped
   <4>2. CASE mPlan'.kind = "load" /\ confirmed' = confirmed \union {mPlan'.id}
     BY <1>1, <2>3, <3>2, <4>2, PlanTaken DEF ConfirmedMapped
   <4> QED  BY <3>2, <4>1, <4>2 DEF TakesPlan
  <3>3. CASE ~ConfirmsPlan /\ ~TakesPlan
   <4>1. confirmed' = confirmed
     BY <1>2, <3>3 DEF ManagerMoves, Rests, DropsContext, GivesContext, OrdersStart, OrdersStop,
        OrdersBoth, RefusesPlan, HearsReady, HearsStatus, HearsStranger, KeepsManager
   <4>2. p = mPlan \/ p = tPlan \/ p = NoPlan  BY <1>2, <2>3, <3>3, ManagerPlan
   <4>3. NoPlan.kind = "load"  BY DEF NoPlan
   <4> QED  BY <1>1, <2>3, <4>1, <4>2, <4>3 DEF ConfirmedMapped
  <3> QED  BY <3>1, <3>2, <3>3
 <2> QED  BY <2>1, <2>2, <2>3 DEF ConfirmedMapped
<1>3. CASE EndpointMoves
 <2>1. UNCHANGED <<mPlan, confirmed>>  BY <1>3, EndpointQueues DEF KeepsManager
 <2>2. mPlan # NoPlan /\ mPlan.id = tPlan'.id => mPlan = tPlan'
   BY <1>1, <1>3, NewPlan, Numbers DEF ConfirmedMapped
 <2>3. ASSUME NEW p \in {mPlan, tPlan'}, p.id \in confirmed, p.kind = "copies", NEW r \in Receivers
       PROVE  <<p.id, r>> \in installed'
   BY <1>1, <1>3, <2>3, Numbers, NewPlan DEF ConfirmedMapped
 <2> QED  BY <2>1, <2>2, <2>3 DEF ConfirmedMapped
<1> QED  BY <1>2, <1>3 DEF Stepping, Moves

-----------------------------------------------------------------------------
(* The orders to the endpoint.                                                *)

\* While nothing ends what is behind a place of the queue, the manager keeps its
\* plan, or takes its first.
LEMMA OpenStays ==
    ASSUME Stepping, ManagerMoves, mContext' # 0, NEW k \in 0 .. Len(toTest), Open(k)'
    PROVE  /\ Open(k) /\ mContext' = mContext
           /\ \/ Rests \/ OrdersStart \/ TakesPlan \/ ConfirmsPlan \/ HearsReady \/ HearsStatus
           /\ ~TakesPlan => mPlan' = mPlan
<1>1. Len(toTest) \in Nat /\ Len(toTest') \in Nat  BY QueuesOK DEF Stepping, ExperimentInv
<1>2. \A j \in k + 1 .. Len(toTest') : ~Ends(toTest'[j])  BY DEF Open, Ends, Drops, Refuses
<1>3. \A m : Says(m) => ~Ends(m)
 <2> SUFFICES ASSUME NEW m, Says(m) PROVE ~Ends(m)  OBVIOUS
 <2>1. Len(toTest') \in k + 1 .. Len(toTest') /\ toTest'[Len(toTest')] = m
   BY <1>1 DEF Says, Appended
 <2> QED  BY <1>2, <2>1
<1>4. (~DropsContext /\ ~HearsStranger) \/ mContext = 0  BY DEF DropsContext, HearsStranger
<1>5. ~DropsContext  BY DEF DropsContext
<1>6. ~GivesContext  BY <1>3 DEF GivesContext, Ends, Drops
<1>7. ~OrdersStop  BY <1>3 DEF OrdersStop, StopOrder, Ends
<1>8. ~OrdersBoth
 <2> SUFFICES ASSUME OrdersBoth PROVE FALSE  OBVIOUS
 <2>1. Len(toTest) + 2 \in k + 1 .. Len(toTest') /\ toTest'[Len(toTest) + 2] = StopOrder
   BY <1>1 DEF OrdersBoth
 <2>2. ~Ends(StopOrder)  BY <1>2, <2>1
 <2> QED  BY <2>2 DEF StopOrder, Ends
<1>9. ~RefusesPlan
 <2> SUFFICES ASSUME RefusesPlan PROVE FALSE  OBVIOUS
 <2>1. PICK id \in 1 .. MaxPlans : Says([type |-> "decision", id |-> id, accepted |-> FALSE])
   BY DEF RefusesPlan
 <2>2. ~Ends([type |-> "decision", id |-> id, accepted |-> FALSE])  BY <1>3, <2>1
 <2> QED  BY <2>2 DEF Ends, Drops, Refuses
<1>10. mContext' = mContext
  BY <1>5, <1>6 DEF ManagerMoves, Rests, GivesContext, OrdersStart, OrdersStop, OrdersBoth,
     RefusesPlan, TakesPlan, ConfirmsPlan, HearsReady, HearsStatus, HearsStranger, KeepsManager
<1>11. Open(k)  BY <1>1, <1>2, ManagerQueues DEF Extended, Open
<1>12. ~HearsStranger  BY <1>10 DEF HearsStranger
<1>13. \/ Rests \/ OrdersStart \/ TakesPlan \/ ConfirmsPlan \/ HearsReady \/ HearsStatus
  BY <1>5, <1>6, <1>7, <1>8, <1>9, <1>12 DEF ManagerMoves
<1>14. ~TakesPlan => mPlan' = mPlan
  BY <1>13 DEF Rests, OrdersStart, ConfirmsPlan, HearsReady, HearsStatus, KeepsManager
<1> QED  BY <1>10, <1>11, <1>13, <1>14

\* A plan that has not ended at the endpoint is the last one submitted.
LEMMA AliveIsLast ==
    ASSUME Stepping, NEW id, Alive(id)
    PROVE  tPlan # NoPlan /\ tPlan.id = id /\ id = nextAttackId - 1 /\ id # 0
  BY Numbers DEF Stepping, ExperimentInv, SidesOK, Alive, Going, Busy

LEMMA TakenTold ==
    ASSUME TakesPlan
    PROVE  \/ UNCHANGED <<toTest, confirmed>>
           \/ Says(Decision(mPlan', TRUE)) /\ confirmed' = confirmed \union {mPlan'.id}
  BY DEF TakesPlan

\* The manager drops nothing for the plan it holds.
LEMMA NoNewDrops ==
    ASSUME Stepping, ManagerMoves, mPlan' # NoPlan, Alive(mPlan'.id),
           NEW j \in 1 .. Len(toTest'), ~(j <= Len(toTest))
    PROVE  ~Drops(toTest'[j])
<1>1. Len(toTest) \in Nat /\ Len(toTest') \in Nat  BY QueuesOK DEF Stepping, ExperimentInv
<1>2. \A m : Says(m) => toTest'[j] = m  BY <1>1 DEF Says, Appended
<1>3. CASE GivesContext \/ DropsContext
  BY <1>3 DEF GivesContext, DropsContext, Stepping, ExperimentInv, SidesOK
<1>4. CASE OrdersStart \/ OrdersStop \/ ConfirmsPlan
  BY <1>2, <1>4 DEF OrdersStart, OrdersStop, ConfirmsPlan, StartOrder, StopOrder, Decision, Drops,
     Refuses
<1>5. CASE OrdersBoth  BY <1>1, <1>5 DEF OrdersBoth, StartOrder, StopOrder, Drops, Refuses
<1>6. CASE TakesPlan  BY <1>1, <1>2, <1>6, TakenTold DEF Decision, Drops, Refuses
<1>7. CASE RefusesPlan
 <2>1. mPlan' = mPlan /\ Hears("plan")  BY <1>7 DEF RefusesPlan
 <2>2. 1 \in 1 .. Len(toManager) /\ PlanAt(1)
   BY <2>1, QueuesOK DEF Hears, PlanAt, Stepping, ExperimentInv
 <2>3. toManager[1].plan.id < nextAttackId /\ mPlan.id < toManager[1].plan.id
   BY <2>2 DEF Stepping, ExperimentInv, EndpointFits, PlansInOrder
 <2>4. toManager[1].plan.id \in Nat
   BY <2>2, QueuesOK DEF Stepping, ExperimentInv, ManagerMessages, PlanAt, Plan
 <2>5. mPlan.id = nextAttackId - 1  BY <2>1, AliveIsLast
 <2> QED  BY <2>3, <2>4, <2>5, Numbers
<1>8. CASE Rests \/ HearsReady \/ HearsStatus \/ HearsStranger
  BY <1>1, <1>8 DEF Rests, HearsReady, HearsStatus, HearsStranger
<1> QED  BY <1>3, <1>4, <1>5, <1>6, <1>7, <1>8 DEF ManagerMoves

\* What the endpoint's moves leave of a plan that was submitted before.
LEMMA AliveBefore ==
    ASSUME Stepping, EndpointMoves, NEW id \in Nat, id < nextAttackId, Alive(id)'
    PROVE  /\ Alive(id) /\ tPlan' = tPlan
           /\ IsAccepted \/ IgnoresOrder \/ Schedules \/ (Proceeds /\ tState' = "Running")
           /\ tState' = "PlanPending" => tState = "PlanPending"
<1>1. tPlan'.id = id /\ tState' \in {"PlanPending"} \union Going  BY DEF Alive, Going, Busy
<1>2. ~Submits  BY <1>1, NewPlan
<1>3. ~TakesContext /\ ~IsRefused /\ ~StopsPlan
  BY <1>1 DEF TakesContext, IsRefused, StopsPlan, StateAfterDiscard, Going, Busy
<1>4. CASE IsAccepted  BY <1>1, <1>4 DEF IsAccepted, Alive
<1>5. CASE IgnoresOrder  BY <1>1, <1>5 DEF IgnoresOrder, KeepsEndpoint, Alive
<1>6. CASE Schedules  BY <1>1, <1>6 DEF Schedules, Alive, Going
<1>7. CASE Proceeds  BY <1>1, <1>7 DEF Proceeds, Going, Busy, Alive
<1> QED  BY <1>2, <1>3, <1>4, <1>5, <1>6, <1>7 DEF EndpointMoves

LEMMA DecisionsFitManager == ASSUME Stepping, ManagerMoves PROVE DecisionsFit'
<1>1. /\ UNCHANGED <<tPlan, tState>> /\ confirmed \subseteq confirmed' /\ DecisionsFit
      /\ Extended(toTest, toTest') \/ Len(toTest') = 0
  BY ManagerQueues DEF KeepsEndpoint, Stepping, ExperimentInv, EndpointFits
<1>2. /\ Len(toTest) \in Nat /\ Len(toTest') \in Nat
      /\ \A k \in 1 .. Len(toTest) : toTest[k] \in TestMessages
  BY QueuesOK DEF Stepping, ExperimentInv
<1>3. ASSUME NEW k \in 1 .. Len(toTest'), Accepts(toTest'[k])
      PROVE  /\ toTest'[k].id \in confirmed'
             /\ mContext' # 0 /\ Open(k)' => toTest'[k].id = mPlan'.id
             /\ mPlan' # NoPlan /\ toTest'[k].id = mPlan'.id /\ Alive(mPlan'.id) =>
                   \A j \in k + 1 .. Len(toTest') : ~Drops(toTest'[j])
 <2>0. Extended(toTest, toTest') /\ k \in Nat  BY <1>1, <1>2, <1>3
 <2>1. CASE k <= Len(toTest)
  <3>1. k \in 1 .. Len(toTest) /\ k \in 0 .. Len(toTest) /\ toTest'[k] = toTest[k]
    BY <1>2, <2>0, <2>1 DEF Extended
  <3>2. /\ toTest[k].id \in confirmed
        /\ mContext # 0 /\ Open(k) => toTest[k].id = mPlan.id
        /\ mPlan # NoPlan /\ toTest[k].id = mPlan.id /\ Alive(mPlan.id) =>
                 \A j \in k + 1 .. Len(toTest) : ~Drops(toTest[j])
    BY <1>1, <1>3, <3>1 DEF DecisionsFit
  <3>3. ASSUME mContext' # 0, Open(k)' PROVE toTest[k].id = mPlan'.id
   <4>1. Open(k) /\ mContext = mContext' /\ (~TakesPlan => mPlan' = mPlan)  BY <3>1, <3>3, OpenStays
   <4>2. toTest[k].id = mPlan.id  BY <3>2, <3>3, <4>1
   <4>3. ~TakesPlan
    <5>1. mPlan.id # 0  BY <3>2, <4>2, Numbers
    <5>2. mPlan # NoPlan  BY <5>1, Numbers
    <5> QED  BY <5>2 DEF TakesPlan
   <4> QED  BY <4>1, <4>2, <4>3
  <3>4. ASSUME mPlan' # NoPlan, toTest[k].id = mPlan'.id, Alive(mPlan'.id),
               NEW j \in k + 1 .. Len(toTest')
        PROVE  ~Drops(toTest'[j])
   <4>1. mPlan' = mPlan  BY <3>2, <3>4, ManagerPlan, PlanTaken
   <4>2. CASE j <= Len(toTest)  BY <1>2, <2>0, <3>2, <3>4, <4>1, <4>2 DEF Extended
   <4>3. CASE ~(j <= Len(toTest))  BY <1>2, <2>0, <3>4, <4>3, NoNewDrops
   <4> QED  BY <4>2, <4>3
  <3> QED  BY <1>1, <3>1, <3>2, <3>3, <3>4
 <2>2. CASE ~(k <= Len(toTest))
  <3>1. \A m : Says(m) => toTest'[k] = m /\ k = Len(toTest')  BY <1>2, <2>2 DEF Says, Appended
  <3>2. ConfirmsPlan \/ TakesPlan
   <4>1. ~OrdersBoth
    <5> SUFFICES ASSUME OrdersBoth PROVE FALSE  OBVIOUS
    <5>1. k = Len(toTest) + 1 \/ k = Len(toTest) + 2  BY <1>2, <2>2 DEF OrdersBoth
    <5>2. toTest'[k] = StartOrder \/ toTest'[k] = StopOrder  BY <5>1 DEF OrdersBoth
    <5> QED  BY <1>3, <5>2 DEF StartOrder, StopOrder, Accepts
   <4>2. ~GivesContext /\ ~OrdersStart /\ ~OrdersStop
     BY <1>3, <3>1 DEF GivesContext, OrdersStart, OrdersStop, StartOrder, StopOrder, Accepts
   <4>3. ~RefusesPlan
    <5> SUFFICES ASSUME RefusesPlan PROVE FALSE  OBVIOUS
    <5>1. PICK id \in 1 .. MaxPlans : Says([type |-> "decision", id |-> id, accepted |-> FALSE])
      BY DEF RefusesPlan
    <5>2. ~toTest'[k].accepted  BY <3>1, <5>1
    <5> QED  BY <1>3, <5>2 DEF Accepts
   <4>4. ~Rests /\ ~HearsReady /\ ~HearsStatus /\ ~HearsStranger /\ ~DropsContext
     BY <1>2, <2>2 DEF Rests, HearsReady, HearsStatus, HearsStranger, DropsContext
   <4> QED  BY <4>1, <4>2, <4>3, <4>4 DEF ManagerMoves
  <3>3. /\ Says(Decision(mPlan', TRUE)) /\ mPlan'.id \in confirmed'
   <4>1. CASE ConfirmsPlan  BY <4>1 DEF ConfirmsPlan, Decision
   <4>2. CASE TakesPlan
    <5>1. ~UNCHANGED toTest  BY <1>2, <2>2
    <5> QED  BY <4>2, <5>1, TakenTold
   <4> QED  BY <3>2, <4>1, <4>2
  <3>4. toTest'[k].id = mPlan'.id /\ k = Len(toTest')  BY <3>1, <3>3 DEF Decision
  <3>5. \A j \in k + 1 .. Len(toTest') : FALSE  BY <1>2, <3>4
  <3> QED  BY <3>3, <3>4, <3>5
 <2> QED  BY <2>1, <2>2
<1>4. \A id : Alive(id)' <=> Alive(id)  BY <1>1 DEF Alive
<1> QED  BY <1>1, <1>3 DEF DecisionsFit, Alive, Accepts, Open, Ends, Drops, Refuses

\* Nothing ends what is behind a place of the queue, before a step of the endpoint
\* and after.
LEMMA OpenBefore ==
    ASSUME NEW s \in {0, 1}, Shifted(toTest, toTest', s), NEW k \in Nat, Open(k)',
           Len(toTest) \in Nat, Len(toTest') \in Nat, Len(toTest') # 0
    PROVE  Open(k + s)
<1>1. \A j \in k + 1 .. Len(toTest') : ~Ends(toTest'[j])  BY DEF Open, Ends, Drops, Refuses
<1>2. ASSUME NEW j \in k + s + 1 .. Len(toTest) PROVE ~Ends(toTest[j])
 <2>1. j - s \in k + 1 .. Len(toTest') /\ j - s \in 1 .. Len(toTest') /\ (j - s) + s = j
   BY <1>2 DEF Shifted
 <2>2. toTest'[j - s] = toTest[j]  BY <2>1 DEF Shifted
 <2> QED  BY <1>1, <2>1, <2>2
<1> QED  BY <1>2 DEF Open

LEMMA DecisionsFitEndpoint == ASSUME Stepping, EndpointMoves PROVE DecisionsFit'
<1>1. UNCHANGED <<mContext, mPlan, confirmed>> /\ DecisionsFit
  BY EndpointQueues DEF KeepsManager, Stepping, ExperimentInv, EndpointFits
<1>2. PICK s \in {0, 1} : Shifted(toTest, toTest', s)  BY EndpointQueues
<1>3. Len(toTest) \in Nat /\ Len(toTest') \in Nat  BY QueuesOK DEF Stepping, ExperimentInv
<1>4. ASSUME NEW k \in 1 .. Len(toTest'), Accepts(toTest'[k])
      PROVE  /\ toTest'[k].id \in confirmed
             /\ mContext # 0 /\ Open(k)' => toTest'[k].id = mPlan.id
             /\ mPlan # NoPlan /\ toTest'[k].id = mPlan.id /\ Alive(mPlan.id)' =>
                   \A j \in k + 1 .. Len(toTest') : ~Drops(toTest'[j])
 <2>1. k + s \in 1 .. Len(toTest) /\ toTest'[k] = toTest[k + s] /\ k \in Nat /\ Len(toTest') # 0
   BY <1>2, <1>3 DEF Shifted
 <2>2. /\ toTest[k + s].id \in confirmed
       /\ mContext # 0 /\ Open(k + s) => toTest[k + s].id = mPlan.id
       /\ mPlan # NoPlan /\ toTest[k + s].id = mPlan.id /\ Alive(mPlan.id) =>
             \A j \in (k + s) + 1 .. Len(toTest) : ~Drops(toTest[j])
   BY <1>1, <1>4, <2>1 DEF DecisionsFit
 <2>3. Open(k)' => Open(k + s)  BY <1>2, <1>3, <2>1, OpenBefore
 <2>4. ASSUME mPlan # NoPlan, toTest'[k].id = mPlan.id, Alive(mPlan.id)',
              NEW j \in k + 1 .. Len(toTest')
       PROVE  ~Drops(toTest'[j])
  <3>0. \A id \in Nat : id < nextAttackId /\ tPlan'.id = id
                           /\ tState' \in {"PlanPending"} \union Going => Alive(id)
    BY AliveBefore DEF Alive, Going, Busy
  <3>1. Alive(mPlan.id)  BY <1>1, <2>4, <3>0, Numbers DEF Alive, Going, Busy
  <3>2. j + s \in (k + s) + 1 .. Len(toTest) /\ toTest'[j] = toTest[j + s]
    BY <1>2, <1>3, <2>1 DEF Shifted
  <3> QED  BY <2>1, <2>2, <2>4, <3>1, <3>2
 <2> QED  BY <2>1, <2>2, <2>3, <2>4
<1> QED  BY <1>1, <1>4 DEF DecisionsFit, Alive, Accepts, Open, Ends, Drops, Refuses

\* The status the manager hears fits what its plan has come to.
LEMMA HeardFits ==
    ASSUME Stepping, HearsStatus, NEW id, id = mPlan.id, Alive(id), tState # "PlanPending",
           ~ReadyTold(id) \/ tState \in Busy, mRunning
    PROVE  mRunning' = TRUE
<1>1. 1 \in 1 .. Len(toManager) /\ toManager[1].type = "status" /\ toManager[1] \in ManagerMessages
  BY QueuesOK DEF Stepping, ExperimentInv, HearsStatus, Hears
<1>2. toManager[1].runs \in BOOLEAN /\ mRunning = TRUE
  BY <1>1 DEF ManagerMessages, Stepping, ExperimentInv, ExperimentTypeOK
<1>3. /\ toManager[1].over => ~Alive(toManager[1].id)
      /\ ~toManager[1].over /\ ~toManager[1].runs =>
            \E j \in 2 .. Len(toManager) : IsReady(j, toManager[1].id)
  BY <1>1 DEF Stepping, ExperimentInv, EndpointFits, StatusFits
<1>4. CASE UNCHANGED <<mReady, mRunning>>  BY <1>2, <1>4
<1>5. CASE toManager[1].id = id /\ ~toManager[1].over /\ mRunning' = toManager[1].runs
 <2> SUFFICES ASSUME ~toManager[1].runs PROVE FALSE  BY <1>2, <1>5
 <2>1. PICK j \in 2 .. Len(toManager) : IsReady(j, id)  BY <1>3, <1>5
 <2>2. ReadyTold(id) /\ j \in 1 .. Len(toManager)  BY <2>1 DEF ReadyTold
 <2>3. Alive(id) => tState = "Ready"
   BY <2>1, <2>2 DEF Stepping, ExperimentInv, EndpointFits, ReadyFits, IsReady
 <2> QED  BY <2>2, <2>3 DEF Busy
<1>6. CASE toManager[1].id = id /\ toManager[1].over  BY <1>3, <1>6
<1> QED  BY <1>4, <1>5, <1>6 DEF HearsStatus

LEMMA RunningKept ==
    ASSUME Stepping, ManagerMoves, mContext' # 0, NEW k \in 0 .. Len(toTest), Open(k)',
           mPlan' = mPlan, mRunning, Alive(mPlan.id), tState # "PlanPending",
           ~ReadyTold(mPlan.id) \/ tState \in Busy
    PROVE  mRunning' = TRUE
<1>1. Rests \/ OrdersStart \/ TakesPlan \/ ConfirmsPlan \/ HearsReady \/ HearsStatus  BY OpenStays
<1>2. mRunning = TRUE  BY DEF Stepping, ExperimentInv, ExperimentTypeOK
<1>3. CASE HearsStatus  BY <1>3, HeardFits
<1>4. CASE OrdersStart  BY <1>4 DEF OrdersStart
<1>5. CASE Rests \/ TakesPlan \/ ConfirmsPlan \/ HearsReady
  BY <1>2, <1>5 DEF Rests, TakesPlan, ConfirmsPlan, HearsReady, KeepsManager
<1> QED  BY <1>1, <1>3, <1>4, <1>5

LEMMA GoingFitsManager == ASSUME Stepping, ManagerMoves PROVE GoingFits'
<1>1. /\ UNCHANGED <<tPlan, tState>> /\ confirmed \subseteq confirmed' /\ GoingFits
      /\ Extended(toTest, toTest') \/ (Len(toTest') = 0 /\ mContext' = 0 /\ mPlan' = NoPlan)
  BY ManagerQueues DEF KeepsEndpoint, Stepping, ExperimentInv, EndpointFits
<1>2. Len(toTest) \in Nat /\ Len(toTest') \in Nat  BY QueuesOK DEF Stepping, ExperimentInv
<1>3. ASSUME tState \in Going
      PROVE  /\ tPlan.id \in confirmed'
             /\ mContext' # 0 /\ Open(0)' => tPlan.id = mPlan'.id /\ (tState \in Busy => mRunning')
             /\ mPlan' # NoPlan /\ tPlan.id = mPlan'.id =>
                   \A j \in 1 .. Len(toTest') : ~Drops(toTest'[j])
 <2>1. /\ tPlan.id \in confirmed
       /\ mContext # 0 /\ Open(0) => tPlan.id = mPlan.id /\ (tState \in Busy => mRunning)
       /\ mPlan # NoPlan /\ tPlan.id = mPlan.id => \A j \in 1 .. Len(toTest) : ~Drops(toTest[j])
   BY <1>1, <1>3 DEF GoingFits
 <2>2. Alive(tPlan.id) /\ tState # "PlanPending" /\ tPlan.id # 0
   BY <1>3, <2>1, Numbers DEF Alive, Going, Busy
 <2>3. ASSUME mContext' # 0, Open(0)'
       PROVE  tPlan.id = mPlan'.id /\ (tState \in Busy => mRunning')
  <3>0. 0 \in 0 .. Len(toTest)  BY <1>2
  <3>1. Open(0) /\ mContext' = mContext /\ (~TakesPlan => mPlan' = mPlan)  BY <2>3, <3>0, OpenStays
  <3>2. tPlan.id = mPlan.id /\ (tState \in Busy => mRunning)  BY <2>1, <2>3, <3>1
  <3>3. mPlan # NoPlan  BY <2>2, <3>2, Numbers
  <3>4. mPlan' = mPlan  BY <3>1, <3>3 DEF TakesPlan
  <3>5. tState \in Busy => mRunning'  BY <2>2, <2>3, <3>0, <3>2, <3>4, RunningKept
  <3> QED  BY <3>2, <3>4, <3>5
 <2>4. ASSUME mPlan' # NoPlan, tPlan.id = mPlan'.id, NEW j \in 1 .. Len(toTest')
       PROVE  ~Drops(toTest'[j])
  <3>1. mPlan' = mPlan  BY <2>1, <2>4, ManagerPlan, PlanTaken
  <3>2. CASE j <= Len(toTest)  BY <1>1, <1>2, <2>1, <2>4, <3>1, <3>2 DEF Extended
  <3>3. CASE ~(j <= Len(toTest))  BY <2>2, <2>4, <3>3, NoNewDrops
  <3> QED  BY <3>2, <3>3
 <2> QED  BY <1>1, <2>1, <2>3, <2>4
<1> QED  BY <1>1, <1>3 DEF GoingFits, Open, Ends, Drops, Refuses

LEMMA GoingFitsEndpoint == ASSUME Stepping, EndpointMoves PROVE GoingFits'
<1>1. UNCHANGED <<mContext, mPlan, mRunning, confirmed>> /\ GoingFits /\ DecisionsFit /\ StartOrdersFit
  BY EndpointQueues DEF KeepsManager, Stepping, ExperimentInv, EndpointFits
<1>2. PICK s \in {0, 1} : Shifted(toTest, toTest', s) /\ (s = 1 => Taken(toTest, toTest'))
  BY EndpointQueues
<1>3. Len(toTest) \in Nat /\ Len(toTest') \in Nat  BY QueuesOK DEF Stepping, ExperimentInv
<1>4. ASSUME tState' \in Going
      PROVE  /\ tPlan'.id \in confirmed
             /\ mContext # 0 /\ Open(0)' => tPlan'.id = mPlan.id /\ (tState' \in Busy => mRunning)
             /\ mPlan # NoPlan /\ tPlan'.id = mPlan.id =>
                   \A j \in 1 .. Len(toTest') : ~Drops(toTest'[j])
 <2>0. Open(0)' /\ Taken(toTest, toTest') => Open(1)
  <3> SUFFICES ASSUME Open(0)', Taken(toTest, toTest'), NEW j \in 2 .. Len(toTest)
               PROVE  ~Ends(toTest[j])
    BY DEF Open
  <3>1. \A i \in 1 .. Len(toTest') : ~Ends(toTest'[i])  BY DEF Open, Ends, Drops, Refuses
  <3>2. j - 1 \in 1 .. Len(toTest') /\ toTest'[j - 1] = toTest[j]  BY <1>3 DEF Taken
  <3> QED  BY <3>1, <3>2
 <2>1. ASSUME NEW j \in 1 .. Len(toTest')
       PROVE  j + s \in 1 .. Len(toTest) /\ toTest'[j] = toTest[j + s]
   BY <1>2 DEF Shifted
 <2>2. CASE IsAccepted
  <3>1. /\ 1 \in 1 .. Len(toTest) /\ Accepts(toTest[1]) /\ toTest[1].id = tPlan.id /\ Taken(toTest, toTest')
        /\ tPlan' = tPlan /\ tState' = "Ready" /\ Alive(tPlan.id)
    BY <2>2, QueuesOK DEF Stepping, ExperimentInv, IsAccepted, Receives, Accepts, Alive
  <3>2. /\ tPlan.id \in confirmed
        /\ mContext # 0 /\ Open(1) => tPlan.id = mPlan.id
        /\ mPlan # NoPlan /\ tPlan.id = mPlan.id => \A j \in 2 .. Len(toTest) : ~Drops(toTest[j])
    BY <1>1, <3>1 DEF DecisionsFit
  <3>3. ASSUME NEW j \in 1 .. Len(toTest')
        PROVE  j + 1 \in 2 .. Len(toTest) /\ toTest'[j] = toTest[j + 1]
    BY <1>3, <3>1 DEF Taken
  <3> QED  BY <2>0, <3>1, <3>2, <3>3 DEF Busy
 <2>3. CASE ~IsAccepted
  <3>1. /\ tPlan' = tPlan /\ tState \in Going
        /\ \/ IgnoresOrder \/ Schedules
           \/ Proceeds /\ tState \in Busy
   <4>1. ~TakesContext /\ ~IsRefused /\ ~StopsPlan /\ ~Submits
     BY <1>4 DEF TakesContext, IsRefused, StopsPlan, Submits, StateAfterDiscard, Going, Busy
   <4>2. CASE IgnoresOrder  BY <1>4, <4>2 DEF IgnoresOrder, KeepsEndpoint
   <4>3. CASE Schedules  BY <4>3 DEF Schedules, Going
   <4>4. CASE Proceeds  BY <4>4 DEF Proceeds, Going, Busy
   <4> QED  BY <2>3, <4>1, <4>2, <4>3, <4>4 DEF EndpointMoves
  <3>2. /\ tPlan.id \in confirmed
        /\ mContext # 0 /\ Open(0) => tPlan.id = mPlan.id /\ (tState \in Busy => mRunning)
        /\ mPlan # NoPlan /\ tPlan.id = mPlan.id => \A j \in 1 .. Len(toTest) : ~Drops(toTest[j])
    BY <1>1, <3>1 DEF GoingFits
  <3>3. ASSUME mContext # 0, Open(0)'
        PROVE  tPlan.id = mPlan.id /\ (tState' \in Busy => mRunning)
   <4>1. CASE IgnoresOrder
    <5>1. Taken(toTest, toTest') /\ tState' = tState  BY <4>1 DEF IgnoresOrder, KeepsEndpoint
    <5>2. ~Ends(toTest[1])
      BY <3>1, <4>1 DEF IgnoresOrder, Ends, Drops, Refuses, Accepts, Going, Busy
    <5>3. Open(1)  BY <2>0, <3>3, <5>1
    <5>4. Open(0)  BY <1>3, <5>2, <5>3 DEF Open
    <5> QED  BY <3>2, <3>3, <5>1, <5>4
   <4>2. CASE Schedules
    <5>1. /\ Taken(toTest, toTest') /\ 1 \in 1 .. Len(toTest) /\ toTest[1].type = "start"
          /\ toTest[1].id = tPlan.id /\ Alive(tPlan.id)
      BY <3>1, <4>2, QueuesOK DEF Schedules, Receives, Stepping, ExperimentInv, Alive
    <5>2. Open(1)  BY <2>0, <3>3, <5>1
    <5> QED  BY <1>1, <3>3, <5>1, <5>2 DEF StartOrdersFit
   <4>3. CASE Proceeds /\ tState \in Busy
     BY <3>2, <3>3, <4>3 DEF Proceeds, Open, Ends, Drops, Refuses
   <4> QED  BY <3>1, <4>1, <4>2, <4>3
  <3> QED  BY <2>1, <3>1, <3>2, <3>3
 <2> QED  BY <2>2, <2>3
<1> QED  BY <1>1, <1>4 DEF GoingFits, Open, Ends, Drops, Refuses

ToldReady(q, id) == \E k \in 1 .. Len(q) : q[k].type = "ready" /\ q[k].id = id
ToldOver(q, id) == \E k \in 1 .. Len(q) : q[k].type = "status" /\ q[k].id = id /\ q[k].over

LEMMA Told ==
    /\ \A id : ReadyTold(id) <=> ToldReady(toManager, id)
    /\ \A id : OverTold(id) <=> ToldOver(toManager, id)
  BY DEF ReadyTold, OverTold, ToldReady, ToldOver, IsReady, IsOver

\* What the manager has not heard yet was said before.
LEMMA ManagerTold ==
    ASSUME Stepping, ManagerMoves, NEW id, ToldReady(toManager', id)
    PROVE  ToldReady(toManager, id)
<1>1. PICK s \in {0, 1} : Shifted(toManager, toManager', s)  BY ManagerQueues
<1>2. PICK k \in 1 .. Len(toManager') : toManager'[k].type = "ready" /\ toManager'[k].id = id
  BY DEF ToldReady
<1>3. k + s \in 1 .. Len(toManager) /\ toManager'[k] = toManager[k + s]  BY <1>1 DEF Shifted
<1> QED  BY <1>2, <1>3 DEF ToldReady

\* What the endpoint adds to what it has told the manager.
LEMMA EndpointTells ==
    ASSUME Stepping, EndpointMoves, NEW k \in 1 .. Len(toManager'), ~(k <= Len(toManager))
    PROVE  \/ Submits /\ toManager'[k].type = "plan" /\ k = Len(toManager')
           \/ /\ IsAccepted /\ k = Len(toManager')
              /\ toManager'[k] = [type |-> "ready", id |-> tPlan.id]
           \/ /\ IsAccepted /\ toManager'[k] = Status("Ready") /\ k + 1 = Len(toManager')
              /\ toManager'[k + 1] = [type |-> "ready", id |-> tPlan.id]
           \/ /\ Schedules \/ StopsPlan \/ Proceeds
              /\ k = Len(toManager') /\ toManager'[k] = Status(tState') /\ tState' # "Ready"
<1>1. Len(toManager) \in Nat /\ Len(toManager') \in Nat  BY QueuesOK DEF Stepping, ExperimentInv
<1>2. \A m : Reports(m) => toManager'[k] = m /\ k = Len(toManager')  BY <1>1 DEF Reports, Appended
<1>3. CASE IsAccepted
 <2>1. CASE Reports([type |-> "ready", id |-> tPlan.id])  BY <1>2, <1>3, <2>1
 <2>2. CASE /\ Len(toManager') = Len(toManager) + 2
            /\ toManager'[Len(toManager) + 1] = Status("Ready")
            /\ toManager'[Len(toManager) + 2] = [type |-> "ready", id |-> tPlan.id]
  <3>1. k = Len(toManager) + 1 \/ k = Len(toManager) + 2  BY <1>1, <2>2
  <3>2. CASE k = Len(toManager) + 1  BY <1>1, <1>3, <2>2, <3>2
  <3>3. CASE k = Len(toManager) + 2  BY <1>3, <2>2, <3>3
  <3> QED  BY <3>1, <3>2, <3>3
 <2> QED  BY <1>3, <2>1, <2>2 DEF IsAccepted
<1>4. CASE TakesContext \/ IsRefused \/ IgnoresOrder
  BY <1>1, <1>4 DEF TakesContext, IsRefused, IgnoresOrder
<1>5. CASE Submits  BY <1>1, <1>5 DEF Submits, Appended
<1>6. CASE Schedules  BY <1>2, <1>6 DEF Schedules
<1>7. CASE StopsPlan  BY <1>2, <1>7 DEF StopsPlan
<1>8. CASE Proceeds  BY <1>1, <1>2, <1>8 DEF Proceeds
<1> QED  BY <1>3, <1>4, <1>5, <1>6, <1>7, <1>8 DEF EndpointMoves

\* What was told before, about a plan of a given number.
LEMMA TellsReady ==
    ASSUME Stepping, EndpointMoves, NEW id, ToldReady(toManager', id)
    PROVE  ToldReady(toManager, id) \/ (IsAccepted /\ tPlan.id = id)
<1>1. PICK k \in 1 .. Len(toManager') : toManager'[k].type = "ready" /\ toManager'[k].id = id
  BY DEF ToldReady
<1>2. CASE k <= Len(toManager)
  BY <1>1, <1>2, EndpointQueues, QueuesOK DEF Extended, Stepping, ExperimentInv, ToldReady
<1>3. CASE ~(k <= Len(toManager))  BY <1>1, <1>3, EndpointTells DEF Status
<1> QED  BY <1>2, <1>3

LEMMA StillOver ==
    ASSUME Stepping, EndpointMoves, NEW id, ToldOver(toManager, id)
    PROVE  ToldOver(toManager', id)
<1>1. PICK k \in 1 .. Len(toManager) :
          toManager[k].type = "status" /\ toManager[k].id = id /\ toManager[k].over
  BY DEF ToldOver
<1>2. k \in 1 .. Len(toManager') /\ toManager'[k] = toManager[k]
  BY EndpointQueues, QueuesOK DEF Extended, Stepping, ExperimentInv
<1> QED  BY <1>1, <1>2 DEF ToldOver

\* A place of the queue that is ready or over, and what is known of its plan.
LEMMA ReadyAt ==
    ASSUME ExperimentInv, NEW id, ToldReady(toManager, id)
    PROVE  id < nextAttackId /\ id \in confirmed /\ (Alive(id) => tState = "Ready")
           /\ ~(mReady /\ mPlan.id = id)
  BY DEF ToldReady, ExperimentInv, EndpointFits, ReadyFits

LEMMA OverAt ==
    ASSUME ExperimentInv, NEW id, ToldOver(toManager, id) PROVE ~Alive(id)
  BY DEF ToldOver, ExperimentInv, EndpointFits, StatusFits

-----------------------------------------------------------------------------

LEMMA StartOrdersFitManager == ASSUME Stepping, ManagerMoves PROVE StartOrdersFit'
<1>1. /\ UNCHANGED <<tPlan, tState, nextAttackId>> /\ StartOrdersFit /\ ExperimentInv
      /\ Extended(toTest, toTest') \/ Len(toTest') = 0
  BY ManagerQueues DEF KeepsEndpoint, Stepping, ExperimentInv, EndpointFits
<1>2. /\ Len(toTest) \in Nat /\ Len(toTest') \in Nat
      /\ \A k \in 1 .. Len(toTest) : toTest[k] \in TestMessages
  BY QueuesOK DEF Stepping, ExperimentInv
<1>3. ASSUME NEW k \in 1 .. Len(toTest'), toTest'[k].type = "start", NEW id, id = toTest'[k].id
      PROVE  /\ id \in 1 .. MaxPlans /\ id < nextAttackId
             /\ Alive(id) => tState # "PlanPending"
             /\ ~ToldReady(toManager', id)
             /\ mContext' # 0 /\ Open(k)' => id = mPlan'.id /\ (Alive(id) => mRunning')
 <2>0. Extended(toTest, toTest') /\ k \in Nat  BY <1>1, <1>2, <1>3
 <2>1. CASE k <= Len(toTest)
  <3>1. k \in 1 .. Len(toTest) /\ k \in 0 .. Len(toTest) /\ toTest'[k] = toTest[k]
    BY <1>2, <2>0, <2>1 DEF Extended
  <3>2. /\ id \in 1 .. MaxPlans /\ id < nextAttackId
        /\ Alive(id) => tState # "PlanPending"
        /\ ~ReadyTold(id)
        /\ mContext # 0 /\ Open(k) => id = mPlan.id /\ (Alive(id) => mRunning)
    BY <1>1, <1>3, <3>1 DEF StartOrdersFit
  <3>3. ~ToldReady(toManager', id)  BY <3>2, ManagerTold, Told
  <3>4. ASSUME mContext' # 0, Open(k)' PROVE id = mPlan'.id /\ (Alive(id) => mRunning')
   <4>1. Open(k) /\ mContext' = mContext /\ (~TakesPlan => mPlan' = mPlan)  BY <3>1, <3>4, OpenStays
   <4>2. id = mPlan.id /\ (Alive(id) => mRunning)  BY <3>2, <3>4, <4>1
   <4>3. mPlan # NoPlan  BY <3>2, <4>2, Numbers
   <4>4. mPlan' = mPlan  BY <4>1, <4>3 DEF TakesPlan
   <4>5. Alive(id) => mRunning'  BY <3>1, <3>2, <3>4, <4>2, <4>4, RunningKept
   <4> QED  BY <4>2, <4>4, <4>5
  <3> QED  BY <3>2, <3>3, <3>4
 <2>2. CASE ~(k <= Len(toTest))
  <3>1. \A m : Says(m) => toTest'[k] = m  BY <1>2, <2>2 DEF Says, Appended
  <3>2. OrdersStart \/ OrdersBoth
   <4>1. ~GivesContext /\ ~OrdersStop /\ ~ConfirmsPlan
     BY <1>3, <3>1 DEF GivesContext, OrdersStop, ConfirmsPlan, StopOrder, Decision
   <4>2. ~RefusesPlan
    <5> SUFFICES ASSUME RefusesPlan PROVE FALSE  OBVIOUS
    <5>1. PICK x \in 1 .. MaxPlans : Says([type |-> "decision", id |-> x, accepted |-> FALSE])
      BY DEF RefusesPlan
    <5> QED  BY <1>3, <3>1, <5>1
   <4>3. ~TakesPlan
    <5> SUFFICES ASSUME TakesPlan PROVE FALSE  OBVIOUS
    <5>1. ~UNCHANGED toTest  BY <1>2, <2>2
    <5>2. Says(Decision(mPlan', TRUE))  BY <5>1, TakenTold
    <5> QED  BY <1>3, <3>1, <5>2 DEF Decision
   <4>4. ~Rests /\ ~HearsReady /\ ~HearsStatus /\ ~HearsStranger /\ ~DropsContext
     BY <1>2, <2>2 DEF Rests, HearsReady, HearsStatus, HearsStranger, DropsContext
   <4> QED  BY <4>1, <4>2, <4>3, <4>4 DEF ManagerMoves
  <3>3. /\ id = mPlan.id /\ mReady /\ mPlan # NoPlan /\ mPlan' = mPlan
        /\ toTest'[k] = StartOrder
   <4>1. CASE OrdersStart  BY <1>3, <3>1, <4>1 DEF OrdersStart, StartOrder
   <4>2. CASE OrdersBoth  BY <1>2, <1>3, <2>2, <4>2 DEF OrdersBoth, StopOrder, StartOrder
   <4> QED  BY <3>2, <4>1, <4>2
  <3>4. id \in 1 .. MaxPlans /\ id < nextAttackId  BY <3>3, Numbers DEF Plan
  <3>5. IsGoing(id) \/ ToldOver(toManager, id)
    BY <1>1, <3>3, Told DEF ExperimentInv, EndpointFits, ReadinessFits
  <3>6. Alive(id) => tState # "PlanPending"  BY <1>1, <3>5, OverAt DEF IsGoing, Going, Busy
  <3>7. ~ToldReady(toManager', id)  BY <1>1, <3>3, ManagerTold, ReadyAt
  <3>8. Open(k)' => mRunning'
   <4>1. CASE OrdersStart  BY <4>1 DEF OrdersStart
   <4>2. CASE OrdersBoth
    <5> SUFFICES ASSUME Open(k)' PROVE FALSE  OBVIOUS
    <5>1. k # Len(toTest) + 2  BY <1>3, <4>2 DEF OrdersBoth, StopOrder
    <5>2. Len(toTest) + 2 \in k + 1 .. Len(toTest')  BY <1>2, <2>2, <4>2, <5>1 DEF OrdersBoth
    <5>3. toTest'[Len(toTest) + 2] = StopOrder  BY <4>2 DEF OrdersBoth
    <5> QED  BY <5>2, <5>3 DEF Open, Ends, StopOrder
   <4> QED  BY <3>2, <4>1, <4>2
  <3> QED  BY <3>3, <3>4, <3>6, <3>7, <3>8
 <2> QED  BY <2>1, <2>2
<1>4. ASSUME NEW k \in 1 .. Len(toTest'), toTest'[k].type = "start"
      PROVE  /\ toTest'[k].id \in 1 .. MaxPlans /\ toTest'[k].id < nextAttackId
             /\ Alive(toTest'[k].id) => tState # "PlanPending"
             /\ ~ToldReady(toManager', toTest'[k].id)
             /\ mContext' # 0 /\ Open(k)' =>
                   toTest'[k].id = mPlan'.id /\ (Alive(toTest'[k].id) => mRunning')
  BY <1>3, <1>4
<1> QED
  BY <1>1, <1>4 DEF StartOrdersFit, Alive, Open, Ends, Drops, Refuses, ReadyTold, IsReady, ToldReady

LEMMA StartOrdersFitEndpoint == ASSUME Stepping, EndpointMoves PROVE StartOrdersFit'
<1>1. UNCHANGED <<mContext, mPlan, mRunning>> /\ StartOrdersFit
  BY EndpointQueues DEF KeepsManager, Stepping, ExperimentInv, EndpointFits
<1>2. PICK s \in {0, 1} : Shifted(toTest, toTest', s)  BY EndpointQueues
<1>3. Len(toTest) \in Nat /\ Len(toTest') \in Nat  BY QueuesOK DEF Stepping, ExperimentInv
<1>4. ASSUME NEW k \in 1 .. Len(toTest'), toTest'[k].type = "start", NEW id, id = toTest'[k].id
      PROVE  /\ id \in 1 .. MaxPlans /\ id < nextAttackId'
             /\ Alive(id)' => tState' # "PlanPending"
             /\ ~ToldReady(toManager', id)
             /\ mContext # 0 /\ Open(k)' => id = mPlan.id /\ (Alive(id)' => mRunning)
 <2>1. k + s \in 1 .. Len(toTest) /\ toTest'[k] = toTest[k + s] /\ k \in Nat /\ Len(toTest') # 0
   BY <1>2, <1>3 DEF Shifted
 <2>2. /\ id \in 1 .. MaxPlans /\ id < nextAttackId
       /\ Alive(id) => tState # "PlanPending"
       /\ ~ReadyTold(id)
       /\ mContext # 0 /\ Open(k + s) => id = mPlan.id /\ (Alive(id) => mRunning)
   BY <1>1, <1>4, <2>1 DEF StartOrdersFit
 <2>3. id \in Nat /\ id < nextAttackId'  BY <2>2, NewPlan, Numbers
 <2>4. Alive(id)' => Alive(id) /\ (tState' = "PlanPending" => tState = "PlanPending")
   BY <2>2, <2>3, AliveBefore
 <2>5. ~ToldReady(toManager', id)
  <3> SUFFICES ASSUME ToldReady(toManager', id) PROVE FALSE  OBVIOUS
  <3>1. IsAccepted /\ tPlan.id = id  BY <2>2, TellsReady, Told
  <3> QED  BY <2>2, <3>1 DEF IsAccepted, Alive
 <2>6. Open(k)' => Open(k + s)  BY <1>2, <1>3, <2>1, OpenBefore
 <2> QED  BY <2>2, <2>3, <2>4, <2>5, <2>6
<1>5. ASSUME NEW k \in 1 .. Len(toTest'), toTest'[k].type = "start"
      PROVE  /\ toTest'[k].id \in 1 .. MaxPlans /\ toTest'[k].id < nextAttackId'
             /\ tPlan'.id = toTest'[k].id /\ tState' \in {"PlanPending"} \union Going =>
                    tState' # "PlanPending"
             /\ ~ToldReady(toManager', toTest'[k].id)
             /\ mContext # 0 /\ Open(k)' =>
                   /\ toTest'[k].id = mPlan.id
                   /\ tPlan'.id = toTest'[k].id /\ tState' \in {"PlanPending"} \union Going => mRunning
  BY <1>4, <1>5 DEF Alive, Going, Busy
<1> QED
  BY <1>1, <1>5 DEF StartOrdersFit, Alive, Open, Ends, Drops, Refuses, ReadyTold, IsReady, ToldReady,
     Going, Busy

-----------------------------------------------------------------------------
(* What the endpoint tells the manager.                                       *)

LEMMA StatusFitsManager == ASSUME Stepping, ManagerMoves PROVE StatusFits'
<1>1. UNCHANGED <<tPlan, tState, nextAttackId>> /\ StatusFits
  BY ManagerQueues DEF KeepsEndpoint, Stepping, ExperimentInv, EndpointFits
<1>2. PICK s \in {0, 1} : Shifted(toManager, toManager', s)  BY ManagerQueues
<1>3. Len(toManager) \in Nat /\ Len(toManager') \in Nat  BY QueuesOK DEF Stepping, ExperimentInv
<1>4. ASSUME NEW k \in 1 .. Len(toManager'), toManager'[k].type = "status"
      PROVE  /\ toManager'[k].id < nextAttackId
             /\ toManager'[k].over => ~Alive(toManager'[k].id)
             /\ ~toManager'[k].over /\ ~toManager'[k].runs =>
                   \E j \in k + 1 .. Len(toManager') :
                       toManager'[j].type = "ready" /\ toManager'[j].id = toManager'[k].id
 <2> DEFINE m == toManager'[k]
 <2>1. k + s \in 1 .. Len(toManager) /\ m = toManager[k + s] /\ Len(toManager) = Len(toManager') + s
   BY <1>2, <1>3, <1>4 DEF Shifted
 <2>2. /\ m.id < nextAttackId /\ (m.over => ~Alive(m.id))
       /\ ~m.over /\ ~m.runs => \E j \in (k + s) + 1 .. Len(toManager) :
                                   toManager[j].type = "ready" /\ toManager[j].id = m.id
   BY <1>1, <1>4, <2>1 DEF StatusFits, IsReady
 <2>3. ASSUME ~m.over, ~m.runs
       PROVE  \E j \in k + 1 .. Len(toManager') : toManager'[j].type = "ready" /\ toManager'[j].id = m.id
  <3>1. PICK j \in (k + s) + 1 .. Len(toManager) : toManager[j].type = "ready" /\ toManager[j].id = m.id
    BY <2>2, <2>3
  <3> DEFINE i == j - s
  <3>2. i \in k + 1 .. Len(toManager') /\ i \in 1 .. Len(toManager') /\ i + s = j  BY <1>3, <2>1
  <3> HIDE DEF i
  <3>3. toManager'[i] = toManager[j]  BY <1>2, <3>2 DEF Shifted
  <3> QED  BY <3>1, <3>2, <3>3
 <2> QED  BY <2>2, <2>3
<1> QED  BY <1>1, <1>4 DEF StatusFits, Alive, IsReady

LEMMA StatusFitsEndpoint == ASSUME Stepping, EndpointMoves PROVE StatusFits'
<1>1. StatusFits /\ Extended(toManager, toManager')
  BY EndpointQueues DEF Stepping, ExperimentInv, EndpointFits
<1>3. /\ Len(toManager) \in Nat /\ Len(toManager') \in Nat
      /\ \A k \in 1 .. Len(toManager) : toManager[k] \in ManagerMessages
  BY QueuesOK DEF Stepping, ExperimentInv
<1>4. ASSUME NEW k \in 1 .. Len(toManager'), toManager'[k].type = "status", NEW m, m = toManager'[k]
      PROVE  /\ m.id < nextAttackId' /\ (m.over => ~Alive(m.id)')
             /\ ~m.over /\ ~m.runs => \E j \in k + 1 .. Len(toManager') :
                    toManager'[j].type = "ready" /\ toManager'[j].id = m.id
 <2>1. CASE k <= Len(toManager)
  <3>1. k \in 1 .. Len(toManager) /\ m = toManager[k]  BY <1>1, <1>3, <1>4, <2>1 DEF Extended
  <3>2. /\ m.id < nextAttackId /\ (m.over => ~Alive(m.id))
        /\ ~m.over /\ ~m.runs => \E j \in k + 1 .. Len(toManager) :
                                  toManager[j].type = "ready" /\ toManager[j].id = m.id
    BY <1>1, <1>4, <3>1 DEF StatusFits, IsReady
  <3>3. m.id \in Nat  BY <1>3, <1>4, <3>1, ExperimentParameters DEF ManagerMessages
  <3>4. m.id < nextAttackId'  BY <3>2, <3>3, NewPlan, Numbers
  <3>5. m.over => ~Alive(m.id)'  BY <3>2, <3>3, AliveBefore
  <3>6. ~m.over /\ ~m.runs => \E j \in k + 1 .. Len(toManager') :
                  toManager'[j].type = "ready" /\ toManager'[j].id = m.id
    BY <1>1, <1>3, <3>1, <3>2 DEF Extended
  <3> QED  BY <3>4, <3>5, <3>6
 <2>2. CASE ~(k <= Len(toManager))
  <3>1. tPlan.id < nextAttackId' /\ tPlan.id \in Nat  BY NewPlan, Numbers
  <3>2. CASE IsAccepted /\ m = Status("Ready") /\ k + 1 = Len(toManager')
             /\ toManager'[k + 1] = [type |-> "ready", id |-> tPlan.id]
   <4>1. m.id = tPlan.id /\ ~m.over  BY <3>2 DEF Status
   <4>2. k + 1 \in k + 1 .. Len(toManager') /\ toManager'[k + 1].type = "ready"
         /\ toManager'[k + 1].id = tPlan.id
     BY <1>3, <3>2
   <4> QED  BY <3>1, <4>1, <4>2
  <3>3. CASE (Schedules \/ StopsPlan \/ Proceeds) /\ m = Status(tState') /\ tState' # "Ready"
   <4>1. m.id = tPlan.id /\ m.over = (tState' \in {"Completed", "Stopped"})
         /\ m.runs = (tState' \in Busy)
     BY <3>3 DEF Status
   <4>2. tState' \in {"Scheduled", "Running", "Completed", "Stopped"}
     BY <3>3 DEF Schedules, StopsPlan, Proceeds
   <4>3. m.over \/ m.runs  BY <4>1, <4>2 DEF Busy
   <4>4. m.over => ~Alive(m.id)'  BY <4>1 DEF Alive, Going, Busy
   <4> QED  BY <3>1, <4>1, <4>3, <4>4
  <3> QED  BY <1>4, <2>2, <3>2, <3>3, EndpointTells
 <2> QED  BY <2>1, <2>2
<1>5. ASSUME NEW k \in 1 .. Len(toManager'), toManager'[k].type = "status"
      PROVE  /\ toManager'[k].id < nextAttackId'
             /\ toManager'[k].over =>
                   ~(tPlan'.id = toManager'[k].id /\ tState' \in {"PlanPending"} \union Going)
             /\ ~toManager'[k].over /\ ~toManager'[k].runs =>
                   \E j \in k + 1 .. Len(toManager') :
                       toManager'[j].type = "ready" /\ toManager'[j].id = toManager'[k].id
  BY <1>4, <1>5 DEF Alive, Going, Busy
<1> QED  BY <1>5 DEF StatusFits, Alive, IsReady, Going, Busy

LEMMA ReadyFitsManager == ASSUME Stepping, ManagerMoves PROVE ReadyFits'
<1>1. UNCHANGED <<tPlan, tState, nextAttackId>> /\ ReadyFits /\ confirmed \subseteq confirmed'
  BY ManagerQueues DEF KeepsEndpoint, Stepping, ExperimentInv, EndpointFits
<1>2. PICK s \in {0, 1} : Shifted(toManager, toManager', s) /\ (s = 1 => Taken(toManager, toManager'))
  BY ManagerQueues
<1>3. Len(toManager) \in Nat /\ Len(toManager') \in Nat  BY QueuesOK DEF Stepping, ExperimentInv
<1>4. ASSUME NEW k \in 1 .. Len(toManager'), toManager'[k].type = "ready", NEW id, id = toManager'[k].id
      PROVE  /\ id < nextAttackId /\ id \in confirmed' /\ (Alive(id) => tState = "Ready")
             /\ ~(mReady' /\ mPlan'.id = id)
             /\ \A j \in 1 .. Len(toManager') :
                   /\ toManager'[j].type = "ready" /\ toManager'[j].id = id => j = k
                   /\ toManager'[j].type = "status" /\ toManager'[j].id = id /\ toManager'[j].over => k < j
 <2> DEFINE i == k + s
 <2>1. i \in 1 .. Len(toManager) /\ toManager[i] = toManager'[k] /\ k \in Nat /\ s \in Nat
   BY <1>2, <1>3 DEF Shifted
 <2> HIDE DEF i
 <2>2. /\ id < nextAttackId /\ id \in confirmed /\ (Alive(id) => tState = "Ready")
       /\ ~(mReady /\ mPlan.id = id)
       /\ \A j \in 1 .. Len(toManager) :
             /\ toManager[j].type = "ready" /\ toManager[j].id = id => j = i
             /\ toManager[j].type = "status" /\ toManager[j].id = id /\ toManager[j].over => i < j
   BY <1>1, <1>4, <2>1 DEF ReadyFits, IsReady, IsOver
 <2>3. ASSUME NEW j \in 1 .. Len(toManager')
       PROVE  /\ toManager'[j].type = "ready" /\ toManager'[j].id = id => j = k
              /\ toManager'[j].type = "status" /\ toManager'[j].id = id /\ toManager'[j].over => k < j
  <3>1. j + s \in 1 .. Len(toManager) /\ toManager'[j] = toManager[j + s] /\ j \in Nat
    BY <1>2, <1>3 DEF Shifted
  <3>2. /\ toManager'[j].type = "ready" /\ toManager'[j].id = id => j + s = k + s
        /\ toManager'[j].type = "status" /\ toManager'[j].id = id /\ toManager'[j].over => k + s < j + s
    BY <2>2, <3>1 DEF i
  <3> QED  BY <2>1, <3>1, <3>2
 <2>4. ~(mReady' /\ mPlan'.id = id)
  <3> SUFFICES ASSUME mReady', mPlan'.id = id PROVE FALSE  OBVIOUS
  <3>1. id # 0  BY <2>2, Numbers
  <3>2. mPlan' = mPlan  BY <2>2, <3>1, PlanTaken, ManagerPlan, Numbers
  <3>3. ~mReady  BY <2>2, <3>2
  <3>4. HearsReady
    BY <3>2, <3>3 DEF ManagerMoves, Rests, DropsContext, GivesContext, OrdersStart, OrdersStop,
       OrdersBoth, RefusesPlan, TakesPlan, ConfirmsPlan, HearsStatus, HearsStranger, KeepsManager,
       Unready
  <3>5. toManager[1].id = id /\ toManager[1].type = "ready" /\ Taken(toManager, toManager')
    BY <3>2, <3>3, <3>4 DEF HearsReady, Hears
  <3>6. 1 \in 1 .. Len(toManager) /\ s = 1  BY <1>2, <1>3, <2>1, <3>5 DEF Shifted, Taken
  <3>7. i = 1  BY <2>2, <3>5, <3>6
  <3> QED  BY <1>3, <3>6, <3>7 DEF i
 <2> QED  BY <1>1, <2>2, <2>3, <2>4
<1>5. ASSUME NEW k \in 1 .. Len(toManager'), toManager'[k].type = "ready"
      PROVE  /\ toManager'[k].id < nextAttackId /\ toManager'[k].id \in confirmed'
             /\ (Alive(toManager'[k].id) => tState = "Ready")
             /\ ~(mReady' /\ mPlan'.id = toManager'[k].id)
             /\ \A j \in 1 .. Len(toManager') :
                   /\ toManager'[j].type = "ready" /\ toManager'[j].id = toManager'[k].id => j = k
                   /\ toManager'[j].type = "status" /\ toManager'[j].id = toManager'[k].id
                         /\ toManager'[j].over => k < j
  BY <1>4, <1>5
<1> QED  BY <1>1, <1>5 DEF ReadyFits, Alive, IsReady, IsOver

LEMMA ReadyFitsEndpoint == ASSUME Stepping, EndpointMoves PROVE ReadyFits'
<1>1. UNCHANGED <<mPlan, mReady, confirmed>> /\ ReadyFits /\ Extended(toManager, toManager')
      /\ ExperimentInv
  BY EndpointQueues DEF KeepsManager, Stepping, ExperimentInv, EndpointFits
<1>3. /\ Len(toManager) \in Nat /\ Len(toManager') \in Nat  BY QueuesOK DEF Stepping, ExperimentInv
<1>4. ASSUME NEW j \in 1 .. Len(toManager'), j <= Len(toManager)
      PROVE  j \in 1 .. Len(toManager) /\ toManager'[j] = toManager[j]
  BY <1>1, <1>3, <1>4 DEF Extended
<1>5. ASSUME IsAccepted
      PROVE  /\ Alive(tPlan.id) /\ tState = "PlanPending" /\ tPlan.id \in confirmed
             /\ ~ToldReady(toManager, tPlan.id) /\ ~ToldOver(toManager, tPlan.id)
             /\ ~(mReady /\ mPlan.id = tPlan.id)
 <2>1. Alive(tPlan.id) /\ tState = "PlanPending"  BY <1>5 DEF IsAccepted, Alive
 <2>2. 1 \in 1 .. Len(toTest) /\ Accepts(toTest[1]) /\ toTest[1].id = tPlan.id
   BY <1>5, QueuesOK DEF Stepping, ExperimentInv, IsAccepted, Receives, Accepts
 <2>3. tPlan.id \in confirmed  BY <1>1, <2>2 DEF ExperimentInv, EndpointFits, DecisionsFit
 <2>4. ~ToldReady(toManager, tPlan.id)  BY <1>1, <2>1, ReadyAt
 <2>5. ~ToldOver(toManager, tPlan.id)  BY <1>1, <2>1, OverAt
 <2>6. ~(mReady /\ mPlan.id = tPlan.id)
  <3> SUFFICES ASSUME mReady, mPlan.id = tPlan.id PROVE FALSE  OBVIOUS
  <3>1. mPlan # NoPlan  BY DEF Stepping, ExperimentInv, SidesOK
  <3>2. IsGoing(mPlan.id) \/ OverTold(mPlan.id)
    BY <1>1, <3>1 DEF ExperimentInv, EndpointFits, ReadinessFits
  <3>3. ~IsGoing(mPlan.id)  BY <2>1 DEF IsGoing, Going, Busy
  <3> QED  BY <2>5, <3>2, <3>3, Told
 <2> QED  BY <2>1, <2>3, <2>4, <2>5, <2>6
<1>6. ASSUME NEW j \in 1 .. Len(toManager'), ~(j <= Len(toManager)),
             toManager'[j].type = "ready"
      PROVE  IsAccepted /\ j = Len(toManager') /\ toManager'[j].id = tPlan.id
  BY <1>6, EndpointTells DEF Status
<1>7. ASSUME NEW k \in 1 .. Len(toManager'), toManager'[k].type = "ready", NEW id, id = toManager'[k].id
      PROVE  /\ id < nextAttackId' /\ id \in confirmed /\ (Alive(id)' => tState' = "Ready")
             /\ ~(mReady /\ mPlan.id = id)
             /\ \A j \in 1 .. Len(toManager') :
                   /\ toManager'[j].type = "ready" /\ toManager'[j].id = id => j = k
                   /\ toManager'[j].type = "status" /\ toManager'[j].id = id /\ toManager'[j].over => k < j
 <2>1. CASE k <= Len(toManager)
  <3>1. k \in 1 .. Len(toManager) /\ toManager'[k] = toManager[k]  BY <1>4, <2>1
  <3>2. ToldReady(toManager, id)  BY <1>7, <3>1 DEF ToldReady
  <3>3. /\ id < nextAttackId /\ id \in confirmed /\ (Alive(id) => tState = "Ready")
        /\ ~(mReady /\ mPlan.id = id)
    BY <1>1, <3>2, ReadyAt
  <3>4. \A j \in 1 .. Len(toManager) :
            /\ toManager[j].type = "ready" /\ toManager[j].id = id => j = k
            /\ toManager[j].type = "status" /\ toManager[j].id = id /\ toManager[j].over => k < j
    BY <1>1, <1>7, <3>1 DEF ReadyFits, IsReady, IsOver
  <3>5. id \in Nat /\ id < nextAttackId'  BY <3>3, NewPlan, Numbers
  <3>6. Alive(id)' => tState' = "Ready"
   <4> SUFFICES ASSUME Alive(id)' PROVE tState' = "Ready"  OBVIOUS
   <4>1. /\ Alive(id) /\ tPlan' = tPlan
         /\ IsAccepted \/ IgnoresOrder \/ Schedules \/ (Proceeds /\ tState' = "Running")
     BY <3>3, <3>5, AliveBefore
   <4>2. tState = "Ready"  BY <3>3, <4>1
   <4>3. ~Schedules
    <5> SUFFICES ASSUME Schedules PROVE FALSE  OBVIOUS
    <5>1. 1 \in 1 .. Len(toTest) /\ toTest[1].type = "start" /\ toTest[1].id = id
      BY <4>1, QueuesOK DEF Schedules, Receives, Stepping, ExperimentInv, Alive
    <5>2. ~ReadyTold(id)  BY <1>1, <5>1 DEF ExperimentInv, EndpointFits, StartOrdersFit
    <5> QED  BY <3>2, <5>2, Told
   <4>4. ~(Proceeds /\ tState' = "Running")  BY <4>2 DEF Proceeds
   <4> QED  BY <4>1, <4>2, <4>3, <4>4 DEF IsAccepted, IgnoresOrder, KeepsEndpoint
  <3>7. ASSUME NEW j \in 1 .. Len(toManager')
        PROVE  /\ toManager'[j].type = "ready" /\ toManager'[j].id = id => j = k
               /\ toManager'[j].type = "status" /\ toManager'[j].id = id /\ toManager'[j].over => k < j
   <4>1. CASE j <= Len(toManager)  BY <1>4, <3>4, <4>1
   <4>2. CASE ~(j <= Len(toManager))  BY <1>3, <1>5, <1>6, <2>1, <3>2, <4>2
   <4> QED  BY <4>1, <4>2
  <3> QED  BY <3>3, <3>5, <3>6, <3>7
 <2>2. CASE ~(k <= Len(toManager))
  <3>1. IsAccepted /\ k = Len(toManager') /\ id = tPlan.id  BY <1>6, <1>7, <2>2
  <3>2. id < nextAttackId' /\ tState' = "Ready"  BY <3>1, NewPlan, Numbers DEF IsAccepted
  <3>3. ASSUME NEW j \in 1 .. Len(toManager')
        PROVE  /\ toManager'[j].type = "ready" /\ toManager'[j].id = id => j = k
               /\ ~(toManager'[j].type = "status" /\ toManager'[j].id = id /\ toManager'[j].over)
   <4>1. CASE j <= Len(toManager)  BY <1>4, <1>5, <3>1, <4>1 DEF ToldReady, ToldOver
   <4>2. CASE ~(j <= Len(toManager))
    <5>1. toManager'[j].type = "ready" => j = k  BY <1>6, <3>1, <4>2
    <5>2. ~(toManager'[j].type = "status" /\ toManager'[j].over)
     <6>1. ~Submits /\ ~Schedules /\ ~StopsPlan /\ ~Proceeds
       BY <3>1 DEF IsAccepted, Submits, Schedules, StopsPlan, Proceeds, Busy
     <6>2. toManager'[j].type = "ready" \/ toManager'[j] = Status("Ready")
       BY <4>2, <6>1, EndpointTells
     <6>3. ~Status("Ready").over  BY DEF Status
     <6>4. CASE toManager'[j].type = "ready"  BY <6>4
     <6>5. CASE toManager'[j] = Status("Ready")  BY <6>3, <6>5
     <6> QED  BY <6>2, <6>4, <6>5
    <5> QED  BY <5>1, <5>2
   <4> QED  BY <4>1, <4>2
  <3> QED  BY <1>5, <3>1, <3>2, <3>3
 <2> QED  BY <2>1, <2>2
<1>8. ASSUME NEW k \in 1 .. Len(toManager'), toManager'[k].type = "ready"
      PROVE  /\ toManager'[k].id < nextAttackId' /\ toManager'[k].id \in confirmed'
             /\ tPlan'.id = toManager'[k].id /\ tState' \in {"PlanPending"} \union Going =>
                   tState' = "Ready"
             /\ ~(mReady' /\ mPlan'.id = toManager'[k].id)
             /\ \A j \in 1 .. Len(toManager') :
                   /\ toManager'[j].type = "ready" /\ toManager'[j].id = toManager'[k].id => j = k
                   /\ toManager'[j].type = "status" /\ toManager'[j].id = toManager'[k].id
                         /\ toManager'[j].over => k < j
  BY <1>1, <1>7, <1>8 DEF Alive, Going, Busy
<1> QED  BY <1>8 DEF ReadyFits, Alive, IsReady, IsOver, Going, Busy

LEMMA ReadinessFitsManager == ASSUME Stepping, ManagerMoves PROVE ReadinessFits'
<1>1. /\ UNCHANGED <<tPlan, tState>> /\ ReadinessFits /\ ExperimentInv
  BY ManagerQueues DEF KeepsEndpoint, Stepping, ExperimentInv, EndpointFits
<1>2. PICK s \in {0, 1} : Shifted(toManager, toManager', s) /\ (s = 1 => Taken(toManager, toManager'))
  BY ManagerQueues
<1>3. Len(toManager) \in Nat /\ Len(toManager') \in Nat  BY QueuesOK DEF Stepping, ExperimentInv
<1>4. ASSUME mPlan' # NoPlan, mReady' \/ ToldReady(toManager', mPlan'.id)
      PROVE  IsGoing(mPlan'.id) \/ ToldOver(toManager', mPlan'.id)
 <2>1. mPlan' = mPlan
  <3>1. ~TakesPlan
   <4> SUFFICES ASSUME TakesPlan PROVE FALSE  OBVIOUS
   <4>1. ~mReady /\ mReady' = mReady  BY DEF TakesPlan, Stepping, ExperimentInv, SidesOK
   <4>2. ToldReady(toManager, mPlan'.id)  BY <1>4, <4>1, ManagerTold
   <4>3. \A id : ToldReady(toManager, id) => id \in confirmed  BY <1>1, ReadyAt
   <4> QED  BY <4>2, <4>3, PlanTaken
  <3> QED  BY <1>4, <3>1, ManagerPlan
 <2>2. mReady \/ ToldReady(toManager, mPlan.id)
  <3>1. CASE ToldReady(toManager', mPlan'.id)  BY <2>1, <3>1, ManagerTold
  <3>2. CASE mReady' /\ ~mReady
   <4>1. HearsReady
     BY <1>4, <3>2 DEF ManagerMoves, Rests, DropsContext, GivesContext, OrdersStart, OrdersStop,
        OrdersBoth, RefusesPlan, TakesPlan, ConfirmsPlan, HearsStatus, HearsStranger, KeepsManager,
        Unready
   <4>2. toManager[1].id = mPlan.id /\ toManager[1].type = "ready" /\ 1 \in 1 .. Len(toManager)
     BY <3>2, <4>1, QueuesOK DEF HearsReady, Hears, Stepping, ExperimentInv
   <4> QED  BY <4>2 DEF ToldReady
  <3> QED  BY <1>4, <3>1, <3>2
 <2>3. IsGoing(mPlan.id) \/ ToldOver(toManager, mPlan.id)
   BY <1>1, <1>4, <2>1, <2>2, Told DEF ReadinessFits
 <2>4. CASE ToldOver(toManager, mPlan.id)
  <3>1. PICK k \in 1 .. Len(toManager) : /\ toManager[k].type = "status" /\ toManager[k].over
                                         /\ toManager[k].id = mPlan.id
    BY <2>4 DEF ToldOver
  <3>2. CASE k - s \in 1 .. Len(toManager')
   <4>1. (k - s) + s = k  BY <1>2
   <4>2. toManager'[k - s] = toManager[k]  BY <1>2, <3>2, <4>1 DEF Shifted
   <4> QED  BY <2>1, <3>1, <3>2, <4>2 DEF ToldOver
  <3>3. CASE k - s \notin 1 .. Len(toManager')
   <4>1. ~DropsContext  BY <1>4 DEF DropsContext
   <4>2. Taken(toManager, toManager')
    <5>1. ~UNCHANGED toManager
     <6> SUFFICES ASSUME UNCHANGED toManager PROVE FALSE  OBVIOUS
     <6>1. Len(toManager') # 0 /\ s = 0  BY <1>2, <1>3, <3>1 DEF Shifted
     <6> QED  BY <1>3, <3>1, <3>3, <6>1
    <5> QED
      BY <4>1, <5>1 DEF ManagerMoves, Rests, GivesContext, OrdersStart, OrdersStop, OrdersBoth,
         RefusesPlan, TakesPlan, ConfirmsPlan, HearsReady, HearsStatus, HearsStranger, Hears
   <4>3. k = 1
    <5> SUFFICES ASSUME k # 1 PROVE FALSE  OBVIOUS
    <5>1. k - 1 \in 1 .. Len(toManager') /\ Len(toManager') # 0  BY <1>3, <4>2 DEF Taken
    <5>2. s = 1  BY <1>2, <1>3, <4>2, <5>1 DEF Shifted, Taken
    <5> QED  BY <3>3, <5>1, <5>2
   <4>4. HearsStatus
    <5>1. ~HearsStranger  BY <1>4, <2>1 DEF HearsStranger, Stepping, ExperimentInv, SidesOK
    <5>2. toManager' # toManager  BY <1>3, <4>2 DEF Taken
    <5> QED
      BY <3>1, <4>1, <4>3, <5>1, <5>2 DEF ManagerMoves, Rests, GivesContext, OrdersStart, OrdersStop,
         OrdersBoth, RefusesPlan, TakesPlan, ConfirmsPlan, HearsReady, Hears
   <4>5. Unready  BY <1>4, <2>1, <3>1, <4>3, <4>4 DEF HearsStatus
   <4>6. ToldReady(toManager', mPlan'.id)  BY <1>4, <4>5 DEF Unready
   <4>7. PICK i \in 1 .. Len(toManager') :
             toManager'[i].type = "ready" /\ toManager'[i].id = mPlan.id
     BY <2>1, <4>6 DEF ToldReady
   <4>8. i + 1 \in 1 .. Len(toManager) /\ toManager[i + 1] = toManager'[i]  BY <1>3, <4>2 DEF Taken
   <4>9. i + 1 < k
     BY <1>1, <3>1, <4>7, <4>8 DEF ExperimentInv, EndpointFits, ReadyFits, IsOver, IsReady
   <4> QED  BY <1>3, <4>3, <4>9
  <3> QED  BY <3>2, <3>3
 <2> QED  BY <2>1, <2>3, <2>4
<1>5. \A id : IsGoing(id)' <=> IsGoing(id)  BY <1>1 DEF IsGoing
<1>6. mPlan' # NoPlan /\ (mReady' \/ ToldReady(toManager', mPlan'.id)) =>
          (tPlan'.id = mPlan'.id /\ tState' \in Going) \/ ToldOver(toManager', mPlan'.id)
  BY <1>1, <1>4 DEF IsGoing
<1> QED
  BY <1>6 DEF ReadinessFits, IsGoing, OverTold, ReadyTold, ToldOver, ToldReady, IsOver, IsReady, Going,
     Busy

LEMMA ReadinessFitsEndpoint == ASSUME Stepping, EndpointMoves PROVE ReadinessFits'
<1>1. /\ UNCHANGED <<mContext, mPlan, mReady, mRunning, confirmed>> /\ ReadinessFits /\ ExperimentInv
  BY EndpointQueues DEF KeepsManager, Stepping, ExperimentInv, EndpointFits
<1>2. /\ Len(toManager) \in Nat /\ Len(toManager') \in Nat  BY QueuesOK DEF Stepping, ExperimentInv
<1>3. ASSUME mPlan # NoPlan, mReady \/ ToldReady(toManager', mPlan.id)
      PROVE  (tPlan'.id = mPlan.id /\ tState' \in Going) \/ ToldOver(toManager', mPlan.id)
 <2>1. CASE IsAccepted /\ tPlan.id = mPlan.id  BY <2>1 DEF IsAccepted, Going
 <2>2. CASE ~(IsAccepted /\ tPlan.id = mPlan.id)
  <3>1. mReady \/ ToldReady(toManager, mPlan.id)  BY <1>3, <2>2, TellsReady
  <3>2. IsGoing(mPlan.id) \/ ToldOver(toManager, mPlan.id)
    BY <1>1, <1>3, <3>1, Told DEF ReadinessFits
  <3>3. CASE ToldOver(toManager, mPlan.id)  BY <3>3, StillOver
  <3>4. CASE IsGoing(mPlan.id)
   <4>1. tState \in Going /\ tPlan.id = mPlan.id /\ testLink
     BY <1>3, <3>4 DEF IsGoing, Stepping, ExperimentInv, SidesOK
   <4>2. \A j \in 1 .. Len(toTest) : ~Drops(toTest[j])
     BY <1>1, <1>3, <4>1 DEF ExperimentInv, EndpointFits, GoingFits
   <4>3. ~TakesContext /\ ~IsRefused
     BY <4>2, QueuesOK DEF Stepping, ExperimentInv, TakesContext, IsRefused, Receives, Drops,
        Refuses
   <4>4. ~Submits  BY <4>1 DEF Submits, Going, Busy
   <4>5. CASE IgnoresOrder  BY <4>1, <4>5 DEF IgnoresOrder, KeepsEndpoint
   <4>6. CASE IsAccepted \/ Schedules  BY <4>1, <4>6 DEF IsAccepted, Schedules, Going, Busy
   <4>7. ASSUME NEW state \in {"Stopped", "Completed"}, Reports(Status(state))
         PROVE  ToldOver(toManager', mPlan.id)
    <5>1. /\ Len(toManager') \in 1 .. Len(toManager')
          /\ toManager'[Len(toManager')] = Status(state)
      BY <1>2, <4>1, <4>7 DEF Reports, Appended
    <5>2. Status(state).type = "status" /\ Status(state).id = mPlan.id /\ Status(state).over
      BY <4>1 DEF Status
    <5> QED  BY <5>1, <5>2 DEF ToldOver
   <4>8. CASE StopsPlan  BY <4>7, <4>8 DEF StopsPlan
   <4>9. CASE Proceeds  BY <4>1, <4>7, <4>9 DEF Proceeds, Going, Busy
   <4> QED  BY <4>3, <4>4, <4>5, <4>6, <4>8, <4>9 DEF EndpointMoves
  <3> QED  BY <3>2, <3>3, <3>4
 <2> QED  BY <2>1, <2>2
<1> QED
  BY <1>1, <1>3 DEF ReadinessFits, IsGoing, OverTold, ReadyTold, ToldOver, ToldReady, IsOver, IsReady,
     Going, Busy

LEMMA EndpointFitsKept == ASSUME Stepping PROVE EndpointFits'
<1>1. ManagerMoves \/ EndpointMoves  BY DEF Stepping, Moves
<1>2. CASE ManagerMoves
  BY <1>2, PlansInOrderManager, DecisionsFitManager, GoingFitsManager, StartOrdersFitManager,
     StatusFitsManager, ReadyFitsManager, ReadinessFitsManager DEF EndpointFits
<1>3. CASE EndpointMoves
  BY <1>3, PlansInOrderEndpoint, DecisionsFitEndpoint, GoingFitsEndpoint, StartOrdersFitEndpoint,
     StatusFitsEndpoint, ReadyFitsEndpoint, ReadinessFitsEndpoint DEF EndpointFits
<1> QED  BY <1>1, <1>2, <1>3

-----------------------------------------------------------------------------
(* The receivers' half.                                                       *)

\* A message at the end of the queue; all the same where it is a receiver's own stop.
LEMMA QueueGrows ==
    ASSUME NEW queue \in Seq(ReceiverMessages), NEW message \in ReceiverMessages, NEW mapped,
           NEW before, NEW after,
           QueueFits(queue, mapped, before) \/ message.type \in {"configure", "stop"},
           message.type = "install" => message.round \in after,
           \A n \in before : n \in after \/ Clears(message, n)
    PROVE  /\ QueueFits(Append(queue, message), mapped, after)
           /\ Append(queue, message) \in Seq(ReceiverMessages)
<1> DEFINE p == Append(queue, message)
<1>1. /\ p \in Seq(ReceiverMessages) /\ Len(p) = Len(queue) + 1 /\ Len(queue) \in Nat
      /\ p[Len(queue) + 1] = message /\ \A k \in 1 .. Len(queue) : p[k] = queue[k]
  BY AppendProperties
<1> HIDE DEF p
<1>2. Len(p) \in 1 .. Len(p) /\ p[Len(p)] = message  BY <1>1
<1>3. ASSUME NEW k \in 1 .. Len(queue)
      PROVE  Len(p) \in k + 1 .. Len(p) /\ k \in 1 .. Len(p)
             /\ \A j \in k + 1 .. Len(queue) : j \in k + 1 .. Len(p) /\ p[j] = queue[j]
  BY <1>1
<1>4. message.type \in {"configure", "stop"} => \A n : Clears(message, n)  BY DEF Clears
<1>5. ASSUME NEW k \in 1 .. Len(p), p[k].type = "install"
      PROVE  p[k].round \in after \/ \E j \in k + 1 .. Len(p) : Clears(p[j], p[k].round)
 <2>1. CASE k \in 1 .. Len(queue)
  <3>1. p[k] = queue[k]  BY <1>1, <2>1
  <3>2. CASE Clears(message, p[k].round)  BY <1>2, <1>3, <2>1, <3>2
  <3>3. CASE ~Clears(message, p[k].round)  BY <1>3, <1>4, <1>5, <2>1, <3>1, <3>3 DEF QueueFits
  <3> QED  BY <3>2, <3>3
 <2>2. CASE k = Len(p)  BY <1>2, <1>5, <2>2
 <2> QED  BY <1>1, <2>1, <2>2
<1>6. ASSUME mapped # 0
      PROVE  mapped \in after \/ \E j \in 1 .. Len(p) : Clears(p[j], mapped)
 <2>1. CASE Clears(message, mapped)  BY <1>2, <2>1
 <2>2. CASE ~Clears(message, mapped)  BY <1>1, <1>4, <1>6, <2>2 DEF QueueFits
 <2> QED  BY <2>1, <2>2
<1>7. QueueFits(p, mapped, after)  BY <1>5, <1>6 DEF QueueFits
<1> QED  BY <1>1, <1>7 DEF p

\* The first message is handled.
LEMMA QueueShrinks ==
    ASSUME NEW queue \in Seq(ReceiverMessages), queue # <<>>, NEW mapped, NEW experiment, NEW next,
           QueueFits(queue, mapped, experiment),
           \/ next = 0
           \/ next = mapped /\ ~Clears(queue[1], mapped)
           \/ next = queue[1].round /\ queue[1].type = "install"
    PROVE  QueueFits(Tail(queue), next, experiment)
<1> DEFINE p == Tail(queue)
<1>1. Taken(queue, p) /\ Len(queue) \in Nat \ {0} /\ p \in Seq(ReceiverMessages)  BY Takes
<1>2. Len(p) \in Nat  BY <1>1, LenProperties
<1> HIDE DEF p
<1>3. Len(queue) = Len(p) + 1 /\ \A k \in 1 .. Len(p) : p[k] = queue[k + 1] /\ k + 1 \in 1 .. Len(queue)
  BY <1>1, <1>2 DEF Taken
<1>4. ASSUME NEW n, NEW k \in 0 .. Len(p), \E j \in (k + 1) + 1 .. Len(queue) : Clears(queue[j], n)
      PROVE  \E j \in k + 1 .. Len(p) : Clears(p[j], n)
 <2>1. PICK j \in (k + 1) + 1 .. Len(queue) : Clears(queue[j], n)  BY <1>4
 <2> DEFINE i == j - 1
 <2>2. i \in k + 1 .. Len(p) /\ i \in 1 .. Len(p) /\ i + 1 = j  BY <1>2, <1>3
 <2> HIDE DEF i
 <2>3. Clears(p[i], n)  BY <1>3, <2>1, <2>2
 <2> QED  BY <2>2, <2>3
<1>5. ASSUME NEW k \in 1 .. Len(p), p[k].type = "install"
      PROVE  p[k].round \in experiment \/ \E j \in k + 1 .. Len(p) : Clears(p[j], p[k].round)
 <2>1. /\ p[k] = queue[k + 1] /\ k + 1 \in 1 .. Len(queue) /\ k \in 0 .. Len(p)  BY <1>2, <1>3
 <2>2. \/ p[k].round \in experiment
       \/ \E j \in (k + 1) + 1 .. Len(queue) : Clears(queue[j], p[k].round)
   BY <1>5, <2>1 DEF QueueFits
 <2> QED  BY <1>4, <2>1, <2>2
<1>6. ASSUME next # 0
      PROVE  next \in experiment \/ \E j \in 1 .. Len(p) : Clears(p[j], next)
 <2>1. 0 \in 0 .. Len(p) /\ 0 + 1 = 1 /\ 1 + 1 = 2 /\ 1 \in 1 .. Len(queue)  BY <1>1, <1>2
 <2>2. CASE next = mapped /\ ~Clears(queue[1], mapped)
  <3>1. next \in experiment \/ \E j \in 1 .. Len(queue) : Clears(queue[j], next)
    BY <1>6, <2>2 DEF QueueFits
  <3>2. CASE next \in experiment  BY <3>2
  <3>3. CASE \E j \in 1 .. Len(queue) : Clears(queue[j], next)
   <4>1. PICK j \in 1 .. Len(queue) : Clears(queue[j], next)  BY <3>3
   <4>2. j \in (0 + 1) + 1 .. Len(queue)  BY <1>1, <2>2, <4>1
   <4> QED  BY <1>4, <2>1, <4>1, <4>2
  <3> QED  BY <3>1, <3>2, <3>3
 <2>3. CASE next = queue[1].round /\ queue[1].type = "install"  BY <1>4, <2>1, <2>3 DEF QueueFits
 <2> QED  BY <1>6, <2>2, <2>3
<1> QED  BY <1>5, <1>6 DEF QueueFits, p

LEMMA QueueWidens ==
    ASSUME NEW queue, NEW mapped, NEW before, NEW after, before \subseteq after,
           QueueFits(queue, mapped, before)
    PROVE  QueueFits(queue, mapped, after)
  BY DEF QueueFits

LEMMA ReceiverQueue ==
    ASSUME ExperimentInv
    PROVE  /\ Clear \in ReceiverMessages /\ toReceiver \in [Receivers -> Seq(ReceiverMessages)]
           /\ receiverLink \in [Receivers -> BOOLEAN] /\ attackMapping \in [Receivers -> 0 .. LastRound]
           /\ mContext = 0 \/ mPlan = NoPlan => mReceivers = {}
           /\ \A r \in Receivers : r \notin lost =>
                 /\ receiverLink[r] /\ toReceiver[r] \in Seq(ReceiverMessages)
                 /\ QueueFits(toReceiver[r], attackMapping[r], Experiment(r))
<1>1. ExperimentTypeOK /\ toReceiver \in [Receivers -> Seq(ReceiverMessages)]
  BY DEF ExperimentInv, MessagesOK
<1>2. Clear \in ReceiverMessages  BY <1>1, ClearedOK
<1>3. /\ receiverLink \in [Receivers -> BOOLEAN] /\ attackMapping \in [Receivers -> 0 .. LastRound]
      /\ mContext = 0 \/ mPlan = NoPlan => mReceivers = {}
  BY <1>1, OutwardHolds DEF ExperimentTypeOK, Outward, AtReceivers
<1>4. \A r \in Receivers : r \notin lost =>
          receiverLink[r] /\ QueueFits(toReceiver[r], attackMapping[r], Experiment(r))
  BY DEF ExperimentInv, ReceiversFit, MappingsFit, MappingFits
<1> QED  BY <1>1, <1>2, <1>3, <1>4

\* What is sent to clear the mappings clears them all.
LEMMA ClearedFits ==
    ASSUME Clear \in ReceiverMessages, NEW queues, NEW r \in Receivers, NEW mapped,
           receiverLink[r], queues[r] \in Seq(ReceiverMessages),
           QueueFits(queues[r], mapped, Experiment(r))
    PROVE  /\ QueueFits(Cleared(queues)[r], mapped, {})
           /\ Cleared(queues)[r] \in Seq(ReceiverMessages)
<1>1. Cleared(queues)[r] = IF r \in mReceivers THEN Append(queues[r], Clear) ELSE queues[r]
  BY DEF Cleared, Sent, ToClear
<1>2. CASE r \in mReceivers  BY <1>1, <1>2, QueueGrows DEF Clear, Clears, Experiment
<1>3. CASE r \notin mReceivers  BY <1>1, <1>3 DEF Experiment
<1> QED  BY <1>2, <1>3

LEMMA EmptiedFits ==
    ASSUME NEW r \in Receivers, mReceivers' = {}, receiverLink'[r],
           QueueFits(toReceiver'[r], attackMapping'[r], {})
    PROVE  MappingFits(r)'
  BY DEF MappingFits, Experiment

LEMMA SameFits ==
    ASSUME NEW r \in Receivers, mReceivers = {} \/ UNCHANGED <<mReceivers, mContext>>,
           receiverLink'[r], QueueFits(toReceiver'[r], attackMapping'[r], Experiment(r))
    PROVE  MappingFits(r)'
  BY QueueWidens DEF Experiment, MappingFits

\* Nothing is sent, and the experiment stays, or there was none.
LEMMA MappingsSame ==
    ASSUME ExperimentInv, UNCHANGED <<toReceiver, attackMapping, lost>>,
           mReceivers = {} \/ UNCHANGED <<mReceivers, mContext>>,
           \A r \in Receivers : receiverLink[r] => receiverLink'[r]
    PROVE  MappingsFit'
<1>1. ASSUME NEW r \in Receivers, r \notin lost
      PROVE  MappingFits(r)'
  BY <1>1, ReceiverQueue, SameFits
<1> QED  BY <1>1 DEF MappingsFit

LEMMA MappingsCleared ==
    ASSUME ExperimentInv, UNCHANGED <<attackMapping, lost, receiverLink>>,
           toReceiver' = Cleared(toReceiver), mReceivers' = {}
    PROVE  MappingsFit'
<1>1. ASSUME NEW r \in Receivers, r \notin lost
      PROVE  MappingFits(r)'
  BY <1>1, ReceiverQueue, ClearedFits, EmptiedFits
<1> QED  BY <1>1 DEF MappingsFit

LEMMA StopsEmpty ==
    /\ \A before : StopPlan(before) => mReceivers' = {} /\ mContext' = mContext
    /\ \A plan : RejectPlan(plan) => mReceivers' = {} /\ mContext' = mContext
    /\ ClearPreparedState => mReceivers' = {}
  BY DEF StopPlan, RejectPlan, ClearPreparedState, NoMappings

\* A receiver's stop order clears whatever it has.
LEMMA StopFits ==
    ASSUME ExperimentInv, NEW queue \in Seq(ReceiverMessages), NEW mapped
    PROVE  /\ QueueFits(Append(queue, NodeStop), mapped, {}) /\ NodeStop \in ReceiverMessages
           /\ Append(queue, NodeStop) \in Seq(ReceiverMessages)
<1>1. authRound \in 0 .. LastRound /\ MaxPlans \in Nat
  BY ContextBound, ExperimentParameters DEF ExperimentInv
<1>2. NodeStop \in ReceiverMessages /\ NodeStop.type = "stop"
  BY <1>1 DEF NodeStop, ReceiverMessages
<1> DEFINE order == NodeStop
<1>3. /\ order \in ReceiverMessages /\ order.type \in {"configure", "stop"}
      /\ order.type = "install" => order.round \in {}
      /\ \A n \in {} : n \in {} \/ Clears(order, n)
  BY <1>2
<1> HIDE DEF order
<1>4. QueueFits(Append(queue, order), mapped, {}) /\ Append(queue, order) \in Seq(ReceiverMessages)
  BY <1>3, QueueGrows
<1> QED  BY <1>2, <1>4 DEF order

LEMMA PrepareRoundFits == ASSUME ExperimentInv, PrepareRound PROVE MappingsFit'
<1> DEFINE configure == [type |-> "configure", id |-> 0, round |-> authRound + 1]
           queues == Sent(toReceiver, Receivers, configure)
<1>1. /\ authRound \in 0 .. LastRound /\ authRound < LastRound /\ LastRound \in Nat
      /\ MaxPlans \in Nat
  BY ContextBound, ExperimentParameters DEF ExperimentInv, PrepareRound
<1>2. configure \in ReceiverMessages /\ configure.type = "configure"  BY <1>1 DEF ReceiverMessages
<1>3. /\ toReceiver' = Cleared(queues) /\ UNCHANGED <<receiverLink, attackMapping>>
      /\ \A r \in Receivers : receiverLink[r]
  BY DEF PrepareRound, receiverState
<1>4. mReceivers' = {}
 <2>1. CASE mContext # 0  BY <2>1, StopsEmpty DEF PrepareRound
 <2>2. CASE mContext = 0  BY <2>2, ReceiverQueue DEF PrepareRound, managerSide
 <2> QED  BY <2>1, <2>2
<1> HIDE DEF configure
<1>5. ASSUME NEW r \in Receivers
      PROVE  MappingFits(r)'
 <2>1. queues[r] = Append(toReceiver[r], configure) /\ toReceiver[r] \in Seq(ReceiverMessages)
   BY <1>3, ReceiverQueue DEF Sent
 <2>2. \A n \in {} : n \in {} \/ Clears(configure, n)  OBVIOUS
 <2>3. QueueFits(queues[r], attackMapping[r], {}) /\ queues[r] \in Seq(ReceiverMessages)
   BY <1>2, <2>1, <2>2, QueueGrows
 <2> HIDE DEF queues
 <2>4. QueueFits(queues[r], attackMapping[r], Experiment(r))  BY <2>3, QueueWidens
 <2>5. QueueFits(Cleared(queues)[r], attackMapping[r], {})
   BY <1>3, <2>3, <2>4, ReceiverQueue, ClearedFits
 <2> QED  BY <1>3, <1>4, <2>5, EmptiedFits
<1> QED  BY <1>5 DEF MappingsFit

LEMMA StartRoundFits == ASSUME ExperimentInv, StartRound PROVE MappingsFit'
<1>1. UNCHANGED <<lost, receiverLink, attackMapping>>  BY DEF StartRound, links, receiverState
<1>2. CASE UNCHANGED <<mContext, mReceivers, toReceiver>>  BY <1>1, <1>2, MappingsSame
<1>3. CASE /\ StopPlan(<<[type |-> "start", id |-> mPlan.id]>>)
           /\ toReceiver' = Cleared(Sent(toReceiver, Receivers, NodeStop))
 <2> DEFINE queues == Sent(toReceiver, Receivers, NodeStop)
 <2>1. ASSUME NEW r \in Receivers, r \notin lost
       PROVE  MappingFits(r)'
  <3>1. receiverLink[r] /\ toReceiver[r] \in Seq(ReceiverMessages) /\ Clear \in ReceiverMessages
    BY <2>1, ReceiverQueue
  <3>2. queues[r] = Append(toReceiver[r], NodeStop)  BY <3>1 DEF Sent
  <3>3. QueueFits(queues[r], attackMapping[r], {}) /\ queues[r] \in Seq(ReceiverMessages)
    BY <3>1, <3>2, StopFits
  <3> HIDE DEF queues
  <3>4. QueueFits(queues[r], attackMapping[r], Experiment(r))  BY <3>3, QueueWidens
  <3>5. QueueFits(Cleared(queues)[r], attackMapping[r], {})  BY <3>1, <3>3, <3>4, ClearedFits
  <3> QED  BY <1>1, <1>3, <3>1, <3>5, EmptiedFits, StopsEmpty DEF queues
 <2> QED  BY <1>1, <2>1 DEF MappingsFit
<1> QED  BY <1>2, <1>3 DEF StartRound

LEMMA StopRoundFits == ASSUME ExperimentInv, StopAttackRound PROVE MappingsFit'
<1>1. UNCHANGED <<lost, receiverLink, attackMapping>>  BY DEF StopAttackRound, links, receiverState
<1>2. CASE StopPlan(<<>>) /\ toReceiver' = Sent(Cleared(toReceiver), Receivers, NodeStop)
 <2>1. ASSUME NEW r \in Receivers, r \notin lost
       PROVE  MappingFits(r)'
   BY <1>1, <1>2, <2>1, ReceiverQueue, ClearedFits, StopFits, EmptiedFits, StopsEmpty DEF Sent
 <2> QED  BY <1>1, <2>1 DEF MappingsFit
<1>3. CASE UNCHANGED managerSide /\ toReceiver' = Sent(toReceiver, Receivers, NodeStop)
 <2>1. ASSUME NEW r \in Receivers, r \notin lost
       PROVE  MappingFits(r)'
  <3>1. receiverLink[r] /\ toReceiver[r] \in Seq(ReceiverMessages)  BY <2>1, ReceiverQueue
  <3>2. toReceiver'[r] = Append(toReceiver[r], NodeStop)  BY <1>3, <3>1 DEF Sent
  <3>3. QueueFits(toReceiver'[r], attackMapping'[r], Experiment(r))
    BY <1>1, <3>1, <3>2, StopFits, QueueWidens
  <3> QED  BY <1>1, <1>3, <3>1, <3>3, SameFits DEF managerSide
 <2> QED  BY <1>1, <2>1 DEF MappingsFit
<1> QED  BY <1>2, <1>3 DEF StopAttackRound

LEMMA OperatorFits == ASSUME ExperimentInv, Operator PROVE MappingsFit'
<1>1. CASE PrepareContext
  BY <1>1, MappingsSame, ReceiverQueue DEF PrepareContext, links, receiverState
<1>2. CASE RoundEnds
 <2>1. UNCHANGED <<lost, receiverLink, attackMapping>>  BY <1>2 DEF RoundEnds, links, receiverState
 <2>2. CASE StopPlan(<<>>) /\ toReceiver' = Cleared(toReceiver)
   BY <2>1, <2>2, StopsEmpty, MappingsCleared
 <2>3. CASE UNCHANGED <<managerSide, toReceiver>>  BY <2>1, <2>3, MappingsSame DEF managerSide
 <2> QED  BY <1>2, <2>2, <2>3 DEF RoundEnds
<1>3. CASE StopExperiment
  BY <1>3, StopsEmpty, MappingsCleared DEF StopExperiment, links, receiverState
<1> QED  BY <1>1, <1>2, <1>3, PrepareRoundFits, StartRoundFits, StopRoundFits DEF Operator

LEMMA HandlePlanFits == ASSUME ExperimentInv, HandlePlan PROVE MappingsFit'
<1> DEFINE plan == Head(toManager).plan
           install == [type |-> "install", id |-> plan.id, round |-> mContext]
<1>1. UNCHANGED <<lost, receiverLink, attackMapping>> /\ mContext # 0
  BY DEF HandlePlan, endpointUnchanged, links, receiverState
<1>2. plan \in Plan  BY HeardFirst DEF HandlePlan, ManagerMessages, Hears, ExperimentInv
<1>3. /\ install \in ReceiverMessages /\ install.round = mContext
      /\ install.type = "install"
  BY <1>2, ContextBound, ExperimentParameters DEF ReceiverMessages, Plan, ExperimentInv
<1>4. \/ UNCHANGED <<managerSide, toReceiver>>
      \/ mPlan = NoPlan /\ UNCHANGED toReceiver
      \/ /\ mPlan = NoPlan /\ mReceivers' = Receivers /\ UNCHANGED mContext
         /\ toReceiver' = Sent(toReceiver, Receivers, install)
      \/ /\ mPlan = NoPlan /\ RejectPlan(plan)
         /\ \E asked \in SUBSET {r \in Receivers : receiverLink[r]} :
                toReceiver' = Sent(Sent(toReceiver, asked, install), Receivers, Clear)
  BY DEF HandlePlan
<1> HIDE DEF plan, install
<1>5. CASE UNCHANGED <<managerSide, toReceiver>>  BY <1>1, <1>5, MappingsSame DEF managerSide
<1>6. CASE mPlan = NoPlan /\ UNCHANGED toReceiver  BY <1>1, <1>6, MappingsSame, ReceiverQueue
<1>7. CASE /\ mPlan = NoPlan /\ mReceivers' = Receivers /\ UNCHANGED mContext
           /\ toReceiver' = Sent(toReceiver, Receivers, install)
 <2>1. ASSUME NEW r \in Receivers, r \notin lost
       PROVE  MappingFits(r)'
  <3>1. receiverLink[r] /\ toReceiver[r] \in Seq(ReceiverMessages)
        /\ QueueFits(toReceiver[r], attackMapping[r], {})
    BY <1>7, <2>1, ReceiverQueue DEF Experiment
  <3>2. toReceiver'[r] = Append(toReceiver[r], install)  BY <1>7, <3>1 DEF Sent
  <3>3. QueueFits(toReceiver'[r], attackMapping[r], {mContext})  BY <1>3, <3>1, <3>2, QueueGrows
  <3>4. Experiment(r)' = {mContext}  BY <1>7 DEF Experiment
  <3> QED  BY <1>1, <3>1, <3>3, <3>4 DEF MappingFits
 <2> QED  BY <1>1, <2>1 DEF MappingsFit
<1>8. ASSUME mPlan = NoPlan, RejectPlan(plan),
             NEW asked \in SUBSET {r \in Receivers : receiverLink[r]},
             toReceiver' = Sent(Sent(toReceiver, asked, install), Receivers, Clear)
      PROVE  MappingsFit'
 <2> DEFINE queues == Sent(toReceiver, asked, install)
 <2>1. ASSUME NEW r \in Receivers, r \notin lost
       PROVE  MappingFits(r)'
  <3>1. receiverLink[r] /\ toReceiver[r] \in Seq(ReceiverMessages) /\ Clear \in ReceiverMessages
        /\ QueueFits(toReceiver[r], attackMapping[r], {})
    BY <1>8, <2>1, ReceiverQueue DEF Experiment
  <3>2. queues[r] = Append(toReceiver[r], install) \/ queues[r] = toReceiver[r]  BY DEF Sent
  <3>3. toReceiver'[r] = Append(queues[r], Clear)  BY <1>8, <3>1 DEF Sent
  <3> HIDE DEF queues
  <3>4. QueueFits(Append(toReceiver[r], install), attackMapping[r], {mContext})
        /\ Append(toReceiver[r], install) \in Seq(ReceiverMessages)
    BY <1>3, <3>1, QueueGrows
  <3>5. QueueFits(queues[r], attackMapping[r], {mContext}) /\ queues[r] \in Seq(ReceiverMessages)
   <4>1. QueueFits(toReceiver[r], attackMapping[r], {mContext})  BY <3>1, QueueWidens
   <4> QED  BY <3>1, <3>2, <3>4, <4>1
  <3>6. /\ Clear.type = "install" => Clear.round \in {}
        /\ \A n \in {mContext} : n \in {} \/ Clears(Clear, n)
    BY DEF Clear, Clears
  <3>7. QueueFits(toReceiver'[r], attackMapping[r], {})  BY <3>1, <3>3, <3>5, <3>6, QueueGrows
  <3> QED  BY <1>1, <1>8, <3>1, <3>7, StopsEmpty, EmptiedFits
 <2> QED  BY <1>1, <2>1 DEF MappingsFit
<1> QED  BY <1>4, <1>5, <1>6, <1>7, <1>8

LEMMA HandlesFit == ASSUME ExperimentInv, ManagerHandles PROVE MappingsFit'
<1>1. CASE HandleReady
  BY <1>1, MappingsSame DEF HandleReady, endpointUnchanged, links, receiverState
<1>2. CASE HandleStatus
  BY <1>2, MappingsSame, MappingsCleared DEF HandleStatus, endpointUnchanged, links,
     receiverState, managerSide, NoMappings
<1>3. CASE HandleStranger
  BY <1>3, MappingsSame DEF HandleStranger, endpointUnchanged, links, receiverState, managerSide
<1>4. ASSUME NEW r \in Receivers, HandleMappingAnswer(r) PROVE MappingsFit'
  BY <1>4, StopsEmpty, MappingsSame, MappingsCleared DEF HandleMappingAnswer, links,
     receiverState, managerSide
<1> QED  BY <1>1, <1>2, <1>3, <1>4, HandlePlanFits DEF ManagerHandles

LEMMA LoseReceiverFits ==
    ASSUME ExperimentInv, NEW gone \in Receivers, LoseReceiver(gone) PROVE MappingsFit'
<1> DEFINE others == [toReceiver EXCEPT ![gone] = <<>>]
<1>1. /\ UNCHANGED attackMapping /\ lost' = lost \union {gone}
      /\ receiverLink' = [receiverLink EXCEPT ![gone] = FALSE]
  BY DEF LoseReceiver, receiverState
<1>2. \/ /\ toReceiver' = Sent(others, mReceivers \ {gone}, Clear)
         /\ StopPlan(<<>>) \/ RejectPlan(mPlan)
      \/ toReceiver' = others /\ UNCHANGED managerSide
  BY DEF LoseReceiver, ToClear
<1>3. ASSUME NEW r \in Receivers, r \notin lost'
      PROVE  MappingFits(r)'
 <2>1. r # gone /\ r \notin lost /\ receiverLink' [r] = receiverLink[r]
   BY <1>1, <1>3, ReceiverQueue
 <2>2. /\ receiverLink[r] /\ toReceiver[r] \in Seq(ReceiverMessages) /\ Clear \in ReceiverMessages
       /\ QueueFits(toReceiver[r], attackMapping[r], Experiment(r))
   BY <2>1, ReceiverQueue
 <2>3. others[r] = toReceiver[r]  BY <2>1, ReceiverQueue
 <2> HIDE DEF others
 <2>4. CASE /\ toReceiver' = Sent(others, mReceivers \ {gone}, Clear)
            /\ StopPlan(<<>>) \/ RejectPlan(mPlan)
  <3>1. Sent(others, mReceivers \ {gone}, Clear)[r] = Cleared(others)[r]
    BY <2>1 DEF Sent, Cleared, ToClear
  <3>2. QueueFits(Cleared(others)[r], attackMapping[r], {})  BY <2>2, <2>3, ClearedFits
  <3> QED  BY <1>1, <2>1, <2>2, <2>4, <3>1, <3>2, StopsEmpty, EmptiedFits
 <2>5. CASE toReceiver' = others /\ UNCHANGED managerSide
   BY <1>1, <2>1, <2>2, <2>3, <2>5, SameFits DEF managerSide
 <2> QED  BY <1>2, <2>4, <2>5 DEF others
<1> QED  BY <1>3 DEF MappingsFit

LEMMA ConnectionsFit == ASSUME ExperimentInv, ConnectionsChange PROVE MappingsFit'
<1>1. CASE LoseTest
 <2>1. UNCHANGED <<lost, receiverLink, attackMapping>> /\ toReceiver' = Cleared(toReceiver)
   BY <1>1 DEF LoseTest, receiverState
 <2>2. mReceivers' = {}
  <3>1. CASE mContext # 0  BY <1>1, <3>1, StopsEmpty DEF LoseTest
  <3>2. CASE mContext = 0  BY <1>1, <3>2, ReceiverQueue DEF LoseTest, managerSide
  <3> QED  BY <3>1, <3>2
 <2> QED  BY <2>1, <2>2, MappingsCleared
<1>2. CASE Reconnect  BY <1>2, MappingsSame DEF Reconnect, managerSide, receiverState
<1> QED  BY <1>1, <1>2, LoseReceiverFits DEF ConnectionsChange

LEMMA ReceiverHandlesFits ==
    ASSUME ExperimentInv, NEW one \in Receivers, ReceiverHandles(one) PROVE MappingsFit'
<1> DEFINE message == Head(toReceiver[one])
<1>1. /\ UNCHANGED <<lost, receiverLink, mReceivers, mContext>> /\ toReceiver[one] # <<>>
      /\ toReceiver' = [toReceiver EXCEPT ![one] = Tail(@)]
  BY DEF ReceiverHandles, managerSide, links
<1>2. /\ message \in ReceiverMessages /\ message = toReceiver[one][1]
      /\ toReceiver[one] \in Seq(ReceiverMessages)
  BY <1>1, ReceiverQueue, Takes
<1>3. \/ attackMapping' = [attackMapping EXCEPT ![one] = 0]
      \/ /\ message.type = "clear"
         /\ attackMapping' = [attackMapping EXCEPT ![one] = IF @ = message.round THEN 0 ELSE @]
      \/ message.type = "install" /\ attackMapping' = [attackMapping EXCEPT ![one] = message.round]
      \/ message.type = "install" /\ UNCHANGED attackMapping
  BY DEF ReceiverHandles
<1> HIDE DEF message
<1>4. \/ attackMapping'[one] = 0
      \/ attackMapping'[one] = attackMapping[one] /\ ~Clears(message, attackMapping[one])
      \/ attackMapping'[one] = message.round /\ message.type = "install"
 <2>1. attackMapping \in [Receivers -> 0 .. LastRound]  BY ReceiverQueue
 <2>2. CASE attackMapping' = [attackMapping EXCEPT ![one] = 0]  BY <2>1, <2>2
 <2>3. CASE /\ message.type = "clear"
            /\ attackMapping' = [attackMapping EXCEPT ![one] = IF @ = message.round THEN 0 ELSE @]
   BY <2>1, <2>3 DEF Clears
 <2>4. CASE message.type = "install" /\ attackMapping' = [attackMapping EXCEPT ![one] = message.round]
   BY <2>1, <2>4
 <2>5. CASE message.type = "install" /\ UNCHANGED attackMapping  BY <2>5 DEF Clears
 <2> QED  BY <1>3, <2>2, <2>3, <2>4, <2>5
<1>5. ASSUME NEW r \in Receivers, r # one
      PROVE  toReceiver'[r] = toReceiver[r] /\ attackMapping'[r] = attackMapping[r]
  BY <1>1, <1>3, <1>5, ReceiverQueue
<1>6. ASSUME NEW r \in Receivers, r \notin lost
      PROVE  MappingFits(r)'
 <2>1. receiverLink[r] /\ QueueFits(toReceiver[r], attackMapping[r], Experiment(r))
   BY <1>6, ReceiverQueue
 <2>2. CASE r # one  BY <1>1, <1>5, <2>1, <2>2, SameFits
 <2>3. CASE r = one  BY <1>1, <1>2, <1>4, <2>1, <2>3, ReceiverQueue, QueueShrinks, SameFits
 <2> QED  BY <2>2, <2>3
<1> QED  BY <1>1, <1>6 DEF MappingsFit

LEMMA MappingsKept == ASSUME ExperimentInv, ExperimentNext PROVE MappingsFit'
<1>1. CASE TestHandles \/ SubmitPlan \/ LocalStop \/ Executes
 <2>1. UNCHANGED managerUnchanged
   BY <1>1 DEF TestHandles, SubmitPlan, LocalStop, Executes, ReceiveContext,
      ReceiveDecision, ReceiveStart, ReceiveStop
 <2> QED  BY <2>1, MappingsSame DEF managerUnchanged, managerSide, links, receiverState
<1> QED  BY <1>1, OperatorFits, HandlesFit, ConnectionsFit, ReceiverHandlesFits DEF ExperimentNext

LEMMA ReceiverStep ==
    ASSUME ExperimentInv, NEW r \in Receivers, ReceiverHandles(r)
    PROVE  /\ installed \subseteq installed' /\ UNCHANGED managerSide
           /\ fromReceiver \in [Receivers -> Seq(Answers)]
           /\ \A q \in Receivers : q # r => fromReceiver'[q] = fromReceiver[q]
           /\ \/ UNCHANGED fromReceiver
              \/ \E answer \in Answers :
                    /\ fromReceiver'[r] = Append(fromReceiver[r], answer)
                    /\ answer.accepted => <<answer.id, r>> \in installed'
<1> DEFINE message == Head(toReceiver[r])
           reply(accepted) == [id |-> message.id, accepted |-> accepted]
<1>1. /\ toReceiver[r] \in Seq(ReceiverMessages) /\ toReceiver[r] # <<>>
      /\ fromReceiver \in [Receivers -> Seq(Answers)]
  BY DEF ExperimentInv, MessagesOK, ReceiverHandles
<1>2. message \in ReceiverMessages  BY <1>1, Takes
<1>3. reply(TRUE) \in Answers /\ reply(FALSE) \in Answers  BY <1>2 DEF ReceiverMessages, Answers
<1>4. /\ UNCHANGED managerSide
      /\ \/ UNCHANGED <<fromReceiver, installed>>
         \/ /\ installed' = installed \union {<<message.id, r>>}
            /\ \/ UNCHANGED fromReceiver
               \/ fromReceiver' = [fromReceiver EXCEPT ![r] = Append(@, reply(TRUE))]
         \/ /\ UNCHANGED installed
            /\ \/ UNCHANGED fromReceiver
               \/ fromReceiver' = [fromReceiver EXCEPT ![r] = Append(@, reply(FALSE))]
  BY DEF ReceiverHandles
<1>5. reply(TRUE).id = message.id /\ ~reply(FALSE).accepted  OBVIOUS
<1> HIDE DEF message, reply
<1>6. CASE UNCHANGED <<fromReceiver, installed>>  BY <1>1, <1>4, <1>6
<1>7. CASE /\ installed' = installed \union {<<message.id, r>>}
           /\ \/ UNCHANGED fromReceiver
              \/ fromReceiver' = [fromReceiver EXCEPT ![r] = Append(@, reply(TRUE))]
  BY <1>1, <1>3, <1>4, <1>5, <1>7
<1>8. CASE /\ UNCHANGED installed
           /\ \/ UNCHANGED fromReceiver
              \/ fromReceiver' = [fromReceiver EXCEPT ![r] = Append(@, reply(FALSE))]
  BY <1>1, <1>3, <1>4, <1>5, <1>8
<1> QED  BY <1>4, <1>6, <1>7, <1>8

LEMMA InstalledGrows == ASSUME ExperimentInv, ExperimentNext PROVE installed \subseteq installed'
<1>1. CASE \E r \in Receivers : ReceiverHandles(r)  BY <1>1, ReceiverStep
<1>2. CASE Operator \/ ManagerHandles \/ ConnectionsChange
  BY <1>2 DEF Operator, ManagerHandles, ConnectionsChange, PrepareRound, PrepareContext,
     StartRound, StopAttackRound, RoundEnds, StopExperiment, HandlePlan, HandleReady, HandleStatus,
     HandleStranger, HandleMappingAnswer, LoseTest, LoseReceiver, Reconnect, endpointUnchanged,
     receiverState
<1>3. CASE TestHandles \/ SubmitPlan \/ LocalStop \/ Executes
  BY <1>3 DEF TestHandles, SubmitPlan, LocalStop, Executes, ReceiveContext,
     ReceiveDecision, ReceiveStart, ReceiveStop, managerUnchanged, receiverState
<1> QED  BY <1>1, <1>2, <1>3 DEF ExperimentNext

\* Answers: one more, one less, or those of a receiver gone.
LEMMA AnswersKept == ASSUME ExperimentInv, ExperimentNext PROVE AnswersFit'
<1>1. AnswersFit /\ fromReceiver \in [Receivers -> Seq(Answers)]
  BY DEF ExperimentInv, ReceiversFit, MessagesOK
<1>2. installed \subseteq installed'  BY InstalledGrows
<1>3. \A r \in Receivers : fromReceiver[r] \in Seq(Answers) /\ Len(fromReceiver[r]) \in Nat
  BY <1>1, LenProperties
<1>4. SUFFICES ASSUME NEW r \in Receivers, NEW k \in 1 .. Len(fromReceiver'[r]),
                      fromReceiver'[r][k].accepted
               PROVE  <<fromReceiver'[r][k].id, r>> \in installed'
  BY DEF AnswersFit
<1>5. CASE fromReceiver'[r] = fromReceiver[r]  BY <1>1, <1>2, <1>4, <1>5 DEF AnswersFit
<1>6. CASE fromReceiver'[r] = <<>>  BY <1>4, <1>6
<1>7. CASE fromReceiver[r] # <<>> /\ fromReceiver'[r] = Tail(fromReceiver[r])
 <2> DEFINE q == fromReceiver[r]
            p == Tail(q)
 <2>1. Taken(q, p) /\ Len(q) \in Nat \ {0} /\ p \in Seq(Answers) /\ p = fromReceiver'[r]
   BY <1>3, <1>7, Takes
 <2>2. Len(p) \in Nat  BY <2>1, LenProperties
 <2> HIDE DEF p, q
 <2>3. k \in 1 .. Len(p) /\ k + 1 \in 1 .. Len(q) /\ p[k] = q[k + 1]  BY <1>4, <2>1, <2>2 DEF Taken
 <2>4. q = fromReceiver[r]  BY DEF q
 <2> QED  BY <1>1, <1>2, <1>4, <2>1, <2>3, <2>4 DEF AnswersFit
<1>8. CASE \E answer \in Answers :
              /\ fromReceiver'[r] = Append(fromReceiver[r], answer)
              /\ answer.accepted => <<answer.id, r>> \in installed'
 <2>1. PICK answer \in Answers :
             /\ fromReceiver'[r] = Append(fromReceiver[r], answer)
             /\ answer.accepted => <<answer.id, r>> \in installed'
   BY <1>8
 <2>2. Appended(fromReceiver[r], fromReceiver'[r], answer)  BY <1>3, <2>1, Appends
 <2>3. CASE k \in 1 .. Len(fromReceiver[r])
   BY <1>1, <1>2, <1>4, <2>2, <2>3 DEF AnswersFit, Appended
 <2>4. CASE k = Len(fromReceiver'[r])  BY <1>4, <2>1, <2>2, <2>4 DEF Appended
 <2>5. k \in 1 .. Len(fromReceiver[r]) \/ k = Len(fromReceiver'[r])
   BY <1>3, <1>4, <2>2 DEF Appended
 <2> QED  BY <2>3, <2>4, <2>5
<1>9. \/ fromReceiver'[r] = fromReceiver[r]
      \/ fromReceiver'[r] = <<>>
      \/ fromReceiver[r] # <<>> /\ fromReceiver'[r] = Tail(fromReceiver[r])
      \/ \E answer \in Answers :
            /\ fromReceiver'[r] = Append(fromReceiver[r], answer)
            /\ answer.accepted => <<answer.id, r>> \in installed'
 <2>1. CASE \E q \in Receivers : ReceiverHandles(q)
  <3>1. PICK q \in Receivers : ReceiverHandles(q)  BY <2>1
  <3>2. CASE q = r  BY <3>1, <3>2, ReceiverStep
  <3>3. CASE q # r  BY <3>1, <3>3, ReceiverStep
  <3> QED  BY <3>2, <3>3
 <2>2. CASE \E q \in Receivers : HandleMappingAnswer(q)
  <3>1. PICK q \in Receivers : fromReceiver[q] # <<>>
                /\ fromReceiver' = [fromReceiver EXCEPT ![q] = Tail(@)]
    BY <2>2 DEF HandleMappingAnswer
  <3> QED  BY <1>1, <3>1
 <2>3. CASE \E q \in Receivers : LoseReceiver(q)
  <3>1. PICK q \in Receivers : fromReceiver' = [fromReceiver EXCEPT ![q] = <<>>]
    BY <2>3 DEF LoseReceiver
  <3> QED  BY <1>1, <3>1
 <2>4. CASE TestHandles \/ SubmitPlan \/ LocalStop \/ Executes
   BY <2>4 DEF TestHandles, SubmitPlan, LocalStop, Executes, ReceiveContext,
      ReceiveDecision, ReceiveStart, ReceiveStop, managerUnchanged
 <2>5. CASE Operator \/ HandlePlan \/ HandleReady \/ HandleStatus \/ HandleStranger \/ LoseTest
            \/ Reconnect
   BY <2>5 DEF Operator, PrepareRound, PrepareContext, StartRound, StopAttackRound, RoundEnds,
      StopExperiment, HandlePlan, HandleReady, HandleStatus, HandleStranger, LoseTest,
      Reconnect, endpointUnchanged
 <2> QED  BY <2>1, <2>2, <2>3, <2>4, <2>5 DEF ExperimentNext, ManagerHandles, ConnectionsChange
<1> QED  BY <1>5, <1>6, <1>7, <1>8, <1>9

\* Requests: those of a new plan, one less with its answer, or none.
LEMMA RequestsKept == ASSUME ExperimentInv, ExperimentNext PROVE RequestsFit'
<1>1. RequestsFit /\ AnswersFit  BY DEF ExperimentInv, ReceiversFit
<1>2. installed \subseteq installed'  BY InstalledGrows
<1>3. ASSUME mRequests' = {} PROVE RequestsFit'  BY <1>3 DEF RequestsFit
<1>4. ASSUME mRequests' = mRequests, mRequests # {} => mPlan' = mPlan PROVE RequestsFit'
  BY <1>1, <1>2, <1>4 DEF RequestsFit
<1>5. /\ \A before : StopPlan(before) => mRequests' = {}
      /\ \A plan : RejectPlan(plan) => mRequests' = {}
      /\ ClearPreparedState => mRequests' = {}
  BY DEF StopPlan, RejectPlan, ClearPreparedState, NoMappings
<1>6. CASE HandlePlan
 <2> DEFINE plan == Head(toManager).plan
 <2>1. plan \in Plan  BY <1>6, HeardFirst DEF HandlePlan, ManagerMessages, Hears, ExperimentInv
 <2>2. \/ UNCHANGED <<mPlan, mRequests>> \/ RejectPlan(plan)
       \/ mPlan = NoPlan /\ UNCHANGED mRequests
       \/ mPlan' = plan /\ mRequests' = {plan.id} \X Receivers
   BY <1>6 DEF HandlePlan, managerSide
 <2> HIDE DEF plan
 <2>3. CASE mPlan' = plan /\ mRequests' = {plan.id} \X Receivers
   BY <2>1, <2>3, PlanId DEF ExperimentInv, RequestsFit
 <2>4. CASE mPlan = NoPlan /\ UNCHANGED mRequests  BY <1>1, <1>4, <2>4 DEF RequestsFit
 <2> QED  BY <1>3, <1>4, <1>5, <2>2, <2>3, <2>4
<1>7. ASSUME NEW r \in Receivers, HandleMappingAnswer(r)
      PROVE  RequestsFit'
 <2> DEFINE answer == Head(fromReceiver[r])
 <2>1. /\ fromReceiver[r] # <<>>
       /\ \/ UNCHANGED <<mPlan, mRequests>> \/ RejectPlan(mPlan)
          \/ /\ <<answer.id, r>> \in mRequests /\ answer.accepted
             /\ mRequests' = mRequests \ {<<answer.id, r>>} /\ UNCHANGED mPlan
   BY <1>7 DEF HandleMappingAnswer, managerSide
 <2>2. fromReceiver[r] \in Seq(Answers)  BY DEF ExperimentInv, MessagesOK
 <2>3. answer = fromReceiver[r][1] /\ 1 \in 1 .. Len(fromReceiver[r])  BY <2>1, <2>2, Takes
 <2> HIDE DEF answer
 <2>4. CASE /\ <<answer.id, r>> \in mRequests /\ answer.accepted
            /\ mRequests' = mRequests \ {<<answer.id, r>>} /\ UNCHANGED mPlan
  <3>1. <<answer.id, r>> \in installed'  BY <1>1, <1>2, <2>3, <2>4 DEF AnswersFit
  <3>2. /\ mPlan # NoPlan /\ \A x \in mRequests : x[1] = mPlan.id
        /\ \A q \in Receivers : <<mPlan.id, q>> \in mRequests \/ <<mPlan.id, q>> \in installed
    BY <1>1, <2>4 DEF RequestsFit
  <3>3. ASSUME NEW q \in Receivers
        PROVE  <<mPlan'.id, q>> \in mRequests' \/ <<mPlan'.id, q>> \in installed'
   <4>1. CASE <<mPlan.id, q>> = <<answer.id, r>>  BY <2>4, <3>1, <4>1
   <4>2. CASE <<mPlan.id, q>> # <<answer.id, r>>  BY <1>2, <2>4, <3>2, <4>2
   <4> QED  BY <4>1, <4>2
  <3>4. \A x \in mRequests' : x[1] = mPlan'.id  BY <2>4, <3>2
  <3> QED  BY <2>4, <3>2, <3>3, <3>4 DEF RequestsFit
 <2> QED  BY <1>3, <1>4, <1>5, <2>1, <2>4
<1>8. CASE HandleReady \/ HandleStatus \/ HandleStranger
  BY <1>3, <1>4, <1>8 DEF HandleReady, HandleStatus, HandleStranger, managerSide, NoMappings
<1>9. CASE Operator
 <2>1. CASE PrepareRound  BY <1>3, <1>4, <1>5, <2>1 DEF PrepareRound, managerSide
 <2>2. CASE PrepareContext  BY <1>4, <2>2 DEF PrepareContext
 <2>3. CASE StartRound  BY <1>3, <1>4, <1>5, <2>3 DEF StartRound
 <2>4. CASE StopAttackRound  BY <1>3, <1>4, <1>5, <2>4 DEF StopAttackRound, managerSide
 <2>5. CASE RoundEnds  BY <1>3, <1>4, <1>5, <2>5 DEF RoundEnds, managerSide
 <2>6. CASE StopExperiment  BY <1>3, <1>4, <1>5, <2>6 DEF StopExperiment
 <2> QED  BY <1>9, <2>1, <2>2, <2>3, <2>4, <2>5, <2>6 DEF Operator
<1>10. CASE ConnectionsChange
 <2>1. CASE LoseTest  BY <1>3, <1>4, <1>5, <2>1 DEF LoseTest, managerSide
 <2>2. CASE Reconnect  BY <1>4, <2>2 DEF Reconnect, managerSide
 <2>3. CASE \E r \in Receivers : LoseReceiver(r)
   BY <1>3, <1>4, <1>5, <2>3 DEF LoseReceiver, managerSide
 <2> QED  BY <1>10, <2>1, <2>2, <2>3 DEF ConnectionsChange
<1>11. CASE TestHandles \/ SubmitPlan \/ LocalStop \/ Executes
  BY <1>4, <1>11 DEF TestHandles, SubmitPlan, LocalStop, Executes, ReceiveContext,
     ReceiveDecision, ReceiveStart, ReceiveStop, managerUnchanged, managerSide
<1>12. CASE \E r \in Receivers : ReceiverHandles(r)  BY <1>4, <1>12, ReceiverStep DEF managerSide
<1> QED  BY <1>6, <1>7, <1>8, <1>9, <1>10, <1>11, <1>12 DEF ExperimentNext, ManagerHandles

-----------------------------------------------------------------------------
(* The theorem.                                                               *)

LEMMA ExperimentStarts == ASSUME ExperimentInit PROVE ExperimentInv
<1>1. /\ 0 \in 0 .. LastRound /\ 0 \in 0 .. 0 /\ 1 \in 1 .. MaxPlans + 1 /\ NoPlan.id = 0
  BY ExperimentParameters DEF NoPlan
<1>3. ExperimentTypeOK  BY <1>1 DEF ExperimentInit, ExperimentTypeOK, Busy, States
<1>4. /\ <<>> \in Seq(TestMessages) /\ <<>> \in Seq(ManagerMessages)
      /\ <<>> \in Seq(ReceiverMessages) /\ <<>> \in Seq(Answers)
  BY EmptySeq
<1>5. MessagesOK  BY <1>4 DEF ExperimentInit, MessagesOK
<1>6. /\ Len(toTest) = 0 /\ Len(toManager) = 0
      /\ \A r \in Receivers : Len(toReceiver[r]) = 0 /\ Len(fromReceiver[r]) = 0
  BY DEF ExperimentInit
<1>7. ReceiversFit
  BY <1>6 DEF ExperimentInit, MappingsFit, MappingFits, QueueFits, AnswersFit, RequestsFit,
     ReceiversFit
<1>8. PlansInOrder /\ DecisionsFit /\ StartOrdersFit /\ StatusFits /\ ReadyFits
  BY <1>6 DEF PlansInOrder, DecisionsFit, StartOrdersFit, StatusFits, ReadyFits
<1>9. GoingFits /\ ReadinessFits  BY DEF ExperimentInit, GoingFits, ReadinessFits, Going, Busy
<1>11. ConfirmedMapped  BY DEF ExperimentInit, ConfirmedMapped
<1>12. SidesOK  BY <1>1 DEF ExperimentInit, SidesOK
<1> QED  BY <1>3, <1>5, <1>7, <1>8, <1>9, <1>11, <1>12 DEF ExperimentInv, EndpointFits

LEMMA ExperimentSteps == ASSUME ExperimentInv, ExperimentNext PROVE ExperimentInv'
<1>1. ExperimentTypeOK' /\ MessagesOK' /\ SidesOK'  BY SidesKept
<1>2. Stepping  BY <1>1, StepMoves, InstalledGrows DEF Stepping
<1>3. EndpointFits' /\ ConfirmedMapped'  BY <1>2, EndpointFitsKept, ConfirmedMappedKept
<1>4. ReceiversFit'  BY MappingsKept, AnswersKept, RequestsKept DEF ReceiversFit
<1> QED  BY <1>1, <1>3, <1>4 DEF ExperimentInv

LEMMA ExperimentStutters ==
    ASSUME ExperimentInv, UNCHANGED experimentVars PROVE ExperimentInv'
<1>1. /\ UNCHANGED <<authRound, authRunning, mContext, mPlan, mPending, mReady, mRunning,
                     mRequests, mReceivers, testLink, receiverLink, lost>>
      /\ UNCHANGED <<toTest, toManager, toReceiver, fromReceiver, tContext, tPlan, tState>>
      /\ UNCHANGED <<nextAttackId, rConfigured, attackMapping, installed, disturbances, confirmed>>
  BY DEF experimentVars, managerSide, links, testSide, receiverState
<1>2. ExperimentTypeOK' /\ MessagesOK' /\ SidesOK'
  BY <1>1 DEF ExperimentInv, ExperimentTypeOK, MessagesOK, SidesOK
<1>3. Stepping  BY <1>1, <1>2 DEF Rests, KeepsEndpoint, KeepsManager, Moves, ManagerMoves, Stepping
<1>4. EndpointFits' /\ ConfirmedMapped'  BY <1>3, EndpointFitsKept, ConfirmedMappedKept
<1>5. MappingsFit'  BY <1>1, MappingsSame
<1>6. AnswersFit' /\ RequestsFit'  BY <1>1 DEF ExperimentInv, ReceiversFit, AnswersFit, RequestsFit
<1> QED  BY <1>2, <1>4, <1>5, <1>6 DEF ExperimentInv, ReceiversFit

\* With all messages handled, what was on its way is settled.
LEMMA ExperimentIsSafe == ASSUME ExperimentInv PROVE ExperimentSafe
<1>1. /\ ExperimentTypeOK /\ SidesOK /\ MappingsFit /\ ConfirmedMapped /\ GoingFits
      /\ ReadinessFits
  BY DEF ExperimentInv, ReceiversFit, EndpointFits
<1>2. MappedBeforeReady  BY <1>1 DEF MappedBeforeReady, GoingFits, ConfirmedMapped, Going
<1>3. ConfirmedPlanRuns  BY <1>1 DEF ConfirmedPlanRuns, GoingFits, Going
<1>4. NoMappingLeft
 <2>1. SUFFICES ASSUME Settled, NEW r \in Receivers, attackMapping[r] # 0, r \notin lost
                PROVE  r \in mReceivers
   BY DEF NoMappingLeft
 <2>2. Len(toReceiver[r]) = 0  BY <2>1 DEF Settled
 <2>3. attackMapping[r] \in Experiment(r)  BY <1>1, <2>1, <2>2 DEF MappingsFit, MappingFits, QueueFits
 <2> QED  BY <2>3 DEF Experiment
<1>5. StopReaches  BY <1>1 DEF Settled, Open, StopReaches, GoingFits, Going
<1>6. ReadyAgrees
  BY <1>1 DEF Settled, OverTold, SidesOK, ReadyAgrees, ReadinessFits, IsGoing, Going
<1> QED  BY <1>1, <1>2, <1>3, <1>4, <1>5, <1>6 DEF ExperimentSafe

\* The manager, the test endpoint and the receivers agree on the plan of a
\* robustness experiment and on its end: for all receivers, rounds and plans, with
\* connections lost and stop buttons pressed any number of times.
THEOREM ExperimentSafeHolds == ExperimentSpec => []ExperimentSafe
<1>1. ExperimentInit => ExperimentInv  BY ExperimentStarts
<1>2. ExperimentInv /\ [ExperimentNext]_experimentVars => ExperimentInv'
  BY ExperimentSteps, ExperimentStutters
<1>3. ExperimentInv => ExperimentSafe  BY ExperimentIsSafe
<1> QED  BY <1>1, <1>2, <1>3, PTL DEF ExperimentSpec

===============================================================================
