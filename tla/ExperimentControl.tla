-------------------------- MODULE ExperimentControl --------------------------
(***************************************************************************)
(* A robustness experiment: the manager (ManagerAttackExperimentController)  *)
(* hands the public context of a round to the test endpoint, installs       *)
(* temporary source mappings on the receivers for the plan that comes back, *)
(* confirms it, and starts and stops it with the round.  The test endpoint  *)
(* (AttackTestNetworkController over AttackExecutionController) and each    *)
(* receiver have a TCP connection of their own to the manager, so messages  *)
(* are in order on a connection only, and any connection may drop.          *)
(* ExperimentExecution has the endpoint's worker thread.                    *)
(***************************************************************************)
EXTENDS Integers, Sequences, FiniteSets

CONSTANTS
    Receivers,            \* receiving nodes of the target sender
    LastRound,            \* bound of the model: rounds prepared
    MaxPlans,             \* bound of the model: plans the endpoint submits
    MaxDisturbances       \* bound of the model: lost connections and stop buttons

ASSUME ExperimentParameters ==
    /\ Receivers # {} /\ LastRound \in Nat \ {0}
    /\ MaxPlans \in Nat /\ MaxDisturbances \in Nat

VARIABLES
    authRound, authRunning,      \* the manager's round: m_strRoundId (0: none), running
    mContext,                    \* round of m_optContext (0: none), with m_bContextSent
    mPlan,                       \* m_optPlan
    mPending, mReady, mRunning,  \* m_bPlanPending, m_bReady, m_bRunning
    mRequests,                   \* m_mapMappingRequestEndpoints: <<plan, receiver>>
    mReceivers,                  \* m_setReceiverEndpoints
    testLink, receiverLink,      \* connections
    toTest, toManager, toReceiver, fromReceiver,
    tContext, tPlan, tState,     \* the endpoint's m_optContext, m_optPlan, m_stateExecution
    nextAttackId,                \* m_u64NextAttackId
    rConfigured, attackMapping,  \* a receiver's round, and the round it has a mapping for
    disturbances,                \* bound
    \* History: installations carried out, plans confirmed, receivers once out of
    \* reach since the last round was prepared.
    installed, confirmed, lost

managerSide == <<mContext, mPlan, mPending, mReady, mRunning, mRequests, mReceivers>>
testSide == <<tContext, tPlan, tState>>
receiverState == <<rConfigured, attackMapping, installed>>
links == <<testLink, receiverLink, lost>>
experimentVars == <<authRound, authRunning, managerSide, links, toTest, toManager,
                    toReceiver, fromReceiver, testSide, nextAttackId, receiverState,
                    disturbances, confirmed>>

Rounds == 1 .. LastRound
\* "load": invalid traffic at a high rate, which needs no captured packets and so
\* no mapping.  The other two plans, which repeat captured packets, are "copies".
Plan == [id : 1 .. MaxPlans, round : Rounds, kind : {"copies", "load"}]
NoPlan == [id |-> 0, round |-> 0, kind |-> "load"]

States == {"Idle", "ContextReady", "PlanPending", "Ready", "Scheduled", "Running",
           "Completed", "Stopped"}
Busy == {"Scheduled", "Running"}

ExperimentTypeOK ==
    /\ authRound \in 0 .. LastRound /\ authRunning \in BOOLEAN
    /\ mContext \in 0 .. authRound /\ mPlan \in Plan \union {NoPlan}
    /\ mPending \in BOOLEAN /\ mReady \in BOOLEAN /\ mRunning \in BOOLEAN
    /\ mReceivers \subseteq Receivers /\ mRequests \subseteq (1 .. MaxPlans) \X Receivers
    /\ tContext \in 0 .. LastRound /\ tPlan \in Plan \union {NoPlan} /\ tState \in States
    /\ attackMapping \in [Receivers -> 0 .. LastRound]
    /\ mContext = 0 => mPlan = NoPlan /\ mReceivers = {} /\ ~mReady /\ ~mRunning
    /\ tState \in {"PlanPending", "Ready"} \union Busy => tPlan # NoPlan /\ tContext # 0

ExperimentInit ==
    /\ authRound = 0 /\ authRunning = FALSE
    /\ mContext = 0 /\ mPlan = NoPlan /\ mRequests = {} /\ mReceivers = {}
    /\ mPending = FALSE /\ mReady = FALSE /\ mRunning = FALSE
    /\ testLink = TRUE /\ receiverLink = [r \in Receivers |-> TRUE]
    /\ toTest = <<>> /\ toManager = <<>>
    /\ toReceiver = [r \in Receivers |-> <<>>] /\ fromReceiver = [r \in Receivers |-> <<>>]
    /\ tContext = 0 /\ tPlan = NoPlan /\ tState = "Idle" /\ nextAttackId = 1
    /\ rConfigured = [r \in Receivers |-> 0] /\ attackMapping = [r \in Receivers |-> 0]
    /\ disturbances = 0
    /\ installed = {} /\ confirmed = {} /\ lost = {}

Disturb == disturbances < MaxDisturbances /\ disturbances' = disturbances + 1

-----------------------------------------------------------------------------
(* Messages.                                                               *)

Tell(messages) == toTest' = IF testLink THEN toTest \o messages ELSE toTest

\* The queues after a message to each receiver of S that is connected.
Sent(queues, S, message) ==
    [r \in Receivers |-> IF r \in S /\ receiverLink[r] THEN Append(queues[r], message)
                         ELSE queues[r]]

Decision(plan, accepted) == [type |-> "decision", id |-> plan.id, accepted |-> accepted]
Clear == [type |-> "clear", id |-> 0, round |-> mContext]

Status(state) ==
    [type |-> "status", id |-> tPlan.id, runs |-> state \in Busy,
     over |-> state \in {"Completed", "Stopped"}]

\* Mutant: only receivers that have confirmed their mapping are asked to clear it.
Confirmed == {r \in mReceivers : <<mPlan.id, r>> \notin mRequests}

ToClear == mReceivers

\* clearSourceMappings: what it sends after what is in the queues already.
Cleared(queues) == Sent(queues, ToClear, Clear)

NoMappings == mRequests' = {} /\ mReceivers' = {}

FlagsDown == mPending' = FALSE /\ mReady' = FALSE /\ mRunning' = FALSE

\* clearPreparedState(true).
ClearPreparedState == NoMappings /\ FlagsDown /\ mContext' = 0 /\ mPlan' = NoPlan

\* rejectCurrentPlan.
RejectPlan(plan) ==
    /\ Tell(<<Decision(plan, FALSE)>>)
    /\ NoMappings /\ FlagsDown /\ mPlan' = NoPlan /\ UNCHANGED mContext

\* bStopPrepared with a plan: the plan stays until another context is prepared.
StopPlan(before) ==
    /\ Tell(Append(before, [type |-> "stop", id |-> mPlan.id]))
    /\ NoMappings /\ FlagsDown /\ UNCHANGED <<mContext, mPlan>>

-----------------------------------------------------------------------------
(* The operator of the manager.                                            *)

NodeStop == [type |-> "stop", id |-> 0, round |-> authRound]

\* A new round is configured; its signal drops a context of the last one.
PrepareRound ==
    /\ ~authRunning /\ authRound < LastRound /\ \A r \in Receivers : receiverLink[r]
    /\ authRound' = authRound + 1
    /\ LET configure == [type |-> "configure", id |-> 0, round |-> authRound + 1]
       IN  toReceiver' = Cleared(Sent(toReceiver, Receivers, configure))
    /\ IF mContext # 0 THEN ClearPreparedState ELSE UNCHANGED managerSide
    /\ lost' = {}
    /\ UNCHANGED <<authRunning, testLink, receiverLink, toTest, toManager,
                   fromReceiver, testSide, nextAttackId, receiverState, disturbances, confirmed>>

\* bPrepareContext; the window offers it once for a configuration.
PrepareContext ==
    /\ authRound # 0 /\ ~authRunning /\ testLink /\ mContext = 0
    /\ mContext' = authRound
    /\ Tell(<<[type |-> "context", id |-> authRound]>>)
    /\ UNCHANGED <<authRound, authRunning, mPlan, mPending, mReady, mRunning, mRequests,
                   mReceivers, links, toManager, toReceiver, fromReceiver, testSide,
                   nextAttackId, receiverState, disturbances, confirmed>>

\* startRound: the endpoint first (bStartPrepared), then the nodes; when one of
\* them is out of reach both are taken back.
StartRound ==
    /\ authRound # 0 /\ ~authRunning /\ (mContext # 0 => mReady)
    /\ LET start == [type |-> "start", id |-> mPlan.id] IN
       \/ /\ \A r \in Receivers : receiverLink[r]
          /\ authRunning' = TRUE /\ mRunning' = mReady
          /\ Tell(IF mReady THEN <<start>> ELSE <<>>)
          /\ UNCHANGED <<mContext, mPlan, mPending, mReady, mRequests, mReceivers, toReceiver>>
       \/ /\ \E r \in Receivers : ~receiverLink[r]
          /\ mReady /\ StopPlan(<<start>>) /\ UNCHANGED authRunning
          /\ toReceiver' = Cleared(Sent(toReceiver, Receivers, NodeStop))
    /\ UNCHANGED <<authRound, links, toManager, fromReceiver, testSide, nextAttackId,
                   receiverState, disturbances, confirmed>>

\* stopRound: whoever can be reached gets the stop, but the round is over for the
\* manager only when all nodes can.
StopAttackRound ==
    /\ authRunning /\ Disturb
    /\ IF mRunning \/ mReady
       THEN StopPlan(<<>>) /\ toReceiver' = Sent(Cleared(toReceiver), Receivers, NodeStop)
       ELSE /\ UNCHANGED <<managerSide, toTest>>
            /\ toReceiver' = Sent(toReceiver, Receivers, NodeStop)
    /\ authRunning' = (\E r \in Receivers : ~receiverLink[r])
    /\ UNCHANGED <<authRound, links, toManager, fromReceiver, testSide, nextAttackId,
                   receiverState, confirmed>>

\* All results of the round are in (roundStateChanged).
RoundEnds ==
    /\ authRunning /\ authRunning' = FALSE
    /\ IF mRunning \/ mReady THEN StopPlan(<<>>) /\ toReceiver' = Cleared(toReceiver)
       ELSE UNCHANGED <<managerSide, toTest, toReceiver>>
    /\ UNCHANGED <<authRound, links, toManager, fromReceiver, testSide, nextAttackId,
                   receiverState, disturbances, confirmed>>

\* The stop buttons of the experiment; without a plan they drop the context.
StopExperiment ==
    /\ mContext # 0 /\ Disturb
    /\ IF mPlan # NoPlan THEN StopPlan(<<>>) ELSE ClearPreparedState /\ UNCHANGED toTest
    /\ toReceiver' = Cleared(toReceiver)
    /\ UNCHANGED <<authRound, authRunning, links, toManager, fromReceiver, testSide,
                   nextAttackId, receiverState, confirmed>>

Operator ==
    \/ PrepareRound \/ PrepareContext \/ StartRound \/ StopAttackRound
    \/ RoundEnds \/ StopExperiment

-----------------------------------------------------------------------------
(* The manager's handlers of the endpoint's messages.                      *)

FromTest(type) == toManager # <<>> /\ Head(toManager).type = type /\ toManager' = Tail(toManager)

endpointUnchanged == <<authRound, authRunning, links, fromReceiver, testSide,
                       nextAttackId, receiverState, disturbances>>

\* Only one plan at a time, for the round of the context.  "copies" need their
\* mappings first: when a receiver is out of reach those already asked are cleared.
HandlePlan ==
    /\ FromTest("plan") /\ mContext # 0
    /\ LET plan == Head(toManager).plan
           install == [type |-> "install", id |-> plan.id, round |-> mContext]
       IN
       \/ /\ mPlan # NoPlan /\ Tell(<<Decision(plan, FALSE)>>)
          /\ UNCHANGED <<managerSide, toReceiver, confirmed>>
       \/ /\ mPlan = NoPlan /\ plan.round # mContext
          /\ RejectPlan(plan) /\ UNCHANGED <<toReceiver, confirmed>>
       \/ /\ mPlan = NoPlan /\ plan.round = mContext /\ plan.kind = "load"
          /\ mPlan' = plan /\ mPending' = TRUE /\ Tell(<<Decision(plan, TRUE)>>)
          /\ confirmed' = confirmed \union {plan.id}
          /\ UNCHANGED <<mContext, mReady, mRunning, mRequests, mReceivers, toReceiver>>
       \/ /\ mPlan = NoPlan /\ plan.round = mContext /\ plan.kind = "copies"
          /\ \A r \in Receivers : receiverLink[r]
          /\ mPlan' = plan /\ mPending' = TRUE
          /\ mReceivers' = Receivers /\ mRequests' = {plan.id} \X Receivers
          /\ toReceiver' = Sent(toReceiver, Receivers, install)
          /\ UNCHANGED <<mContext, mReady, mRunning, toTest, confirmed>>
       \/ /\ mPlan = NoPlan /\ plan.round = mContext /\ plan.kind = "copies"
          /\ \E r \in Receivers : ~receiverLink[r]
          /\ \E asked \in SUBSET {r \in Receivers : receiverLink[r]} :
                 toReceiver' = Sent(Sent(toReceiver, asked, install), Receivers, Clear)
          /\ RejectPlan(plan) /\ UNCHANGED confirmed
    /\ UNCHANGED endpointUnchanged

HandleReady ==
    /\ FromTest("ready") /\ mContext # 0
    /\ IF Head(toManager).id = mPlan.id
       THEN mReady' = TRUE /\ mPending' = FALSE
       ELSE UNCHANGED <<mReady, mPending>>
    /\ UNCHANGED <<endpointUnchanged, toTest, toReceiver, confirmed, mContext, mPlan,
                   mRunning, mRequests, mReceivers>>

HandleStatus ==
    /\ FromTest("status") /\ mContext # 0
    /\ LET status == Head(toManager) IN
       \/ /\ mPlan = NoPlan \/ status.id # mPlan.id
          /\ UNCHANGED <<managerSide, toReceiver>>
       \/ /\ mPlan # NoPlan /\ status.id = mPlan.id /\ ~status.over
          /\ mRunning' = status.runs
          /\ UNCHANGED <<mContext, mPlan, mPending, mReady, mRequests, mReceivers, toReceiver>>
       \/ /\ mPlan # NoPlan /\ status.id = mPlan.id /\ status.over
          /\ NoMappings /\ FlagsDown /\ toReceiver' = Cleared(toReceiver)
          /\ UNCHANGED <<mContext, mPlan>>
    /\ UNCHANGED <<endpointUnchanged, toTest, confirmed>>

\* Without a context the endpoint of a message is not the one prepared.
HandleStranger ==
    /\ mContext = 0 /\ toManager # <<>> /\ toManager' = Tail(toManager)
    /\ UNCHANGED <<managerSide, toTest, toReceiver, confirmed, endpointUnchanged>>

AllConfirmed(left) == left = {}

\* processNodeControlJson: an answer to a request that still stands.
HandleMappingAnswer(r) ==
    /\ fromReceiver[r] # <<>>
    /\ fromReceiver' = [fromReceiver EXCEPT ![r] = Tail(@)]
    /\ LET answer == Head(fromReceiver[r])
           left   == mRequests \ {<<answer.id, r>>}
       IN
       \/ /\ <<answer.id, r>> \notin mRequests
          /\ UNCHANGED <<managerSide, toTest, toReceiver, confirmed>>
       \/ /\ <<answer.id, r>> \in mRequests /\ ~answer.accepted
          /\ RejectPlan(mPlan) /\ toReceiver' = Cleared(toReceiver) /\ UNCHANGED confirmed
       \/ /\ <<answer.id, r>> \in mRequests /\ answer.accepted
          /\ mRequests' = left
          /\ IF AllConfirmed(left)
             THEN Tell(<<Decision(mPlan, TRUE)>>) /\ confirmed' = confirmed \union {mPlan.id}
             ELSE UNCHANGED <<toTest, confirmed>>
          /\ UNCHANGED <<mContext, mPlan, mPending, mReady, mRunning, mReceivers, toReceiver>>
    /\ UNCHANGED <<authRound, authRunning, links, toManager, testSide, nextAttackId,
                   receiverState, disturbances>>

ManagerHandles ==
    \/ HandlePlan \/ HandleReady \/ HandleStatus \/ HandleStranger
    \/ \E r \in Receivers : HandleMappingAnswer(r)

-----------------------------------------------------------------------------
(* The test endpoint.                                                      *)

FromManager(type) == toTest # <<>> /\ Head(toTest).type = type /\ toTest' = Tail(toTest)

managerUnchanged == <<authRound, authRunning, managerSide, links, toReceiver,
                      fromReceiver, receiverState, disturbances, confirmed>>

Report(messages) == toManager' = IF testLink THEN toManager \o messages ELSE toManager

\* bConfigureContext: whatever was going on is over.
ReceiveContext ==
    /\ FromManager("context")
    /\ tContext' = Head(toTest).id /\ tPlan' = NoPlan /\ tState' = "ContextReady"
    /\ UNCHANGED <<managerUnchanged, toManager, nextAttackId>>

\* bSubmitPlan; the window offers it unless a plan is waiting, ready or under way.
SubmitPlan ==
    /\ testLink /\ tState \in {"ContextReady", "Completed", "Stopped"}
    /\ nextAttackId \in 1 .. MaxPlans /\ nextAttackId' = nextAttackId + 1
    /\ \E kind \in {"copies", "load"} :
           tPlan' = [id |-> nextAttackId, round |-> tContext, kind |-> kind]
    /\ tState' = "PlanPending" /\ Report(<<[type |-> "plan", plan |-> tPlan']>>)
    /\ UNCHANGED <<managerUnchanged, toTest, tContext>>

Fits(id) == tPlan.id = id

StateAfterDiscard == IF tContext = 0 THEN "Idle" ELSE "ContextReady"

\* bAcceptPlan, discardPlan.  Whichever plan the refusal is about, the one there is
\* is dropped.  The status of a state that is not final may fall to the throttle.
ReceiveDecision ==
    /\ FromManager("decision")
    /\ LET decision == Head(toTest)
           ready    == [type |-> "ready", id |-> decision.id]
       IN
       \/ /\ ~decision.accepted /\ tPlan' = NoPlan
          /\ tState' = StateAfterDiscard
          /\ UNCHANGED toManager
       \/ /\ decision.accepted /\ Fits(decision.id) /\ tState = "PlanPending"
          /\ tState' = "Ready" /\ UNCHANGED tPlan
          /\ \/ Report(<<ready>>)
             \/ Report(<<Status("Ready"), ready>>)
       \/ /\ decision.accepted /\ (~Fits(decision.id) \/ tState # "PlanPending")
          /\ UNCHANGED <<tPlan, tState, toManager>>
    /\ UNCHANGED <<managerUnchanged, tContext, nextAttackId>>

\* bScheduleStart, which also refuses a start that comes too late.
ReceiveStart ==
    /\ FromManager("start")
    /\ \/ /\ tPlan.id = Head(toTest).id /\ tState = "Ready"
          /\ tState' = "Scheduled" /\ Report(<<Status("Scheduled")>>)
       \/ UNCHANGED <<tState, toManager>>
    /\ UNCHANGED <<managerUnchanged, tContext, tPlan, nextAttackId>>

\* stop(): also a plan that was waiting or over is stopped.
Stopped ==
    IF tState \in {"Idle", "ContextReady"} THEN UNCHANGED <<tState, toManager>>
    ELSE tState' = "Stopped" /\ Report(<<Status("Stopped")>>)

StopAny == Stopped

ReceiveStop ==
    /\ FromManager("stop") /\ StopAny
    /\ UNCHANGED <<managerUnchanged, tContext, tPlan, nextAttackId>>

\* The endpoint's own stop buttons.
LocalStop ==
    /\ tState \in Busy /\ Stopped
    /\ UNCHANGED <<managerUnchanged, toTest, tContext, tPlan, nextAttackId>>

\* The worker: at the start time, and at the end of a "load".
Executes ==
    /\ \/ /\ tState = "Scheduled" /\ tState' = "Running"
          /\ \/ Report(<<Status("Running")>>)
             \/ UNCHANGED toManager
       \/ /\ tState = "Running" /\ tPlan.kind = "load" /\ tState' = "Completed"
          /\ Report(<<Status("Completed")>>)
    /\ UNCHANGED <<managerUnchanged, toTest, tContext, tPlan, nextAttackId>>

TestHandles == ReceiveContext \/ ReceiveDecision \/ ReceiveStart \/ ReceiveStop

-----------------------------------------------------------------------------
(* A receiver: applyAttackSourceMapping, configure and stop.               *)

ReceiverHandles(r) ==
    /\ toReceiver[r] # <<>>
    /\ toReceiver' = [toReceiver EXCEPT ![r] = Tail(@)]
    /\ LET message == Head(toReceiver[r])
           fits    == message.round = rConfigured[r] /\ attackMapping[r] = 0
           answer(accepted) ==
               fromReceiver' = IF receiverLink[r]
                   THEN [fromReceiver EXCEPT ![r] =
                             Append(@, [id |-> message.id, accepted |-> accepted])]
                   ELSE fromReceiver
       IN
       \/ /\ message.type = "configure"
          /\ rConfigured' = [rConfigured EXCEPT ![r] = message.round]
          /\ attackMapping' = [attackMapping EXCEPT ![r] = 0]
          /\ UNCHANGED <<fromReceiver, installed>>
       \/ /\ message.type = "stop" /\ attackMapping' = [attackMapping EXCEPT ![r] = 0]
          /\ UNCHANGED <<rConfigured, fromReceiver, installed>>
       \/ /\ message.type = "clear"
          /\ attackMapping' = [attackMapping EXCEPT ![r] = IF @ = message.round THEN 0 ELSE @]
          /\ UNCHANGED <<rConfigured, fromReceiver, installed>>
       \/ /\ message.type = "install" /\ fits
          /\ attackMapping' = [attackMapping EXCEPT ![r] = message.round]
          /\ installed' = installed \union {<<message.id, r>>}
          /\ answer(TRUE) /\ UNCHANGED rConfigured
       \/ /\ message.type = "install" /\ ~fits
          /\ answer(FALSE) /\ UNCHANGED <<rConfigured, attackMapping, installed>>
    /\ UNCHANGED <<authRound, authRunning, managerSide, links, toTest, toManager, testSide,
                   nextAttackId, disturbances, confirmed>>

-----------------------------------------------------------------------------
(* ConnectionsChange; the manager hears of a loss at once (handleNodesChanged).  *)

\* Nothing tells the endpoint to stop.
LoseTest ==
    /\ testLink /\ Disturb
    /\ testLink' = FALSE /\ toTest' = <<>> /\ toManager' = <<>>
    /\ IF mContext # 0 THEN ClearPreparedState ELSE UNCHANGED managerSide
    /\ toReceiver' = Cleared(toReceiver)
    /\ UNCHANGED <<authRound, authRunning, receiverLink, lost, fromReceiver, testSide,
                   nextAttackId, receiverState, confirmed>>

\* Mutant: the loss of a receiver matters only to an experiment that runs.
CancelsRunningOnly(r) == r \in mReceivers /\ mRunning

Cancels(r) == r \in mReceivers

LoseReceiver(r) ==
    /\ receiverLink[r] /\ Disturb
    /\ receiverLink' = [receiverLink EXCEPT ![r] = FALSE]
    /\ fromReceiver' = [fromReceiver EXCEPT ![r] = <<>>]
    /\ LET others == [toReceiver EXCEPT ![r] = <<>>] IN
       \/ /\ Cancels(r) /\ toReceiver' = Sent(others, ToClear \ {r}, Clear)
          /\ IF mRunning THEN StopPlan(<<>>) ELSE RejectPlan(mPlan)
       \/ /\ ~Cancels(r) /\ toReceiver' = others /\ UNCHANGED <<managerSide, toTest>>
    /\ lost' = lost \union {r}
    /\ UNCHANGED <<authRound, authRunning, testLink, toManager, testSide, nextAttackId,
                   receiverState, confirmed>>

Reconnect ==
    /\ testLink' = TRUE /\ receiverLink' = [r \in Receivers |-> TRUE]
    /\ <<testLink, receiverLink>>' # <<testLink, receiverLink>>
    /\ UNCHANGED <<authRound, authRunning, managerSide, lost, toTest, toManager,
                   toReceiver, fromReceiver, testSide, nextAttackId, receiverState, disturbances,
                   confirmed>>

ConnectionsChange == LoseTest \/ Reconnect \/ \E r \in Receivers : LoseReceiver(r)

ExperimentNext ==
    \/ Operator \/ ManagerHandles \/ TestHandles \/ SubmitPlan \/ LocalStop \/ Executes
    \/ ConnectionsChange \/ \E r \in Receivers : ReceiverHandles(r)

\* Messages are delivered and handled; the worker goes on.  Operators need not act.
ExperimentFairness ==
    /\ WF_experimentVars(ManagerHandles) /\ WF_experimentVars(TestHandles)
    /\ WF_experimentVars(Executes)
    /\ \A r \in Receivers : WF_experimentVars(ReceiverHandles(r))

ExperimentSpec == ExperimentInit /\ [][ExperimentNext]_experimentVars /\ ExperimentFairness

-----------------------------------------------------------------------------
(* Properties.                                                             *)

Settled ==
    /\ toTest = <<>> /\ toManager = <<>>
    /\ \A r \in Receivers : toReceiver[r] = <<>> /\ fromReceiver[r] = <<>>

\* "Only after all receivers have confirmed is the plan accepted": copies are sent
\* by no endpoint before every receiver could tell them from the sender's packets.
MappedBeforeReady ==
    tState \in {"Ready"} \union Busy /\ tPlan.kind = "copies" =>
        \A r \in Receivers : <<tPlan.id, r>> \in installed

\* The plan an endpoint carries out is the one the manager has confirmed, not one
\* submitted in its place while the confirmation was on the way.
ConfirmedPlanRuns == tState \in {"Ready"} \union Busy => tPlan.id \in confirmed

\* No mapping outlives the plan it was for, however the plan ended, except on a
\* receiver that was out of reach.
NoMappingLeft ==
    Settled => \A r \in Receivers : attackMapping[r] # 0 => r \in mReceivers \/ r \in lost

\* With all messages handled, an endpoint executes only what the manager takes to
\* be running; without the connection there was nobody to stop it.
StopReaches == Settled /\ mContext # 0 /\ ~mRunning => tState \notin Busy

\* With all messages handled, the plan the manager would start with the round is
\* the one the endpoint is ready to carry out.
ReadyAgrees ==
    Settled /\ testLink /\ mReady => tState \in {"Ready"} \union Busy /\ tPlan.id = mPlan.id

\* A plan that was submitted is decided, also when a receiver is lost or refuses,
\* unless the manager has dropped the context meanwhile.
PlanDecided == tState = "PlanPending" ~> tState # "PlanPending" \/ mContext = 0

\* The three parties to an experiment agree on its plan, and on its end.
ExperimentSafe ==
    /\ ExperimentTypeOK /\ MappedBeforeReady /\ ConfirmedPlanRuns
    /\ NoMappingLeft /\ StopReaches /\ ReadyAgrees
=============================================================================
