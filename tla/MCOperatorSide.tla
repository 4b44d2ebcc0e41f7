--------------------------- MODULE MCOperatorSide ---------------------------
(* One TLC instance for the components of the operators' programs, laid out *)
(* as MCNodeSide is: a behaviour is one of a single component ("focus").    *)
EXTENDS ExperimentExecution, RoundPreparation, ManagerLink, MonitorLink, PcSendQueue,
        PcClients

VARIABLE focus

Components == {"execution", "preparation", "link", "monitor", "queue", "clients"}

OperatorSideInit ==
    /\ focus \in Components
    /\ PreparationInit /\ LinkInit /\ MonitorInit /\ QueueInit /\ PcInit
    /\ ExecutionInit /\ (focus # "execution" => sending = CHOOSE p \in Targets : TRUE)

Executing ==
    /\ focus = "execution" /\ ExecutionNext
    /\ UNCHANGED <<focus, preparationVars, linkVars, monitorVars, queueVars, pcVars>>

Preparing ==
    /\ focus = "preparation" /\ PatientNext
    /\ UNCHANGED <<focus, executionVars, linkVars, monitorVars, queueVars, pcVars>>

Linking ==
    /\ focus = "link" /\ LinkNext
    /\ UNCHANGED <<focus, executionVars, preparationVars, monitorVars, queueVars, pcVars>>

Monitoring ==
    /\ focus = "monitor" /\ MonitorNext
    /\ UNCHANGED <<focus, executionVars, preparationVars, linkVars, queueVars, pcVars>>

Queueing ==
    /\ focus = "queue" /\ PatientQueueNext
    /\ UNCHANGED <<focus, executionVars, preparationVars, linkVars, monitorVars, pcVars>>

ServingClients ==
    /\ focus = "clients" /\ PcNext
    /\ UNCHANGED <<focus, executionVars, preparationVars, linkVars, monitorVars, queueVars>>

OperatorSideNext ==
    \/ Executing \/ Preparing \/ Linking \/ Monitoring \/ Queueing
    \/ ServingClients

operatorSideVars ==
    <<focus, executionVars, preparationVars, linkVars, monitorVars,
      queueVars, pcVars>>

OperatorSideSpec ==
    /\ OperatorSideInit /\ [][OperatorSideNext]_operatorSideVars
    /\ ExecutionFairness /\ PreparationFairness /\ LinkFairness
    /\ MonitorFairness /\ QueueFairness /\ PcFairness
=============================================================================
