--------------------------- MODULE MCReceiverSide ---------------------------
(* One TLC instance for what reaches a receiver, laid out as MCNodeSide is:  *)
(* the datagrams of a round (MCReceiver) and, on the control connections,    *)
(* the plans of an attack experiment, in which receivers take part.          *)
EXTENDS MCReceiver, ExperimentControl

VARIABLE focus

ReceiverSideInit == focus \in {"receiver", "experiment"} /\ Init /\ ExperimentInit

Receiving ==
    /\ focus = "receiver" /\ TimelyNext
    /\ UNCHANGED <<focus, experimentVars>>

Experimenting ==
    /\ focus = "experiment" /\ ExperimentNext
    /\ UNCHANGED <<focus, vars>>

ReceiverSideNext == Receiving \/ Experimenting

receiverSideVars == <<focus, vars, experimentVars>>

ReceiverSideSpec ==
    ReceiverSideInit /\ [][ReceiverSideNext]_receiverSideVars /\ ExperimentFairness
=============================================================================
