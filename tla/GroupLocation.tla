---------------------------- MODULE GroupLocation ----------------------------
(***************************************************************************)
(* Trials of the location of KsRsMatrix: a group of packets is sent, the   *)
(* channel leaves each packet as it was, alters it or loses it, and the    *)
(* receiver locates the damaged ones from the tags that still match.       *)
(***************************************************************************)
EXTENDS KsRsMatrix

VARIABLES
  shape,        \* the shape of the matrix
  arrived,      \* what became of the packets sent so far
  located       \* the verdict, or [good |-> {}, ...] before

matrixVars == <<shape, arrived, located>>

NotLocated == [good |-> {}, bad |-> {}, exceeded |-> FALSE]

MatrixInit ==
  /\ shape \in Shapes
  /\ arrived = <<>>
  /\ located = NotLocated

Carry(effect) ==
  /\ Len(arrived) < shape.size
  /\ located = NotLocated
  /\ arrived' = Append(arrived, effect)
  /\ UNCHANGED <<shape, located>>

SentMacs(n) == [i \in 1 .. n |-> <<i, "sent">>]

Slots == [i \in DOMAIN arrived |->
            IF arrived[i] = "lost" THEN NoMac ELSE <<i, arrived[i]>>]

LocateGroup ==
  /\ arrived # <<>>
  /\ located = NotLocated
  /\ located' = Locate(Matrices[shape], shape.threshold, Slots,
                       Aggregate(Matrices[shape], SentMacs(Len(arrived))))
  /\ UNCHANGED <<shape, arrived>>

MatrixNext ==
  \/ \E effect \in {"sent", "altered", "lost"} : Carry(effect)
  \/ LocateGroup

MatrixSpec == MatrixInit /\ [][MatrixNext]_matrixVars
-----------------------------------------------------------------------------
Damaged == {i - 1 : i \in {j \in DOMAIN arrived : arrived[j] # "sent"}}

\* The points of the matrix outnumber those at which threshold many columns agree
\* with another one: two polynomials agree at fewer points than they have digits.
Separates(s) == s.threshold * (BestParameters(s).message - 1) < BestParameters(s).length

\* A damaged packet is never taken for a good one, and while no more packets
\* than the threshold are damaged exactly the damaged ones are located: every
\* intact packet is in a row that holds no damaged one (KsRsVerifier::resVerify
\* with the matrix of buildMatrix), which needs a shape that Separates. Beyond the
\* threshold the verdict says so.
LocatesExactly ==
  located # NotLocated =>
    /\ Damaged \subseteq located.bad
    /\ Cardinality(Damaged) <= shape.threshold => located.bad = Damaged
    /\ located.exceeded <=> Cardinality(located.bad) > shape.threshold
    /\ Cardinality(Damaged) > shape.threshold => located.exceeded
==============================================================================
