--------------------------- MODULE MCProtocolSide ---------------------------
(* One TLC instance for what the nodes agree on, laid out as MCNodeSide is: *)
(* the timeline of a round and the commands that change it, the chains and  *)
(* contexts of the rounds, the group matrices, and a round with its packets *)
(* judged.                                                                  *)
EXTENDS RoundControl, KeyAuthority, GroupLocation, AuthenticatedRound, TLC

CONSTANTS DelayedTime, DelayedPauses  \* bounds of the rounds with delayed commands

VARIABLES focus, unhurried

Components == {"control", "keys", "matrix", "round"}

\* Nodes 2 and 3 share a machine.  Besides a chain ID of 0, the source repeats a
\* chain ID and a seed.
HostValue == 1 :> 1 @@ 2 :> 2 @@ 3 :> 2
DrawsValue == {[chain |-> d[1], seed |-> d[2]] : d \in {<<0, 1>>, <<1, 1>>, <<2, 1>>, <<2, 2>>}}
SelectionsValue == {{1}, {2}, {1, 2}, {2, 3}}

\* Groups of 2 to 6 packets and the number of altered ones to be located.
Shape(s, t) == [size |-> s, threshold |-> t]
ShapesValue == {Shape(2, 1), Shape(3, 1), Shape(4, 2), Shape(5, 2), Shape(6, 1)}

\* They are shapes of which the theorem about LocatesExactly speaks.
ASSUME ShapesSeparate == \A s \in Shapes : Separates(s)

\* Payloads of less than three and of four messages of two bytes; a text.
File5 == [kind |-> "file", bytes |-> <<1, 2, 3, 4, 5>>]
File7 == [kind |-> "file", bytes |-> <<1, 2, 3, 4, 5, 6, 7>>]
Words == [kind |-> "text", bytes |-> <<1>>]

Parameters(mode, packets, perInterval, delay, groups, payload) ==
    [mode |-> mode, total |-> packets, perInterval |-> perInterval, delay |-> delay,
     shape |-> groups, payload |-> payload]

\* Full and partial last intervals and groups, both modes; the last two are
\* refused: 25 tau values in a packet, a delay longer than the data intervals.
RoundsValue ==
    {Parameters("native", 4, 2, 1, Shape(2, 1), File7),
     Parameters("improved", 5, 4, 1, Shape(2, 1), Words),
     Parameters("improved", 3, 3, 1, Shape(3, 1), File5),
     Parameters("native", 2, 1, 2, Shape(2, 1), Words),
     Parameters("improved", 4, 4, 1, Shape(4, 2), Words),
     Parameters("native", 2, 2, 2, Shape(2, 1), Words)}

-----------------------------------------------------------------------------
(* A round under control (RoundControl, the manager computing all time      *)
(* stamps) is one of two kinds: with an operator and a network that leave   *)
(* each command the time to take effect, or, over fewer pauses and a shorter *)
(* time, with commands delayed at will.                                     *)
NoCallTimes == {}

EitherInit == ControlInit /\ unhurried \in BOOLEAN

EitherNext ==
    /\ ControlNext
    /\ IF unhurried THEN Prompt /\ Unhurried
       ELSE now' <= DelayedTime /\ pauses' <= DelayedPauses
    /\ UNCHANGED unhurried

eitherVars == <<allVars, unhurried>>

\* SenderKeepsTimeline and ResumeAtNextInterval of an unhurried round, and that
\* no node rejects a command of it (CommandsFit).
UnhurriedKeepsTimeline == [][unhurried => KeepsTimeline]_allVars
UnhurriedResumes == [][unhurried => ResumesAtNextInterval]_allVars
UnhurriedCommandsFit == unhurried => CommandsFit

\* Without delays the sender is on it too, through pauses and resumes.
UnhurriedTimeline == UnhurriedKeepsTimeline /\ UnhurriedResumes

-----------------------------------------------------------------------------
ProtocolSideInit ==
    /\ focus \in Components
    /\ EitherInit /\ (focus # "control" => unhurried)
    /\ KeyInit
    /\ MatrixInit /\ (focus # "matrix" => shape = Shape(2, 1))
    /\ AuthInit /\ (focus # "round" => rd = Parameters("native", 2, 2, 2, Shape(2, 1), Words))

Controlling ==
    /\ focus = "control" /\ EitherNext
    /\ UNCHANGED <<focus, keyVars, matrixVars, authVars>>

IssuingKeys ==
    /\ focus = "keys" /\ KeyNext
    /\ UNCHANGED <<focus, eitherVars, matrixVars, authVars>>

Locating ==
    /\ focus = "matrix" /\ MatrixNext
    /\ UNCHANGED <<focus, eitherVars, keyVars, authVars>>

Authenticating ==
    /\ focus = "round" /\ AuthNext
    /\ UNCHANGED <<focus, eitherVars, keyVars, matrixVars>>

ProtocolSideNext == Controlling \/ IssuingKeys \/ Locating \/ Authenticating

protocolSideVars == <<focus, eitherVars, keyVars, matrixVars, authVars>>

ProtocolSideSpec ==
    ProtocolSideInit /\ [][ProtocolSideNext]_protocolSideVars
=============================================================================
