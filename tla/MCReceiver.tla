----------------------------- MODULE MCReceiver -----------------------------
(* TLC instances of ReceiverRuntime.                                        *)
EXTENDS ReceiverRuntime

\* A round that starts at 2, is paused at 4 and resumed at 7, among others.
CallTimesValue == {2, 4, 7}

\* A datagram altered in its message and its key, and one that cannot be read.
Spoilt == [mac |-> FALSE, key |-> FALSE]
Intact == {Genuine}
Altered == {Genuine, Spoilt, Malformed}
=============================================================================
