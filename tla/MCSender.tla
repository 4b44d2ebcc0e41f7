------------------------------ MODULE MCSender ------------------------------
(* TLC instances of SenderRuntime: one sender, a few ticks of time.        *)
EXTENDS SenderRuntime

\* Commands carry even time stamps, on and off the interval boundaries.
CallTimesValue == {t \in 0 .. MaxTime : t % 2 = 0}
=============================================================================
