------------------------------- MODULE MCSteve -------------------------------
(* Small instances of Steve for TLC. *)
EXTENDS Steve

\* The relations between the delays are those of the code: the beep and the
\* commanded jobs come before the heartbeat and the deployment, the retry last.
MCDelay == [heartbeat |-> 1, beep |-> 0, antenna |-> 1, antenna_now |-> 0,
            antenna_retry |-> 2, set_rtc |-> 1]
=============================================================================
