------------------------------ MODULE MCBoard ------------------------------
(***************************************************************************)
(* The components that neither the scheduler, the file downlink, the       *)
(* filesystem nor the radio run covers, on small instances.  They share no *)
(* variable, so a behaviour of the board, seen by one of them, is a        *)
(* behaviour of that one with steps of the others in between, which leave  *)
(* it alone.  A run of one at a time loses nothing that their properties   *)
(* tell apart, and its states add up where those of a run of all together  *)
(* would multiply.                                                         *)
(***************************************************************************)
EXTENDS PacketOrder, HbTlmLog, UserAuth, CommandParser, Contact, HeartbeatJob, Watchdog, TLC

VARIABLE part    \* the component that runs

boardVars == <<part, orderVars, hbVars, authVars, commandVars, timeVars, heartbeatVars, watchdogVars>>

Init ==
    /\ part \in {"telemetry", "log", "users", "command", "time", "heartbeat", "watchdog"}
    /\ TelemetryInit /\ HbInit /\ AuthInit /\ CommandInit /\ TimeInit /\ HeartbeatInit
    /\ WatchdogInit

Telemetry == part = "telemetry" /\ OrderNext
    /\ UNCHANGED <<part, hbVars, authVars, commandVars, timeVars, heartbeatVars, watchdogVars>>
Log == part = "log" /\ HbNext
    /\ UNCHANGED <<part, orderVars, authVars, commandVars, timeVars, heartbeatVars, watchdogVars>>
AuthStep == part = "users" /\ AuthNext
    /\ UNCHANGED <<part, orderVars, hbVars, commandVars, timeVars, heartbeatVars, watchdogVars>>
CommandStep == part = "command" /\ CommandNext
    /\ UNCHANGED <<part, orderVars, hbVars, authVars, timeVars, heartbeatVars, watchdogVars>>
\* Nothing is promised once the clock cannot be trusted, so the run goes no further; what
\* is written to radio.bin is written within a unit of time; and the ground falls silent
\* early enough for the last contact to grow too old in the time of the run.
LastHeard == 4
TimeStep == part = "time" /\ honest /\ TimeNext
    /\ (now' # now => writes = <<>>)
    /\ (last_contact' # last_contact => now <= LastHeard)
    /\ UNCHANGED <<part, orderVars, hbVars, authVars, commandVars, heartbeatVars, watchdogVars>>
HeartbeatStep == part = "heartbeat" /\ HeartbeatNext
    /\ UNCHANGED <<part, orderVars, hbVars, authVars, commandVars, timeVars, watchdogVars>>
WatchdogStep == part = "watchdog" /\ WatchdogNext
    /\ UNCHANGED <<part, orderVars, hbVars, authVars, commandVars, timeVars, heartbeatVars>>

Next ==
    \/ Telemetry \/ Log \/ AuthStep \/ CommandStep \/ TimeStep \/ HeartbeatStep \/ WatchdogStep

Spec == Init /\ [][Next]_boardVars

HeartbeatAlone == Init /\ part = "heartbeat" /\ [][Next]_boardVars

MCPlaybacks ==
    {[every_x |-> 1, go_back_x |-> 1, number |-> 3], [every_x |-> 2, go_back_x |-> 0, number |-> 2],
     [every_x |-> 0, go_back_x |-> 0, number |-> 2]}

MCSync == <<4, 5>>
MCApids == (0 :> "FSW_ACK") @@ (1 :> "AX25_ON_OFF")
MCPackets == {<<4, 5, 0, 0, 4>>, <<4, 5, 1, 1, 1, 5>>, <<4, 5, 1, 0, 0>>}
MCFill == {<<3, 4, 3>>, <<4, 0>>}
MCInputs == [RADIO |-> MCPackets \cup MCFill, GSE |-> {<<4>>, <<4, 5, 0, 0, 4>>}]

\* With an Epoch of 124 every field turns within the time of the run: all of them when
\* four units have passed, at the end of a year of 32.
MCFields ==
    "second" :> 1 @@ "minute" :> 2 @@ "hour" :> 4 @@ "date" :> 8 @@ "month" :> 16 @@ "year" :> 32

MCTimes ==
    {[second |-> 59, minute |-> 38, hour |-> 23, date |-> 31, month |-> 12, year |-> 26]}
=============================================================================
