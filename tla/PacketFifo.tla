----------------------------- MODULE PacketFifo -----------------------------
(***************************************************************************)
(* What the telemetry task promises the radio task: every packet gets the  *)
(* next number, and packets are taken in that order, with none missing and *)
(* none twice.  Before the channel is open packets are lost.               *)
(***************************************************************************)
EXTENDS Naturals, Sequences

CONSTANTS Numbers, Capacity

VARIABLES next, channel, open

Start == next = 0 /\ channel = <<>> /\ open = FALSE

Put ==
    /\ Len(channel) < Capacity
    /\ channel' = Append(channel, next)
    /\ next' = (next + 1) % Numbers
    /\ UNCHANGED open

Take ==
    /\ open /\ channel # <<>>
    /\ channel' = Tail(channel)
    /\ UNCHANGED <<next, open>>

Lose ==
    /\ ~open
    /\ channel' = <<>>
    /\ UNCHANGED <<next, open>>

Open == open' = TRUE /\ UNCHANGED <<next, channel>>

\* A reset of the board begins again.
Restart == Start'

Spec == Start /\ [][Put \/ Take \/ Lose \/ Open \/ Restart]_<<next, channel, open>>
=============================================================================
