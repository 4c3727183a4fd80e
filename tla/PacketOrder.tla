---------------------------- MODULE PacketOrder ----------------------------
(***************************************************************************)
(* The telemetry task (telemetry.c) among its neighbours: any task sends   *)
(* telemetry and log lines, the radio task creates its queue and takes     *)
(* from it, and the board may be reset.  Shown to implement PacketFifo.    *)
(***************************************************************************)
EXTENDS Telemetry

orderVars == <<telemetryVars, linkVars>>

Say ==
    /\ \E what \in {"LOG", "TLM"} : send_telemetry(what)
    /\ UNCHANGED <<telemetry_at, g_packet_sequence_number, packet, linkVars>>

RadioCreates ==
    /\ ~radio_up
    /\ radio_up' = TRUE
    /\ UNCHANGED <<telemetryVars, radio_queue>>

RadioTakes ==
    /\ radio_queue # <<>>
    /\ radio_queue' = Tail(radio_queue)
    /\ UNCHANGED <<telemetryVars, radio_up>>

\* radio_set_module and the like: operations among the packets.
RadioAsked ==
    /\ radio_up
    /\ RadioQueueSend(Operation("RETURN_STATS"))
    /\ UNCHANGED <<telemetryVars, radio_up>>

OrderReset ==
    /\ telemetry_at # "start"
    /\ telemetry_queue' = <<>> /\ telemetry_at' = "start"
    /\ g_packet_sequence_number' = 0 /\ packet' = Unnumbered
    /\ radio_queue' = <<>> /\ radio_up' = FALSE

OrderNext == TelemetryStep \/ Say \/ RadioCreates \/ RadioTakes \/ RadioAsked \/ OrderReset

OrderSpec == TelemetryInit /\ [][OrderNext]_orderVars

-----------------------------------------------------------------------------

\* The packet numbers among the operations of a queue.
NumbersIn(queue) ==
    LET found[k \in 0 .. Len(queue)] ==
            IF k = 0 THEN <<>>
            ELSE IF queue[k].number = Unnumbered THEN found[k - 1]
                 ELSE Append(found[k - 1], queue[k].number)
    IN found[Len(queue)]

\* The packet numbers in the radio queue, then the one in the telemetry task's hand.
OnTheWay == NumbersIn(radio_queue) \o (IF telemetry_at = "radio" THEN <<packet>> ELSE <<>>)

Fifo == INSTANCE PacketFifo WITH
            Capacity <- RADIO_MAX_QUEUE_ITEMS + 1,
            next <- g_packet_sequence_number, channel <- OnTheWay, open <- radio_up

\* The packets reach the radio task in the order of their numbers, with none missing
\* and none twice from one reset to the next, whatever log lines and operations come
\* between them (telemetry.c:46-76, radio.cpp:147-162).
PacketsInOrder == Fifo!Spec
=============================================================================
