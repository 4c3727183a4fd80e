----------------------------- MODULE Telemetry -----------------------------
(***************************************************************************)
(* The telemetry task (tasks/telemetry/telemetry.c) between the two queues *)
(* it lives on: telemetry_queue, into which every task puts log lines and  *)
(* telemetry, and radio_queue (radio.cpp), into which it puts the space    *)
(* packets it makes of the telemetry.  Both sends wait for room without a  *)
(* limit.  A log line gets no sequence number and goes to the USB UART     *)
(* only, which always takes it.                                            *)
(***************************************************************************)
EXTENDS Naturals, Sequences

CONSTANTS
    TELEMETRY_MAX_QUEUE_ITEMS,
    RADIO_MAX_QUEUE_ITEMS,
    Numbers       \* packet_sequence_count counts modulo Numbers (2^16)

ASSUME TelemetryAssumption ==
    /\ TELEMETRY_MAX_QUEUE_ITEMS \in Nat \ {0}
    /\ RADIO_MAX_QUEUE_ITEMS \in Nat \ {0}
    /\ Numbers \in Nat \ {0}

VARIABLES
    telemetry_queue,           \* what waits for the telemetry task: "LOG", "TLM"
    telemetry_at,              \* "start", "receive", or "radio" with a packet to queue
    g_packet_sequence_number,
    packet,                    \* the number of the packet in hand
    radio_queue,               \* the radio task's operations
    radio_up                   \* radio_queue has been created

telemetryVars == <<telemetry_queue, telemetry_at, g_packet_sequence_number, packet>>
linkVars == <<radio_queue, radio_up>>

Sequence == 0 .. Numbers - 1
Unnumbered == Numbers
Packet(n) == [op |-> "TRANSMIT", number |-> n]
Operation(op) == [op |-> op, number |-> Unnumbered]

TelemetryInit ==
    /\ telemetry_queue = <<>>
    /\ telemetry_at = "start"
    /\ g_packet_sequence_number = 0
    /\ packet = Unnumbered
    /\ radio_queue = <<>>
    /\ radio_up = FALSE

\* Before the task has created its queue a message is thrown away.
send_telemetry(what) ==
    IF telemetry_at = "start"
    THEN UNCHANGED telemetry_queue
    ELSE /\ Len(telemetry_queue) < TELEMETRY_MAX_QUEUE_ITEMS
         /\ telemetry_queue' = Append(telemetry_queue, what)

RadioQueueSend(operation) ==
    /\ Len(radio_queue) < RADIO_MAX_QUEUE_ITEMS
    /\ radio_queue' = Append(radio_queue, operation)

\* Before the radio task has created its queue a packet is thrown away.
radio_queue_message(operation) ==
    IF radio_up THEN RadioQueueSend(operation) ELSE UNCHANGED radio_queue

\* The task creates its queue and puts the banner in it.
TelemetryStart ==
    /\ telemetry_at = "start"
    /\ telemetry_at' = "receive"
    /\ telemetry_queue' = <<"LOG">>
    /\ UNCHANGED <<g_packet_sequence_number, packet, linkVars>>

X_TelemetryReceive ==
    /\ telemetry_at = "receive"
    /\ telemetry_queue # <<>>
    /\ telemetry_queue' = Tail(telemetry_queue)
    /\ g_packet_sequence_number' = (g_packet_sequence_number + 1) % Numbers
    /\ IF Head(telemetry_queue) = "LOG"
       THEN UNCHANGED <<telemetry_at, packet>>
       ELSE /\ telemetry_at' = "radio"
            /\ packet' = g_packet_sequence_number
    /\ UNCHANGED linkVars

TelemetryReceive ==
    /\ telemetry_at = "receive"
    /\ telemetry_queue # <<>>
    /\ telemetry_queue' = Tail(telemetry_queue)
    /\ IF Head(telemetry_queue) = "LOG"
       THEN UNCHANGED <<telemetry_at, packet, g_packet_sequence_number>>
       ELSE /\ telemetry_at' = "radio"
            /\ packet' = g_packet_sequence_number
            /\ g_packet_sequence_number' = (g_packet_sequence_number + 1) % Numbers
    /\ UNCHANGED linkVars

TelemetryToRadio ==
    /\ telemetry_at = "radio"
    /\ radio_queue_message(Packet(packet))
    /\ telemetry_at' = "receive"
    /\ packet' = Unnumbered
    /\ UNCHANGED <<telemetry_queue, g_packet_sequence_number, radio_up>>

TelemetryStep == TelemetryStart \/ TelemetryReceive \/ TelemetryToRadio
=============================================================================
