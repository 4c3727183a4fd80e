------------------------------- MODULE Radio -------------------------------
(***************************************************************************)
(* The radio task (tasks/radio/radio.cpp) with its two chips, the          *)
(* telemetry task that fills its queue, and what the COMMAND task does for *)
(* a packet the radio heard (command.c).  Only one chip has power.  A chip *)
(* is scanning for a preamble ("cad"), receiving, sending or idle, and     *)
(* says with an interrupt that it has finished; the interrupt handlers set *)
(* flags, which the task's loop polls and clears one by one.               *)
(*                                                                         *)
(* radio_mode stays RADIO_SAFE_MODE: the only caller that would notify the *)
(* task of another mode faults (CommandFault), so the mode switch of the   *)
(* task's loop is never taken.                                             *)
(***************************************************************************)
EXTENDS Telemetry

CONSTANTS
    Requests,   \* the operations the ground may ask for: a subset of RadioOperations
    Fragile     \* bound: the chips of which one may break

Chips == {"RFM98", "SX1268"}
Other(c) == CHOOSE d \in Chips : d # c

RadioOperations == {"SET_OUTPUT_POWER", "ENABLE_RFM98", "ENABLE_SX1268", "RETURN_STATS"}

ASSUME RadioAssumption ==
    /\ Requests \subseteq RadioOperations
    /\ Fragile \subseteq Chips

VARIABLES
    radio_at,      \* where the radio task is
    ret,           \* where it goes on after a log line or a panic
    to_send,       \* what it still has to send to the telemetry task
    copy,          \* last_received_time_copy: "none" in hand, "recent" or "old"
    radio,         \* the chip the task takes to be in use
    receiving, transmitting,
    contact,       \* radio_last_received_time: "none" (0), "recent", "old", or
                   \* "boot_old": old when it was loaded
    operation_done_RFM, cad_detected_RFM, general_flag_SX,
    powered,       \* the chip with power and the antenna
    attached,      \* the chips whose interrupts have a handler
    works,         \* the chips that work
    hw,            \* what the powered chip is doing
    scan_result,   \* SX1268: its scan found a preamble
    heard          \* a packet the radio took waits for the COMMAND task

control == <<radio_at, ret, to_send, copy>>
operation == <<receiving, transmitting>>
flags == <<operation_done_RFM, cad_detected_RFM, general_flag_SX>>
chip == <<radio, powered, attached, hw, scan_result>>
vars == <<telemetryVars, linkVars, control, operation, flags, chip, contact, works, heard>>

\* The time of the last contact is 0, or more than seven days ago.
Silent(time) == time # "recent"
RadioInit ==
    /\ TelemetryInit
    /\ radio_at = "boot" /\ ret = "loop" /\ to_send = <<>> /\ copy = "none"
    /\ radio = "SX1268"
    /\ receiving = FALSE /\ transmitting = FALSE
    /\ contact = "none"
    /\ operation_done_RFM = FALSE /\ cad_detected_RFM = FALSE /\ general_flag_SX = FALSE
    /\ powered = "RFM98" /\ attached = {} /\ hw = "standby" /\ scan_result = FALSE
    /\ works = Chips /\ heard = FALSE

\* ------------------------------------------------------------ the two chips

\* radio_begin_rfm98 and radio_begin_sx1268: the chip is reset and idle.
radio_begin == hw' = "standby" /\ scan_result' = FALSE

\* Power to one chip, which then begins.
SwitchTo(c) == powered' = c /\ radio_begin

Mode(m) == IF powered \in works THEN m ELSE "standby"

startChannelScan == hw' = Mode("cad") /\ scan_result' = FALSE

Go(label) == radio_at' = label /\ UNCHANGED <<ret, to_send, copy>>

\* send_telemetry of each message in turn, then on to the label.
SendThen(messages, label) ==
    /\ radio_at' = "send"
    /\ to_send' = messages
    /\ ret' = label

RadioSend ==
    /\ radio_at = "send"
    /\ send_telemetry(Head(to_send))
    /\ to_send' = Tail(to_send)
    /\ IF Len(to_send) = 1
       THEN radio_at' = ret /\ ret' = "loop"
       ELSE UNCHANGED <<radio_at, ret>>
    /\ UNCHANGED <<linkVars, copy, operation, flags, chip, contact, heard>>

\* --------------------------------------------------------------- radio_panic

PanicThen(label) ==
    /\ radio_at' = "panic"
    /\ ret' = label
    /\ UNCHANGED to_send

X_PanicSwitch ==
    /\ radio_at = "panic"
    /\ LET new == Other(radio) IN
       /\ SwitchTo(new)
       /\ radio' = new
       /\ attached' = attached \ {radio}
       /\ Go(IF new \in works THEN "panic_scan" ELSE "panic")
    /\ UNCHANGED <<operation, flags>>

Y_PanicSwitch ==
    /\ radio_at = "panic"
    /\ LET new == Other(radio) IN
       /\ SwitchTo(new)
       /\ radio' = new
       /\ attached' = attached \cup (IF new \in works THEN {new} ELSE {})
       /\ Go(IF new \in works THEN "panic_scan" ELSE "panic")
    /\ UNCHANGED <<operation, flags>>

\* One turn of the loop in radio_panic, up to its last check.
PanicSwitch ==
    /\ radio_at = "panic"
    /\ LET new == Other(radio) IN
       /\ SwitchTo(new)
       /\ radio' = new
       /\ attached' = (attached \ {radio}) \cup (IF new \in works THEN {new} ELSE {})
       /\ Go(IF new \in works THEN "panic_scan" ELSE "panic")
    /\ UNCHANGED <<operation, flags>>

\* The last check of a turn, and the way back from radio_passive_panic.
PanicScan ==
    /\ radio_at = "panic_scan"
    /\ startChannelScan
    /\ IF radio \in works
       THEN /\ radio_at' = ret
            /\ ret' = "loop"
            /\ UNCHANGED <<to_send, copy>>
       ELSE Go("panic")
    /\ UNCHANGED <<operation, flags, radio, powered, attached>>

\* ---------------------------------------------------------------- init_radio

BootBegin ==
    /\ radio_at = "boot"
    /\ LET c == IF "RFM98" \in works THEN "RFM98" ELSE "SX1268" IN
       /\ SwitchTo(c)
       /\ IF c \in works
          THEN radio' = c /\ attached' = {c} /\ Go("boot_scan")
          ELSE UNCHANGED <<radio, attached, copy>> /\ PanicThen("boot_scan")
    /\ UNCHANGED <<operation, flags>>

BootScan ==
    /\ radio_at = "boot_scan"
    /\ startChannelScan
    /\ IF radio \in works THEN Go("load") ELSE PanicThen("load") /\ UNCHANGED copy
    /\ UNCHANGED <<operation, flags, radio, powered, attached>>

\* The file holds a time that is 0, old, recent or (two log lines) in the future,
\* which becomes now; with no file, or half a one, the time stays as it is.
BootLoad ==
    /\ radio_at = "load"
    /\ \E file \in {"missing", "none", "recent", "old", "future"} :
         /\ contact' = CASE file = "missing" -> contact
                         [] file = "future"  -> "recent"
                         [] file = "old"     -> "boot_old"
                         [] OTHER            -> file
         /\ SendThen(IF file = "future" THEN <<"LOG", "LOG">> ELSE <<"LOG">>, "create")
    /\ UNCHANGED <<telemetry_queue, linkVars, copy, operation, flags, chip, heard>>

CreateQueue ==
    /\ radio_at = "create"
    /\ radio_up' = TRUE
    /\ Go("loop")
    /\ UNCHANGED <<telemetry_queue, radio_queue, operation, flags, chip, contact, heard>>

\* ------------------------------------------------------------ radio_task_cpp

\* At most one panic in ten seconds: it need not come in this turn.
PassivePanic ==
    /\ radio_at = "loop"
    /\ Silent(contact)
    /\ PanicThen("flags")
    /\ UNCHANGED <<copy, operation, flags, chip>>

\* The turn has no panic, or it is over.
AtFlags == radio_at \in {"loop", "flags"}

X_TimedOut ==
    /\ AtFlags
    /\ receiving
    /\ receiving' = FALSE /\ UNCHANGED transmitting
    /\ startChannelScan
    /\ Go("flags")
    /\ UNCHANGED <<flags, radio, powered, attached>>

Y_TimedOut ==
    /\ AtFlags
    /\ \/ receiving /\ receiving' = FALSE /\ UNCHANGED transmitting /\ startChannelScan
       \/ /\ ~receiving /\ transmitting /\ transmitting' = FALSE
          /\ UNCHANGED <<receiving, hw, scan_result>>
    /\ Go("flags")
    /\ UNCHANGED <<flags, radio, powered, attached>>

\* The operation has taken more than five seconds.
TimedOut ==
    /\ AtFlags
    /\ \/ receiving /\ receiving' = FALSE /\ UNCHANGED transmitting
       \/ ~receiving /\ transmitting /\ transmitting' = FALSE /\ UNCHANGED receiving
    /\ startChannelScan
    /\ Go("flags")
    /\ UNCHANGED <<flags, radio, powered, attached>>

\* The loop goes on to the queue, and round again when it takes nothing from there.
Turn == IF receiving \/ transmitting \/ radio_queue = <<>> THEN Go("loop") ELSE Go("queue")

Flagged == cad_detected_RFM \/ operation_done_RFM \/ general_flag_SX

\* finishTransmit or the end of a reception, then the next scan.
ScanAgain ==
    IF ~receiving' /\ ~transmitting' THEN startChannelScan ELSE UNCHANGED <<hw, scan_result>>

NoFlags ==
    /\ AtFlags /\ ~Flagged
    /\ Turn
    /\ UNCHANGED <<operation, flags, chip>>

TransmitFinished == transmitting /\ (operation_done_RFM \/ general_flag_SX)

FinishTransmit ==
    /\ AtFlags /\ TransmitFinished
    /\ transmitting' = FALSE
    /\ IF receiving
       THEN hw' = "standby" /\ scan_result' = FALSE    \* finishTransmit alone
       ELSE startChannelScan
    /\ Go("clear")
    /\ UNCHANGED <<receiving, flags, radio, powered, attached>>

\* readData fails, or returns the packet the chip holds.
FinishReceive ==
    /\ AtFlags /\ Flagged /\ ~TransmitFinished /\ receiving
    /\ \/ hw = "rx_done" /\ SendThen(<<"LOG">>, "deliver") /\ UNCHANGED <<receiving, hw, scan_result>>
       \/ receiving' = FALSE /\ UNCHANGED transmitting /\ ScanAgain /\ Go("clear")
    /\ UNCHANGED <<copy, transmitting, flags, radio, powered, attached>>

Deliver ==
    /\ radio_at = "deliver"
    /\ heard' = TRUE
    /\ receiving' = FALSE
    /\ UNCHANGED transmitting
    /\ ScanAgain
    /\ Go("clear")
    /\ UNCHANGED <<telemetry_queue, linkVars, flags, radio, powered, attached, contact>>

Detected == IF radio = "RFM98" THEN cad_detected_RFM ELSE scan_result

ScanDone ==
    /\ AtFlags /\ Flagged /\ ~TransmitFinished /\ ~receiving
    /\ IF Detected
       THEN /\ receiving' = TRUE
            /\ hw' = Mode("rx") /\ scan_result' = FALSE
       ELSE /\ UNCHANGED receiving
            /\ IF transmitting THEN UNCHANGED <<hw, scan_result>> ELSE startChannelScan
    /\ Go("clear")
    /\ UNCHANGED <<transmitting, flags, radio, powered, attached>>

\* The loop ends a reception, or finds the chip still scanning or the channel free.
InTime == FinishReceive \/ ((NoFlags \/ ScanDone) /\ ~receiving' /\ ~transmitting')

\* The flags are cleared in this order; an interrupt may come in between.
ClearFlags ==
    /\ \/ /\ radio_at = "clear"
          /\ general_flag_SX' = FALSE /\ cad_detected_RFM' = FALSE
          /\ UNCHANGED operation_done_RFM
          /\ Go("clear_done")
       \/ /\ radio_at = "clear_done"
          /\ operation_done_RFM' = FALSE
          /\ UNCHANGED <<general_flag_SX, cad_detected_RFM>>
          /\ Turn
    /\ UNCHANGED <<operation, chip>>

\* ------------------------------------------------------------ its operations

Dequeue(ops) ==
    /\ radio_at = "queue"
    /\ Head(radio_queue).op \in ops
    /\ radio_queue' = Tail(radio_queue)

\* The time of the last contact is read before the log line, which may wait.
Transmit ==
    /\ Dequeue({"TRANSMIT"})
    /\ copy' = IF Silent(contact) THEN "old" ELSE "recent"
    /\ SendThen(<<"LOG">>, "transmit")
    /\ UNCHANGED <<operation, flags, chip>>

X_StartTransmit ==
    /\ radio_at \in {"transmit", "retransmit"}
    /\ copy' = "none"
    /\ hw' = Mode("tx") /\ scan_result' = FALSE
    /\ IF radio \in works
       THEN radio_at' = "loop" /\ transmitting' = TRUE /\ UNCHANGED <<ret, to_send>>
       ELSE PanicThen("retransmit") /\ UNCHANGED transmitting
    /\ UNCHANGED <<receiving, flags, radio, powered, attached>>

\* A silenced satellite throws the packet away.  The check is not repeated after
\* a panic, which is repeated until the packet goes out.
StartTransmit ==
    /\ radio_at \in {"transmit", "retransmit"}
    /\ copy' = "none"
    /\ IF radio_at = "transmit" /\ Silent(copy)
       THEN /\ radio_at' = "loop"
            /\ UNCHANGED <<ret, to_send, transmitting, hw, scan_result>>
       ELSE /\ hw' = Mode("tx") /\ scan_result' = FALSE
            /\ IF radio \in works
               THEN radio_at' = "loop" /\ transmitting' = TRUE /\ UNCHANGED <<ret, to_send>>
               ELSE PanicThen("retransmit") /\ UNCHANGED transmitting
    /\ UNCHANGED <<receiving, flags, radio, powered, attached>>

Target(op) == IF op = "ENABLE_RFM98" THEN "RFM98" ELSE "SX1268"

\* set_power_output does nothing; nor does enabling the chip in use.
NothingToDo ==
    /\ \/ Dequeue({"SET_OUTPUT_POWER"})
       \/ Dequeue({"ENABLE_RFM98", "ENABLE_SX1268"}) /\ Target(Head(radio_queue).op) = radio
    /\ Go("loop")
    /\ UNCHANGED <<operation, flags, chip>>

Enable ==
    /\ Dequeue({"ENABLE_RFM98", "ENABLE_SX1268"})
    /\ LET c == Target(Head(radio_queue).op) IN
       /\ c # radio
       /\ powered' = c
       /\ hw' = IF c \in works THEN "cad" ELSE "standby"
       /\ IF c \in works
          THEN radio' = c /\ attached' = {c} /\ SendThen(<<"LOG">>, "loop")
          ELSE UNCHANGED <<radio, attached>> /\ SendThen(<<"LOG">>, "fallback")
    /\ scan_result' = FALSE
    /\ UNCHANGED <<copy, operation, flags>>

\* The chip to be enabled failed: back to the one in use, or panic.
Fallback ==
    /\ radio_at = "fallback"
    /\ powered' = radio
    /\ hw' = IF radio \in works THEN "cad" ELSE "standby"
    /\ scan_result' = FALSE
    /\ IF radio \in works THEN Go("loop") ELSE PanicThen("loop") /\ UNCHANGED copy
    /\ UNCHANGED <<operation, flags, radio, attached>>

ReturnStats ==
    /\ Dequeue({"RETURN_STATS"})
    /\ SendThen(<<"LOG", "TLM">>, "loop")
    /\ UNCHANGED <<copy, operation, flags, chip>>

Alone(step) == step /\ UNCHANGED <<telemetryVars, linkVars, contact, heard, works>>

LocalStep ==
    Alone(\/ BootBegin \/ BootScan \/ PassivePanic \/ PanicSwitch \/ PanicScan
          \/ TimedOut \/ NoFlags \/ FinishTransmit \/ FinishReceive \/ ScanDone \/ ClearFlags
          \/ StartTransmit \/ Fallback)

DequeueStep ==
    /\ Transmit \/ NothingToDo \/ Enable \/ ReturnStats
    /\ UNCHANGED <<telemetry_queue, radio_up, contact, heard>>

RadioStep ==
    \/ LocalStep
    \/ /\ DequeueStep \/ BootLoad \/ CreateQueue \/ Deliver \/ RadioSend
       /\ UNCHANGED <<telemetry_at, g_packet_sequence_number, packet, works>>

\* ------------------------------------------------------------ the other tasks

TaskRest == UNCHANGED <<control, operation, flags, chip, works>>

radio_flag_valid_packet == contact' = "recent"

\* COMMAND has parsed the command: any is a contact.
ParseCommand ==
    /\ heard
    /\ heard' = FALSE
    /\ radio_flag_valid_packet
    /\ UNCHANGED <<telemetryVars, linkVars>> /\ TaskRest

\* The scheduler's job, 45 minutes after boot, counts as a contact.  It matters only
\* when there was none before; a saved contact that grows old before it counts as old
\* from the start.
deploy_antenna_job ==
    /\ contact \in {"none", "boot_old"}
    /\ radio_flag_valid_packet
    /\ UNCHANGED <<telemetryVars, linkVars, heard>> /\ TaskRest

\* radio_set_module, radio_set_transmit_power and radio_queue_stat_response
\* wait for the queue to exist and then for room in it.  COMMAND may have waited
\* for long, but it has parsed the command that asks.
QueueRequest ==
    /\ radio_up /\ contact # "none"
    /\ \E op \in Requests : RadioQueueSend(Operation(op))
    /\ UNCHANGED <<telemetryVars, radio_up, contact, heard>> /\ TaskRest

\* The scheduler's heartbeat or an acknowledgement.
Send ==
    /\ telemetry_at # "start"
    /\ send_telemetry("TLM")
    /\ UNCHANGED <<telemetry_at, g_packet_sequence_number, packet, linkVars, contact, heard>>
    /\ TaskRest

\* --------------------------------------------------------------- environment

Others == UNCHANGED <<telemetryVars, linkVars, control, heard>>

\* The chip has scanned.  The RFM98 says so on two lines at once.
CadDone(detected) ==
    /\ hw = "cad"
    /\ hw' = "standby"
    /\ IF powered \notin attached THEN UNCHANGED <<flags, scan_result>>
       ELSE IF powered = "RFM98"
       THEN /\ operation_done_RFM' = TRUE
            /\ cad_detected_RFM' = (cad_detected_RFM \/ detected)
            /\ UNCHANGED <<general_flag_SX, scan_result>>
       ELSE /\ general_flag_SX' = TRUE
            /\ scan_result' = detected
            /\ UNCHANGED <<operation_done_RFM, cad_detected_RFM>>
    /\ UNCHANGED <<operation, radio, powered, attached, contact, works>> /\ Others

\* It has a packet, or has sent one.
PacketDone ==
    /\ hw \in {"rx", "tx"}
    /\ hw' = IF hw = "rx" THEN "rx_done" ELSE "standby"
    /\ IF powered \notin attached THEN UNCHANGED flags
       ELSE IF powered = "RFM98"
       THEN operation_done_RFM' = TRUE /\ UNCHANGED <<general_flag_SX, cad_detected_RFM>>
       ELSE general_flag_SX' = TRUE /\ UNCHANGED <<operation_done_RFM, cad_detected_RFM>>
    /\ UNCHANGED <<operation, radio, powered, attached, scan_result, contact, works>> /\ Others

\* One chip may break for good.
Break ==
    /\ works = Chips
    /\ \E c \in Fragile :
         /\ works' = works \ {c}
         /\ hw' = IF c = powered THEN "standby" ELSE hw
    /\ UNCHANGED <<operation, flags, radio, powered, attached, scan_result, contact>> /\ Others

\* Seven days without a contact.
DaysPass ==
    /\ contact = "recent"
    /\ contact' = "old"
    /\ copy' = IF copy = "recent" THEN "old" ELSE copy
    /\ UNCHANGED <<telemetryVars, linkVars, radio_at, ret, to_send, operation, flags, chip, works, heard>>

\* The watchdog resets the board: after MCU_POWER_CYCLE, or after the fault of
\* RADIO_SET_MODE, which calls xTaskNotifyIndexed with its first two arguments
\* exchanged.  A broken chip stays broken.
Reset ==
    /\ radio_at # "boot"
    /\ telemetry_queue' = <<>> /\ telemetry_at' = "start" /\ g_packet_sequence_number' = 0
    /\ packet' = Unnumbered /\ radio_queue' = <<>> /\ radio_up' = FALSE
    /\ radio_at' = "boot" /\ ret' = "loop" /\ to_send' = <<>> /\ copy' = "none"
    /\ radio' = "SX1268"
    /\ receiving' = FALSE /\ transmitting' = FALSE
    /\ contact' = "none"
    /\ operation_done_RFM' = FALSE /\ cad_detected_RFM' = FALSE /\ general_flag_SX' = FALSE
    /\ powered' = "RFM98" /\ attached' = {} /\ hw' = "standby" /\ scan_result' = FALSE
    /\ heard' = FALSE
    /\ UNCHANGED works

TelemetryTask ==
    TelemetryStep /\ UNCHANGED <<control, operation, flags, chip, contact, works, heard>>

Environment ==
    \/ (\E detected \in BOOLEAN : CadDone(detected)) \/ PacketDone \/ Break \/ DaysPass \/ Reset

RadioNext ==
    \/ RadioStep \/ TelemetryTask
    \/ ParseCommand \/ deploy_antenna_job \/ QueueRequest \/ Send
    \/ Environment

RadioSpec == RadioInit /\ [][RadioNext]_vars

\* The tasks run, and one that waits for room in a queue is served in its turn.
\* An operation that does not end is late in the end, and a satellite that hears
\* nothing panics in the end.  A scan takes some thirty milliseconds and a turn of
\* the loop far less, so not every scan is over before the loop looks for it; nor does
\* every reception end just when it is late.
RadioFairness ==
    /\ SF_vars(RadioStep)
    /\ SF_vars(Alone(TimedOut))
    /\ SF_vars(Alone(PassivePanic))
    /\ SF_vars(Alone(InTime))
    /\ SF_vars(TelemetryTask)
    /\ SF_vars(Send)

RadioFairSpec == RadioSpec /\ RadioFairness

\* ---------------------------------------------------------------- properties

\* Whenever the task is in its loop, the chip it takes to be in use is the one
\* with power and the antenna, and its interrupts, and no other's, have a handler:
\* switching, a failed switch and panic leave nothing behind (radio.cpp:328-401, 750-829).
RadioReady ==
    radio_at \notin {"boot", "panic", "panic_scan", "fallback"} /\ ret # "fallback"
        => powered = radio /\ attached = {radio}

\* Nothing is on the air before the first contact or the antenna's deployment, unless
\* the contact saved before the boot is recent, not even after the retries of a failed
\* transmission (radio.cpp:713, 732-738).
SilentUntilHeard == hw = "tx" => contact \in {"recent", "old"}

\* The chip sends or receives only while the task knows it and will time it:
\* no operation of a chip is left behind unattended (radio.cpp:573-642).
Attended ==
    /\ hw = "tx" => transmitting
    /\ hw \in {"rx", "rx_done"} => receiving

\* The radio task waits for room in the telemetry queue while the telemetry task
\* waits for room in the radio queue.
Cycle ==
    /\ radio_at = "send" /\ Len(telemetry_queue) = TELEMETRY_MAX_QUEUE_ITEMS
    /\ telemetry_at = "radio" /\ radio_up /\ Len(radio_queue) = RADIO_MAX_QUEUE_ITEMS

\* The satellite listens again and again, though a chip breaks and interrupts are
\* lost with the flags, unless the two tasks wait for each other (radio.cpp:562, 693).
Listening == hw \in {"cad", "rx", "rx_done"} /\ powered \in attached
HearsAgain == []<>(Listening \/ radio_at = "boot" \/ Cycle)

\* A task that waits for room in the radio queue gets it, unless the radio and the
\* telemetry task wait for each other (radio.cpp:147-206, 703).
QueueMoves == []<>(Len(radio_queue) < RADIO_MAX_QUEUE_ITEMS \/ Cycle)
=============================================================================
