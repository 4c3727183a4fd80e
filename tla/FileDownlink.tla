---------------------------- MODULE FileDownlink ----------------------------
(***************************************************************************)
(* The file downlink task (tasks/file-downlink/file_downlink.c): a         *)
(* go-back-N sender fed by a command queue.  The COMMAND task puts in the  *)
(* queue what the ground sends; packets go down through telemetry, where   *)
(* they may be lost, and the ground acknowledges what it has received in   *)
(* order, possibly late or more than once.                                 *)
(***************************************************************************)
EXTENDS Integers, Sequences, FiniteSetsExt

CONSTANTS
    Length,           \* the files of the satellite and their lengths in bytes
    WindowSize,       \* WINDOW_SIZE_N
    MaxPacketSize,    \* MAX_DOWNLINK_PACKET_SIZE
    Sizes,            \* packet sizes the ground asks for
    Tids,             \* transaction ids an acknowledgement can carry
    MsPerTick,        \* what ticks_to_ms multiplies by (1000 / configTICK_RATE_HZ)
    WindowTimeout,    \* ACK_WINDOW_TIMEOUT
    TransferTimeout,  \* ACK_TRANSFER_TIMEOUT
    QueueSize,        \* FILE_DOWNLINK_MAX_QUEUE_ITEMS
    MaxAge,           \* the longest time in ms that ticks_to_ms multiplies without overflow
    MaxTransfers,     \* bound: initialize commands in a behaviour
    MaxOther          \* bound: other commands, and new starts of the uptime in ms

Files == DOMAIN Length

ASSUME FileDownlinkAssumption ==
    /\ \A f \in Files : Length[f] \in Nat
    /\ WindowSize \in Nat \ {0}
    /\ MaxPacketSize \in Nat \ {0}
    /\ Sizes \subseteq Nat
    /\ Tids \subseteq Nat
    /\ MsPerTick \in Nat \ {0}
    /\ WindowTimeout \in Nat \ {0}
    /\ TransferTimeout \in Nat \ {0}
    /\ QueueSize \in Nat \ {0}
    /\ MaxAge \in Nat
    /\ MaxTransfers \in Nat
    /\ MaxOther \in Nat

VARIABLES
    queue,       \* file_downlink_queue
    state,       \* IDLE or SENDING
    pc,          \* top of the loop, or between the send and the poll of the queue
    packetSize,  \* packet_downlink_size
    file,        \* file_path
    tid,         \* transaction_id of the transfer
    start,       \* window_start
    index,       \* current_sending_packet_index
    reachedEof,  \* reached_eof
    ageExp,      \* ms since expiration_timer was set, as tick_uptime_in_ms has it
    ageAck,      \* ms since last_ack_received_time was set, likewise
    transfer,    \* history: number of the transfer
    sent,        \* history: packets sent in this transfer
    got,         \* the ground: packets it has received
    ackedBy,     \* history: the transfer the last applied ack was meant for
    inits, others \* what of MaxTransfers and MaxOther is used up

window == <<file, tid, start, index, reachedEof>>
timers == <<ageExp, ageAck>>
ground == <<got, inits, others>>
vars == <<queue, state, pc, packetSize, window, timers, transfer, sent, ackedBy, ground>>

\* window_end, which is always set together with window_start.
WindowEnd == start + WindowSize

-----------------------------------------------------------------------------
(* The ground, through parse_command_packet and the queue functions.  A full *)
(* queue blocks the COMMAND task.                                            *)

Enqueue(command) ==
    /\ Len(queue) < QueueSize
    /\ queue' = Append(queue, command)
    /\ UNCHANGED <<state, pc, packetSize, window, timers, transfer, sent, ackedBy, got>>

\* initialize_file_downlink
SendInit ==
    /\ inits < MaxTransfers
    /\ inits' = inits + 1
    /\ \E f \in Files : Enqueue([id |-> "init", file |-> f])
    /\ UNCHANGED others

\* file_downlink_ack_command.  The ground answers a transfer it has a packet of,
\* and may name any packet.
SendAck ==
    /\ others < MaxOther
    /\ others' = others + 1
    /\ \E p \in got, t \in Tids, seq \in 0 .. WindowSize + 1 :
           Enqueue([id |-> "ack", tid |-> t, seq |-> seq, transfer |-> p.transfer])
    /\ UNCHANGED inits

\* change_max_packet_size
SendChangeSize ==
    /\ others < MaxOther
    /\ others' = others + 1
    /\ \E n \in Sizes : Enqueue([id |-> "size", size |-> n])
    /\ UNCHANGED inits

-----------------------------------------------------------------------------
(* The task. *)

\* initialize_file_transfer.  The increment of the transaction id moves the
\* local pointer, not the counter, which stays 0.
Initialize(f) ==
    /\ file' = f
    /\ tid' = 0
    /\ start' = 0
    /\ index' = 0
    /\ reachedEof' = FALSE
    /\ ageExp' = 0
    /\ ageAck' = 0
    /\ transfer' = transfer + 1
    /\ sent' = {}
    /\ ackedBy' = 0

Head1(id) == queue # <<>> /\ Head(queue).id = id
Dequeue == queue' = Tail(queue)

IdleInit ==
    /\ state = "IDLE" /\ pc = "top"
    /\ Head1("init")
    /\ Initialize(Head(queue).file)
    /\ state' = "SENDING"
    /\ Dequeue
    /\ UNCHANGED <<pc, packetSize, ground>>

SizeAccepted_All(n) == TRUE

\* The default size itself is refused, zero is not.
SizeAccepted(n) == n < MaxPacketSize

IdleChangeSize ==
    /\ state = "IDLE" /\ pc = "top"
    /\ Head1("size")
    /\ packetSize' = IF SizeAccepted(Head(queue).size) THEN Head(queue).size ELSE packetSize
    /\ Dequeue
    /\ UNCHANGED <<state, pc, window, timers, transfer, sent, ackedBy, ground>>

IdleIgnore ==
    /\ state = "IDLE" /\ pc = "top"
    /\ Head1("ack")
    /\ Dequeue
    /\ UNCHANGED <<state, pc, packetSize, window, timers, transfer, sent, ackedBy, ground>>

\* Where packet seq begins in the file, and how many bytes read_file_offset
\* reads for it.
Offset(seq) == seq * packetSize
BytesLeft(seq) == Length[file] - Offset(seq)
BytesRead(seq) == IF BytesLeft(seq) <= 0 THEN 0
                  ELSE IF BytesLeft(seq) < packetSize THEN BytesLeft(seq) ELSE packetSize

Last_Max(bytes) == bytes < MaxPacketSize

\* A packet that is not full ends the file.
Last(bytes) == bytes < packetSize

InWindow_Inclusive == index <= WindowEnd

\* There is a packet of the window left to send.
InWindow == index < WindowEnd

\* send_n_packet: nothing is sent at or past the end of the file.
SendPacket ==
    /\ state = "SENDING" /\ pc = "top"
    /\ InWindow
    /\ LET bytes == BytesRead(index)
           packet == [transfer |-> transfer, file |-> file, seq |-> index,
                      offset |-> Offset(index), bytes |-> bytes, eof |-> Last(bytes)]
       IN IF bytes = 0 THEN UNCHANGED <<sent, got, reachedEof>>
          ELSE /\ sent' = sent \cup {packet}
               /\ got' \in {got, got \cup {packet}}
               /\ reachedEof' = (reachedEof \/ packet.eof)
    /\ index' = index + 1
    /\ pc' = "poll"
    /\ UNCHANGED <<queue, state, packetSize, file, tid, start, timers, transfer, ackedBy,
                   inits, others>>

\* The read fails: the transfer is over, but this round of the loop goes on.
SendError ==
    /\ state = "SENDING" /\ pc = "top"
    /\ InWindow
    /\ state' = "IDLE"
    /\ index' = index + 1
    /\ pc' = "poll"
    /\ UNCHANGED <<queue, packetSize, file, tid, start, reachedEof, timers, transfer, sent,
                   ackedBy, ground>>

WindowSent ==
    /\ state = "SENDING" /\ pc = "top"
    /\ ~InWindow
    /\ pc' = "poll"
    /\ UNCHANGED <<queue, state, packetSize, window, timers, transfer, sent, ackedBy, ground>>

\* Both comparisons convert a time in ms as if it were in ticks.
TicksToMs(n) == n * MsPerTick
WindowExpired == TicksToMs(ageExp) >= WindowTimeout

CheckTransfer_Never(age) == state' = state

\* The test for the end of the transfer, after an ack, a size command or an
\* expired window.
CheckTransfer(age) == state' = IF TicksToMs(age) < TransferTimeout THEN "IDLE" ELSE state

PollNothing ==
    /\ pc = "poll"
    /\ ~WindowExpired
    /\ queue = <<>>
    /\ pc' = "top"
    /\ UNCHANGED <<queue, state, packetSize, window, timers, transfer, sent, ackedBy, ground>>

\* An ack of another transaction is dropped without the test above.
PollOtherAck ==
    /\ pc = "poll"
    /\ ~WindowExpired
    /\ Head1("ack")
    /\ Head(queue).tid # tid
    /\ Dequeue
    /\ pc' = "top"
    /\ UNCHANGED <<state, packetSize, window, timers, transfer, sent, ackedBy, ground>>

\* The window now begins after packet seq.
MoveWindow(seq) == start' = seq + 1 /\ index' = seq + 1

Acknowledges(seq) == start <= seq /\ seq <= WindowEnd

PollAck ==
    /\ pc = "poll"
    /\ ~WindowExpired
    /\ Head1("ack")
    /\ Head(queue).tid = tid
    /\ LET seq == Head(queue).seq IN
       IF ~Acknowledges(seq)
       THEN /\ CheckTransfer(ageAck)
            /\ UNCHANGED <<start, index, timers, ackedBy>>
       ELSE IF reachedEof /\ seq = WindowEnd
       THEN /\ state' = "IDLE"
            /\ UNCHANGED <<start, index, timers, ackedBy>>
       ELSE /\ MoveWindow(seq)
            /\ ageExp' = 0
            /\ ageAck' = 0
            /\ ackedBy' = Head(queue).transfer
            /\ CheckTransfer(0)
    /\ Dequeue
    /\ pc' = "top"
    /\ UNCHANGED <<packetSize, file, tid, reachedEof, transfer, sent, ground>>

\* A new initialize command replaces the transfer; state is left as it is.
PollInit ==
    /\ pc = "poll"
    /\ ~WindowExpired
    /\ Head1("init")
    /\ Initialize(Head(queue).file)
    /\ Dequeue
    /\ pc' = "top"
    /\ UNCHANGED <<state, packetSize, ground>>

PollChangeSize_Applied ==
    /\ pc = "poll"
    /\ ~WindowExpired
    /\ Head1("size")
    /\ packetSize' = Head(queue).size
    /\ Dequeue
    /\ pc' = "top"
    /\ UNCHANGED <<state, window, timers, transfer, sent, ackedBy, ground>>

\* A size command is dropped during a transfer.
PollChangeSize ==
    /\ pc = "poll"
    /\ ~WindowExpired
    /\ Head1("size")
    /\ Dequeue
    /\ CheckTransfer(ageAck)
    /\ pc' = "top"
    /\ UNCHANGED <<packetSize, window, timers, transfer, sent, ackedBy, ground>>

\* The ack timeout: go back to the start of the window.
GoBack ==
    /\ pc = "poll"
    /\ WindowExpired
    /\ index' = start
    /\ ageExp' = 0
    /\ CheckTransfer(ageAck)
    /\ pc' = "top"
    /\ UNCHANGED <<queue, packetSize, file, tid, start, reachedEof, ageAck, transfer, sent,
                   ackedBy, ground>>

TaskStep ==
    \/ IdleInit \/ IdleChangeSize \/ IdleIgnore
    \/ SendPacket \/ SendError \/ WindowSent
    \/ PollNothing \/ PollOtherAck \/ PollAck \/ PollInit \/ PollChangeSize \/ GoBack

\* No timer is looked at before it is set.
AtRest == state = "IDLE" /\ pc = "top"

\* Time passes.  The product of a longer time overflows 32 bits and starts again at 0.
Older(age) == IF age < MaxAge /\ ~AtRest THEN age + 1 ELSE 0

Wait ==
    /\ ageExp' = Older(ageExp)
    /\ ageAck' = Older(ageAck)
    /\ UNCHANGED <<queue, state, pc, packetSize, window, transfer, sent, ackedBy, ground>>

\* The tick count passes 2^32 / 1000, after 4.8 hours, and tick_uptime_in_ms starts again
\* at 0: a time since a moment before that is any number.
RollOver ==
    /\ ~AtRest
    /\ others < MaxOther
    /\ others' = others + 1
    /\ ageExp' \in 0 .. MaxAge /\ ageAck' \in 0 .. MaxAge
    /\ UNCHANGED <<queue, state, pc, packetSize, window, transfer, sent, ackedBy, got, inits>>

Init ==
    /\ queue = <<>>
    /\ state = "IDLE" /\ pc = "top"
    /\ packetSize = MaxPacketSize
    /\ file \in Files
    /\ tid = 0
    /\ start = 0 /\ index = 0
    /\ reachedEof = FALSE
    /\ ageExp = 0 /\ ageAck = 0
    /\ transfer = 0
    /\ sent = {}
    /\ ackedBy = 0
    /\ got = {}
    /\ inits = 0 /\ others = 0

Next == SendInit \/ SendAck \/ SendChangeSize \/ TaskStep \/ Wait \/ RollOver

Spec == Init /\ [][Next]_vars

\* The task never blocks on its queue and time goes on; the ground owes nothing.
FairSpec == Spec /\ WF_vars(TaskStep) /\ WF_vars(Wait)

-----------------------------------------------------------------------------
(* Properties. *)

Packet == [transfer : Nat, file : Files, seq : Nat, offset : Nat,
           bytes : 1 .. MaxPacketSize, eof : BOOLEAN]
Command == [id : {"init"}, file : Files]
           \cup [id : {"ack"}, tid : Tids, seq : Nat, transfer : Nat]
           \cup [id : {"size"}, size : Sizes]

TypeOK ==
    /\ queue \in Seq(Command) /\ Len(queue) <= QueueSize
    /\ state \in {"IDLE", "SENDING"}
    /\ pc \in {"top", "poll"}
    /\ packetSize \in 0 .. MaxPacketSize
    /\ file \in Files
    /\ tid \in Nat
    /\ start \in Nat /\ index \in Nat
    /\ reachedEof \in BOOLEAN
    /\ ageExp \in 0 .. MaxAge /\ ageAck \in 0 .. MaxAge
    /\ transfer \in Nat
    /\ sent \subseteq Packet
    /\ got \subseteq Packet
    /\ ackedBy \in Nat
    /\ inits \in 0 .. MaxTransfers
    /\ others \in 0 .. MaxOther

\* The packets of a transfer tile the file: with neighbouring numbers they hold
\* neighbouring bytes, so the ground can put the file together from their
\* numbers alone, whatever size commands arrive meanwhile.
PacketsTile ==
    \A p, q \in sent : q.seq = p.seq + 1 => q.offset = p.offset + p.bytes

\* Only a packet that ends the file is marked as the last, and the transfer
\* knows it has been sent.
EofEndsFile ==
    \A p \in sent : p.eof => reachedEof /\ p.offset + p.bytes = Length[file]

\* The ground has packet seq of transfer t and all before it.
InOrder(t, seq) == \A s \in 0 .. seq : \E p \in got : p.transfer = t /\ p.seq = s

\* Once the ground has a packet marked as the last and all packets before it,
\* these hold the whole file, however many were lost, sent again or acknowledged
\* late, and whatever transfers came before.
FileReassembles ==
    \A p \in got : p.eof /\ InOrder(p.transfer, p.seq) =>
        MapThenSumSet(LAMBDA q : q.bytes,
                      {q \in got : q.transfer = p.transfer /\ q.seq <= p.seq}) = Length[p.file]

\* Never more than WINDOW_SIZE_N packets past the last acknowledged one are sent.
WindowRespected ==
    [][\A p \in sent' \ sent : transfer' = transfer => start <= p.seq /\ p.seq < start + WindowSize]_vars

\* The task looks at the window timer more than a tick after it ran out.
HeldUp == ageExp > WindowTimeout \div MsPerTick

\* A transfer does not occupy the task for ever, whatever the ground sends or
\* fails to send, provided that nothing holds the task up past a window timeout.
TransferEnds == <>HeldUp \/ (state = "SENDING" ~> state = "IDLE")

\* "If the satellite receives all acks up to the most recently sent sequence
\* number within ACK_TIMEOUT, it immediately sends the next n packets"
\* (file_downlink.h).
SendsOnAfterAck ==
    [][state = "SENDING" /\ transfer' = transfer /\ start' > start => state' = "SENDING"]_vars

\* "If we receive a new file downlink request, terminate this transfer and start
\* the new one" (file_downlink.c).
RequestStartsTransfer ==
    [][transfer' > transfer => state' = "SENDING"]_vars

\* "Make sure this is still for the same transaction" and "Increment transaction
\* id for next transaction" (file_downlink.c): the window moves only for
\* acknowledgements of the transfer under way.
AckOfThisTransfer == ackedBy \in {0, transfer}
=============================================================================
