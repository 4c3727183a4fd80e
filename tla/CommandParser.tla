--------------------------- MODULE CommandParser ---------------------------
(***************************************************************************)
(* The COMMAND task (tasks/command/command.c) from the bytes it gets to    *)
(* the commands it carries out.  The radio task and the GSE task put bytes *)
(* into command_byte_queue; one that finds it full drops the byte.  The    *)
(* task looks for the sync bytes, or for the flag of an AX.25 frame, and   *)
(* reads what follows, with no timeout.  A byte is a number of a small     *)
(* alphabet; a header is two bytes, the APID and the size less one; the    *)
(* first byte of a payload is the token of whoever sent it.                *)
(***************************************************************************)
EXTENDS Naturals, Sequences

CONSTANTS
    COMMAND_SYNC_BYTES,        \* as a sequence
    AX25_FLAG,
    AdminToken,                \* the byte that stands for ADMIN_TOKEN
    ApidOf,                    \* the command of a header's first byte, by its name
    COMMAND_MAX_QUEUE_ITEMS,
    MsgLen,                    \* msg_len: the longest frame
    Inputs,                    \* what each source may send
    Packets, Fill,             \* what of it ends where it should: commands, and
                               \* frames or other bytes that begin no packet
    MaxSent                    \* bound: packets before the line is quiet

Sources == {"RADIO", "GSE"}
HeaderSize == 2
Sync == COMMAND_SYNC_BYTES

\* The sync bytes, a header that decodes, and as many bytes as it says and one.
IsPacket(x) ==
    /\ Len(x) > Len(Sync) + HeaderSize
    /\ \A k \in 1 .. Len(Sync) : x[k] = Sync[k]
    /\ x[Len(Sync) + 1] \in DOMAIN ApidOf
    /\ Len(x) = Len(Sync) + HeaderSize + x[Len(Sync) + HeaderSize] + 1

\* found[k] bytes of the sync word are matched after k bytes of x: never all of them,
\* and none at the end.
NeverSyncs(x, found) ==
    /\ found \in [0 .. Len(x) -> 0 .. Len(Sync) - 1]
    /\ found[0] = 0 /\ found[Len(x)] = 0
    /\ \A k \in 1 .. Len(x) :
          found[k] = IF x[k] = Sync[found[k - 1] + 1] THEN found[k - 1] + 1 ELSE 0

HasNoFlag(x) == \A k \in 1 .. Len(x) : x[k] # AX25_FLAG

IsFrame(x) ==
    /\ Len(x) \in 2 .. MsgLen
    /\ \A k \in 1 .. Len(x) : x[k] = AX25_FLAG <=> k \in {1, Len(x)}

ASSUME CommandParserAssumption ==
    /\ Sync \in Seq(Nat) /\ Sync # <<>> /\ AX25_FLAG \notin {Sync[i] : i \in 1 .. Len(Sync)}
    /\ COMMAND_MAX_QUEUE_ITEMS \in Nat \ {0} /\ MsgLen \in Nat \ {0} /\ MaxSent \in Nat
    /\ Inputs \in [Sources -> SUBSET Seq(Nat)] /\ Packets \cup Fill \subseteq Seq(Nat)
    /\ \A x \in Packets : IsPacket(x)
    /\ \A x \in Fill :
          /\ x # <<>> /\ (HasNoFlag(x) \/ IsFrame(x))
          /\ \E found \in [0 .. Len(x) -> 0 .. Len(Sync) - 1] : NeverSyncs(x, found)

VARIABLES
    byte_queue,        \* command_byte_queue
    left,              \* what each source has still to put in it
    parser_at,         \* "search", "frame", "header" or "payload"
    sync_index,
    taken,             \* how many bytes of the frame, header or payload it has
    apid, size, token, \* of the packet it reads: header, and first byte of the payload
    command_enabled,   \* AX.25 frames are echoed
    parsed,            \* history: the packets parsed, while clean
    sent,              \* history: the packets sent, while clean
    clean,             \* history: since the line was last quiet nothing was dropped,
                       \* mixed or misleading
    admin_on           \* history: an admin has switched the echo on

inputs == <<byte_queue, left>>
parser == <<parser_at, sync_index, taken, apid, size, token>>
read == <<apid, size, token>>
history == <<parsed, sent, clean, admin_on>>
results == <<command_enabled, history>>
commandVars == <<inputs, parser, command_enabled, history>>

CommandInit ==
    /\ byte_queue = <<>> /\ left = [s \in Sources |-> <<>>]
    /\ parser_at = "search" /\ sync_index = 0 /\ taken = 0 /\ apid = 0 /\ size = 0 /\ token = 0
    /\ command_enabled = FALSE
    /\ parsed = <<>> /\ sent = <<>> /\ clean = TRUE /\ admin_on = FALSE

\* ---------------------------------------------------------------- the sources

Idle == \A s \in Sources : left[s] = <<>>

\* What a packet says: its APID, its size and whose it is.
Said(packet) == SubSeq(packet, Len(Sync) + 1, Len(Sync) + HeaderSize + 1)

\* From here on what is parsed need not be what was sent.
Muddle == clean' = FALSE /\ parsed' = <<>> /\ sent' = <<>>

\* A source begins to send.  Two that send at once mix their bytes.
BeginSending(s) ==
    /\ left[s] = <<>>
    /\ \E input \in Inputs[s] :
         /\ input \in Packets => Len(sent) < MaxSent
         /\ left' = [left EXCEPT ![s] = input]
         /\ clean' = (clean /\ Idle /\ input \in Packets \cup Fill)
         /\ sent' = IF ~clean' THEN <<>>
                    ELSE IF input \in Packets THEN Append(sent, Said(input)) ELSE sent
         /\ parsed' = IF clean' THEN parsed ELSE <<>>
    /\ UNCHANGED <<byte_queue, parser, command_enabled, admin_on>>

\* xQueueSendToBack without waiting.
receive_command_byte(s) ==
    /\ left[s] # <<>>
    /\ left' = [left EXCEPT ![s] = Tail(@)]
    /\ IF Len(byte_queue) < COMMAND_MAX_QUEUE_ITEMS
       THEN /\ byte_queue' = Append(byte_queue, Head(left[s]))
            /\ UNCHANGED <<clean, parsed, sent>>
       ELSE Muddle /\ UNCHANGED byte_queue
    /\ UNCHANGED <<parser, command_enabled, admin_on>>

\* --------------------------------------------------------------- command_task

Fresh ==
    /\ parser_at' = "search" /\ sync_index' = 0 /\ taken' = 0
    /\ apid' = 0 /\ size' = 0 /\ token' = 0

TakeByte(b) ==
    /\ byte_queue # <<>>
    /\ b = Head(byte_queue)
    /\ byte_queue' = Tail(byte_queue)
    /\ UNCHANGED left

\* A mismatch starts over, and the byte is not looked at again.
SearchSync(b) ==
    /\ parser_at = "search"
    /\ TakeByte(b)
    /\ IF b = AX25_FLAG
       THEN IF command_enabled
            THEN parser_at' = "frame" /\ sync_index' = 0 /\ taken' = 1 /\ UNCHANGED read
            ELSE Fresh
       ELSE IF b # Sync[sync_index + 1]
       THEN sync_index' = 0 /\ UNCHANGED <<parser_at, taken, read>>
       ELSE IF sync_index + 1 < Len(Sync)
       THEN sync_index' = sync_index + 1 /\ UNCHANGED <<parser_at, taken, read>>
       ELSE parser_at' = "header" /\ sync_index' = 0 /\ UNCHANGED <<taken, read>>
    /\ UNCHANGED results

\* A frame that ends is handed to the radio; one that is too long is thrown away,
\* and the search goes on in what is left of it.
ReadFrame(b) ==
    /\ parser_at = "frame"
    /\ TakeByte(b)
    /\ IF taken >= MsgLen \/ b = AX25_FLAG
       THEN Fresh
       ELSE taken' = taken + 1 /\ UNCHANGED <<parser_at, sync_index, read>>
    /\ UNCHANGED results

\* decode_spacepacket_header.
Decodes(a) == a \in DOMAIN ApidOf

\* There may be no memory for the payload: its bytes are then searched for sync bytes.
ReadHeader(b) ==
    /\ parser_at = "header"
    /\ TakeByte(b)
    /\ \/ /\ taken + 1 < HeaderSize
          /\ apid' = b /\ taken' = taken + 1 /\ UNCHANGED <<parser_at, sync_index, size, token>>
          /\ UNCHANGED results
       \/ /\ taken + 1 >= HeaderSize /\ Decodes(apid)
          /\ parser_at' = "payload" /\ size' = b /\ taken' = 0 /\ UNCHANGED <<sync_index, apid, token>>
          /\ UNCHANGED results
       \/ /\ taken + 1 >= HeaderSize /\ ~Decodes(apid)
          /\ Fresh /\ UNCHANGED results
       \/ /\ taken + 1 >= HeaderSize /\ Decodes(apid)
          /\ Fresh /\ Muddle /\ UNCHANGED <<command_enabled, admin_on>>

X_PayloadSize == size + 2

\* The header's field is the size less one.
PayloadSize == size + 1

\* The commands that look for the admin token, and what a payload needs to be
\* looked at, in bytes of this alphabet: the token and what follows it.
Privileged ==
    {"CHANGE_HEARTBEAT_TELEM_RATE", "FILE_LS", "FILE_MKDIR", "FILE_CAT", "FILE_DELETE",
     "FILE_APPEND", "FILE_TOUCH", "FILE_MKFS", "ADD_USER", "DELETE_USER", "MCU_POWER_CYCLE",
     "PLAYBACK_HEARTBEAT_PACKETS", "RADIO_CONFIG", "RADIO_STAT", "RADIO_SET_MODE",
     "SET_RTC_TIME", "AX25_ON_OFF"}
NoArguments == {"MCU_POWER_CYCLE", "RADIO_STAT", "AX25_ON_OFF"}
MinSize(command) == IF command \in NoArguments THEN 1 ELSE 2

X_Accepted(command, who) == command \in Privileged => PayloadSize >= MinSize(command)

\* is_admin, after the check of the size.
Accepted(command, who) ==
    command \in Privileged => PayloadSize >= MinSize(command) /\ who = AdminToken

\* AX25_ON_OFF switches off and on again: it always ends with the echo on.
parse_command_packet(command, who) ==
    /\ command_enabled' = (command_enabled \/ (command = "AX25_ON_OFF" /\ Accepted(command, who)))
    /\ admin_on' = (admin_on \/ (command = "AX25_ON_OFF" /\ who = AdminToken))

ReadPayload(b) ==
    /\ parser_at = "payload"
    /\ TakeByte(b)
    /\ LET who == IF taken = 0 THEN b ELSE token IN
       IF taken + 1 < PayloadSize
       THEN /\ token' = who /\ taken' = taken + 1
            /\ UNCHANGED <<parser_at, sync_index, apid, size, results>>
       ELSE /\ parse_command_packet(ApidOf[apid], who)
            /\ parsed' = IF clean THEN Append(parsed, <<apid, size, who>>) ELSE <<>>
            /\ Fresh /\ UNCHANGED <<sent, clean>>

command_task == \E b \in {byte_queue[i] : i \in 1 .. Len(byte_queue)} :
    SearchSync(b) \/ ReadFrame(b) \/ ReadHeader(b) \/ ReadPayload(b)

-----------------------------------------------------------------------------

\* The line is quiet and the parser is at the beginning of its search, which it need not
\* be: the history begins anew there.
Quiet == Idle /\ byte_queue = <<>> /\ parser_at = "search" /\ sync_index = 0

BeginAnew ==
    /\ Quiet
    /\ clean' = TRUE /\ sent' = <<>> /\ parsed' = <<>>
    /\ UNCHANGED <<inputs, parser, command_enabled, admin_on>>

CommandNext ==
    \/ \E s \in Sources : BeginSending(s) \/ receive_command_byte(s)
    \/ command_task
    \/ BeginAnew

CommandSpec == CommandInit /\ [][CommandNext]_commandVars

\* ---------------------------------------------------------------- properties

\* As long as bytes are not dropped, mixed or misleading and there is memory for them,
\* the packets parsed are the packets sent, whole and in their order, with frames in
\* between (command.c:364-397, 429-454).  The history starts anew only where the line is
\* quiet and the parser is back at the beginning of its search.  It has no timeout: a
\* packet cut off, or a byte lost in one, leaves it in a header or a payload until more
\* bytes come (431-451), and of those bytes nothing is said.
ParsesWhatWasSent ==
    clean => /\ parsed = SubSeq(sent, 1, Len(parsed))
             /\ Quiet => parsed = sent

\* No frame is echoed before an admin has asked for it, whatever else was parsed
\* (command.c:317-345, 379-413).
EchoNeedsAdmin == command_enabled \/ parser_at = "frame" => admin_on
=============================================================================
