------------------------------ MODULE HbTlmLog ------------------------------
(***************************************************************************)
(* The heartbeat telemetry log (utilities/hb_tlm_log.c): a ring of files   *)
(* with an info file.  The STEVE task logs, the COMMAND task plays back;   *)
(* each step is one operation of the filesystem task, which performs them  *)
(* in the order they were asked for, and a reset may come between any two. *)
(* A heartbeat is known by the number of heartbeats logged before it; the  *)
(* size of the directory is counted in full files, whose sum with the six  *)
(* bytes of f_info.bin passes the allocation one file early.  The medium   *)
(* does not fail.                                                          *)
(***************************************************************************)
EXTENDS Naturals, Sequences, FiniteSets

CONSTANTS
    PerFile,      \* heartbeats that fit in MAX_HB_TLM_FILE_SIZE
    AllocFiles,   \* HEARTBEAT_TLM_FS_ALLOCATION in files of that size
    Indices,      \* a file index counts modulo Indices (2^16)
    Playbacks,    \* what the ground may ask for
    MaxEntries,   \* bound: heartbeats logged
    MaxMeanwhile, \* bound: heartbeats logged during one playback
    MaxResets     \* bound: resets

ASSUME HbTlmLogAssumption ==
    /\ PerFile \in Nat \ {0}
    /\ AllocFiles \in Nat /\ AllocFiles >= 2
    /\ Indices \in Nat /\ Indices >= AllocFiles
    /\ Playbacks \subseteq [every_x : Nat, go_back_x : Nat, number : Nat]
    /\ {MaxEntries, MaxMeanwhile, MaxResets} \subseteq Nat

VARIABLES
    tlm_dir,       \* /tlm exists
    f_info,        \* what f_info.bin holds
    readable,      \* f_info.bin is there and whole, not missing or empty
    files,         \* the heartbeats in each file, none in one that is missing
    logged,        \* history: heartbeats logged
    hb_at,         \* where log_heartbeat_tlm is
    info,          \* its file_info_buf
    play_at,       \* where hb_tlm_playback is
    play,          \* its payload
    play_info, play_file,            \* its file_info_buf and file_index
    play_skipped, play_counter,      \* packet_go_back_counter, packet_counter
    play_sent,     \* the heartbeats it has sent
    play_status,   \* what it returned
    play_newest,   \* history: heartbeats logged when it began
    play_junk,     \* history: it has read a file with more than PerFile
    hb_resets

disk == <<tlm_dir, f_info, readable, files>>
hbLog == <<hb_at, info, logged>>
playback == <<play_at, play, play_info, play_file, play_skipped, play_counter,
              play_sent, play_status, play_newest, play_junk>>
hbVars == <<disk, hbLog, playback, hb_resets>>

Index == 0 .. Indices - 1
After(i) == (i + 1) % Indices
Previous(i) == (i + Indices - 1) % Indices

Info == [file_index : Index, oldest_file_index : Index, full : Nat]
NoInfo == [file_index |-> 0, oldest_file_index |-> 0, full |-> 0]

Junk == MaxEntries + 1

HbInit ==
    /\ tlm_dir = FALSE /\ f_info = NoInfo /\ readable = FALSE /\ files = [i \in Index |-> <<>>]
    /\ logged = 0 /\ hb_at = "idle" /\ info = NoInfo
    /\ play_at = "idle" /\ play = (CHOOSE p \in Playbacks : TRUE) /\ play_info = NoInfo /\ play_file = 0
    /\ play_skipped = 0 /\ play_counter = 0 /\ play_sent = <<>> /\ play_status = 0
    /\ play_newest = 0 /\ play_junk = FALSE
    /\ hb_resets = 0

\* --------------------------------------------------------- log_heartbeat_tlm

LogBegin ==
    /\ hb_at = "idle" /\ logged < MaxEntries
    /\ play_at # "idle" => logged < play_newest + MaxMeanwhile
    /\ hb_at' = IF tlm_dir THEN "read" ELSE "mkdir"
    /\ UNCHANGED <<disk, info, logged>>

LogMakeDir ==
    /\ hb_at = "mkdir"
    /\ tlm_dir' = TRUE
    /\ hb_at' = "first_info"
    /\ UNCHANGED <<f_info, readable, files, info, logged>>

LogFirstInfo ==
    /\ hb_at = "first_info"
    /\ f_info' = NoInfo /\ readable' = TRUE
    /\ hb_at' = "read"
    /\ UNCHANGED <<tlm_dir, files, info, logged>>

LogReadInfo ==
    /\ hb_at = "read"
    /\ IF readable THEN info' = f_info /\ hb_at' = "append"
                   ELSE hb_at' = "idle" /\ UNCHANGED info
    /\ UNCHANGED <<disk, logged>>

LogAppend ==
    /\ hb_at = "append"
    /\ files' = [files EXCEPT ![info.file_index] = Append(@, logged + 1)]
    /\ logged' = logged + 1
    /\ hb_at' = "stat"
    /\ UNCHANGED <<tlm_dir, f_info, readable, info>>

X_Crowded(full) == full > AllocFiles

\* With one more file of the full size the directory would pass the allocation.
Crowded(full) == full + 1 >= AllocFiles

\* One more heartbeat would not fit: the next goes to a new file.
LogStat ==
    /\ hb_at = "stat"
    /\ IF Len(files[info.file_index]) + 1 > PerFile
       THEN /\ info' = [info EXCEPT !.file_index = After(@), !.full = @ + 1]
            /\ hb_at' = IF Crowded(info.full + 1) THEN "delete" ELSE "save"
       ELSE hb_at' = "save" /\ UNCHANGED info
    /\ UNCHANGED <<disk, logged>>

X_LogDelete ==
    /\ hb_at = "delete"
    /\ files' = [files EXCEPT ![Previous(info.file_index)] = <<>>]
    /\ info' = [info EXCEPT !.oldest_file_index = After(@), !.full = @ - 1]
    /\ hb_at' = "save"
    /\ UNCHANGED <<tlm_dir, f_info, readable, logged>>

Y_LogDelete ==
    \/ /\ hb_at = "delete"
       /\ info' = [info EXCEPT !.oldest_file_index = After(@), !.full = @ - 1]
       /\ f_info' = info' /\ readable' = TRUE
       /\ hb_at' = "delete_saved"
       /\ UNCHANGED <<tlm_dir, files, logged>>
    \/ /\ hb_at = "delete_saved"
       /\ files' = [files EXCEPT ![Previous(info.oldest_file_index)] = <<>>]
       /\ hb_at' = "save"
       /\ UNCHANGED <<tlm_dir, f_info, readable, info, logged>>

LogDelete ==
    /\ hb_at = "delete"
    /\ files' = [files EXCEPT ![info.oldest_file_index] = <<>>]
    /\ info' = [info EXCEPT !.oldest_file_index = After(@), !.full = @ - 1]
    /\ hb_at' = "save"
    /\ UNCHANGED <<tlm_dir, f_info, readable, logged>>

LogSave ==
    /\ hb_at = "save"
    /\ f_info' = info /\ readable' = TRUE
    /\ hb_at' = "idle"
    /\ UNCHANGED <<tlm_dir, files, info, logged>>

log_heartbeat_tlm ==
    /\ \/ LogBegin \/ LogMakeDir \/ LogFirstInfo \/ LogReadInfo
       \/ LogAppend \/ LogStat \/ LogDelete \/ LogSave
    /\ UNCHANGED <<playback, hb_resets>>

\* ----------------------------------------------------------- hb_tlm_playback

PlayReturn(status) == play_at' = "idle" /\ play_status' = status

PlayBegin ==
    /\ play_at = "idle"
    /\ play' \in Playbacks
    /\ play_sent' = <<>> /\ play_skipped' = 0 /\ play_counter' = 0
    /\ play_newest' = logged /\ play_junk' = FALSE
    /\ IF tlm_dir THEN play_at' = "info" /\ play_status' = 0 ELSE PlayReturn(1)
    /\ UNCHANGED <<play_info, play_file>>

PlayInfo ==
    /\ play_at = "info"
    /\ IF readable
       THEN /\ play_info' = f_info /\ play_file' = f_info.file_index
            /\ IF play.number = 0 THEN PlayReturn(0) ELSE play_at' = "file" /\ UNCHANGED play_status
       ELSE PlayReturn(2) /\ UNCHANGED <<play_info, play_file>>
    /\ UNCHANGED <<play, play_skipped, play_counter, play_sent, play_newest, play_junk>>

\* What the buffer of MAX_HB_TLM_FILE_SIZE bytes shows from its end backwards.  An
\* overfull file is cut off within a heartbeat.
Seen(i) ==
    LET n == Len(files[i]) IN
    IF n > PerFile THEN [j \in 1 .. PerFile |-> Junk]
    ELSE [j \in 1 .. n |-> files[i][n + 1 - j]]

\* Remainder of a division by every_x_packet; by zero it is the dividend.
Remainder(n) == IF play.every_x = 0 THEN n ELSE n % play.every_x

Y_Skip(n) == IF play.go_back_x < n THEN play.go_back_x ELSE n

\* How many of the n heartbeats of a file are passed over first.
Skip(n) == IF play.go_back_x - play_skipped < n THEN play.go_back_x - play_skipped ELSE n

X_CounterAfter(n) == 0

\* packet_counter after a file of n heartbeats.
CounterAfter(n) == play_counter + n - Skip(n)

\* What has been sent after a file, of which a heartbeat at a time is looked at: whether
\* it is passed over, whether it is the next to be sent, and whether enough have been.
SentAfter(seen) ==
    LET passed == Skip(Len(seen))
        sent[j \in 0 .. Len(seen)] ==
            IF j = 0 THEN play_sent
            ELSE IF /\ j > passed /\ Remainder(play_counter + j - passed - 1) = 0
                    /\ Len(sent[j - 1]) < play.number
                 THEN Append(sent[j - 1], seen[j])
                 ELSE sent[j - 1]
    IN sent[Len(seen)]

\* A whole file is read, and its packets sent, before the next file is read.
PlayFile ==
    /\ play_at = "file"
    /\ LET seen == Seen(play_file) IN
       IF seen = <<>> THEN PlayReturn(3) /\ UNCHANGED <<play_skipped, play_counter, play_sent, play_junk, play_file>>
       ELSE /\ play_sent' = SentAfter(seen)
            /\ play_skipped' = play_skipped + Skip(Len(seen))
            /\ play_counter' = CounterAfter(Len(seen))
            /\ play_junk' = (play_junk \/ Len(files[play_file]) > PerFile)
            /\ play_file' = Previous(play_file)
            /\ IF Len(play_sent') >= play.number THEN PlayReturn(0)
               ELSE IF play_file = play_info.oldest_file_index THEN PlayReturn(5)
               ELSE UNCHANGED <<play_at, play_status>>
    /\ UNCHANGED <<play, play_info, play_newest>>

hb_tlm_playback ==
    /\ PlayBegin \/ PlayInfo \/ PlayFile
    /\ UNCHANGED <<disk, hbLog, hb_resets>>

\* A reset while f_info.bin is written may leave it empty: it is truncated first.
HbReset ==
    /\ hb_resets < MaxResets
    /\ hb_resets' = hb_resets + 1
    /\ hb_at' = "idle"
    /\ readable' \in {readable} \cup (IF hb_at \in {"first_info", "save"} THEN {FALSE} ELSE {})
    /\ play_at' = "idle" /\ play_sent' = <<>>
    /\ UNCHANGED <<tlm_dir, f_info, files, logged, info, play, play_info, play_file, play_skipped,
                   play_counter, play_status, play_newest, play_junk>>

HbNext == log_heartbeat_tlm \/ hb_tlm_playback \/ HbReset

HbSpec == HbInit /\ [][HbNext]_hbVars

\* ---------------------------------------------------------------- properties

Entries(i) == {files[i][k] : k \in 1 .. Len(files[i])}
Stored == UNION {Entries(i) : i \in Index}

\* How many files after the oldest a file is.
Age(i) == (i + Indices - f_info.oldest_file_index) % Indices

\* No file is ever left where neither the deletion of the oldest nor playback would
\* find it, whenever the reset comes (hb_tlm_log.c:47-65).
NoFileLeaks == readable => \A i \in Index : files[i] # <<>> => Age(i) <= Age(f_info.file_index)

\* The log stays within its allocation, but for one heartbeat a reset adds to a file
\* that was full already (hb_tlm_log.c:42-62).
LogFits == Cardinality(Stored) <= (AllocFiles - 1) * PerFile + hb_resets

\* Playback goes back through the log in steps of exactly every_x_packet, across files
\* and while heartbeats are logged and files deleted, but for what it reads from an
\* overfull file (hb_tlm_log.c:93-172).
PlaybackDescends ==
    play.every_x > 0 /\ ~play_junk =>
        \A i \in 1 .. Len(play_sent) - 1 : play_sent[i] = play_sent[i + 1] + play.every_x

\* It begins go_back_x_packets before the newest heartbeat, or before one logged since
\* it was asked for (hb_tlm_log.c:101-134).
PlaybackBegins ==
    play_sent # <<>> /\ ~play_junk =>
        play_sent[1] + play.go_back_x \in play_newest .. logged

Ring == INSTANCE BoundedLog WITH
            Keep <- (AllocFiles - 2) * PerFile, newest <- logged, kept <- Stored

\* The ring of files is a log that loses only its oldest heartbeats, and none of the
\* newest that fit, whenever the reset comes (hb_tlm_log.c:42-65).
KeepsNewest == Ring!Spec
=============================================================================
