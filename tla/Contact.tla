------------------------------ MODULE Contact ------------------------------
(***************************************************************************)
(* What the satellite knows of the time (utilities/timing.c, main.c,       *)
(* heartbeat_job.c, set_rtc_job.c) and of its last contact with the ground *)
(* (radio.cpp), which decides whether it may transmit.  The real time      *)
(* clock goes on through resets; epoch_time is a copy that the heartbeat   *)
(* refreshes; until it is first set, times are counted since boot, and     *)
(* numbers below Epoch are taken for such times.  The clock is read field  *)
(* by field, and goes on in between.  The time of the last contact is      *)
(* saved in radio.bin, which init_radio reads while contacts may come.     *)
(***************************************************************************)
EXTENDS Integers, Sequences

CONSTANTS
    Epoch,              \* times from here on are epoch times (31536000000 ms)
    FieldLength,        \* how long each field of the clock keeps its value
    Deadman,            \* RADIO_NO_CONTACT_DEADMAN_MS
    SaveInterval,       \* RADIO_SAVE_INTERVAL_MS
    HeartbeatInterval,
    Shifts,             \* by how much the ground may set the clock wrong
    MaxTime             \* bound: the time

Huge == 2 * Epoch       \* a difference of unsigned numbers that has wrapped
NeverSaved == -1            \* radio.bin is missing
HalfSaved == -2          \* it is too short

\* The fields of the clock in the order in which main reads them, and the heartbeat.
BootOrder == <<"year", "month", "date", "hour", "minute", "second">>
BeatOrder == <<"hour", "minute", "second", "month", "date", "year">>

ASSUME ContactAssumption ==
    /\ {Deadman, SaveInterval, HeartbeatInterval, MaxTime} \subseteq Nat \ {0}
    /\ FieldLength \in [{BootOrder[i] : i \in 1..6} -> Nat \ {0}]
    /\ Epoch \in Nat /\ Epoch > MaxTime
    /\ Deadman > SaveInterval + 2 * HeartbeatInterval
    /\ Shifts \subseteq Int

VARIABLES
    now,                       \* the true time
    shift,                     \* by how much the clock is wrong
    boot,                      \* when the board was last reset
    clock_at,                  \* "boot" or "beat": reading the clock, or "idle"
    field,                     \* the place of the field to be read next
    fields_sum,                \* what the fields read so far add up to
    epoch_time, epoch_time_updated,
    refreshed,                 \* when a read of the clock last began
    contact_at,                \* "load", "set", "create", then "loop": where init_radio is
    loaded,                    \* new_time, its local
    radio_last_received_time,
    last_saved_received_time,
    radio_bin,
    writes,                    \* what the filesystem task has still to write to it
    last_contact,              \* history: when a contact was last marked
    honest,                    \* history: the clock was right and was always read, and no
                               \* field turned between the reads of two
    record,                    \* history: the last contact is "kept" in radio.bin, is
                               \* "saving", is "unkept" so far, or was "lost" by a reset
    forgotten                  \* history: init_radio could not read it in radio.bin, or
                               \* has put the time in radio.bin over it

clockVars == <<shift, clock_at, field, fields_sum, epoch_time, epoch_time_updated, refreshed>>
loadVars == <<contact_at, loaded>>
contactVars == <<radio_last_received_time, last_saved_received_time, radio_bin, writes>>
pastVars == <<last_contact, record, forgotten>>
timeVars == <<now, boot, clockVars, loadVars, contactVars, pastVars, honest>>

TimeInit ==
    /\ now = 0 /\ boot = 0 /\ shift = 0
    /\ clock_at = "boot" /\ field = 1 /\ fields_sum = 0
    /\ epoch_time = 0 /\ epoch_time_updated = FALSE /\ refreshed = 0
    /\ contact_at = "load" /\ loaded = 0
    /\ radio_last_received_time = 0 /\ last_saved_received_time = 0
    /\ radio_bin = NeverSaved /\ writes = <<>>
    /\ last_contact = -1 /\ honest = TRUE /\ record = "lost" /\ forgotten = FALSE

Clock == Epoch + now + shift

\* The beginning of the second, minute .. year of a time, and what the field adds to it.
Beginning(f, t) == t - (t % FieldLength[f])
Above == [second |-> "minute", minute |-> "hour", hour |-> "date", date |-> "month",
          month |-> "year"]
Part(f, t) == IF f = "year" THEN Beginning(f, t) ELSE Beginning(f, t) - Beginning(Above[f], t)

Uptime == now - boot

\* get_epoch_time, or the time since boot.
timing_now == IF epoch_time_updated THEN epoch_time ELSE Uptime

\* Both branches subtract unsigned numbers.
time_since_ms(past) ==
    LET present == IF past < Epoch THEN Uptime ELSE epoch_time IN
    IF present >= past THEN present - past ELSE Huge

update_epoch_time(t) == epoch_time' = t /\ epoch_time_updated' = TRUE

\* ------------------------------------------------------------------ the clock

\* The heartbeat comes in its time, and the board is up within one unit.
Tick ==
    /\ now < MaxTime
    /\ now < refreshed + HeartbeatInterval
    /\ now' = now + 1
    /\ UNCHANGED <<boot, clockVars, loadVars, contactVars, pastVars, honest>>

Order == IF clock_at = "boot" THEN BootOrder ELSE BeatOrder

\* What the clock shows, added to what was read of it.
FieldsRead == fields_sum + Part(Order[field], Clock)

\* heartbeat_telemetry_job begins to read the clock; main has begun at the reset.
BeginRead ==
    /\ clock_at = "idle"
    /\ clock_at' = "beat" /\ refreshed' = now
    /\ UNCHANGED <<shift, field, fields_sum, epoch_time, epoch_time_updated, honest>>

ReadField ==
    /\ clock_at # "idle" /\ field < 6
    /\ fields_sum' = FieldsRead /\ field' = field + 1
    /\ UNCHANGED <<shift, clock_at, epoch_time, epoch_time_updated, refreshed, honest>>

\* A read is torn when a field turned before a smaller one, or after a larger one, was
\* read: the fields are then of no moment of the read.
Torn == FieldsRead \notin (Epoch + refreshed) .. (Epoch + now)

\* The sixth field, and the epoch time of all of them.
ReadLastField ==
    /\ clock_at # "idle" /\ field = 6
    /\ update_epoch_time(FieldsRead)
    /\ clock_at' = "idle" /\ field' = 1 /\ fields_sum' = 0
    /\ honest' = (honest /\ ~Torn)
    /\ UNCHANGED <<shift, refreshed>>

\* A field cannot be read: the epoch time stays as it is.
ReadFails ==
    /\ clock_at # "idle"
    /\ clock_at' = "idle" /\ field' = 1 /\ fields_sum' = 0 /\ honest' = FALSE
    /\ UNCHANGED <<shift, epoch_time, epoch_time_updated, refreshed>>

\* set_rtc_job sets the clock, and the epoch time with it.
SetClock ==
    /\ clock_at = "idle"
    /\ \E s \in Shifts : shift' = s /\ update_epoch_time(Epoch + now + s)
    /\ honest' = (honest /\ shift' = 0)
    /\ UNCHANGED <<clock_at, field, fields_sum, refreshed>>

ClockStep ==
    /\ BeginRead \/ ReadField \/ ReadLastField \/ ReadFails \/ SetClock
    /\ UNCHANGED <<now, boot, loadVars, contactVars, pastVars>>

\* ---------------------------------------------------------------- the contact

\* write_file returns when the time is in the queue of the filesystem task, which takes
\* its operations in order; whoever waits for room in it waits in order, too.
write_file(t) == writes' = Append(writes, t)

\* A later write of init_radio takes the last contact from radio.bin.
Overwritten == IF record \in {"kept", "saving"} THEN "unkept" ELSE record

\* The filesystem task writes a time, or fails, which nobody is told.
WriteContact ==
    /\ writes # <<>>
    /\ writes' = Tail(writes)
    /\ \/ /\ radio_bin' = Head(writes)
          /\ record' = IF record = "saving" /\ Len(writes) = 1 THEN "kept" ELSE record
       \/ /\ UNCHANGED radio_bin
          /\ record' = IF record = "saving" /\ Len(writes) = 1 THEN "unkept" ELSE record
    /\ UNCHANGED <<now, boot, clockVars, loadVars, radio_last_received_time,
                   last_saved_received_time, last_contact, forgotten, honest>>

\* init_radio looks for radio.bin and reads it, behind what is in the queue, and either
\* can fail or time out: then it keeps what it has, or creates radio.bin anew.
ReadContact ==
    /\ contact_at = "load" /\ clock_at # "boot"
    /\ \/ /\ writes = <<>> /\ radio_bin \notin {NeverSaved, HalfSaved}
          /\ contact_at' = "set" /\ loaded' = radio_bin /\ UNCHANGED forgotten
       \/ /\ radio_bin # NeverSaved
          /\ contact_at' = "loop" /\ UNCHANGED loaded
          /\ forgotten' = (radio_last_received_time = 0)
       \/ /\ contact_at' = "create" /\ loaded' = radio_last_received_time
          /\ UNCHANGED forgotten
    /\ UNCHANGED <<now, boot, clockVars, contactVars, last_contact, record, honest>>

X_Loaded(t) == timing_now

\* A time in the future becomes the present.
Loaded(t) == IF t > timing_now THEN timing_now ELSE t

\* It takes the time it has read for that of the last contact, whatever was marked since.
SetContact ==
    /\ contact_at = "set"
    /\ contact_at' = "loop" /\ loaded' = 0
    /\ radio_last_received_time' = Loaded(loaded)
    /\ forgotten' = (radio_last_received_time # 0)
    /\ IF loaded > timing_now
       THEN write_file(timing_now) /\ record' = Overwritten
       ELSE UNCHANGED <<writes, record>>
    /\ UNCHANGED <<now, boot, clockVars, last_saved_received_time, radio_bin, last_contact, honest>>

\* Or it creates radio.bin, with the time of the last contact before.
CreateContact ==
    /\ contact_at = "create"
    /\ contact_at' = "loop" /\ loaded' = 0
    /\ forgotten' = (radio_last_received_time = 0)
    /\ write_file(loaded) /\ record' = Overwritten
    /\ UNCHANGED <<now, boot, clockVars, radio_last_received_time, last_saved_received_time,
                   radio_bin, last_contact, honest>>

X_SaveIsDue(new) == time_since_ms(last_saved_received_time) > Deadman

SaveIsDue(new) ==
    time_since_ms(last_saved_received_time) > SaveInterval \/ last_saved_received_time > new

\* Called in the command task for every packet, and in STEVE by the antenna job: at any time
\* once main has read the clock, whatever init_radio is doing.
radio_flag_valid_packet ==
    /\ clock_at # "boot"
    /\ radio_last_received_time' = timing_now
    /\ last_contact' = now /\ forgotten' = FALSE
    /\ IF SaveIsDue(timing_now)
       THEN /\ write_file(timing_now) /\ last_saved_received_time' = timing_now
            /\ record' = "saving"
       ELSE /\ UNCHANGED <<writes, last_saved_received_time>>
            /\ record' = IF record \in {"saving", "unkept"} THEN record
                         ELSE IF Uptime <= SaveInterval THEN "unkept" ELSE "kept"
    /\ UNCHANGED <<now, boot, clockVars, loadVars, radio_bin, honest>>

\* A reset may cut a write short, before it, or when the file has been emptied.
TimeReset ==
    /\ ~(clock_at = "boot" /\ field = 1)
    /\ boot' = now
    /\ clock_at' = "boot" /\ field' = 1 /\ fields_sum' = 0
    /\ epoch_time' = 0 /\ epoch_time_updated' = FALSE /\ refreshed' = now
    /\ contact_at' = "load" /\ loaded' = 0
    /\ radio_last_received_time' = 0 /\ last_saved_received_time' = 0 /\ writes' = <<>>
    /\ radio_bin' \in {radio_bin} \cup (IF writes # <<>> THEN {HalfSaved} ELSE {})
    /\ record' = IF record = "kept" THEN "kept" ELSE "lost"
    /\ forgotten' = FALSE
    /\ UNCHANGED <<now, shift, last_contact, honest>>

TimeNext ==
    \/ Tick \/ ClockStep \/ ReadContact \/ SetContact \/ CreateContact \/ WriteContact
    \/ radio_flag_valid_packet \/ TimeReset

TimeSpec == TimeInit /\ [][TimeNext]_timeVars

\* ---------------------------------------------------------------- properties

\* radio_task_cpp transmits nothing.
Silenced ==
    radio_last_received_time = 0 \/ time_since_ms(radio_last_received_time) > Deadman

Slack == 2 * HeartbeatInterval

\* A satellite without a contact for longer than the deadman time (or an antenna job,
\* which counts as one) is silent, whatever resets came since and whatever saves failed,
\* as long as its clock can be trusted (radio.cpp:216-229, 489-513, 713; timing.c:118-135).
SilentInTime ==
    honest /\ contact_at = "loop" /\ ~Silenced =>
        last_contact # -1 /\ now - last_contact <= Deadman + Slack

\* It is not silenced early: not while the last contact is recent, even if it came
\* before a reset, unless that contact was not saved, or init_radio did not read it or
\* put an older one over it (radio.cpp:216-229, 489-513, 713).
NotSilencedEarly ==
    honest /\ contact_at = "loop" /\ record # "lost" /\ ~forgotten
        => (now - last_contact <= Deadman - SaveInterval - Slack => ~Silenced)
=============================================================================
