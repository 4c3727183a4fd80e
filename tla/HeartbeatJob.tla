---------------------------- MODULE HeartbeatJob ----------------------------
(***************************************************************************)
(* The heartbeat (steve/jobs/heartbeat_job.c) and the drivers it reads:    *)
(* the battery gauge (max17048.c), the clock (rtc_ds3231.c), the current   *)
(* monitors (ina219.c), the magnetometer (mag_lis3mdltr.c), the antenna    *)
(* (vega_ant.c) and the thermometers (ds18b20.c), over i2c.c.  Also the    *)
(* job that sets the clock (set_rtc_job.c), and boot.bin, the number of    *)
(* the boot, which is written behind the job's back and can be cut short.  *)
(* The six current monitors are alike: there is one here.  A measured      *)
(* value is the number of the heartbeat in which it was measured.          *)
(***************************************************************************)
EXTENDS Integers, Sequences, FiniteSets

CONSTANTS
    Times,         \* what the ground sets the clock to: records of Units
    Probes,        \* the fitted thermometers (ROM codes other than 0)
    MaxBeats, MaxBoots, MaxFailures, MaxSets    \* bounds of what is counted

NoValue == -1      \* UINT8_MAX, UINT16_MAX, INT16_MAX or -1, for a failed read
LeftOver == -2     \* what the stack happened to hold
Garbled == -3      \* a current or power without its calibration
NoFile == -1       \* boot.bin is missing
HalfFile == -2     \* or empty

\* The fields of the time, in the order in which rtc_set_time writes them.
Units == <<"second", "minute", "hour", "date", "month", "year">>
TimeFields == {Units[i] : i \in 1..6}

\* What the job does, in its order.
Steps ==
    <<"boot_count", "convert", "max17048Voltage", "max17048Percentage", "hour", "minute",
      "second", "month", "date", "year", "rtcTemp", "epoch", "config", "shunt", "vbus",
      "calibrate", "current", "calibrate", "power", "mag_x", "mag_y", "mag_z", "mag_temp",
      "vega_ant_status", "temperatures", "send">>

\* What the getters of each driver put in the payload.
BatteryGauge == {"max17048Voltage", "max17048Percentage"}
Calibrated == {"current", "power"}
Uncalibrated == {"shunt", "vbus"}
Magnetometer == {"mag_x", "mag_y", "mag_z", "mag_temp"}
Others == BatteryGauge \cup Uncalibrated \cup Magnetometer \cup {"rtcTemp", "vega_ant_status"}
Registers == TimeFields \cup Calibrated \cup Others

ASSUME HeartbeatAssumption ==
    /\ Times \subseteq [TimeFields -> 0..99]
    /\ Probes \cap Registers = {}
    /\ {MaxBeats, MaxBoots, MaxFailures, MaxSets} \subseteq Nat

VARIABLES
    step,               \* the place in Steps, 0 between heartbeats
    beat,               \* the number of the heartbeat
    payload,            \* the field Registers and Probes of heartbeat_telemetry_t
    conversion_res,     \* ds18b20_conversion_res is 0
    epoch_from,         \* the time that went into epoch_time
    registers,          \* of the clock
    calibration,        \* the current monitor holds its calibration
    scratchpad,         \* the last finished measurement of each probe
    converting,         \* the probes that measure
    bootcount, bootcountset, boot_bin,
    boot_writes,        \* what the filesystem task has still to do to boot.bin
    failures, boots, sets,
    clock,              \* history: what the registers were last set to
    converted,          \* history: the heartbeat of the last conversion begun
    recent,             \* history: those of the conversions that no probe has outlived
    disturbed,          \* history: the calibration failed or was lost in this heartbeat
    settled,            \* history: numbers of earlier boots that were written
    count_lost          \* history: boot.bin could not be read

bootVars == <<bootcount, bootcountset, boot_bin, boot_writes, settled, count_lost>>
chipVars == <<registers, calibration, scratchpad, converting, clock, converted, recent, disturbed>>
jobVars == <<step, beat, payload, conversion_res, epoch_from>>
heartbeatVars == <<jobVars, chipVars, bootVars, failures, boots, sets>>

Nothing == [f \in Registers \cup Probes |-> LeftOver]

HeartbeatInit ==
    /\ step = 0 /\ beat = 0 /\ payload = Nothing /\ conversion_res = FALSE
    /\ epoch_from = [f \in TimeFields |-> 0]
    /\ registers = [f \in TimeFields |-> 0] /\ clock = [f \in TimeFields |-> 0]
    /\ calibration = FALSE /\ disturbed = FALSE
    /\ scratchpad = [p \in Probes |-> 0] /\ converting = {} /\ converted = 0 /\ recent = {0}
    /\ bootcount = 0 /\ bootcountset = FALSE /\ boot_bin = NoFile /\ boot_writes = <<>>
    /\ settled = {} /\ count_lost = FALSE
    /\ failures = 0 /\ boots = 0 /\ sets = 0

Doing(what) == step > 0 /\ Steps[step] = what
Fails == failures < MaxFailures /\ failures' = failures + 1
Works == UNCHANGED failures

\* ------------------------------------------------------------------ the clock

Bit(byte, mask) == (byte \div mask) % 2

Encode(value) == (((value \div 10) * 16) % 256) + (value % 10)

\* rtc_get_second and the others: tens and ones; the hour has its own bits.
Decode(f, byte) ==
    LET ones == byte % 16 IN
    CASE f = "hour" /\ Bit(byte, 64) = 1 -> (ones + 10 * Bit(byte, 16) + 12 * Bit(byte, 32)) % 24
      [] f = "hour" /\ Bit(byte, 64) = 0 -> (ones + 10 * Bit(byte, 16) + 20 * Bit(byte, 32)) % 24
      [] f = "month" -> ones + 10 * Bit(byte, 16)
      [] OTHER -> ones + 10 * (byte \div 16)

\* set_rtc_job, between heartbeats: a register that fails ends it, with the ones before set.
SetRtc ==
    /\ step = 0 /\ sets < MaxSets
    /\ \E t \in Times, n \in 0..6 :
        LET set == {Units[i] : i \in 1..n} IN
        /\ IF n = 6 THEN Works /\ epoch_from' = t ELSE Fails /\ UNCHANGED epoch_from
        /\ registers' = [f \in TimeFields |-> IF f \in set THEN Encode(t[f]) ELSE registers[f]]
        /\ clock' = [f \in TimeFields |-> IF f \in set THEN t[f] ELSE clock[f]]
    /\ sets' = sets + 1
    /\ UNCHANGED <<step, beat, payload, conversion_res, calibration, scratchpad, converting,
                   converted, recent, disturbed, bootVars, boots>>

\* ------------------------------------------------------------ the job, by steps

\* The next heartbeat is due: its payload is on the stack, not cleared.
Begin ==
    /\ step = 0 /\ beat < MaxBeats
    /\ step' = 1 /\ beat' = beat + 1 /\ disturbed' = FALSE
    /\ UNCHANGED <<payload, conversion_res, epoch_from, registers, calibration, scratchpad,
                   converting, clock, converted, recent, bootVars, failures, boots, sets>>

X_Counted == <<bootcount>>

\* What goes to boot.bin when the count there has been read.
Counted == <<bootcount'>>

\* The first heartbeat of a boot counts it; file_exists and read_file may fail.
BootCount ==
    /\ Doing("boot_count")
    /\ \/ /\ bootcountset
          /\ Works /\ UNCHANGED bootVars
       \/ /\ ~bootcountset /\ bootcountset' = TRUE
          /\ \/ /\ Works /\ boot_bin >= 0
                /\ bootcount' = boot_bin + 1
                /\ boot_writes' = Counted /\ UNCHANGED count_lost
             \/ /\ IF boot_bin >= 0 THEN Fails ELSE Works
                /\ bootcount' = 0
                /\ boot_writes' \in {<<0>>} \cup (IF boot_bin = NoFile THEN {} ELSE {<<NoFile, 0>>})
                /\ count_lost' = (count_lost \/ boot_bin # NoFile)
          /\ UNCHANGED <<boot_bin, settled>>
    /\ UNCHANGED <<chipVars, payload, conversion_res, epoch_from>>

\* ow_send(DS18B20_CONVERT_T) reaches every probe.
started == Probes

\* ds18b20_start_conversion: a conversion that is still under way, as it is when the
\* ground has set a heartbeat rate below the time it takes, begins anew.
Convert ==
    /\ Doing("convert")
    /\ \/ /\ Works /\ conversion_res' = TRUE /\ converting' = started
          /\ converted' = beat
          /\ recent' = (IF converting = {} THEN {converted} ELSE recent) \cup {beat}
       \/ Fails /\ conversion_res' = FALSE /\ UNCHANGED <<converting, converted, recent>>
    /\ UNCHANGED <<registers, calibration, scratchpad, clock, disturbed, bootVars, payload,
                   epoch_from>>

Measured(f) ==
    CASE f \in TimeFields -> Decode(f, registers[f])
      [] f \in Calibrated -> IF calibration THEN beat ELSE Garbled
      [] OTHER -> beat

X_Missing(f) == IF f \in {"rtcTemp", "vega_ant_status", "vbus"} THEN payload[f] ELSE NoValue

\* The value of a field whose read fails: rtcTemp is left as it is, and
\* vega_ant_status takes a failure for a success and puts in its own garbage.
Missing(f) == IF f \in {"rtcTemp", "vega_ant_status"} THEN payload[f] ELSE NoValue

Read(f) ==
    /\ Doing(f)
    /\ \/ Works /\ payload' = [payload EXCEPT ![f] =
                        IF f = "vega_ant_status" THEN NoValue ELSE Measured(f)]
       \/ Fails /\ payload' = [payload EXCEPT ![f] = Missing(f)]
    /\ UNCHANGED <<chipVars, bootVars, conversion_res, epoch_from>>

TimeIsWhole == \A f \in TimeFields : payload[f] # NoValue

\* update_epoch_time, when every field of the time has been read.
UpdateEpoch ==
    /\ Doing("epoch") /\ Works
    /\ epoch_from' = IF TimeIsWhole THEN [f \in TimeFields |-> payload[f]] ELSE epoch_from
    /\ UNCHANGED <<chipVars, bootVars, payload, conversion_res>>

\* config writes the settings; whether it could is not looked at.
Config ==
    /\ Doing("config") /\ (Works \/ Fails)
    /\ UNCHANGED <<chipVars, bootVars, payload, conversion_res, epoch_from>>

Calibrate == calibration' = TRUE

\* getCurrent_raw and getPower_raw calibrate first, and go on if that fails.
CalibrateStep ==
    /\ Doing("calibrate")
    /\ \/ Works /\ Calibrate /\ UNCHANGED disturbed
       \/ Fails /\ UNCHANGED calibration /\ disturbed' = TRUE
    /\ UNCHANGED <<registers, scratchpad, converting, clock, converted, recent, bootVars,
                   payload, conversion_res, epoch_from>>

\* ds18b20_read_temp waits a tenth of a second and reads what there is.
Temperatures ==
    /\ Doing("temperatures") /\ Works
    /\ payload' = [f \in DOMAIN payload |->
           IF f \notin Probes THEN payload[f]
           ELSE IF conversion_res THEN scratchpad[f] ELSE NoValue]
    /\ UNCHANGED <<chipVars, bootVars, conversion_res, epoch_from>>

\* send_telemetry and log_heartbeat_tlm take a copy.
Send ==
    /\ Doing("send") /\ Works
    /\ payload' = Nothing /\ conversion_res' = FALSE
    /\ UNCHANGED <<chipVars, bootVars, epoch_from>>

JobStep ==
    /\ \/ BootCount \/ Convert \/ (\E f \in Registers : Read(f)) \/ UpdateEpoch
       \/ Config \/ CalibrateStep \/ Temperatures \/ Send
    /\ step' = IF step = Len(Steps) THEN 0 ELSE step + 1
    /\ UNCHANGED <<beat, boots, sets>>

\* ------------------------------------------------------------ around the job

\* A probe takes three quarters of a second to measure.
ProbeDone ==
    \E p \in converting :
        /\ converting' = converting \ {p}
        /\ scratchpad' = [scratchpad EXCEPT ![p] = converted]
        /\ UNCHANGED <<jobVars, registers, calibration, clock, converted, recent, disturbed,
                       bootVars, failures, boots, sets>>

\* The current monitor loses its supply, and its settings.
Brownout ==
    /\ Fails /\ calibration
    /\ calibration' = FALSE /\ disturbed' = TRUE
    /\ UNCHANGED <<jobVars, registers, scratchpad, converting, clock, converted, recent,
                   bootVars, boots, sets>>

\* The filesystem task deletes boot.bin, or empties it and writes the number.
FilesystemStep ==
    /\ boot_writes # <<>>
    /\ IF Head(boot_writes) >= 0 /\ boot_bin # HalfFile
       THEN boot_bin' = HalfFile /\ UNCHANGED boot_writes
       ELSE boot_bin' = Head(boot_writes) /\ boot_writes' = Tail(boot_writes)
    /\ UNCHANGED <<jobVars, chipVars, bootcount, bootcountset, settled, count_lost, failures,
                   boots, sets>>

HeartbeatReset ==
    /\ boots < MaxBoots /\ boots' = boots + 1
    /\ step' = 0 /\ payload' = Nothing /\ conversion_res' = FALSE
    /\ bootcount' = 0 /\ bootcountset' = FALSE /\ boot_writes' = <<>>
    /\ settled' = IF bootcountset /\ boot_writes = <<>> THEN settled \cup {bootcount} ELSE settled
    /\ UNCHANGED <<beat, epoch_from, chipVars, boot_bin, count_lost, failures, sets>>

HeartbeatNext ==
    \/ Begin \/ JobStep \/ SetRtc \/ ProbeDone \/ Brownout \/ FilesystemStep \/ HeartbeatReset

HeartbeatSpec == HeartbeatInit /\ [][HeartbeatNext]_heartbeatVars

\* ---------------------------------------------------------------- properties

\* What a field may hold: most were measured in this heartbeat or say that they could not
\* be; a current or a power may lack its calibration, if that was disturbed; rtcTemp,
\* which is left as it was when it cannot be read, and vega_ant_status, whose reads are
\* taken for failures and the other way round, may hold what was on the stack.
MayHold(f) ==
    CASE f = "rtcTemp" -> {beat, LeftOver}
      [] f = "vega_ant_status" -> {NoValue, LeftOver}
      [] f \in Calibrated /\ disturbed -> {beat, NoValue, Garbled}
      [] OTHER -> {beat, NoValue}

FieldsHeld == \A f \in Calibrated \cup Others : payload[f] \in MayHold(f)

\* The time is the one the clock was set to, whatever registers could not be set.
ClockReadRight == \A f \in TimeFields : payload[f] \in {clock[f], NoValue}

\* A temperature is of this heartbeat's conversion, or of one that no probe has outlived:
\* the one before, if conversions have the time to end between heartbeats.
TemperaturesRecent == \A p \in Probes : payload[p] \in {NoValue} \cup recent

\* No sentinel goes into the epoch time.
EpochIsWhole == \A f \in TimeFields : epoch_from[f] # NoValue

\* What a heartbeat holds when it is sent, whichever reads failed in it
\* (heartbeat_job.c:71-235): the battery, the voltages and the magnetometer hold values
\* of this heartbeat or say they could not be read, currents and powers do unless their
\* calibration was disturbed, the time is the clock's, the temperatures are recent, and
\* the epoch time was taken from a time that was read whole.  Two fields may hold
\* garbage (MayHold); that is what ErrorsAreMarked is about.
ReportedAsRead ==
    Doing("send") => FieldsHeld /\ ClockReadRight /\ TemperaturesRecent /\ EpochIsWhole

\* Every field was measured in this heartbeat, or says that it could not be: DOCS.md:234
\* has "telemetry points that might return errors in their acquirement" set to their
\* maximum values.  But heartbeat_job.c:117 leaves rtcTemp as it is, vega_ant.c:17 takes
\* a read that failed for one that worked, and ina219.c:186-230 do not look at whether
\* the calibration was written.
ErrorsAreMarked ==
    Doing("send") =>
        ClockReadRight /\ \A f \in Calibrated \cup Others : payload[f] \in {beat, NoValue}

\* No two boots report the same number once the number of the first is on disk, unless
\* boot.bin was cut short or could not be read (heartbeat_job.c:29-54).
BootsHaveOwnNumber == bootcountset /\ ~count_lost => bootcount \notin settled
=============================================================================
