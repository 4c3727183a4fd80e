------------------------- MODULE HeartbeatJobProofs -------------------------
(***************************************************************************)
(* Theorems about HeartbeatJob, for any number of heartbeats, resets and   *)
(* failures, and any times the ground may set.                             *)
(***************************************************************************)
EXTENDS HeartbeatJob, TLAPS

BootTypeInv ==
    /\ bootcount \in Nat /\ bootcountset \in BOOLEAN /\ count_lost \in BOOLEAN
    /\ boot_bin \in Nat \cup {NoFile, HalfFile}
    /\ boot_writes \in Seq(Nat \cup {NoFile})
    /\ settled \subseteq Nat

\* Until the count is lost, boot.bin holds no less than any number that was ever on it,
\* and the present number is more than those of earlier boots and on its way there.
CountInv ==
    ~count_lost =>
        /\ boot_bin = NoFile => settled = {}
        /\ boot_bin \in Nat => \A n \in settled : n <= boot_bin
        /\ bootcountset => \A n \in settled : n < bootcount
        /\ bootcountset => boot_writes = <<bootcount>> \/ (boot_writes = <<>> /\ boot_bin = bootcount)
        /\ ~bootcountset => boot_writes = <<>>

\* The inductive invariant.
IInv == BootTypeInv /\ CountInv

-----------------------------------------------------------------------------

\* What may go to boot.bin when it holds no number that can be read.
CountsFromZero == {<<0>>} \cup (IF boot_bin = NoFile THEN {} ELSE {<<NoFile, 0>>})

\* No other step touches the count.
LEMMA OtherIInv ==
    ASSUME IInv, UNCHANGED bootVars
    PROVE  IInv'
BY DEF IInv, BootTypeInv, CountInv, bootVars

\* The first heartbeat of a boot keeps it: it reads boot.bin and asks for a write.
LEMMA BootCountIInv ==
    ASSUME IInv, BootCount
    PROVE  IInv'
<1>1. CASE bootcountset
  <2>1. UNCHANGED bootVars
    BY <1>1, Zenon DEF BootCount
  <2> QED BY <2>1, OtherIInv
<1>2. ASSUME ~bootcountset, bootcountset', UNCHANGED <<boot_bin, settled>>, boot_bin >= 0,
             bootcount' = boot_bin + 1, boot_writes' = Counted, UNCHANGED count_lost,
             bootcountset' \in BOOLEAN
      PROVE  IInv'
  BY <1>2 DEF Counted, IInv, BootTypeInv, CountInv, NoFile, HalfFile
<1>3. ASSUME ~bootcountset, bootcountset', UNCHANGED <<boot_bin, settled>>, bootcount' = 0,
             boot_writes' \in CountsFromZero,
             count_lost' = (count_lost \/ boot_bin # NoFile), bootcountset' \in BOOLEAN
      PROVE  IInv'
  <2>1. boot_bin # NoFile => count_lost'
    BY <1>3, Zenon
  <2>2. BootTypeInv'
    <3>1. count_lost' \in BOOLEAN
      BY <1>3, Zenon DEF IInv, BootTypeInv
    <3>2. boot_writes' \in Seq(Nat \cup {NoFile})
      <4>1. boot_writes' = <<0>> \/ boot_writes' = <<NoFile, 0>>
        BY <1>3, Zenon DEF CountsFromZero
      <4>2. <<0>> \in Seq(Nat \cup {NoFile}) /\ <<NoFile, 0>> \in Seq(Nat \cup {NoFile})
        OBVIOUS
      <4> QED BY <4>1, <4>2, Zenon
    <3> QED BY <1>3, <3>1, <3>2 DEF IInv, BootTypeInv
  <2>3. CASE boot_bin = NoFile
    <3>1. count_lost \in BOOLEAN /\ (~count_lost' => ~count_lost)
      BY <1>3, Zenon DEF IInv, BootTypeInv
    <3> QED BY <1>3, <2>2, <2>3, <3>1 DEF IInv, CountInv, CountsFromZero, NoFile
  <2>4. CASE boot_bin # NoFile
    BY <2>1, <2>2, <2>4 DEF IInv, CountInv
  <2> QED BY <2>3, <2>4
<1>4. ASSUME ~bootcountset PROVE IInv'
  <2>1. bootcountset' /\ bootcountset' \in BOOLEAN /\ UNCHANGED <<boot_bin, settled>>
    BY <1>4, Zenon DEF BootCount
  <2> QED BY <1>2, <1>3, <1>4, <2>1, Zenon DEF BootCount, CountsFromZero
<1> QED BY <1>1, <1>4

\* The filesystem task's steps keep it: boot.bin goes, is empty, or has the number.
LEMMA FilesystemIInv ==
    ASSUME IInv, FilesystemStep
    PROVE  IInv'
<1> DEFINE first == Head(boot_writes)
<1>1. boot_writes \in Seq(Nat \cup {NoFile}) /\ boot_writes # <<>>
  BY DEF IInv, BootTypeInv, FilesystemStep
<1>2. first \in Nat \cup {NoFile} /\ Tail(boot_writes) \in Seq(Nat \cup {NoFile})
  BY <1>1
<1>3. UNCHANGED <<bootcount, bootcountset, settled, count_lost>>
  BY DEF FilesystemStep
<1>4. \/ boot_bin' = HalfFile /\ UNCHANGED boot_writes
      \/ boot_bin' = first /\ boot_writes' = Tail(boot_writes)
  BY DEF FilesystemStep
<1>5. BootTypeInv'
  BY <1>1, <1>2, <1>3, <1>4 DEF IInv, BootTypeInv
<1>6. CountInv'
  <2>1. SUFFICES ASSUME ~count_lost PROVE CountInv'
    BY <1>3 DEF CountInv
  <2>2. bootcountset /\ boot_writes = <<bootcount>> /\ \A n \in settled : n < bootcount
    BY <1>1, <2>1 DEF IInv, CountInv, BootTypeInv
  <2>3. first = bootcount /\ Tail(boot_writes) = <<>>
    BY <2>2
  <2>4. bootcount \in Nat /\ settled \subseteq Nat
    BY DEF IInv, BootTypeInv
  <2>5. CASE boot_bin' = HalfFile /\ UNCHANGED boot_writes
    BY <1>3, <2>2, <2>4, <2>5 DEF CountInv, NoFile, HalfFile
  <2>6. CASE boot_bin' = first /\ boot_writes' = Tail(boot_writes)
    BY <1>3, <2>2, <2>3, <2>4, <2>6 DEF CountInv, NoFile
  <2> QED BY <1>4, <2>5, <2>6
<1> QED BY <1>5, <1>6 DEF IInv

\* So does a reset: a number that is on disk joins those of earlier boots.
LEMMA ResetIInv ==
    ASSUME IInv, HeartbeatReset
    PROVE  IInv'
<1>1. /\ bootcount' = 0 /\ bootcountset' = FALSE /\ boot_writes' = <<>>
      /\ UNCHANGED <<boot_bin, count_lost>>
  BY DEF HeartbeatReset
<1>2. count_lost \in BOOLEAN /\ bootcountset \in BOOLEAN /\ bootcount \in Nat
      /\ settled \subseteq Nat /\ boot_bin \in Nat \cup {NoFile, HalfFile}
  BY DEF IInv, BootTypeInv
<1>3. settled' = settled \/ (/\ settled' = settled \cup {bootcount}
                            /\ bootcountset /\ boot_writes = <<>>)
  BY Zenon DEF HeartbeatReset
<1>4. BootTypeInv'
  <2>1. settled' \subseteq Nat
    BY <1>2, <1>3
  <2>2. count_lost' \in BOOLEAN /\ bootcountset' \in BOOLEAN
    BY <1>1, <1>2, Zenon
  <2>3. boot_writes' \in Seq(Nat \cup {NoFile})
    BY <1>1
  <2> QED BY <1>1, <1>2, <2>1, <2>2, <2>3 DEF BootTypeInv
<1>5. CountInv'
  <2>1. SUFFICES ASSUME ~count_lost PROVE CountInv'
    BY <1>1, Zenon DEF CountInv
  <2>2. /\ boot_bin = NoFile => settled = {}
        /\ boot_bin \in Nat => \A n \in settled : n <= boot_bin
        /\ bootcountset /\ boot_writes = <<>> => boot_bin = bootcount
    BY <2>1 DEF IInv, CountInv
  <2>3. /\ boot_bin' = NoFile => settled' = {}
        /\ boot_bin' \in Nat => \A n \in settled' : n <= boot_bin'
    <3>1. CASE settled' = settled
      BY <1>1, <2>2, <3>1, Zenon
    <3>2. CASE settled' = settled \cup {bootcount} /\ boot_bin = bootcount
      BY <1>1, <1>2, <2>2, <3>2 DEF NoFile
    <3> QED BY <1>3, <2>2, <3>1, <3>2, Zenon
  <2> QED BY <1>1, <2>3, Zenon DEF CountInv
<1> QED BY <1>4, <1>5 DEF IInv

\* No two boots whose numbers reached the disk report the same one, however often the
\* board is reset, unless boot.bin was cut short or could not be read
\* (heartbeat_telemetry_job).
THEOREM BootsTellApart == HeartbeatSpec => []BootsHaveOwnNumber
<1>1. HeartbeatInit => IInv
  <2>1. ASSUME HeartbeatInit PROVE IInv
    <3>1. /\ bootcount = 0 /\ bootcountset = FALSE /\ boot_bin = NoFile /\ boot_writes = <<>>
          /\ settled = {} /\ count_lost = FALSE
      BY <2>1 DEF HeartbeatInit
    <3>2. bootcountset \in BOOLEAN /\ count_lost \in BOOLEAN
      BY <3>1, Zenon
    <3>3. BootTypeInv
      BY <3>1, <3>2 DEF BootTypeInv, NoFile
    <3>4. CountInv
      BY <3>1 DEF CountInv, NoFile
    <3> QED BY <3>3, <3>4 DEF IInv
  <2> QED BY <2>1
<1>2. IInv /\ [HeartbeatNext]_heartbeatVars => IInv'
  <2>1. ASSUME IInv, JobStep PROVE IInv'
    <3>1. CASE BootCount
      BY <2>1, <3>1, BootCountIInv
    <3>2. CASE UNCHANGED bootVars
      BY <2>1, <3>2, OtherIInv
    <3>3. BootCount \/ UNCHANGED bootVars
      BY <2>1 DEF JobStep, Convert, Read, UpdateEpoch, Config, CalibrateStep, Temperatures, Send
    <3> QED BY <3>1, <3>2, <3>3
  <2>2. ASSUME IInv, Begin \/ SetRtc \/ ProbeDone \/ Brownout PROVE IInv'
    BY <2>2, OtherIInv DEF Begin, SetRtc, ProbeDone, Brownout
  <2>3. ASSUME IInv, UNCHANGED heartbeatVars PROVE IInv'
    BY <2>3, OtherIInv DEF heartbeatVars
  <2> QED BY <2>1, <2>2, <2>3, FilesystemIInv, ResetIInv DEF HeartbeatNext
<1>3. IInv => BootsHaveOwnNumber
  BY DEF IInv, BootTypeInv, CountInv, BootsHaveOwnNumber
<1> QED BY <1>1, <1>2, <1>3, PTL DEF HeartbeatSpec
-----------------------------------------------------------------------------
(* What the heartbeat says. *)

\* rtc_set_time wants a time of a calendar, its hour "in 24h time" (rtc_ds3231.c:25);
\* nobody tests the ground's for that.
GivenIn24h == \A t \in Times : t["hour"] < 24 /\ t["month"] <= 12

\* What FieldsHeld speaks of.
Fields == Calibrated \cup Others

ReportTypeInv ==
    /\ step \in 0..26
    /\ beat \in Nat
    /\ payload = [f \in Registers \cup Probes |-> payload[f]]
    /\ converting \subseteq Probes
    /\ scratchpad = [p \in Probes |-> scratchpad[p]]

\* The fields that have been read so far hold what the report may say.
FieldInv == \A k \in 1..26 : k < step /\ Steps[k] \in Fields => payload[Steps[k]] \in MayHold(Steps[k])

\* The two fields that may keep what they hold have not been written before they are read.
LeftInv ==
    /\ step <= 11 => payload["rtcTemp"] = LeftOver
    /\ step <= 24 => payload["vega_ant_status"] = LeftOver

\* A current or a power is read behind a calibration, or something has gone wrong.
CalibrationInv == step > 0 /\ Steps[step] \in Calibrated => calibration \/ disturbed

\* A probe that has finished has the measurement of the last conversion, any other one
\* that no probe has outlived.
ProbeInv ==
    /\ converted \in recent
    /\ \A p \in Probes :
           scratchpad[p] \in recent /\ (p \notin converting => scratchpad[p] = converted)
    /\ step = 26 => TemperaturesRecent

\* The registers of the clock read as what they were set to.
RegisterInv == \A f \in TimeFields : Decode(f, registers[f]) = clock[f]
TimeInv == \A k \in 1..26 : k < step /\ Steps[k] \in TimeFields => payload[Steps[k]] \in {clock[Steps[k]], NoValue}

\* The inductive invariant, in two parts: all but the clock's, and the clock's.
ReportInv == ReportTypeInv /\ FieldInv /\ LeftInv /\ CalibrationInv /\ ProbeInv /\ EpochIsWhole
ClockInv == RegisterInv /\ TimeInv

\* A time that is encoded and decoded is the time.
LEMMA DecodeEncode ==
    ASSUME NEW f \in TimeFields, NEW v \in 0..99, f = "hour" => v < 24, f = "month" => v <= 12
    PROVE  Decode(f, Encode(v)) = v
<1> DEFINE q == v \div 10
           r == v % 10
           byte == Encode(v)
<1>1. q \in 0..9 /\ r \in 0..9 /\ v = (10 * q) + r
  OBVIOUS
<1>2. byte = (16 * q) + r
  <2>1. byte = ((q * 16) % 256) + r
    BY DEF Encode
  <2> HIDE DEF byte, q, r
  <2> QED BY <1>1, <2>1
<1> HIDE DEF q, r, byte
<1>3. byte % 16 = r /\ byte \div 16 = q
  BY <1>1, <1>2
<1>4. CASE f = "hour"
  <2>1. q \in 0..2
    BY <1>1, <1>4
  <2>2. Bit(byte, 64) = 0 /\ Bit(byte, 16) = q % 2 /\ Bit(byte, 32) = q \div 2
    BY <1>1, <1>2, <1>3, <2>1 DEF Bit
  <2>3. Decode(f, byte) = (r + 10 * Bit(byte, 16) + 20 * Bit(byte, 32)) % 24
    BY <1>3, <1>4, <2>2 DEF Decode
  <2>4. (r + 10 * (q % 2) + 20 * (q \div 2)) % 24 = v
    BY <1>1, <1>4, <2>1
  <2> QED BY <2>2, <2>3, <2>4 DEF byte
<1>5. CASE f = "month"
  <2>1. q \in 0..1
    BY <1>1, <1>5
  <2>2. Bit(byte, 16) = q
    BY <1>3, <2>1 DEF Bit
  <2>3. Decode(f, byte) = r + 10 * q
    BY <1>3, <1>5, <2>2 DEF Decode
  <2> QED BY <1>1, <2>1, <2>3 DEF byte
<1>6. CASE f # "hour" /\ f # "month"
  <2>1. Decode(f, byte) = r + 10 * q
    BY <1>3, <1>6 DEF Decode
  <2> QED BY <1>1, <2>1 DEF byte
<1> QED BY <1>4, <1>5, <1>6

\* The places at which the job reads what the drivers give it.
LEMMA StepNames ==
    /\ Len(Steps) = 26
    /\ \A f \in Fields \cup TimeFields : \E k \in 1..25 : Steps[k] = f
    /\ Steps[26] = "send" /\ \A k \in 1..26 : Steps[k] = "send" => k = 26
    /\ \A k \in 1..26 : Steps[k] = "temperatures" => k = 25
    /\ \A k \in 1..25 : Steps[k] # "temperatures" => k + 1 # 26
    /\ \A k \in 1..25 : Steps[k] = "calibrate" <=> Steps[k + 1] \in Calibrated
    /\ Steps[1] \notin Calibrated
    /\ \A k \in 1..26 : (Steps[k] = "rtcTemp" <=> k = 11) /\ (Steps[k] = "vega_ant_status" <=> k = 24)
<1>1. Len(Steps) = 26 /\ Steps[26] = "send" /\ Steps[1] \notin Calibrated
  BY DEF Steps, Calibrated
<1>2. \A k \in 1..26 : (Steps[k] = "send" => k = 26) /\ (Steps[k] = "temperatures" => k = 25)
  BY DEF Steps
<1>3. \A k \in 1..25 : Steps[k] # "temperatures" => k + 1 # 26
  BY DEF Steps
<1>4. \A k \in 1..25 : Steps[k] = "calibrate" <=> Steps[k + 1] \in Calibrated
  BY DEF Steps, Calibrated
<1>8. \A k \in 1..26 : (Steps[k] = "rtcTemp" <=> k = 11) /\ (Steps[k] = "vega_ant_status" <=> k = 24)
  BY DEF Steps
<1>5. /\ Steps[3] = "max17048Voltage" /\ Steps[4] = "max17048Percentage"
      /\ Steps[5] = "hour" /\ Steps[6] = "minute" /\ Steps[7] = "second"
      /\ Steps[8] = "month" /\ Steps[9] = "date" /\ Steps[10] = "year"
      /\ Steps[14] = "shunt" /\ Steps[15] = "vbus" /\ Steps[17] = "current" /\ Steps[19] = "power"
      /\ Steps[20] = "mag_x" /\ Steps[21] = "mag_y" /\ Steps[22] = "mag_z" /\ Steps[23] = "mag_temp"
      /\ Steps[11] = "rtcTemp" /\ Steps[24] = "vega_ant_status"
  BY DEF Steps
<1>6. TimeFields = {"second", "minute", "hour", "date", "month", "year"}
  BY DEF TimeFields, Units
<1>7. ASSUME NEW f \in Fields \cup TimeFields PROVE \E k \in 1..25 : Steps[k] = f
  <2>1. f \in {"max17048Voltage", "max17048Percentage", "hour", "minute", "second", "month", "date",
               "year", "shunt", "vbus", "current", "power", "mag_x", "mag_y", "mag_z", "mag_temp",
               "rtcTemp", "vega_ant_status"}
    BY <1>6 DEF Fields, Calibrated, Others, BatteryGauge, Uncalibrated, Magnetometer
  <2> QED BY <1>5, <2>1
<1> QED BY <1>1, <1>2, <1>3, <1>4, <1>7, <1>8

\* Of all steps of the job only a read touches the field of its name, and only "send"
\* and "temperatures" touch others.
LEMMA ReadsAreReads ==
    ASSUME JobStep, NEW f \in Fields \cup TimeFields, Steps[step] = f
    PROVE  Read(f)
<1>1. f \notin {"boot_count", "convert", "epoch", "config", "calibrate", "temperatures", "send"}
  BY DEF Fields, Calibrated, Others, BatteryGauge, Uncalibrated, Magnetometer, TimeFields, Units
<1>2. \E g \in Registers : Read(g)
  BY <1>1 DEF JobStep, Doing, BootCount, Convert, UpdateEpoch, Config, CalibrateStep, Temperatures, Send
<1>3. PICK g \in Registers : Read(g)
  BY <1>2
<1>4. Steps[step] = g
  BY <1>3 DEF Read, Doing
<1> QED BY <1>3, <1>4

\* A step that is not the last leaves what was read into the payload before.
LEMMA FieldsRest ==
    ASSUME ReportTypeInv, JobStep, step # 26, NEW f \in Fields \cup TimeFields, Steps[step] # f
    PROVE  payload'[f] = payload[f]
<1>1. f \in Registers /\ f \notin Probes
  BY HeartbeatAssumption DEF Fields, Registers
<1>2. ~Send
  <2>1. step \in 1..26 \/ step = 0
    BY DEF ReportTypeInv
  <2> QED BY <2>1, StepNames DEF Send, Doing
<1>3. CASE UNCHANGED payload
  BY <1>3
<1>4. ASSUME NEW g \in Registers, Read(g) PROVE payload'[f] = payload[f]
  <2>1. g # f
    BY <1>4 DEF Read, Doing
  <2> QED BY <1>1, <1>4, <2>1 DEF Read, ReportTypeInv
<1>5. CASE Temperatures
  <2>1. f \in DOMAIN payload
    BY <1>1 DEF ReportTypeInv
  <2> QED BY <1>1, <1>5, <2>1 DEF Temperatures
<1> QED BY <1>2, <1>3, <1>4, <1>5 DEF JobStep, BootCount, Convert, UpdateEpoch, Config, CalibrateStep

\* A step of the job keeps the types.
LEMMA JobTypes ==
    ASSUME ReportTypeInv, JobStep
    PROVE  ReportTypeInv' /\ step \in 1..26 /\ (step # 26 => step' = step + 1) /\ (step = 26 => step' = 0)
<1>1. step \in 1..26
  <2>1. step > 0
    BY Zenon DEF JobStep, Doing, BootCount, Convert, Read, UpdateEpoch, Config, CalibrateStep, Temperatures, Send
  <2> QED BY <2>1 DEF ReportTypeInv
<1>2. step' = IF step = 26 THEN 0 ELSE step + 1
  BY StepNames DEF JobStep
<1>3. beat' = beat /\ beat \in Nat
  BY DEF JobStep, ReportTypeInv
<1>4. payload' = [f \in Registers \cup Probes |-> payload'[f]]
  <2>1. payload = [f \in Registers \cup Probes |-> payload[f]]
    BY DEF ReportTypeInv
  <2>2. CASE UNCHANGED payload
    BY <2>1, <2>2
  <2>3. ASSUME NEW f \in Registers, Read(f) PROVE payload' = [g \in Registers \cup Probes |-> payload'[g]]
    BY <2>1, <2>3 DEF Read
  <2>4. CASE Temperatures
    BY <2>1, <2>4 DEF Temperatures
  <2>5. CASE Send
    BY <2>5 DEF Send, Nothing
  <2> QED BY <2>2, <2>3, <2>4, <2>5 DEF JobStep, BootCount, Convert, UpdateEpoch, Config, CalibrateStep
<1>5. converting' \subseteq Probes /\ scratchpad' = scratchpad
  BY DEF JobStep, BootCount, Convert, Read, UpdateEpoch, Config, CalibrateStep, Temperatures, Send,
         chipVars, started, ReportTypeInv
<1> QED BY <1>1, <1>2, <1>3, <1>4, <1>5 DEF ReportTypeInv

\* A step of the job keeps what the report is made of.
LEMMA JobReports ==
    ASSUME ReportInv, JobStep
    PROVE  ReportInv'
<1>1. /\ ReportTypeInv /\ ReportTypeInv' /\ step \in 1..26
      /\ step # 26 => step' = step + 1
      /\ step = 26 => step' = 0
  BY JobTypes DEF ReportInv
<1>2. beat' = beat /\ (disturbed => disturbed')
  BY DEF JobStep, BootCount, Convert, Read, UpdateEpoch, Config, CalibrateStep, Temperatures, Send, chipVars
<1>3. FieldInv'
  <2>1. SUFFICES ASSUME NEW k \in 1..26, k < step', Steps[k] \in Fields
                 PROVE  payload'[Steps[k]] \in MayHold(Steps[k])'
    BY DEF FieldInv
  <2>2. step # 26 /\ k <= step
    BY <1>1, <2>1
  <2>3. MayHold(Steps[k]) \subseteq MayHold(Steps[k])'
    BY <1>2 DEF MayHold
  <2>4. CASE Steps[k] # Steps[step]
    <3>1. k < step
      BY <1>1, <2>2, <2>4
    <3>2. payload[Steps[k]] \in MayHold(Steps[k])
      BY <2>1, <3>1 DEF ReportInv, FieldInv
    <3>3. payload'[Steps[k]] = payload[Steps[k]]
      BY <1>1, <2>1, <2>2, <2>4, FieldsRest
    <3> QED BY <2>3, <3>2, <3>3
  <2>5. CASE Steps[k] = Steps[step]
    <3>1. Read(Steps[k])
      BY <2>1, <2>5, ReadsAreReads
    <3>2. Steps[k] \in Registers /\ Steps[k] \notin TimeFields
      BY <2>1 DEF Fields, Registers, Calibrated, Others, BatteryGauge, Uncalibrated, Magnetometer,
                  TimeFields, Units
    <3>3. CASE Steps[k] = "rtcTemp"
      <4>3. step = 11
        <5>1. step \in 1..26 /\ Steps[step] = "rtcTemp"
          BY <1>1, <2>5, <3>3
        <5> QED BY <5>1, StepNames, Zenon
      <4>1. payload["rtcTemp"] = LeftOver
        BY <4>3 DEF ReportInv, LeftInv
      <4>2. payload'["rtcTemp"] = beat \/ payload'["rtcTemp"] = payload["rtcTemp"]
        BY <1>1, <3>1, <3>2, <3>3 DEF Read, ReportTypeInv, Measured, Missing, Calibrated, TimeFields, Units
      <4>4. MayHold(Steps[k]) = {beat, LeftOver}
        BY <3>3 DEF MayHold, Calibrated
      <4> QED BY <2>3, <3>3, <4>1, <4>2, <4>4
    <3>4. CASE Steps[k] = "vega_ant_status"
      <4>3. step = 24
        <5>1. step \in 1..26 /\ Steps[step] = "vega_ant_status"
          BY <1>1, <2>5, <3>4
        <5> QED BY <5>1, StepNames, Zenon
      <4>1. payload["vega_ant_status"] = LeftOver
        BY <4>3 DEF ReportInv, LeftInv
      <4>2. \/ payload'["vega_ant_status"] = NoValue
            \/ payload'["vega_ant_status"] = payload["vega_ant_status"]
        BY <1>1, <3>1, <3>2, <3>4 DEF Read, ReportTypeInv, Missing
      <4>4. MayHold(Steps[k]) = {NoValue, LeftOver}
        BY <3>4 DEF MayHold, Calibrated
      <4> QED BY <2>3, <3>4, <4>1, <4>2, <4>4
    <3>5. CASE Steps[k] \notin {"rtcTemp", "vega_ant_status"}
      <4>1. payload'[Steps[k]] = Measured(Steps[k]) \/ payload'[Steps[k]] = Missing(Steps[k])
        BY <1>1, <3>1, <3>2, <3>5 DEF Read, ReportTypeInv
      <4>2. Missing(Steps[k]) \in MayHold(Steps[k])
        BY <3>5 DEF Missing, MayHold
      <4>3. Measured(Steps[k]) \in MayHold(Steps[k])
        <5>1. CASE Steps[k] \in Calibrated
          <6>1. calibration \/ disturbed
            BY <1>1, <2>5, <5>1 DEF ReportInv, CalibrationInv
          <6> QED BY <3>2, <3>5, <5>1, <6>1 DEF Measured, MayHold
        <5>2. CASE Steps[k] \notin Calibrated
          BY <3>2, <3>5, <5>2 DEF Measured, MayHold
        <5> QED BY <5>1, <5>2
      <4> QED BY <2>3, <4>1, <4>2, <4>3
    <3> QED BY <3>3, <3>4, <3>5
  <2> QED BY <2>4, <2>5
<1>7. LeftInv'
  <2>1. CASE step = 26
    <3>1. Send
      <4>1. Steps[step] = "send" /\ "send" \notin Registers
        BY <2>1, StepNames DEF Registers, Calibrated, Others, BatteryGauge, Uncalibrated, Magnetometer,
                               TimeFields, Units
      <4> QED BY <4>1 DEF JobStep, Doing, BootCount, Convert, Read, UpdateEpoch, Config, CalibrateStep,
                          Temperatures
    <3> QED BY <3>1 DEF Send, Nothing, LeftInv, Registers, Others
  <2>2. ASSUME step # 26, NEW f \in {"rtcTemp", "vega_ant_status"}, Steps[step] # f
        PROVE  payload'[f] = payload[f]
    <3>1. f \in Fields
      BY <2>2 DEF Fields, Others
    <3> QED BY <1>1, <2>2, <3>1, FieldsRest
  <2>3. ASSUME step # 26, step' <= 11 PROVE payload'["rtcTemp"] = LeftOver
    <3>1. step <= 11 /\ step # 11
      BY <1>1, <2>3
    <3>2. Steps[step] # "rtcTemp"
      BY <1>1, <3>1, StepNames
    <3> QED BY <2>2, <2>3, <3>1, <3>2 DEF ReportInv, LeftInv
  <2>4. ASSUME step # 26, step' <= 24 PROVE payload'["vega_ant_status"] = LeftOver
    <3>1. step <= 24 /\ step # 24
      BY <1>1, <2>4
    <3>2. Steps[step] # "vega_ant_status"
      BY <1>1, <3>1, StepNames
    <3> QED BY <2>2, <2>4, <3>1, <3>2 DEF ReportInv, LeftInv
  <2> QED BY <2>1, <2>3, <2>4 DEF LeftInv
<1>4. CalibrationInv'
  <2>1. SUFFICES ASSUME step' > 0, Steps[step'] \in Calibrated PROVE calibration' \/ disturbed'
    BY DEF CalibrationInv
  <2>2. step \in 1..25 /\ Steps[step] = "calibrate"
    <3>1. step \in 1..25 /\ step' = step + 1
      BY <1>1, <2>1
    <3> QED BY <2>1, <3>1, StepNames
  <2>3. CalibrateStep
    <3>1. "calibrate" \notin Registers
      BY DEF Registers, Calibrated, Others, BatteryGauge, Uncalibrated, Magnetometer, TimeFields, Units
    <3> QED BY <2>2, <3>1 DEF JobStep, Doing, BootCount, Convert, Read, UpdateEpoch, Config, Temperatures, Send
  <2> QED BY <2>3 DEF CalibrateStep, Calibrate
<1>5. ProbeInv'
  <2>1. /\ converted' \in recent'
        /\ \A p \in Probes :
               scratchpad'[p] \in recent' /\ (p \notin converting' => scratchpad'[p] = converted')
    <3>1. CASE Convert
      <4>1. CASE UNCHANGED <<scratchpad, converting, converted, recent>>
        BY <4>1 DEF ReportInv, ProbeInv
      <4>2. ASSUME converting' = started, converted' = beat, UNCHANGED scratchpad,
                   recent' = (IF converting = {} THEN {converted} ELSE recent) \cup {beat}
            PROVE  /\ converted' \in recent'
                   /\ \A p \in Probes : scratchpad'[p] \in recent' /\ p \in converting'
        BY <4>2 DEF started, ReportInv, ProbeInv
      <4> QED BY <3>1, <4>1, <4>2 DEF Convert
    <3>2. CASE UNCHANGED <<scratchpad, converting, converted, recent>>
      BY <3>2 DEF ReportInv, ProbeInv
    <3> QED BY <3>1, <3>2 DEF JobStep, BootCount, Read, UpdateEpoch, Config, CalibrateStep, Temperatures,
                             Send, chipVars
  <2>2. ASSUME step' = 26 PROVE TemperaturesRecent'
    <3>1. step \in 1..25 /\ Steps[step] = "temperatures"
      <4>1. step \in 1..25 /\ step + 1 = 26
        BY <1>1, <2>2
      <4> QED BY <4>1, StepNames
    <3>2. Temperatures
      <4>1. "temperatures" \notin Registers
        BY DEF Registers, Calibrated, Others, BatteryGauge, Uncalibrated, Magnetometer, TimeFields, Units
      <4> QED BY <3>1, <4>1 DEF JobStep, Doing, BootCount, Convert, Read, UpdateEpoch, Config, CalibrateStep, Send
    <3>3. ASSUME NEW p \in Probes PROVE payload'[p] \in {NoValue} \cup recent'
      <4>1. p \in DOMAIN payload
        BY <1>1 DEF ReportTypeInv
      <4>2. payload'[p] = IF conversion_res THEN scratchpad[p] ELSE NoValue
        BY <3>2, <4>1 DEF Temperatures
      <4>3. recent' = recent
        BY <3>2 DEF Temperatures, chipVars
      <4> QED BY <4>2, <4>3 DEF ReportInv, ProbeInv
    <3> QED BY <3>3 DEF TemperaturesRecent
  <2> QED BY <2>1, <2>2 DEF ProbeInv
<1>6. EpochIsWhole'
  <2>1. CASE UpdateEpoch
    BY <2>1 DEF UpdateEpoch, TimeIsWhole, EpochIsWhole, ReportInv
  <2>2. CASE UNCHANGED epoch_from
    BY <2>2 DEF EpochIsWhole, ReportInv
  <2> QED BY <2>1, <2>2 DEF JobStep, BootCount, Convert, Read, Config, CalibrateStep, Temperatures, Send
<1> QED BY <1>1, <1>3, <1>4, <1>5, <1>6, <1>7 DEF ReportInv

\* A step of the job keeps what it has read of the time.
LEMMA JobReadsClock ==
    ASSUME ReportInv, ClockInv, JobStep
    PROVE  ClockInv'
<1>1. /\ ReportTypeInv /\ step \in 1..26
      /\ step # 26 => step' = step + 1
      /\ step = 26 => step' = 0
  BY JobTypes DEF ReportInv
<1>2. UNCHANGED <<registers, clock>>
  BY DEF JobStep, BootCount, Convert, Read, UpdateEpoch, Config, CalibrateStep, Temperatures, Send, chipVars
<1>3. RegisterInv'
  BY <1>2 DEF ClockInv, RegisterInv
<1>4. TimeInv'
  <2>1. SUFFICES ASSUME NEW k \in 1..26, k < step', Steps[k] \in TimeFields
                 PROVE  payload'[Steps[k]] \in {clock[Steps[k]], NoValue}
    BY <1>2 DEF TimeInv
  <2>2. step # 26 /\ k <= step
    BY <1>1, <2>1
  <2>3. CASE Steps[k] # Steps[step]
    <3>1. k < step
      BY <1>1, <2>2, <2>3
    <3>2. payload[Steps[k]] \in {clock[Steps[k]], NoValue}
      BY <2>1, <3>1 DEF ClockInv, TimeInv
    <3> QED BY <1>1, <2>1, <2>2, <2>3, <3>2, FieldsRest
  <2>4. CASE Steps[k] = Steps[step]
    <3> DEFINE f == Steps[k]
    <3>1. Read(f)
      BY <2>1, <2>4, ReadsAreReads
    <3>2. f \in Registers /\ f \notin {"rtcTemp", "vega_ant_status"} /\ f \in TimeFields
      BY <2>1 DEF Registers, TimeFields, Units
    <3>3. payload'[f] = Measured(f) \/ payload'[f] = Missing(f)
      BY <1>1, <3>1, <3>2 DEF Read, ReportTypeInv
    <3>4. Missing(f) = NoValue
      BY <3>2 DEF Missing
    <3>5. Measured(f) = Decode(f, registers[f])
      BY <3>2 DEF Measured, TimeFields, Units, Calibrated
    <3> QED BY <3>2, <3>3, <3>4, <3>5 DEF ClockInv, RegisterInv
  <2> QED BY <2>3, <2>4
<1> QED BY <1>3, <1>4 DEF ClockInv

\* Whatever happens around the job keeps what the report is made of: a heartbeat that
\* begins, a clock that is set, a probe that finishes, a supply that fails, a reset.
LEMMA AroundReports ==
    ASSUME ReportInv, Begin \/ SetRtc \/ ProbeDone \/ Brownout \/ FilesystemStep \/ HeartbeatReset
    PROVE  ReportInv'
<1> USE DEF ReportInv
<1>1. CASE Begin
  <2>1. step' = 1 /\ beat' = beat + 1 /\ UNCHANGED <<payload, converting, scratchpad, converted, recent, epoch_from>>
    BY <1>1 DEF Begin
  <2>2. ReportTypeInv' /\ FieldInv' /\ EpochIsWhole'
    BY <2>1 DEF ReportTypeInv, FieldInv, EpochIsWhole
  <2>5. LeftInv'
    <3>1. step = 0
      BY <1>1 DEF Begin
    <3> QED BY <2>1, <3>1 DEF LeftInv
  <2>3. CalibrationInv'
    BY <2>1, StepNames DEF CalibrationInv
  <2>4. ProbeInv'
    BY <2>1 DEF ProbeInv
  <2> QED BY <2>2, <2>3, <2>4, <2>5
<1>2. CASE SetRtc
  <2>1. step = 0 /\ step' = 0 /\ UNCHANGED <<beat, payload, converting, scratchpad, converted, recent>>
    BY <1>2 DEF SetRtc
  <2>2. EpochIsWhole'
    <3>1. UNCHANGED epoch_from \/ \E t \in Times : epoch_from' = t
      BY <1>2 DEF SetRtc
    <3>2. ASSUME NEW t \in Times, NEW f \in TimeFields PROVE t[f] # NoValue
      <4>1. t[f] \in 0..99
        BY <3>2, HeartbeatAssumption
      <4> QED BY <4>1 DEF NoValue
    <3> QED BY <3>1, <3>2 DEF EpochIsWhole
  <2>3. ReportTypeInv' /\ FieldInv' /\ LeftInv' /\ CalibrationInv' /\ ProbeInv'
    BY <2>1 DEF ReportTypeInv, FieldInv, LeftInv, CalibrationInv, ProbeInv
  <2> QED BY <2>2, <2>3
<1>3. CASE ProbeDone
  <2>1. PICK p \in converting : /\ converting' = converting \ {p}
                                /\ scratchpad' = [scratchpad EXCEPT ![p] = converted]
    BY <1>3 DEF ProbeDone
  <2>2. UNCHANGED <<step, beat, payload, epoch_from, converted, recent, calibration, disturbed>>
    BY <1>3 DEF ProbeDone, jobVars
  <2>3. ReportTypeInv'
    BY <2>1, <2>2 DEF ReportTypeInv
  <2>4. ProbeInv'
    <3>1. \A q \in Probes : scratchpad'[q] = IF q = p THEN converted ELSE scratchpad[q]
      BY <2>1 DEF ReportTypeInv
    <3>2. TemperaturesRecent' <=> TemperaturesRecent
      BY <2>2 DEF TemperaturesRecent
    <3> QED BY <2>1, <2>2, <3>1, <3>2 DEF ProbeInv
  <2>5. FieldInv' /\ LeftInv' /\ CalibrationInv' /\ EpochIsWhole'
    BY <2>2 DEF FieldInv, MayHold, LeftInv, CalibrationInv, EpochIsWhole
  <2> QED BY <2>3, <2>4, <2>5
<1>4. CASE Brownout
  <2>1. disturbed' = TRUE /\ UNCHANGED <<step, beat, payload, epoch_from, converting, scratchpad, converted, recent>>
    BY <1>4 DEF Brownout, jobVars
  <2>2. FieldInv'
    <3>1. \A f \in Fields : MayHold(f) \subseteq MayHold(f)'
      BY <2>1 DEF MayHold
    <3> QED BY <2>1, <3>1 DEF FieldInv
  <2>3. ProbeInv'
    BY <2>1 DEF ProbeInv, TemperaturesRecent
  <2>4. ReportTypeInv' /\ LeftInv' /\ CalibrationInv' /\ EpochIsWhole'
    BY <2>1 DEF ReportTypeInv, LeftInv, CalibrationInv, EpochIsWhole
  <2> QED BY <2>2, <2>3, <2>4
<1>5. CASE FilesystemStep
  <2>1. UNCHANGED <<step, beat, payload, epoch_from, converting, scratchpad, converted, recent, calibration, disturbed>>
    BY <1>5 DEF FilesystemStep, jobVars, chipVars
  <2> QED BY <2>1 DEF ReportTypeInv, FieldInv, MayHold, LeftInv, CalibrationInv, ProbeInv, TemperaturesRecent,
                      EpochIsWhole
<1>6. CASE HeartbeatReset
  <2>1. step' = 0 /\ payload' = Nothing /\ UNCHANGED <<beat, epoch_from, converting, scratchpad, converted, recent>>
    BY <1>6 DEF HeartbeatReset, chipVars
  <2>2. payload' = [f \in Registers \cup Probes |-> payload'[f]]
    BY <2>1 DEF Nothing
  <2>3. payload'["rtcTemp"] = LeftOver /\ payload'["vega_ant_status"] = LeftOver
    BY <2>1 DEF Nothing, Registers, Others
  <2> QED BY <2>1, <2>2, <2>3 DEF ReportTypeInv, FieldInv, LeftInv, CalibrationInv, ProbeInv, EpochIsWhole
<1> QED BY <1>1, <1>2, <1>3, <1>4, <1>5, <1>6

\* A clock that is set, register by register, to a time of a calendar reads as what it
\* was set to.
LEMMA AroundReadsClock ==
    ASSUME GivenIn24h, ReportInv, ClockInv,
           Begin \/ SetRtc \/ ProbeDone \/ Brownout \/ FilesystemStep \/ HeartbeatReset
    PROVE  ClockInv'
<1>1. CASE Begin
  <2>1. step' = 1 /\ UNCHANGED <<registers, clock>>
    BY <1>1 DEF Begin
  <2> QED BY <2>1 DEF ClockInv, RegisterInv, TimeInv
<1>2. CASE SetRtc
  <2>1. PICK t \in Times, n \in 0..6 :
            LET set == {Units[i] : i \in 1..n} IN
            /\ registers' = [f \in TimeFields |-> IF f \in set THEN Encode(t[f]) ELSE registers[f]]
            /\ clock' = [f \in TimeFields |-> IF f \in set THEN t[f] ELSE clock[f]]
    BY <1>2 DEF SetRtc
  <2>2. ASSUME NEW f \in TimeFields PROVE Decode(f, registers'[f]) = clock'[f]
    <3>1. \/ registers'[f] = Encode(t[f]) /\ clock'[f] = t[f]
          \/ registers'[f] = registers[f] /\ clock'[f] = clock[f]
      BY <2>1
    <3>2. t[f] \in 0..99 /\ (f = "hour" => t[f] < 24) /\ (f = "month" => t[f] <= 12)
      BY HeartbeatAssumption DEF GivenIn24h
    <3>3. Decode(f, Encode(t[f])) = t[f]
      BY <3>2, DecodeEncode
    <3> QED BY <3>1, <3>3 DEF ClockInv, RegisterInv
  <2>3. step' = 0
    BY <1>2 DEF SetRtc
  <2> QED BY <2>2, <2>3 DEF ClockInv, RegisterInv, TimeInv
<1>3. CASE ProbeDone \/ Brownout \/ FilesystemStep
  <2>1. UNCHANGED <<step, payload, registers, clock>>
    BY <1>3 DEF ProbeDone, Brownout, FilesystemStep, jobVars, chipVars
  <2> QED BY <2>1 DEF ClockInv, RegisterInv, TimeInv
<1>4. CASE HeartbeatReset
  <2>1. step' = 0 /\ UNCHANGED <<registers, clock>>
    BY <1>4 DEF HeartbeatReset, chipVars
  <2> QED BY <2>1 DEF ClockInv, RegisterInv, TimeInv
<1> QED BY <1>1, <1>2, <1>3, <1>4

\* What the invariant says of a report that is complete.
LEMMA Reported ==
    ASSUME ReportInv, Doing("send")
    PROVE  FieldsHeld /\ TemperaturesRecent /\ EpochIsWhole /\ (ClockInv => ClockReadRight)
<1>1. step = 26
  <2>1. step \in 1..26
    <3>1. step > 0
      BY Zenon DEF Doing
    <3> QED BY <3>1 DEF ReportInv, ReportTypeInv
  <2> QED BY <2>1, StepNames DEF Doing
<1>2. ASSUME NEW f \in Fields PROVE payload[f] \in MayHold(f)
  <2>1. PICK k \in 1..25 : Steps[k] = f
    BY StepNames
  <2> QED BY <1>1, <2>1 DEF ReportInv, FieldInv
<1>3. ASSUME ClockInv, NEW f \in TimeFields PROVE payload[f] \in {clock[f], NoValue}
  <2>1. PICK k \in 1..25 : Steps[k] = f
    BY StepNames
  <2> QED BY <1>1, <1>3, <2>1 DEF ClockInv, TimeInv
<1> QED BY <1>1, <1>2, <1>3
        DEF ReportInv, ProbeInv, FieldsHeld, Fields, ClockReadRight

\* The invariant of a report, whatever the clock is set to.
THEOREM ReportInvariance == HeartbeatSpec => []ReportInv
<1>1. ASSUME HeartbeatInit PROVE ReportInv
  BY <1>1 DEF HeartbeatInit, ReportInv, ReportTypeInv, FieldInv, LeftInv, CalibrationInv, ProbeInv,
              EpochIsWhole, Nothing, NoValue, Registers, Others
<1>2. ASSUME ReportInv, [HeartbeatNext]_heartbeatVars PROVE ReportInv'
  <2>1. CASE UNCHANGED heartbeatVars
    BY <1>2, <2>1 DEF heartbeatVars, jobVars, chipVars, ReportInv, ReportTypeInv, FieldInv, MayHold, LeftInv,
                      CalibrationInv, ProbeInv, TemperaturesRecent, EpochIsWhole
  <2> QED BY <1>2, <2>1, JobReports, AroundReports DEF HeartbeatNext
<1> QED BY <1>1, <1>2, PTL DEF HeartbeatSpec

\* A heartbeat that is sent holds what was read in it, or the mark of a failed read, in
\* every field but rtcTemp and vega_ant_status, which may hold what was on the stack, and
\* the currents and powers whose calibration was disturbed; its temperatures are of the
\* last conversion or one that no probe has outlived, and the epoch time was taken from
\* a time read whole: for any thermometers, failures, brown-outs, resets and heartbeat
\* rates, and whatever the clock is set to (heartbeat_telemetry_job).
THEOREM FieldsAreAsRead ==
    HeartbeatSpec => [](Doing("send") => FieldsHeld /\ TemperaturesRecent /\ EpochIsWhole)
<1>1. ReportInv => (Doing("send") => FieldsHeld /\ TemperaturesRecent /\ EpochIsWhole)
  BY Reported
<1> QED BY ReportInvariance, <1>1, PTL

\* So is its time the clock's, when the ground gives the clock times of a calendar
\* (heartbeat_telemetry_job, rtc_set_time).  Nothing is said of the values of the fields
\* that FieldsAreAsRead excepts: ErrorsAreMarked, which speaks of them, is violated.
THEOREM ReportIsAsRead ==
    ASSUME GivenIn24h
    PROVE  HeartbeatSpec => []ReportedAsRead
<1>1. ASSUME HeartbeatInit PROVE ClockInv
  <2>1. \A f \in TimeFields : Decode(f, Encode(0)) = 0
    BY DecodeEncode
  <2>2. Encode(0) = 0
    BY DEF Encode
  <2> QED BY <1>1, <2>1, <2>2 DEF HeartbeatInit, ClockInv, RegisterInv, TimeInv
<1>2. ASSUME ReportInv, ClockInv, [HeartbeatNext]_heartbeatVars PROVE ClockInv'
  <2>1. CASE UNCHANGED heartbeatVars
    BY <1>2, <2>1 DEF heartbeatVars, jobVars, chipVars, ClockInv, RegisterInv, TimeInv
  <2> QED BY <1>2, <2>1, JobReadsClock, AroundReadsClock DEF HeartbeatNext
<1>3. ReportInv /\ ClockInv => ReportedAsRead
  BY Reported DEF ReportedAsRead
<1> QED BY ReportInvariance, <1>1, <1>2, <1>3, PTL DEF HeartbeatSpec
=============================================================================
