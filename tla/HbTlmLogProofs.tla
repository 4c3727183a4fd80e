--------------------------- MODULE HbTlmLogProofs ---------------------------
(***************************************************************************)
(* Theorems about HbTlmLog, for any size and number of files, any number   *)
(* of heartbeats and playbacks, and any resets: the ring of files leaks no *)
(* file, keeps to its allocation and implements BoundedLog, and playback   *)
(* goes back through it without a gap while it goes on.                    *)
(***************************************************************************)
EXTENDS HbTlmLog, FiniteSetTheorems, Induction

cur == f_info.file_index
old == f_info.oldest_file_index

\* How many files lie from j up to i, around the ring.
Gap(i, j) == IF i >= j THEN i - j ELSE i - j + Indices

\* How many files before the present one a file is.
Behind(i) == Gap(cur, i)

InUse(i) == files[i] # <<>>
Size(i) == Len(files[i])
First(i) == files[i][1]
Last(i) == files[i][Size(i)]

HbTypeInv ==
    /\ tlm_dir \in BOOLEAN /\ readable \in BOOLEAN
    /\ f_info \in Info /\ info \in Info
    /\ files \in [Index -> Seq(Nat)]
    /\ logged \in Nat /\ hb_resets \in Nat
    /\ hb_at \in {"idle", "mkdir", "first_info", "read", "append", "stat", "delete", "save"}

\* f_info.bin counts the files before the present one, fewer than are allocated.
InfoInv == f_info.full = Gap(cur, old) /\ f_info.full <= AllocFiles - 2

\* The directory comes before everything else.
DirInv ==
    /\ ~tlm_dir => f_info = NoInfo /\ hb_at \in {"idle", "mkdir"}
    /\ hb_at \in {"mkdir", "first_info"} => f_info = NoInfo

NextFile(oldest, full) ==
    info.file_index = After(cur) /\ info.oldest_file_index = oldest /\ info.full = full

\* What the job holds of f_info.bin at each of its places.
PlaceInv ==
    /\ hb_at \in {"append", "stat"} => info = f_info
    /\ hb_at = "delete" => /\ NextFile(old, f_info.full + 1)
                           /\ Size(cur) >= PerFile /\ f_info.full = AllocFiles - 2
    /\ hb_at = "save" =>
           \/ info = f_info /\ Size(cur) < PerFile
           \/ /\ NextFile(old, f_info.full + 1)
              /\ Size(cur) >= PerFile /\ f_info.full + 1 <= AllocFiles - 2
           \/ /\ NextFile(After(old), f_info.full) /\ ~InUse(old)
              /\ old = cur \/ Size(cur) >= PerFile

\* Only the files from the oldest to the present one are in use, and those between are full.
RingInv ==
    \A i \in Index : /\ InUse(i) => Behind(i) <= f_info.full
                     /\ Behind(i) \in 1 .. f_info.full - 1 => Size(i) >= PerFile

\* A file holds heartbeats that follow each other, and later files later ones.
OrderInv ==
    /\ \A i \in Index : \A k \in 1 .. Size(i) : files[i][k] = First(i) + k - 1
    /\ \A i \in Index : InUse(i) => First(i) >= 1 /\ Last(i) <= logged
    /\ InUse(cur) => Last(cur) = logged
    /\ \A i, j \in Index : InUse(i) /\ InUse(j) /\ Behind(j) < Behind(i) => Last(i) < First(j)

\* Whatever is stored, everything logged after it is.
ClosedInv == \A n \in Stored : \A m \in n .. logged : m \in Stored

\* The heartbeats from the first of a file to the last before the present file.
Past(i) == logged + 1 - First(i) - Size(cur)

\* What a number of files hold.
Full(n) == n * PerFile

\* Each reset adds at most one heartbeat to what the files before the present one hold.
SizeInv ==
    \A i \in Index : InUse(i) =>
        /\ Past(i) >= Full(Behind(i))
        /\ Past(i) <= Full(Behind(i)) + hb_resets
        /\ Past(i) + Size(cur) <= Full(Behind(i) + 1) + hb_resets
        /\ hb_at \in {"idle", "mkdir", "first_info", "read", "append"} =>
               Past(i) + Size(cur) <= Full(Behind(i) + 1) + hb_resets - 1

\* The inductive invariant.
HbInv == /\ HbTypeInv /\ InfoInv /\ DirInv /\ PlaceInv
         /\ RingInv /\ OrderInv /\ ClosedInv /\ SizeInv

-----------------------------------------------------------------------------

\* The constants are numbers, and there are no fewer indices than files.
LEMMA HbConstants ==
    /\ PerFile \in Nat \ {0} /\ AllocFiles \in Nat /\ AllocFiles >= 2
    /\ Indices \in Nat /\ Indices >= AllocFiles
BY HbTlmLogAssumption

\* What modulo does to an index.
LEMMA Around ==
    ASSUME NEW i \in Index, NEW j \in Index
    PROVE  /\ After(i) = IF i = Indices - 1 THEN 0 ELSE i + 1
           /\ After(i) \in Index
           /\ (i + Indices - j) % Indices = Gap(i, j)
           /\ Gap(i, j) \in 0 .. Indices - 1
<1> USE HbConstants DEF Index
<1>1. ASSUME NEW x \in 0 .. 2 * Indices - 1
      PROVE  x % Indices = IF x < Indices THEN x ELSE x - Indices
  <2>1. ASSUME NEW q \in {0, 1}, NEW r \in Index PROVE ((Indices * q) + r) % Indices = r
    OBVIOUS
  <2>2. CASE x < Indices
    BY <2>1, <2>2
  <2>3. CASE x >= Indices
    <3>1. x - Indices \in Index /\ x = (Indices * 1) + (x - Indices)
      BY <2>3
    <3> QED BY <2>1, <2>3, <3>1
  <2> QED BY <2>2, <2>3
<1>2. After(i) = IF i = Indices - 1 THEN 0 ELSE i + 1
  BY <1>1 DEF After
<1>3. (i + Indices - j) % Indices = Gap(i, j)
  BY <1>1 DEF Gap
<1> QED BY <1>2, <1>3 DEF Gap

\* No file is as far behind another as there are indices.
LEMMA GapType ==
    ASSUME NEW i \in Index, NEW j \in Index
    PROVE  Gap(i, j) \in Nat /\ Gap(i, j) <= Indices - 1
BY HbConstants DEF Gap, Index

\* The next file is a file.
LEMMA AfterType ==
    ASSUME NEW i \in Index
    PROVE  After(i) \in Index
BY Around

\* The next file is as far behind as it can be, and all others get one further behind.
LEMMA GapAfter ==
    ASSUME NEW c \in Index, NEW i \in Index
    PROVE  /\ Gap(c, i) = Indices - 1 <=> i = After(c)
           /\ i # After(c) => Gap(After(c), i) = Gap(c, i) + 1
           /\ Gap(After(c), After(c)) = 0
           /\ Gap(c, i) = 0 <=> i = c
           /\ i # c => Gap(c, After(i)) = Gap(c, i) - 1
           /\ Gap(After(c), After(i)) = Gap(c, i)
           /\ \A j \in Index : Gap(c, i) = Gap(c, j) => i = j
<1>1. /\ After(c) = IF c = Indices - 1 THEN 0 ELSE c + 1
      /\ After(i) = IF i = Indices - 1 THEN 0 ELSE i + 1
      /\ Indices \in Nat /\ Indices >= 2
      /\ c \in 0 .. Indices - 1 /\ i \in 0 .. Indices - 1
  BY HbConstants, Around DEF Index
<1>2. /\ Gap(c, i) = Indices - 1 <=> i = After(c)
      /\ i # After(c) => Gap(After(c), i) = Gap(c, i) + 1
      /\ Gap(After(c), After(c)) = 0
  BY <1>1 DEF Gap
<1>3. /\ Gap(c, i) = 0 <=> i = c
      /\ i # c => Gap(c, After(i)) = Gap(c, i) - 1
      /\ Gap(After(c), After(i)) = Gap(c, i)
  BY <1>1 DEF Gap
<1>4. \A j \in Index : Gap(c, i) = Gap(c, j) => i = j
  BY <1>1 DEF Gap, Index
<1> QED BY <1>2, <1>3, <1>4

\* Behind the present file and not older than the oldest is the same as young enough.
LEMMA BehindIsAge ==
    ASSUME NEW c \in Index, NEW o \in Index, NEW i \in Index
    PROVE  Gap(c, i) <= Gap(c, o) <=> Gap(i, o) <= Gap(c, o)
BY HbConstants DEF Gap, Index

-----------------------------------------------------------------------------

\* What is stored is the heartbeats of the files in use.
LEMMA StoredIs ==
    ASSUME NEW n
    PROVE  /\ n \in Stored <=> \E i \in Index : \E k \in 1 .. Size(i) : n = files[i][k]
           /\ n \in Stored' <=> \E i \in Index : \E k \in 1 .. Len(files'[i]) : n = files'[i][k]
BY DEF Stored, Entries, Size

\* One file more holds one file's heartbeats more, and more files no less.
LEMMA FullMore ==
    ASSUME NEW f \in Nat, NEW g \in Nat
    PROVE  /\ Full(f) \in Nat /\ Full(f + 1) = Full(f) + PerFile
           /\ f <= g => Full(f) <= Full(g)
<1>1. \A a, b \in Nat : a * b \in Nat
  OBVIOUS
<1>2. (f + 1) * PerFile = f * PerFile + PerFile
  BY HbConstants
<1>3. ASSUME f <= g PROVE f * PerFile <= g * PerFile
  <2>1. g * PerFile = f * PerFile + (g - f) * PerFile /\ g - f \in Nat
    BY <1>3, HbConstants
  <2>2. (g - f) * PerFile \in Nat /\ f * PerFile \in Nat
    BY <1>1, <2>1, HbConstants
  <2> QED BY <2>1, <2>2
<1> QED BY <1>1, <1>2, <1>3, HbConstants DEF Full

\* The invariant holds at first.
LEMMA HbInitInv == HbInit => HbInv
<1> SUFFICES ASSUME HbInit PROVE HbInv
  OBVIOUS
<1> USE HbConstants
<1>1. 0 \in Index /\ Gap(0, 0) = 0 /\ f_info = NoInfo /\ \A i \in Index : files[i] = <<>>
  BY DEF HbInit, Index, Gap
<1>2. HbTypeInv /\ InfoInv /\ DirInv /\ PlaceInv
  BY <1>1 DEF HbInit, HbTypeInv, Info, NoInfo, InfoInv, DirInv, PlaceInv, cur, old
<1>3. \A i \in Index : ~InUse(i) /\ Size(i) = 0
  BY <1>1 DEF InUse, Size
<1>4. RingInv /\ SizeInv /\ OrderInv
  BY <1>1, <1>3 DEF RingInv, SizeInv, OrderInv, NoInfo, cur
<1>5. ClosedInv
  BY <1>3, StoredIs DEF ClosedInv
<1> QED BY <1>2, <1>4, <1>5 DEF HbInv

\* While the disk and the log stay as they are, so does what is said of them.
LEMMA DiskStays ==
    ASSUME HbInv, UNCHANGED <<f_info, files, logged>>
    PROVE  /\ InfoInv' /\ RingInv' /\ OrderInv' /\ ClosedInv'
           /\ \A i \in Index : /\ Behind(i)' = Behind(i) /\ InUse(i)' = InUse(i)
                               /\ Past(i)' = Past(i) /\ Size(i)' = Size(i)
<1>1. /\ cur' = cur /\ old' = old /\ Stored' = Stored
      /\ \A i \in Index : /\ Behind(i)' = Behind(i) /\ InUse(i)' = InUse(i) /\ Size(i)' = Size(i)
                          /\ First(i)' = First(i) /\ Last(i)' = Last(i) /\ Past(i)' = Past(i)
  BY DEF cur, old, Behind, InUse, Size, First, Last, Past, Stored, Entries
<1>2. InfoInv' /\ ClosedInv'
  BY <1>1 DEF HbInv, InfoInv, ClosedInv
<1>3. RingInv'
  BY <1>1 DEF HbInv, RingInv
<1>4. cur \in Index
  BY DEF HbInv, HbTypeInv, Info, cur
<1>5. OrderInv'
  BY <1>1, <1>4 DEF HbInv, OrderInv
<1> QED BY <1>1, <1>2, <1>3, <1>5

\* The places at which what the present file got last has been counted.
Counted == {"idle", "mkdir", "first_info", "read", "append"}

\* Nor does the room there is change, once the present file has been looked at.
LEMMA SizesStay ==
    ASSUME HbInv, UNCHANGED <<f_info, files, logged, hb_resets>>,
           hb_at' \in Counted => hb_at \in Counted
    PROVE  SizeInv'
<1>1. \A i \in Index : /\ Behind(i)' = Behind(i) /\ InUse(i)' = InUse(i) /\ Past(i)' = Past(i)
  BY DiskStays
<1>2. Size(cur)' = Size(cur) /\ hb_resets' = hb_resets
  BY DEF cur, Size
<1> QED BY <1>1, <1>2 DEF HbInv, SizeInv, Counted

\* The steps of a heartbeat's logging that read, look or make the directory.
LEMMA LogLooksInv ==
    ASSUME HbInv, UNCHANGED hb_resets,
           LogBegin \/ LogMakeDir \/ LogFirstInfo \/ LogReadInfo \/ LogStat
    PROVE  HbInv'
<1> USE HbConstants
<1>1. UNCHANGED <<f_info, files, logged>>
  BY DEF HbInv, DirInv, LogBegin, LogMakeDir, LogFirstInfo, LogReadInfo, LogStat, disk
<1>2. SizeInv'
  <2>1. hb_at' \in Counted => hb_at \in Counted
    BY DEF LogBegin, LogMakeDir, LogFirstInfo, LogReadInfo, LogStat, Counted
  <2> QED BY <1>1, <2>1, SizesStay
<1>3. f_info \in Info /\ cur \in Index /\ old \in Index /\ info \in Info /\ f_info.full \in Nat
  BY DEF HbInv, HbTypeInv, Info, cur, old
<1>4. HbTypeInv'
  <2>1. tlm_dir' \in BOOLEAN
    <3>1. tlm_dir' = tlm_dir \/ tlm_dir' = TRUE
      BY DEF LogBegin, LogMakeDir, LogFirstInfo, LogReadInfo, LogStat, disk
    <3> QED BY <3>1, Zenon DEF HbInv, HbTypeInv
  <2>2. readable' \in BOOLEAN
    <3>1. readable' = readable \/ readable' = TRUE
      BY DEF LogBegin, LogMakeDir, LogFirstInfo, LogReadInfo, LogStat, disk
    <3> QED BY <3>1, Zenon DEF HbInv, HbTypeInv
  <2>3. info' \in Info
    <3>1. CASE LogStat
      <4>1. info.file_index \in Index
        BY <1>3 DEF Info
      <4>2. After(info.file_index) \in Index
        BY <4>1, AfterType
      <4>3. info' = info \/ info' = [info EXCEPT !.file_index = After(@), !.full = @ + 1]
        BY <3>1 DEF LogStat
      <4>4. info.full + 1 \in Nat
        BY <1>3 DEF Info
      <4> QED BY <1>3, <4>2, <4>3, <4>4 DEF Info
    <3>2. CASE ~LogStat
      BY <1>3, <3>2 DEF LogBegin, LogMakeDir, LogFirstInfo, LogReadInfo
    <3> QED BY <3>1, <3>2
  <2>4. hb_at' \in {"idle", "mkdir", "first_info", "read", "append", "stat", "delete", "save"}
    BY DEF LogBegin, LogMakeDir, LogFirstInfo, LogReadInfo, LogStat
  <2> QED BY <1>1, <2>1, <2>2, <2>3, <2>4 DEF HbInv, HbTypeInv
<1>5. DirInv'
  <2>1. CASE LogMakeDir
    BY <1>1, <2>1, Zenon DEF HbInv, DirInv, LogMakeDir
  <2>2. CASE LogBegin
    <3>1. tlm_dir' = tlm_dir /\ f_info' = f_info /\ hb_at' = IF tlm_dir THEN "read" ELSE "mkdir"
      BY <2>2 DEF LogBegin, disk
    <3> QED BY <3>1 DEF HbInv, DirInv
  <2>3. CASE LogFirstInfo
    <3>1. tlm_dir' = tlm_dir /\ hb_at = "first_info" /\ hb_at' = "read"
      BY <2>3 DEF LogFirstInfo
    <3> QED BY <3>1 DEF HbInv, DirInv
  <2>4. CASE LogReadInfo \/ LogStat
    <3>1. tlm_dir' = tlm_dir /\ hb_at \in {"read", "stat"} /\ hb_at' \notin {"mkdir", "first_info"}
      BY <2>4 DEF LogReadInfo, LogStat, disk
    <3> QED BY <3>1 DEF HbInv, DirInv
  <2> QED BY <2>1, <2>2, <2>3, <2>4
<1>6. PlaceInv'
  <2>1. CASE LogStat
    <3>1. info = f_info /\ f_info.full <= AllocFiles - 2
      BY <2>1 DEF LogStat, HbInv, PlaceInv, InfoInv
    <3>2. cur' = cur /\ old' = old /\ f_info' = f_info /\ Size(cur)' = Size(cur)
      BY <1>1 DEF cur, old, Size
    <3>3. Size(cur) \in Nat
      BY <1>3 DEF HbInv, HbTypeInv, Size
    <3>4. CASE Size(cur) + 1 > PerFile
      <4>1. /\ info' = [info EXCEPT !.file_index = After(@), !.full = @ + 1]
            /\ hb_at' = IF Crowded(info.full + 1) THEN "delete" ELSE "save"
        BY <2>1, <3>1, <3>4 DEF LogStat, Size, cur
      <4>2. NextFile(old, f_info.full + 1)' /\ Size(cur) >= PerFile
        BY <1>3, <3>1, <3>2, <3>3, <3>4, <4>1 DEF NextFile, Info, cur, old
      <4>3. CASE hb_at' = "delete"
        BY <1>3, <3>1, <3>2, <4>1, <4>2, <4>3 DEF PlaceInv, Crowded
      <4>4. CASE hb_at' = "save"
        <5>1. f_info.full + 1 <= AllocFiles - 2
          BY <1>3, <3>1, <4>1, <4>4 DEF Crowded
        <5> QED BY <3>2, <4>2, <4>4, <5>1 DEF PlaceInv
      <4> QED BY <4>1, <4>3, <4>4
    <3>5. CASE ~(Size(cur) + 1 > PerFile)
      BY <2>1, <3>1, <3>2, <3>3, <3>5 DEF LogStat, Size, cur, PlaceInv
    <3> QED BY <3>4, <3>5
  <2>2. CASE LogReadInfo
    BY <1>1, <2>2 DEF LogReadInfo, PlaceInv
  <2>3. CASE LogBegin \/ LogMakeDir \/ LogFirstInfo
    BY <2>3 DEF LogBegin, LogMakeDir, LogFirstInfo, PlaceInv
  <2> QED BY <2>1, <2>2, <2>3
<1>7. InfoInv' /\ RingInv' /\ OrderInv' /\ ClosedInv'
  BY <1>1, DiskStays
<1> QED BY <1>2, <1>4, <1>5, <1>6, <1>7 DEF HbInv

\* A reset at most makes room for one more heartbeat, and takes the job's place in its work.
LEMMA HbResetInv ==
    ASSUME HbInv, HbReset
    PROVE  HbInv'
<1> USE HbConstants
<1>1. UNCHANGED <<tlm_dir, f_info, files, logged, info>> /\ hb_at' = "idle" /\ hb_resets' = hb_resets + 1
  BY DEF HbReset
<1>2. InfoInv' /\ RingInv' /\ OrderInv' /\ ClosedInv'
  BY <1>1, DiskStays
<1>3. HbTypeInv'
  <2>1. readable' \in {readable, FALSE}
    BY DEF HbReset
  <2>2. readable' \in BOOLEAN
    <3>1. readable' = readable \/ readable' = FALSE
      BY <2>1
    <3> QED BY <3>1, Zenon DEF HbInv, HbTypeInv
  <2>3. tlm_dir' = tlm_dir
    BY <1>1
  <2>4. tlm_dir' \in BOOLEAN
    BY <2>3, Zenon DEF HbInv, HbTypeInv
  <2> QED BY <1>1, <2>2, <2>4 DEF HbInv, HbTypeInv
<1>4. DirInv' /\ PlaceInv'
  BY <1>1 DEF HbInv, DirInv, PlaceInv
<1>5. SizeInv'
  <2> SUFFICES ASSUME NEW i \in Index, InUse(i)
               PROVE  /\ Past(i) >= Full(Behind(i))
                      /\ Past(i) <= Full(Behind(i)) + (hb_resets + 1)
                      /\ Past(i) + Size(cur) <= Full(Behind(i) + 1) + (hb_resets + 1)
                      /\ Past(i) + Size(cur) <= Full(Behind(i) + 1) + (hb_resets + 1) - 1
    <3>1. \A j \in Index : /\ Behind(j)' = Behind(j) /\ InUse(j)' = InUse(j) /\ Past(j)' = Past(j)
      BY <1>1, DiskStays
    <3>2. Size(cur)' = Size(cur)
      BY <1>1 DEF cur, Size
    <3> QED BY <1>1, <3>1, <3>2 DEF SizeInv
  <2>1. /\ hb_resets \in Nat /\ logged \in Nat /\ cur \in Index /\ files \in [Index -> Seq(Nat)]
    BY DEF HbInv, HbTypeInv, Info, cur
  <2>2. First(i) \in Nat /\ Size(cur) \in Nat
    BY <2>1 DEF InUse, First, Size
  <2>3. Behind(i) \in Nat
    BY <2>1, GapType DEF Behind
  <2>4. Full(Behind(i)) \in Nat /\ Full(Behind(i) + 1) \in Nat
    BY <2>3, FullMore
  <2>5. /\ Past(i) >= Full(Behind(i))
        /\ Past(i) <= Full(Behind(i)) + hb_resets
        /\ Past(i) + Size(cur) <= Full(Behind(i) + 1) + hb_resets
    BY DEF HbInv, SizeInv
  <2>6. Past(i) \in Int
    BY <2>1, <2>2 DEF Past
  <2>7. hb_resets \in Nat
    BY <2>1
  <2>8. Past(i) <= Full(Behind(i)) + (hb_resets + 1)
    BY <2>4, <2>5, <2>6, <2>7
  <2>9. /\ Past(i) + Size(cur) <= Full(Behind(i) + 1) + (hb_resets + 1)
        /\ Past(i) + Size(cur) <= Full(Behind(i) + 1) + (hb_resets + 1) - 1
    BY <2>2, <2>4, <2>5, <2>6, <2>7
  <2> QED BY <2>5, <2>8, <2>9
<1> QED BY <1>2, <1>3, <1>4, <1>5 DEF HbInv

\* What the type invariant says of the places of the ring and of the numbers used below.
LEMMA HbTypes ==
    ASSUME HbInv
    PROVE  /\ cur \in Index /\ old \in Index /\ f_info \in Info /\ info \in Info /\ f_info.full \in Nat
           /\ logged \in Nat /\ hb_resets \in Nat
           /\ \A i \in Index : /\ files[i] \in Seq(Nat) /\ Size(i) \in Nat /\ Behind(i) \in Nat
                               /\ Full(Behind(i)) \in Nat /\ Full(Behind(i) + 1) \in Nat
                               /\ Full(Behind(i) + 1) = Full(Behind(i)) + PerFile
                               /\ InUse(i) => Size(i) >= 1 /\ First(i) \in Nat /\ Last(i) \in Nat
                               /\ InUse(i) => Past(i) \in Int
                               /\ ~InUse(i) => Size(i) = 0
<1>1. /\ cur \in Index /\ old \in Index /\ f_info \in Info /\ info \in Info /\ f_info.full \in Nat
      /\ logged \in Nat /\ hb_resets \in Nat /\ files \in [Index -> Seq(Nat)]
  BY DEF HbInv, HbTypeInv, Info, cur, old
<1>2. ASSUME NEW i \in Index
      PROVE  /\ files[i] \in Seq(Nat) /\ Size(i) \in Nat
             /\ InUse(i) => Size(i) >= 1 /\ First(i) \in Nat /\ Last(i) \in Nat
             /\ ~InUse(i) => Size(i) = 0
  BY <1>1 DEF Size, InUse, First, Last
<1>3. ASSUME NEW i \in Index
      PROVE  /\ Behind(i) \in Nat /\ Full(Behind(i)) \in Nat /\ Full(Behind(i) + 1) \in Nat
             /\ Full(Behind(i) + 1) = Full(Behind(i)) + PerFile
  <2>1. Behind(i) \in Nat
    BY <1>1, GapType DEF Behind
  <2>2. Behind(i) + 1 \in Nat
    BY <2>1
  <2> QED BY <2>1, <2>2, FullMore
<1>4. ASSUME NEW i \in Index, InUse(i) PROVE Past(i) \in Int
  <2>1. logged \in Int /\ First(i) \in Int /\ Size(cur) \in Int
    BY <1>1, <1>2, <1>4
  <2> QED BY <2>1 DEF Past
<1> QED BY <1>1, <1>2, <1>3, <1>4

\* A heartbeat is added to the present file.
LEMMA LogAppendInv ==
    ASSUME HbInv, LogAppend, UNCHANGED hb_resets
    PROVE  HbInv' /\ Stored' = Stored \cup {logged + 1}
<1> USE HbConstants
<1>1. /\ info = f_info /\ hb_at = "append" /\ hb_at' = "stat" /\ logged' = logged + 1
      /\ UNCHANGED <<tlm_dir, f_info, readable, info>>
      /\ files' = [files EXCEPT ![cur] = Append(@, logged + 1)]
  BY DEF LogAppend, HbInv, PlaceInv, cur
<1>2. cur \in Index /\ logged \in Nat /\ hb_resets \in Nat /\ files[cur] \in Seq(Nat) /\ Size(cur) \in Nat
  BY HbTypes
<1>3. \A i \in Index : i # cur => files'[i] = files[i]
  BY <1>1 DEF HbInv, HbTypeInv
<1>4. files'[cur] = Append(files[cur], logged + 1)
  BY <1>1, <1>2 DEF HbInv, HbTypeInv
<1>5. /\ Len(files'[cur]) = Size(cur) + 1
      /\ \A k \in 1 .. Size(cur) : files'[cur][k] = files[cur][k]
      /\ files'[cur][Size(cur) + 1] = logged + 1
      /\ files'[cur] # <<>>
  BY <1>2, <1>4 DEF Size
<1>6. cur' = cur /\ old' = old /\ \A i \in Index : Behind(i)' = Behind(i)
  BY <1>1 DEF cur, old, Behind
<1>7. \A i \in Index : i # cur => /\ InUse(i)' = InUse(i) /\ Size(i)' = Size(i)
                                  /\ First(i)' = First(i) /\ Last(i)' = Last(i)
  BY <1>3 DEF InUse, Size, First, Last
<1>8. /\ Size(cur)' = Size(cur) + 1
      /\ InUse(cur)' => Last(cur)' = logged + 1
      /\ \A i \in Index : i = cur => InUse(i)' /\ Size(i)' = Size(i) + 1 /\ Last(i)' = logged + 1
  BY <1>2, <1>5, <1>6 DEF InUse, Size, Last
<1>9. \A i \in Index : i = cur => First(i)' = IF InUse(i) THEN First(i) ELSE logged + 1
  <2>1. CASE InUse(cur)
    <3>1. 1 \in 1 .. Size(cur)
      BY <1>2, <2>1, HbTypes
    <3> QED BY <1>5, <1>6, <2>1, <3>1 DEF First
  <2>2. CASE ~InUse(cur)
    <3>1. Size(cur) = 0
      BY <1>2, <2>2, HbTypes
    <3> QED BY <1>5, <1>6, <2>2, <3>1 DEF First
  <2> QED BY <2>1, <2>2
<1>10. Stored' = Stored \cup {logged + 1}
  <2>1. ASSUME NEW n PROVE n \in Stored' <=> n \in Stored \/ n = logged + 1
    <3>1. ASSUME NEW i \in Index, NEW k \in 1 .. Len(files'[i]), n = files'[i][k], n # logged + 1
          PROVE  n \in Stored
      <4>1. CASE i = cur
        <5>1. k \in 1 .. Size(cur)
          BY <1>2, <1>5, <3>1, <4>1
        <5> QED BY <1>2, <1>5, <3>1, <4>1, <5>1, StoredIs
      <4>2. CASE i # cur
        BY <1>3, <3>1, <4>2, StoredIs DEF Size
      <4> QED BY <4>1, <4>2
    <3>2. ASSUME NEW i \in Index, NEW k \in 1 .. Size(i), n = files[i][k]
          PROVE  n \in Stored'
      <4>1. CASE i = cur
        <5>1. k \in 1 .. Len(files'[cur]) /\ n = files'[cur][k]
          BY <1>2, <1>5, <3>2, <4>1
        <5> QED BY <1>2, <5>1, StoredIs
      <4>2. CASE i # cur
        BY <1>3, <3>2, <4>2, StoredIs DEF Size
      <4> QED BY <4>1, <4>2
    <3>3. logged + 1 \in Stored'
      <4>1. Size(cur) + 1 \in 1 .. Len(files'[cur])
        BY <1>2, <1>5
      <4> QED BY <1>2, <1>5, <4>1, StoredIs
    <3> QED BY <3>1, <3>2, <3>3, StoredIs
  <2> QED BY <2>1
<1>11. HbTypeInv' /\ InfoInv' /\ DirInv' /\ PlaceInv'
  <2>1. files' \in [Index -> Seq(Nat)] /\ logged' \in Nat
    BY <1>1, <1>2 DEF HbInv, HbTypeInv
  <2>2. tlm_dir' \in BOOLEAN /\ readable' \in BOOLEAN
    <3>1. tlm_dir' = tlm_dir /\ readable' = readable
      BY <1>1
    <3> QED BY <3>1, Zenon DEF HbInv, HbTypeInv
  <2>3. HbTypeInv'
    BY <1>1, <2>1, <2>2 DEF HbInv, HbTypeInv
  <2>4. InfoInv' /\ PlaceInv'
    BY <1>1, <1>6 DEF HbInv, InfoInv, PlaceInv
  <2>5. DirInv'
    BY <1>1 DEF HbInv, DirInv
  <2> QED BY <2>3, <2>4, <2>5
<1>12. RingInv'
  <2>1. Behind(cur) = 0
    BY <1>2, GapAfter DEF Behind
  <2>2. Size(cur) >= PerFile => Size(cur)' >= PerFile
    BY <1>2, <1>8
  <2>3. f_info' = f_info /\ f_info.full \in Nat
    BY <1>1, HbTypes
  <2> QED BY <1>6, <1>7, <2>1, <2>2, <2>3 DEF HbInv, RingInv
<1>13. OrderInv'
  <2>1. ASSUME NEW i \in Index, NEW k \in 1 .. Len(files'[i])
        PROVE  files'[i][k] = First(i)' + k - 1
    <3>1. CASE i # cur
      BY <1>3, <1>7, <2>1, <3>1 DEF HbInv, OrderInv, Size
    <3>2. CASE i = cur /\ k \in 1 .. Size(cur)
      <4>1. Size(cur) >= 1
        BY <1>2, <3>2
      <4>2. InUse(cur)
        BY <1>2, <4>1, HbTypes
      <4>3. files[cur][k] = First(cur) + k - 1
        BY <1>2, <3>2 DEF HbInv, OrderInv
      <4> QED BY <1>5, <1>9, <3>2, <4>2, <4>3
    <3>3. CASE i = cur /\ k = Size(cur) + 1 /\ InUse(cur)
      <4>1. Size(cur) \in 1 .. Size(cur) /\ First(cur) \in Nat /\ Last(cur) = logged
        BY <1>2, <3>3, HbTypes DEF HbInv, OrderInv
      <4>2. Last(cur) = First(cur) + Size(cur) - 1
        BY <1>2, <4>1 DEF HbInv, OrderInv, Last
      <4>3. logged + 1 = First(cur) + (Size(cur) + 1) - 1
        BY <1>2, <4>1, <4>2
      <4> QED BY <1>5, <1>9, <3>3, <4>3
    <3>4. CASE i = cur /\ k = Size(cur) + 1 /\ ~InUse(cur)
      <4>1. Size(cur) = 0
        BY <1>2, <3>4, HbTypes
      <4> QED BY <1>2, <1>5, <1>9, <3>4, <4>1
    <3> QED BY <1>2, <1>5, <2>1, <3>1, <3>2, <3>3, <3>4
  <2>2. ASSUME NEW i \in Index, InUse(i)' PROVE First(i)' >= 1 /\ Last(i)' <= logged + 1
    <3>1. CASE i # cur
      <4>1. InUse(i) /\ First(i)' = First(i) /\ Last(i)' = Last(i)
        BY <1>7, <2>2, <3>1
      <4>2. First(i) >= 1 /\ Last(i) <= logged /\ Last(i) \in Nat
        BY <4>1, HbTypes DEF HbInv, OrderInv
      <4> QED BY <1>2, <4>1, <4>2
    <3>2. CASE i = cur
      <4>1. InUse(cur) => First(cur) >= 1
        BY <1>2 DEF HbInv, OrderInv
      <4> QED BY <1>2, <1>8, <1>9, <3>2, <4>1
    <3> QED BY <3>1, <3>2
  <2>3. ASSUME NEW i \in Index, NEW j \in Index, InUse(i)', InUse(j)', Behind(j) < Behind(i)
        PROVE  Last(i)' < First(j)'
    <3>1. Behind(cur) = 0 /\ Behind(j) \in Nat
      BY <1>2, GapAfter, HbTypes DEF Behind
    <3>2. i # cur
      BY <2>3, <3>1
    <3>3. InUse(i) /\ Last(i)' = Last(i) /\ Last(i) <= logged /\ Last(i) \in Nat
      BY <1>7, <2>3, <3>2, HbTypes DEF HbInv, OrderInv
    <3>4. CASE InUse(j)
      <4>1. First(j)' = First(j)
        BY <1>7, <1>9, <3>4
      <4> QED BY <2>3, <3>3, <3>4, <4>1 DEF HbInv, OrderInv
    <3>5. CASE ~InUse(j)
      <4>1. j = cur
        BY <1>7, <2>3, <3>5
      <4>2. First(j)' = logged + 1
        BY <1>9, <3>5, <4>1
      <4> QED BY <1>2, <3>3, <4>2
    <3> QED BY <3>4, <3>5
  <2> QED BY <1>1, <1>6, <1>8, <2>1, <2>2, <2>3 DEF OrderInv, Size
<1>14. ClosedInv'
  <2> SUFFICES ASSUME NEW n \in Stored \cup {logged + 1}, NEW m \in n .. logged + 1, m # logged + 1
               PROVE  m \in Stored
    BY <1>1, <1>10 DEF ClosedInv
  <2>1. n # logged + 1 /\ m \in n .. logged
    BY <1>2
  <2> QED BY <2>1 DEF HbInv, ClosedInv
<1>15. SizeInv'
  <2> SUFFICES ASSUME NEW i \in Index, InUse(i)'
               PROVE  /\ Past(i)' >= Full(Behind(i))
                      /\ Past(i)' <= Full(Behind(i)) + hb_resets
                      /\ Past(i)' + (Size(cur) + 1) <= Full(Behind(i) + 1) + hb_resets
    BY <1>1, <1>6, <1>8 DEF SizeInv
  <2>1. Past(i)' = logged + 2 - First(i)' - (Size(cur) + 1)
    <3>1. Past(i)' = (logged + 1) + 1 - First(i)' - (Size(cur) + 1)
      BY <1>1, <1>8 DEF Past
    <3>2. First(i)' \in Nat
      <4>1. CASE InUse(i)
        <5>1. First(i)' = First(i) /\ First(i) \in Nat
          BY <1>7, <1>9, <4>1, HbTypes
        <5> QED BY <5>1
      <4>2. CASE ~InUse(i)
        <5>1. i = cur /\ First(i)' = logged + 1
          BY <1>7, <1>9, <4>2
        <5> QED BY <1>2, <5>1
      <4> QED BY <4>1, <4>2
    <3> QED BY <1>2, <3>1, <3>2
  <2>2. CASE InUse(i)
    <3>1. First(i)' = First(i) /\ First(i) \in Nat
      BY <1>7, <1>9, <2>2, HbTypes
    <3>2. Past(i)' = Past(i)
      BY <1>2, <2>1, <3>1 DEF Past
    <3>3. /\ Past(i) >= Full(Behind(i))
          /\ Past(i) <= Full(Behind(i)) + hb_resets
          /\ Past(i) + Size(cur) <= Full(Behind(i) + 1) + hb_resets - 1
      BY <1>1, <2>2 DEF HbInv, SizeInv
    <3>4. /\ Past(i) \in Int /\ Size(cur) \in Nat /\ hb_resets \in Nat
          /\ Full(Behind(i)) \in Nat /\ Full(Behind(i) + 1) \in Nat
      BY <1>2, <2>2, HbTypes
    <3>5. Past(i) + (Size(cur) + 1) <= Full(Behind(i) + 1) + hb_resets
      BY <3>3, <3>4
    <3> QED BY <3>2, <3>3, <3>5
  <2>3. CASE ~InUse(i)
    <3>1. i = cur /\ Size(cur) = 0 /\ First(i)' = logged + 1
      BY <1>7, <1>9, <2>3, HbTypes
    <3>2. Past(i)' = 0
      BY <1>2, <2>1, <3>1
    <3>3. Behind(i) = 0
      BY <1>2, <3>1, GapAfter DEF Behind
    <3>4. Full(0) = 0 /\ Full(0 + 1) = PerFile
      BY DEF Full
    <3> QED BY <1>2, <3>1, <3>2, <3>3, <3>4
  <2> QED BY <2>2, <2>3
<1> QED BY <1>10, <1>11, <1>12, <1>13, <1>14, <1>15 DEF HbInv

\* The file that is deleted is the last one in use, and the only one that changes.
LEMMA LogDeleteStep ==
    ASSUME HbInv, LogDelete
    PROVE  /\ hb_at = "delete" /\ hb_at' = "save" /\ cur' = cur /\ old' = old
           /\ UNCHANGED <<tlm_dir, f_info, readable, logged>>
           /\ NextFile(old, f_info.full + 1) /\ Size(cur) >= PerFile /\ f_info.full = AllocFiles - 2
           /\ info' = [info EXCEPT !.oldest_file_index = After(old), !.full = f_info.full]
           /\ files' \in [Index -> Seq(Nat)]
           /\ \A i \in Index : i # old => /\ files'[i] = files[i] /\ InUse(i)' = InUse(i) /\ Size(i)' = Size(i)
                                          /\ First(i)' = First(i) /\ Last(i)' = Last(i)
           /\ \A i \in Index : i = old => files'[i] = <<>> /\ ~InUse(i)' /\ Size(i)' = 0
           /\ \A i \in Index : Behind(i)' = Behind(i)
           /\ \A i \in Index : InUse(i)' => i # old /\ InUse(i) /\ Behind(i) < Behind(old) /\ old # cur
           /\ Behind(old) = f_info.full
<1>1. /\ hb_at = "delete" /\ hb_at' = "save"
      /\ NextFile(old, f_info.full + 1) /\ Size(cur) >= PerFile /\ f_info.full = AllocFiles - 2
      /\ UNCHANGED <<tlm_dir, f_info, readable, logged>>
  BY DEF LogDelete, HbInv, PlaceInv
<1>2. /\ info.oldest_file_index = old /\ info.full = f_info.full + 1
      /\ files' = [files EXCEPT ![old] = <<>>]
      /\ info' = [info EXCEPT !.oldest_file_index = After(old), !.full = info.full - 1]
  BY <1>1 DEF LogDelete, NextFile
<1>3. info.full - 1 = f_info.full
  <2>1. f_info.full \in Nat
    BY HbTypes
  <2> QED BY <1>2, <2>1
<1>4. cur' = cur /\ old' = old /\ \A i \in Index : Behind(i)' = Behind(i)
  BY <1>1 DEF cur, old, Behind
<1>5. files' \in [Index -> Seq(Nat)]
  <2>1. files \in [Index -> Seq(Nat)] /\ <<>> \in Seq(Nat)
    BY DEF HbInv, HbTypeInv
  <2> QED BY <1>2, <2>1
<1>6. \A i \in Index : /\ i # old => files'[i] = files[i]
                       /\ i = old => files'[i] = <<>>
  BY <1>2 DEF HbInv, HbTypeInv
<1>7. \A i \in Index : i # old => /\ InUse(i)' = InUse(i) /\ Size(i)' = Size(i)
                                  /\ First(i)' = First(i) /\ Last(i)' = Last(i)
  BY <1>6 DEF InUse, Size, First, Last
<1>8. \A i \in Index : i = old => ~InUse(i)' /\ Size(i)' = 0
  BY <1>6 DEF InUse, Size
<1>9. Behind(old) = f_info.full
  BY DEF HbInv, InfoInv, Behind
<1>10. ASSUME NEW i \in Index, InUse(i)'
       PROVE  i # old /\ InUse(i) /\ Behind(i) < Behind(old) /\ old # cur
  <2>1. i # old /\ InUse(i)
    BY <1>7, <1>8, <1>10
  <2>2. Behind(i) <= f_info.full
    BY <2>1 DEF HbInv, RingInv
  <2>3. Behind(i) # Behind(old)
    BY <2>1, HbTypes, GapAfter DEF Behind
  <2>4. Behind(i) < Behind(old)
    <3>1. Behind(i) \in Nat /\ f_info.full \in Nat
      BY HbTypes
    <3> QED BY <1>9, <2>2, <2>3, <3>1
  <2>5. old # cur
    <3>1. Behind(cur) = 0
      BY HbTypes, GapAfter DEF Behind
    <3>2. Behind(i) \in Nat
      BY HbTypes
    <3> QED BY <2>4, <3>1, <3>2
  <2> QED BY <2>1, <2>4, <2>5
<1> QED BY <1>1, <1>2, <1>3, <1>4, <1>5, <1>6, <1>7, <1>8, <1>9, <1>10

\* The deletion of the oldest file leaves the others in order.
LEMMA LogDeleteInv ==
    ASSUME HbInv, LogDelete, UNCHANGED hb_resets
    PROVE  HbInv'
<1>1. HbTypeInv'
  <2>1. tlm_dir' \in BOOLEAN /\ readable' \in BOOLEAN
    <3>1. tlm_dir' = tlm_dir /\ readable' = readable
      BY LogDeleteStep
    <3> QED BY <3>1, Zenon DEF HbInv, HbTypeInv
  <2>2. info' \in Info
    <3>1. After(old) \in Index
      BY HbTypes, AfterType
    <3> QED BY <3>1, HbTypes, LogDeleteStep DEF Info
  <2> QED BY <2>1, <2>2, LogDeleteStep DEF HbInv, HbTypeInv
<1>2. InfoInv' /\ DirInv'
  BY LogDeleteStep DEF HbInv, InfoInv, DirInv
<1>3. PlaceInv'
  <2>1. NextFile(After(old), f_info.full)'
    <3>1. /\ info'.file_index = After(cur) /\ info'.oldest_file_index = After(old) /\ info'.full = f_info.full
          /\ cur' = cur /\ old' = old /\ f_info' = f_info
      BY HbTypes, LogDeleteStep DEF NextFile, Info
    <3> QED BY <3>1 DEF NextFile
  <2>2. ~InUse(old)'
    BY HbTypes, LogDeleteStep DEF InUse
  <2>3. old' = cur' \/ Size(cur)' >= PerFile
    BY HbTypes, LogDeleteStep DEF Size
  <2> QED BY <2>1, <2>2, <2>3, LogDeleteStep DEF PlaceInv
<1>4. RingInv'
  <2> SUFFICES ASSUME NEW i \in Index
               PROVE  /\ InUse(i)' => Behind(i) <= f_info.full
                      /\ Behind(i) \in 1 .. f_info.full - 1 => Size(i)' >= PerFile
    BY LogDeleteStep DEF RingInv
  <2>1. InUse(i)' => Behind(i) <= f_info.full
    BY LogDeleteStep DEF HbInv, RingInv
  <2>2. ASSUME Behind(i) \in 1 .. f_info.full - 1 PROVE Size(i)' >= PerFile
    <3>1. Behind(i) # Behind(old)
      BY <2>2, HbTypes, LogDeleteStep
    <3>2. Size(i)' = Size(i)
      BY <3>1, LogDeleteStep
    <3> QED BY <2>2, <3>2 DEF HbInv, RingInv
  <2> QED BY <2>1, <2>2
<1>5. OrderInv'
  <2>1. ASSUME NEW i \in Index, NEW k \in 1 .. Size(i)'
        PROVE  files'[i][k] = First(i)' + k - 1
    <3>1. CASE i = old
      BY <2>1, <3>1, LogDeleteStep
    <3>2. CASE i # old
      BY <2>1, <3>2, LogDeleteStep DEF HbInv, OrderInv
    <3> QED BY <3>1, <3>2
  <2>2. ASSUME NEW i \in Index, InUse(i)' PROVE First(i)' >= 1 /\ Last(i)' <= logged
    BY <2>2, LogDeleteStep DEF HbInv, OrderInv
  <2>3. InUse(cur)' => Last(cur)' = logged
    <3>1. InUse(cur)' => cur # old /\ files'[cur] = files[cur] /\ InUse(cur)
      BY HbTypes, LogDeleteStep DEF InUse
    <3> QED BY <3>1, LogDeleteStep DEF HbInv, OrderInv, Last, Size
  <2>4. ASSUME NEW i \in Index, NEW j \in Index, InUse(i)', InUse(j)', Behind(j) < Behind(i)
        PROVE  Last(i)' < First(j)'
    BY <2>4, LogDeleteStep DEF HbInv, OrderInv
  <2> QED BY <2>1, <2>2, <2>3, <2>4, LogDeleteStep DEF OrderInv
<1>6. ClosedInv'
  <2> SUFFICES ASSUME NEW n \in Stored', NEW m \in n .. logged
               PROVE  m \in Stored'
    BY LogDeleteStep DEF ClosedInv
  <2>1. PICK i \in Index : \E k \in 1 .. Len(files'[i]) : n = files'[i][k]
    BY StoredIs
  <2>2. i # old /\ files'[i] = files[i] /\ InUse(i) /\ Behind(i) < Behind(old)
    <3>1. files'[i] # <<>>
      BY <2>1
    <3>2. InUse(i)'
      BY <3>1 DEF InUse
    <3> QED BY <3>2, LogDeleteStep
  <2>3. n \in Stored /\ n \in Nat /\ First(i) \in Nat /\ n >= First(i)
    <3>1. PICK k \in 1 .. Size(i) : n = files[i][k]
      BY <2>1, <2>2 DEF Size
    <3>2. n = First(i) + k - 1
      BY <3>1 DEF HbInv, OrderInv
    <3>3. First(i) \in Nat /\ Size(i) \in Nat
      BY <2>2, HbTypes
    <3>4. n \in Nat /\ n >= First(i)
      BY <3>1, <3>2, <3>3
    <3> QED BY <3>1, <3>3, <3>4, StoredIs
  <2>4. m \in Stored /\ m \in Int /\ m >= n
    BY <2>3, HbTypes DEF HbInv, ClosedInv
  <2>5. PICK j \in Index : \E l \in 1 .. Size(j) : m = files[j][l]
    BY <2>4, StoredIs
  <2>6. PICK l \in 1 .. Size(j) : m = files[j][l]
    BY <2>5
  <2>7. j # old
    <3> SUFFICES ASSUME j = old PROVE FALSE
      OBVIOUS
    <3>1. InUse(j) /\ Last(j) < First(i)
      <4>1. InUse(j)
        BY <2>6 DEF InUse, Size
      <4> QED BY <2>2, <4>1 DEF HbInv, OrderInv
    <3>2. Size(j) \in Nat /\ First(j) \in Nat
      BY <3>1, HbTypes
    <3>3. m = First(j) + l - 1 /\ Last(j) = First(j) + Size(j) - 1
      BY <2>6, <3>1, <3>2 DEF HbInv, OrderInv, Last
    <3>4. m <= Last(j) /\ Last(j) \in Int
      BY <3>2, <3>3
    <3> QED BY <2>3, <2>4, <3>1, <3>4
  <2> QED BY <2>6, <2>7, StoredIs, LogDeleteStep DEF Size
<1>7. SizeInv'
  <2> SUFFICES ASSUME NEW i \in Index, InUse(i)'
               PROVE  /\ Past(i)' >= Full(Behind(i))
                      /\ Past(i)' <= Full(Behind(i)) + hb_resets
                      /\ Past(i)' + Size(cur)' <= Full(Behind(i) + 1) + hb_resets
    BY LogDeleteStep DEF SizeInv
  <2>1. InUse(i) /\ First(i)' = First(i) /\ Size(cur)' = Size(cur)
    BY HbTypes, LogDeleteStep DEF Size
  <2>2. Past(i)' = Past(i)
    BY <2>1, LogDeleteStep DEF Past
  <2> QED BY <2>1, <2>2 DEF HbInv, SizeInv
<1> QED BY <1>1, <1>2, <1>3, <1>4, <1>5, <1>6, <1>7 DEF HbInv

\* The next file becomes the present one.
LEMMA NextFileStep ==
    ASSUME HbInv, LogSave, info.file_index = After(cur)
    PROVE  /\ cur' = After(cur) /\ ~InUse(cur)' /\ Size(cur)' = 0
           /\ \A i \in Index : /\ InUse(i) => Behind(i)' = Behind(i) + 1
                               /\ i # After(cur) => Behind(i)' = Behind(i) + 1
                               /\ i = After(cur) => Behind(i)' = 0
<1>1. UNCHANGED files /\ cur' = After(cur)
  BY DEF LogSave, cur
<1>2. cur \in Index /\ After(cur) \in Index
  BY HbTypes, AfterType
<1>3. ~InUse(After(cur))
  <2>1. Behind(After(cur)) = Indices - 1
    BY <1>2, GapAfter DEF Behind
  <2>2. f_info.full <= AllocFiles - 2 /\ f_info.full \in Nat
    BY HbTypes DEF HbInv, InfoInv
  <2>3. Indices - 1 > f_info.full
    BY <2>2, HbConstants
  <2>4. f_info.full \in Int /\ Indices - 1 \in Int
    BY <2>2, HbConstants
  <2> QED BY <1>2, <2>1, <2>3, <2>4 DEF HbInv, RingInv
<1>4. ~InUse(cur)' /\ Size(cur)' = 0
  <2>1. files[After(cur)] = <<>>
    BY <1>3 DEF InUse
  <2> QED BY <1>1, <2>1 DEF InUse, Size
<1>5. \A i \in Index : Behind(i)' = Gap(After(cur), i)
  BY <1>1 DEF Behind
<1>6. \A i \in Index : /\ i # After(cur) => Behind(i)' = Behind(i) + 1
                       /\ i = After(cur) => Behind(i)' = 0
  BY <1>2, <1>5, GapAfter DEF Behind
<1> QED BY <1>1, <1>3, <1>4, <1>6

\* Which leaves the heartbeats in order, and counted.
LEMMA NextFileSizes ==
    ASSUME HbInv, LogSave, UNCHANGED hb_resets, info.file_index = After(cur),
           \A i \in Index : InUse(i) => Size(cur) >= PerFile
    PROVE  OrderInv' /\ SizeInv'
<1>1. UNCHANGED <<files, logged>> /\ hb_resets' = hb_resets
  BY DEF LogSave
<1>2. \A i \in Index : /\ InUse(i)' = InUse(i) /\ Size(i)' = Size(i)
                       /\ First(i)' = First(i) /\ Last(i)' = Last(i)
  BY <1>1 DEF InUse, Size, First, Last
<1>3. OrderInv'
  <2>1. ASSUME NEW i \in Index, NEW j \in Index, InUse(i), InUse(j), Behind(j)' < Behind(i)'
        PROVE  Last(i) < First(j)
    <3>1. Behind(j) + 1 < Behind(i) + 1 /\ Behind(j) \in Nat /\ Behind(i) \in Nat
      BY <2>1, HbTypes, NextFileStep
    <3>2. Behind(j) < Behind(i)
      BY <3>1
    <3> QED BY <2>1, <3>2 DEF HbInv, OrderInv
  <2>2. ~InUse(cur)'
    BY NextFileStep
  <2> QED BY <1>1, <1>2, <2>1, <2>2 DEF HbInv, OrderInv
<1>4. SizeInv'
  <2> SUFFICES ASSUME NEW i \in Index, InUse(i)
               PROVE  /\ Past(i)' >= Full(Behind(i)')
                      /\ Past(i)' <= Full(Behind(i)') + hb_resets
                      /\ Past(i)' + 0 <= Full(Behind(i)' + 1) + hb_resets
                      /\ Past(i)' + 0 <= Full(Behind(i)' + 1) + hb_resets - 1
    <3>1. Size(cur)' = 0
      BY NextFileStep
    <3> QED BY <1>1, <1>2, <3>1 DEF SizeInv, Full
  <2>1. cur \in Index /\ logged \in Nat /\ hb_resets \in Nat
    BY HbTypes
  <2>2. First(i) \in Nat /\ Size(cur) \in Nat /\ Behind(i) \in Nat /\ Past(i) \in Int
    BY <2>1, HbTypes
  <2>3. Past(i)' = Past(i) + Size(cur)
    <3>1. Past(i)' = logged + 1 - First(i) - 0
      BY <1>1, <1>2, NextFileStep DEF Past
    <3>2. Past(i) = logged + 1 - First(i) - Size(cur)
      BY DEF Past
    <3> QED BY <2>1, <2>2, <3>1, <3>2
  <2>4. Behind(i)' = Behind(i) + 1
    BY NextFileStep
  <2>5. /\ Full(Behind(i)) \in Nat /\ Full(Behind(i) + 1) = Full(Behind(i)) + PerFile
        /\ Full((Behind(i) + 1) + 1) = Full(Behind(i) + 1) + PerFile
    <3>1. Behind(i) + 1 \in Nat
      BY <2>2
    <3> QED BY <2>2, <3>1, FullMore
  <2>6. /\ Past(i) >= Full(Behind(i))
        /\ Past(i) + Size(cur) <= Full(Behind(i) + 1) + hb_resets
        /\ Size(cur) >= PerFile
    BY DEF HbInv, SizeInv
  <2> DEFINE p == Past(i) + Size(cur)
             f == Full(Behind(i) + 1)
  <2>7. p >= f /\ p <= f + hb_resets /\ p \in Int /\ f \in Nat
    BY <2>1, <2>2, <2>5, <2>6, HbConstants
  <2> HIDE DEF p, f
  <2>8. /\ p >= f /\ p <= f + hb_resets /\ p + 0 <= f + PerFile + hb_resets
        /\ p + 0 <= f + PerFile + hb_resets - 1
    BY <2>1, <2>7, HbConstants
  <2> QED BY <2>3, <2>4, <2>5, <2>8 DEF p, f
<1> QED BY <1>3, <1>4

\* f_info.bin is written: the job's place in the ring becomes that of the log.
LEMMA LogSaveInv ==
    ASSUME HbInv, LogSave, UNCHANGED hb_resets
    PROVE  HbInv'
<1>1. /\ hb_at = "save" /\ hb_at' = "idle" /\ f_info' = info /\ readable' = TRUE
      /\ UNCHANGED <<tlm_dir, files, info, logged, hb_resets>>
      /\ cur' = info.file_index /\ old' = info.oldest_file_index
  BY DEF LogSave, cur, old
<1>2. \A i \in Index : InUse(i)' = InUse(i) /\ Size(i)' = Size(i)
  BY <1>1 DEF InUse, Size
<1>3. HbTypeInv'
  <2>1. tlm_dir' \in BOOLEAN /\ readable' \in BOOLEAN
    <3>1. tlm_dir' = tlm_dir /\ readable' = TRUE
      BY <1>1
    <3> QED BY <3>1, Zenon DEF HbInv, HbTypeInv
  <2> QED BY <1>1, <2>1 DEF HbInv, HbTypeInv
<1>4. DirInv' /\ PlaceInv'
  BY <1>1 DEF HbInv, DirInv, PlaceInv
<1>5. ClosedInv'
  <2>1. Stored' = Stored
    BY <1>1 DEF Stored, Entries
  <2> QED BY <1>1, <2>1 DEF HbInv, ClosedInv
<1>6. /\ cur \in Index /\ old \in Index /\ f_info.full \in Nat /\ Behind(old) = f_info.full
      /\ f_info.full <= AllocFiles - 2
  BY HbTypes DEF HbInv, InfoInv, Behind
<1>7. CASE info = f_info /\ Size(cur) < PerFile
  <2>1. UNCHANGED <<f_info, files, logged>>
    BY <1>1, <1>7
  <2>2. InfoInv' /\ RingInv' /\ OrderInv'
    BY <2>1, DiskStays
  <2>3. SizeInv'
    <3> SUFFICES ASSUME NEW i \in Index, InUse(i)
                 PROVE  /\ Past(i) >= Full(Behind(i))
                        /\ Past(i) <= Full(Behind(i)) + hb_resets
                        /\ Past(i) + Size(cur) <= Full(Behind(i) + 1) + hb_resets
                        /\ Past(i) + Size(cur) <= Full(Behind(i) + 1) + hb_resets - 1
      <4>1. \A j \in Index : Behind(j)' = Behind(j) /\ InUse(j)' = InUse(j) /\ Past(j)' = Past(j)
        BY <2>1, DiskStays
      <4>2. Size(cur)' = Size(cur)
        BY <2>1 DEF cur, Size
      <4> QED BY <1>1, <4>1, <4>2 DEF SizeInv
    <3>1. /\ Past(i) >= Full(Behind(i))
          /\ Past(i) <= Full(Behind(i)) + hb_resets
          /\ Past(i) + Size(cur) <= Full(Behind(i) + 1) + hb_resets
      BY DEF HbInv, SizeInv
    <3>2. Past(i) \in Int /\ hb_resets \in Nat
      BY HbTypes
    <3>3. Size(cur) \in Nat /\ Full(Behind(i)) \in Nat /\ Full(Behind(i) + 1) = Full(Behind(i)) + PerFile
      BY <1>6, HbTypes
    <3>4. Past(i) + Size(cur) <= Full(Behind(i) + 1) + hb_resets - 1
      BY <1>7, <3>1, <3>2, <3>3, HbConstants
    <3> QED BY <3>1, <3>4
  <2> QED BY <1>3, <1>4, <1>5, <2>2, <2>3 DEF HbInv
<1>8. CASE NextFile(old, f_info.full + 1) /\ Size(cur) >= PerFile /\ f_info.full + 1 <= AllocFiles - 2
  <2>1. info.file_index = After(cur) /\ info.full = f_info.full + 1 /\ info.oldest_file_index = old
    BY <1>8 DEF NextFile
  <2>2. OrderInv' /\ SizeInv'
    BY <1>8, <2>1, NextFileSizes
  <2>3. Gap(After(cur), old) = f_info.full + 1
    <3>1. Gap(cur, old) = f_info.full /\ f_info.full # Indices - 1
      BY <1>6, <1>8, HbConstants DEF Behind
    <3> QED BY <1>6, <3>1, GapAfter
  <2>4. InfoInv'
    BY <1>1, <1>8, <2>1, <2>3 DEF InfoInv
  <2>5. RingInv'
    <3> SUFFICES ASSUME NEW i \in Index
                 PROVE  /\ InUse(i) => Behind(i)' <= f_info.full + 1
                        /\ Behind(i)' \in 1 .. (f_info.full + 1) - 1 => Size(i) >= PerFile
      BY <1>1, <1>2, <2>1 DEF RingInv
    <3>1. Behind(i) \in Nat
      BY HbTypes
    <3>2. InUse(i) => Behind(i)' <= f_info.full + 1
      <4>1. InUse(i) => Behind(i) <= f_info.full /\ Behind(i)' = Behind(i) + 1
        BY <2>1, NextFileStep DEF HbInv, RingInv
      <4> QED BY <1>6, <3>1, <4>1
    <3>3. ASSUME Behind(i)' \in 1 .. (f_info.full + 1) - 1 PROVE Size(i) >= PerFile
      <4>1. Behind(i)' = Behind(i) + 1
        BY <2>1, <3>3, NextFileStep
      <4>2. Behind(i) = 0 \/ Behind(i) \in 1 .. f_info.full - 1
        BY <1>6, <3>1, <3>3, <4>1
      <4>3. Behind(i) = 0 => i = cur
        BY <1>6, GapAfter DEF Behind
      <4> QED BY <1>8, <4>2, <4>3 DEF HbInv, RingInv
    <3> QED BY <3>2, <3>3
  <2> QED BY <1>3, <1>4, <1>5, <2>2, <2>4, <2>5 DEF HbInv
<1>9. CASE NextFile(After(old), f_info.full) /\ ~InUse(old) /\ (old = cur \/ Size(cur) >= PerFile)
  <2>1. info.file_index = After(cur) /\ info.full = f_info.full /\ info.oldest_file_index = After(old)
    BY <1>9 DEF NextFile
  <2>2. ASSUME NEW i \in Index, InUse(i) PROVE Behind(i) < f_info.full /\ Size(cur) >= PerFile
    <3>1. Behind(i) <= f_info.full /\ Behind(i) \in Nat
      BY <2>2, HbTypes DEF HbInv, RingInv
    <3>2. i # old
      BY <1>9, <2>2
    <3>3. Behind(i) # Behind(old)
      BY <1>6, <3>2, GapAfter DEF Behind
    <3>4. Behind(i) < f_info.full
      BY <1>6, <3>1, <3>3
    <3>5. Behind(cur) = 0
      BY <1>6, GapAfter DEF Behind
    <3>6. old # cur
      BY <1>6, <3>1, <3>4, <3>5
    <3> QED BY <1>9, <3>4, <3>6
  <2>3. OrderInv' /\ SizeInv'
    BY <2>1, <2>2, NextFileSizes
  <2>4. InfoInv'
    <3>1. Gap(After(cur), After(old)) = f_info.full
      BY <1>6, GapAfter DEF Behind
    <3> QED BY <1>1, <1>6, <2>1, <3>1 DEF InfoInv
  <2>5. RingInv'
    <3> SUFFICES ASSUME NEW i \in Index
                 PROVE  /\ InUse(i) => Behind(i)' <= f_info.full
                        /\ Behind(i)' \in 1 .. f_info.full - 1 => Size(i) >= PerFile
      BY <1>1, <1>2, <2>1 DEF RingInv
    <3>1. Behind(i) \in Nat
      BY HbTypes
    <3>2. InUse(i) => Behind(i)' <= f_info.full
      <4>1. InUse(i) => Behind(i) < f_info.full /\ Behind(i)' = Behind(i) + 1
        BY <2>1, <2>2, NextFileStep
      <4> QED BY <1>6, <3>1, <4>1
    <3>3. ASSUME Behind(i)' \in 1 .. f_info.full - 1 PROVE Size(i) >= PerFile
      <4>1. Behind(i)' = Behind(i) + 1
        BY <2>1, <3>3, NextFileStep
      <4>2. (Behind(i) = 0 /\ f_info.full # 0) \/ Behind(i) \in 1 .. f_info.full - 1
        BY <1>6, <3>1, <3>3, <4>1
      <4>3. Behind(i) = 0 => i = cur
        BY <1>6, GapAfter DEF Behind
      <4>4. old = cur => f_info.full = 0
        BY <1>6, GapAfter DEF Behind
      <4> QED BY <1>9, <4>2, <4>3, <4>4 DEF HbInv, RingInv
    <3> QED BY <3>2, <3>3
  <2> QED BY <1>3, <1>4, <1>5, <2>3, <2>4, <2>5 DEF HbInv
<1> QED BY <1>1, <1>7, <1>8, <1>9 DEF HbInv, PlaceInv

\* Playback reads, and changes nothing.
LEMMA PlaybackInv ==
    ASSUME HbInv, UNCHANGED <<disk, hbLog, hb_resets>>
    PROVE  HbInv'
<1>1. UNCHANGED <<tlm_dir, f_info, readable, files, hb_at, info, logged, hb_resets>>
  BY DEF disk, hbLog
<1>2. InfoInv' /\ RingInv' /\ OrderInv' /\ ClosedInv' /\ SizeInv'
  BY <1>1, DiskStays, SizesStay
<1>3. HbTypeInv'
  <2>1. tlm_dir' \in BOOLEAN /\ readable' \in BOOLEAN
    <3>1. tlm_dir' = tlm_dir /\ readable' = readable
      BY <1>1
    <3> QED BY <3>1, Zenon DEF HbInv, HbTypeInv
  <2> QED BY <1>1, <2>1 DEF HbInv, HbTypeInv
<1>4. DirInv'
  <2>1. tlm_dir' = tlm_dir /\ f_info' = f_info /\ hb_at' = hb_at
    BY <1>1
  <2> QED BY <2>1 DEF HbInv, DirInv
<1>5. PlaceInv'
  <2>1. cur' = cur /\ old' = old /\ Size(cur)' = Size(cur) /\ InUse(old)' = InUse(old)
    BY <1>1 DEF cur, old, Size, InUse
  <2>2. \A o, f : NextFile(o, f)' = NextFile(o, f)
    BY <1>1 DEF NextFile, cur
  <2> QED BY <1>1, <2>1, <2>2 DEF HbInv, PlaceInv, NextFile
<1> QED BY <1>2, <1>3, <1>4, <1>5 DEF HbInv

-----------------------------------------------------------------------------

\* Every step keeps it.
LEMMA HbStepInv ==
    ASSUME HbInv, [HbNext]_hbVars
    PROVE  HbInv'
<1>1. CASE log_heartbeat_tlm
  <2>1. UNCHANGED hb_resets
    BY <1>1 DEF log_heartbeat_tlm
  <2>2. CASE LogBegin \/ LogMakeDir \/ LogFirstInfo \/ LogReadInfo \/ LogStat
    BY <2>1, <2>2, LogLooksInv
  <2>3. CASE LogAppend
    BY <2>1, <2>3, LogAppendInv
  <2>4. CASE LogDelete
    BY <2>1, <2>4, LogDeleteInv
  <2>5. CASE LogSave
    BY <2>1, <2>5, LogSaveInv
  <2> QED BY <1>1, <2>2, <2>3, <2>4, <2>5 DEF log_heartbeat_tlm
<1>2. CASE hb_tlm_playback
  BY <1>2, PlaybackInv DEF hb_tlm_playback
<1>3. CASE HbReset
  BY <1>3, HbResetInv
<1>4. CASE UNCHANGED hbVars
  BY <1>4, PlaybackInv DEF hbVars
<1> QED BY <1>1, <1>2, <1>3, <1>4 DEF HbNext

\* The ring keeps its shape: the files from the oldest to the present one are in use
\* and no other, those between are full, the heartbeats in them follow each other
\* without a gap up to the last logged, and each reset adds one at most.
THEOREM HbInvariance == HbSpec => []HbInv
<1>1. HbInit => HbInv
  BY HbInitInv
<1>2. HbInv /\ [HbNext]_hbVars => HbInv'
  BY HbStepInv
<1> QED BY <1>1, <1>2, PTL DEF HbSpec

\* No file is left where neither the deletion of the oldest nor playback finds it, for
\* any size of the ring and wherever a reset comes (hb_tlm_log.c:47-65).
THEOREM RingLeaksNoFile == HbSpec => []NoFileLeaks
<1>1. HbInv => NoFileLeaks
  <2> SUFFICES ASSUME HbInv, NEW i \in Index, files[i] # <<>>
               PROVE  Age(i) <= Age(f_info.file_index)
    BY DEF NoFileLeaks
  <2>1. cur \in Index /\ old \in Index
    BY HbTypes
  <2>2. Age(i) = Gap(i, old) /\ Age(cur) = Gap(cur, old)
    BY <2>1, Around DEF Age, old
  <2>3. Gap(cur, i) <= Gap(cur, old)
    BY DEF HbInv, RingInv, InfoInv, InUse, Behind
  <2> QED BY <2>1, <2>2, <2>3, BehindIsAge DEF cur
<1> QED BY <1>1, HbInvariance, PTL

\* Whatever is stored is an interval that ends with the last heartbeat logged.
LEMMA StoredFrom ==
    ASSUME HbInv
    PROVE  /\ \A n \in Stored : n \in Nat /\ n <= logged /\ n >= 1
           /\ \A i \in Index : InUse(i) => First(i) .. logged \subseteq Stored
           /\ Stored # {} => \E i \in Index : InUse(i) /\ Stored = First(i) .. logged
<1>1. ASSUME NEW n \in Stored
      PROVE  \E i \in Index : InUse(i) /\ n \in First(i) .. logged /\ n >= 1
  <2>1. PICK i \in Index : \E k \in 1 .. Size(i) : n = files[i][k]
    BY StoredIs
  <2>2. PICK k \in 1 .. Size(i) : n = files[i][k]
    BY <2>1
  <2>3. InUse(i)
    BY <2>2 DEF InUse, Size
  <2>4. First(i) \in Nat /\ Size(i) \in Nat /\ Size(i) >= 1 /\ logged \in Nat
    BY <2>3, HbTypes
  <2>5. First(i) >= 1 /\ Last(i) <= logged
    BY <2>3 DEF HbInv, OrderInv
  <2>6. n = First(i) + k - 1 /\ Last(i) = First(i) + Size(i) - 1
    BY <2>2, <2>4 DEF HbInv, OrderInv, Last
  <2> QED BY <2>3, <2>4, <2>5, <2>6
<1>2. ASSUME NEW i \in Index, InUse(i)
      PROVE  First(i) \in Stored
  <2>1. 1 \in 1 .. Size(i)
    BY <1>2, HbTypes
  <2> QED BY <2>1, StoredIs DEF First
<1>3. \A n \in Stored : n \in Nat /\ n <= logged /\ n >= 1
  <2> SUFFICES ASSUME NEW n \in Stored PROVE n \in Nat /\ n <= logged /\ n >= 1
    OBVIOUS
  <2>1. PICK i \in Index : InUse(i) /\ n \in First(i) .. logged /\ n >= 1
    BY <1>1
  <2>2. First(i) \in Nat /\ logged \in Nat
    BY <2>1, HbTypes
  <2> QED BY <2>1, <2>2
<1>4. \A i \in Index : InUse(i) => First(i) .. logged \subseteq Stored
  BY <1>2 DEF HbInv, ClosedInv
<1>5. ASSUME Stored # {}
      PROVE  \E i \in Index : InUse(i) /\ Stored = First(i) .. logged
  <2>1. PICK lo \in Stored : \A n \in Stored : lo <= n
    BY <1>3, <1>5, LeastNat
  <2>2. PICK i \in Index : InUse(i) /\ lo \in First(i) .. logged
    BY <1>1
  <2>3. First(i) \in Nat /\ logged \in Nat
    BY <2>2, HbTypes
  <2>4. lo = First(i)
    <3>1. lo <= First(i)
      BY <1>2, <2>1, <2>2
    <3> QED BY <2>2, <2>3, <3>1
  <2>5. Stored \subseteq First(i) .. logged
    BY <1>3, <2>1, <2>3, <2>4
  <2> QED BY <1>4, <2>2, <2>5
<1> QED BY <1>3, <1>4, <1>5

\* The log keeps to its allocation, but for the heartbeats that resets add to files
\* that were full already (hb_tlm_log.c:42-62).
THEOREM LogKeepsToAllocation == HbSpec => []LogFits
<1>1. HbInv => LogFits
  <2> SUFFICES ASSUME HbInv PROVE Cardinality(Stored) <= Full(AllocFiles - 1) + hb_resets
    BY DEF LogFits, Full
  <2>1. logged \in Nat /\ hb_resets \in Nat /\ AllocFiles - 1 \in Nat
    BY HbTypes, HbConstants
  <2>2. Full(AllocFiles - 1) \in Nat
    BY <2>1, FullMore
  <2>3. CASE Stored = {}
    <3>1. Cardinality(Stored) = 0
      BY <2>3, FS_EmptySet
    <3> QED BY <2>1, <2>2, <3>1
  <2>4. CASE Stored # {}
    <3>1. PICK i \in Index : InUse(i) /\ Stored = First(i) .. logged
      BY <2>4, StoredFrom
    <3>2. First(i) \in Nat /\ Behind(i) \in Nat /\ cur \in Index
      BY <3>1, HbTypes
    <3>3. Size(cur) \in Nat
      BY <3>2, HbTypes
    <3>4. Past(i) + Size(cur) <= Full(Behind(i) + 1) + hb_resets
      BY <3>1 DEF HbInv, SizeInv
    <3>5. Past(i) + Size(cur) = logged + 1 - First(i)
      BY <2>1, <3>2, <3>3 DEF Past
    <3>6. Full(Behind(i) + 1) <= Full(AllocFiles - 1) /\ Full(Behind(i) + 1) \in Nat
      <4>1. Behind(i) <= f_info.full /\ f_info.full <= AllocFiles - 2 /\ f_info.full \in Nat
        BY <3>1, HbTypes DEF HbInv, RingInv, InfoInv
      <4>2. Behind(i) + 1 \in Nat /\ Behind(i) + 1 <= AllocFiles - 1
        BY <3>2, <4>1, HbConstants
      <4> QED BY <2>1, <4>2, FullMore
    <3>7. Cardinality(Stored) = IF First(i) > logged THEN 0 ELSE logged - First(i) + 1
      <4>1. First(i) \in Int /\ logged \in Int
        BY <2>1, <3>2
      <4>2. Cardinality(First(i) .. logged) = IF First(i) > logged THEN 0 ELSE logged - First(i) + 1
        BY <4>1, FS_Interval, Zenon
      <4> QED BY <3>1, <4>2
    <3>8. logged + 1 - First(i) <= Full(AllocFiles - 1) + hb_resets
      BY <2>1, <2>2, <3>2, <3>4, <3>5, <3>6
    <3> QED BY <2>1, <2>2, <3>2, <3>7, <3>8
  <2> QED BY <2>3, <2>4
<1> QED BY <1>1, HbInvariance, PTL

\* It is finite.
LEMMA StoredFinite == HbInv => IsFiniteSet(Stored) /\ Cardinality(Stored) \in Nat
<1> SUFFICES ASSUME HbInv PROVE IsFiniteSet(Stored) /\ Cardinality(Stored) \in Nat
  OBVIOUS
<1>1. logged \in Nat /\ Stored \subseteq 0 .. logged
  BY HbTypes, StoredFrom
<1>2. IsFiniteSet(0 .. logged)
  BY <1>1, FS_Interval
<1>3. IsFiniteSet(Stored)
  BY <1>1, <1>2, FS_Subset
<1> QED BY <1>3, FS_CardinalityType

\* And what follows the first heartbeat of a file is in it.
LEMMA StoredAfter == HbInv => \A i \in Index : InUse(i) => First(i) .. logged \subseteq Stored
BY StoredFrom

\* The deletion of a file drops the oldest heartbeats.
LEMMA LogDeleteDrops ==
    ASSUME HbInv, LogDelete
    PROVE  Stored' = Stored \/ \E n \in Stored : Stored' = {k \in Stored : k > n}
<1>1. ASSUME NEW n PROVE n \in Stored' <=> \E i \in Index : i # old /\ \E k \in 1 .. Size(i) : n = files[i][k]
  <2>1. \A i \in Index : /\ i # old => files'[i] = files[i]
                         /\ i = old => files'[i] = <<>>
    BY LogDeleteStep
  <2> QED BY <2>1, StoredIs DEF Size
<1>2. CASE ~InUse(old)
  <2>1. Size(old) = 0
    BY <1>2, HbTypes
  <2>2. \A n : n \in Stored' <=> n \in Stored
    BY <1>1, <2>1, StoredIs
  <2> QED BY <2>2
<1>3. CASE InUse(old)
  <2>1. old \in Index /\ Size(old) \in Nat /\ Size(old) >= 1 /\ First(old) \in Nat /\ Last(old) \in Nat
    BY <1>3, HbTypes
  <2>2. Last(old) \in Stored /\ Last(old) = First(old) + Size(old) - 1
    <3>1. Size(old) \in 1 .. Size(old)
      BY <2>1
    <3> QED BY <2>1, <3>1, StoredIs DEF HbInv, OrderInv, Last
  <2>3. ASSUME NEW i \in Index, NEW k \in 1 .. Size(i)
        PROVE  files[i][k] \in Nat /\ (i # old <=> files[i][k] > Last(old))
    <3>1. InUse(i)
      BY DEF InUse, Size
    <3>2. First(i) \in Nat /\ Size(i) \in Nat /\ files[i][k] = First(i) + k - 1
      BY <3>1, HbTypes DEF HbInv, OrderInv
    <3>3. CASE i = old
      BY <2>1, <2>2, <3>2, <3>3
    <3>4. CASE i # old
      <4>1. Behind(i) < Behind(old)
        <5>1. InUse(i)'
          BY <3>1, <3>4, LogDeleteStep
        <5> QED BY <5>1, LogDeleteStep
      <4>2. Last(old) < First(i)
        BY <1>3, <3>1, <4>1, HbTypes DEF HbInv, OrderInv
      <4> QED BY <2>1, <3>2, <3>4, <4>2
    <3> QED BY <3>3, <3>4
  <2>4. Stored' = {k \in Stored : k > Last(old)}
    <3>1. ASSUME NEW n \in Stored' PROVE n \in Stored /\ n > Last(old)
      BY <1>1, <2>3, StoredIs
    <3>2. ASSUME NEW n \in Stored, n > Last(old) PROVE n \in Stored'
      BY <1>1, <2>3, <3>2, StoredIs
    <3> QED BY <3>1, <3>2
  <2> QED BY <2>2, <2>4
<1> QED BY <1>2, <1>3

\* What remains is at least what all files hold but the present one and the next.
LEMMA LogDeleteKeeps ==
    ASSUME HbInv, LogDelete, UNCHANGED hb_resets
    PROVE  Cardinality(Stored') >= (AllocFiles - 2) * PerFile
<1>1. HbInv'
  BY LogDeleteInv
<1>2. IsFiniteSet(Stored') /\ Cardinality(Stored') \in Nat
  <2>1. (HbInv => IsFiniteSet(Stored) /\ Cardinality(Stored) \in Nat)'
    BY StoredFinite, PTL
  <2> QED BY <1>1, <2>1
<1>3. /\ f_info.full = AllocFiles - 2 /\ Behind(old) = f_info.full /\ f_info.full \in Nat /\ logged' = logged
      /\ Size(cur) >= PerFile /\ cur \in Index /\ old \in Index /\ logged \in Nat
  BY LogDeleteStep, HbTypes
<1>4. CASE f_info.full = 0
  <2>1. (AllocFiles - 2) * PerFile = 0
    BY <1>3, <1>4, HbConstants
  <2> QED BY <1>2, <2>1
<1>5. CASE f_info.full # 0
  <2>1. PICK x \in Index : x = After(old)
    BY <1>3, AfterType
  <2>2. x # old /\ Behind(x) = f_info.full - 1 /\ Behind(x) \in Nat
    <3>1. Gap(cur, old) # 0
      BY <1>3, <1>5 DEF Behind
    <3>2. old # cur
      BY <1>3, <3>1, GapAfter
    <3>3. Behind(x) = f_info.full - 1
      BY <1>3, <2>1, <3>2, GapAfter DEF Behind
    <3>4. Behind(x) \in Nat
      BY HbTypes
    <3> QED BY <1>3, <3>3, <3>4
  <2>3. Size(x) >= PerFile /\ InUse(x)
    <3>1. Behind(x) = 0 => x = cur
      BY <1>3, <2>1, GapAfter DEF Behind
    <3>2. ASSUME Behind(x) # 0 PROVE Behind(x) \in 1 .. f_info.full - 1
      <4>1. Behind(x) \in Nat
        BY <2>2
      <4>2. Behind(x) >= 1
        BY <3>2, <4>1
      <4>3. Behind(x) <= f_info.full - 1
        BY <1>3, <2>2
      <4> QED BY <1>3, <4>1, <4>2, <4>3
    <3>3. Size(x) >= PerFile
      BY <1>3, <2>1, <3>1, <3>2 DEF HbInv, RingInv
    <3>4. Size(x) \in Nat /\ (~InUse(x) => Size(x) = 0)
      BY <2>1, HbTypes
    <3> QED BY <3>3, <3>4, HbConstants
  <2>4. First(x)' = First(x) /\ InUse(x)' /\ First(x) \in Nat
    <3>1. First(x)' = First(x) /\ InUse(x)' = InUse(x)
      BY <2>2, LogDeleteStep
    <3>2. First(x) \in Nat
      BY <2>3, HbTypes
    <3> QED BY <2>3, <3>1, <3>2
  <2>5. First(x) .. logged \subseteq Stored'
    <3>1. (HbInv => \A i \in Index : InUse(i) => First(i) .. logged \subseteq Stored)'
      BY StoredAfter, PTL
    <3>2. First(x)' .. logged' \subseteq Stored'
      BY <1>1, <2>4, <3>1
    <3> QED BY <1>3, <2>4, <3>2
  <2>6. Cardinality(First(x) .. logged) = IF First(x) > logged THEN 0 ELSE logged - First(x) + 1
    <3>1. First(x) \in Int /\ logged \in Int
      BY <1>3, <2>4
    <3> QED BY <3>1, FS_Interval, Zenon
  <2>7. Cardinality(First(x) .. logged) <= Cardinality(Stored')
    BY <1>2, <2>5, FS_Subset
  <2>8. logged + 1 - First(x) >= Full(AllocFiles - 2)
    <3>1. Past(x) >= Full(Behind(x)) /\ Past(x) = logged + 1 - First(x) - Size(cur)
      BY <2>1, <2>3 DEF HbInv, SizeInv, Past
    <3>2. Full(Behind(x)) \in Nat /\ Full(Behind(x) + 1) = Full(Behind(x)) + PerFile /\ Size(cur) \in Nat
      BY <1>3, <2>1, HbTypes
    <3>3. Behind(x) + 1 = AllocFiles - 2
      BY <1>3, <2>2
    <3>4. Full(AllocFiles - 2) = Full(Behind(x)) + PerFile
      BY <3>2, <3>3
    <3> QED BY <1>3, <2>4, <3>1, <3>2, <3>4, HbConstants
  <2>9. Full(AllocFiles - 2) \in Nat
    BY <1>3, FullMore
  <2>10. Cardinality(Stored') >= Full(AllocFiles - 2)
    BY <1>2, <1>3, <2>4, <2>6, <2>7, <2>8, <2>9
  <2> QED BY <2>10 DEF Full
<1> QED BY <1>4, <1>5

\* The ring of files implements the bounded log: only the oldest heartbeats are lost,
\* and none of the newest (AllocFiles - 2) * PerFile, wherever a reset comes
\* (hb_tlm_log.c:42-65).
THEOREM RingImplementsBoundedLog == HbSpec => KeepsNewest
<1>1. HbInit => Ring!Start
  <2> SUFFICES ASSUME HbInit PROVE logged = 0 /\ Stored = {}
    BY DEF Ring!Start
  <2>1. logged = 0 /\ \A i \in Index : files[i] = <<>>
    BY DEF HbInit
  <2>2. \A i \in Index : Size(i) = 0
    BY <2>1 DEF Size
  <2>3. \A n : n \notin Stored
    BY <2>2, StoredIs
  <2> QED BY <2>1, <2>3
<1>2. HbInv /\ [HbNext]_hbVars => [Ring!Log \/ Ring!DropOldest]_<<logged, Stored>>
  <2> SUFFICES ASSUME HbInv, [HbNext]_hbVars
               PROVE  Ring!Log \/ Ring!DropOldest \/ (logged' = logged /\ Stored' = Stored)
    OBVIOUS
  <2>1. CASE LogAppend /\ UNCHANGED hb_resets
    <3>1. Stored' = Stored \cup {logged + 1} /\ logged' = logged + 1
      BY <2>1, LogAppendInv DEF LogAppend
    <3> QED BY <3>1 DEF Ring!Log
  <2>2. CASE LogDelete /\ UNCHANGED hb_resets
    <3>1. logged' = logged
      BY <2>2 DEF LogDelete
    <3>2. Stored' = Stored \/ \E n \in Stored : Stored' = {k \in Stored : k > n}
      BY <2>2, LogDeleteDrops
    <3>3. Cardinality(Stored') >= (AllocFiles - 2) * PerFile
      BY <2>2, LogDeleteKeeps
    <3>4. Ring!Cardinality(Stored') = Cardinality(Stored')
      BY DEF Cardinality, Ring!Cardinality
    <3> QED BY <3>1, <3>2, <3>3, <3>4 DEF Ring!DropOldest
  <2>3. CASE UNCHANGED <<files, logged>>
    BY <2>3 DEF Stored, Entries
  <2>4. \/ LogAppend /\ UNCHANGED hb_resets
        \/ LogDelete /\ UNCHANGED hb_resets
        \/ UNCHANGED <<files, logged>>
    BY DEF HbNext, log_heartbeat_tlm, hb_tlm_playback, HbReset, hbVars, disk, hbLog,
           LogBegin, LogMakeDir, LogFirstInfo, LogReadInfo, LogStat, LogSave
  <2> QED BY <2>1, <2>2, <2>3, <2>4
<1> QED BY <1>1, <1>2, HbInvariance, PTL DEF HbSpec, KeepsNewest, Ring!Spec

-----------------------------------------------------------------------------
(***************************************************************************)
(* Playback, while heartbeats are logged and files deleted.                *)
(***************************************************************************)

\* Where playback started, and how many files the log has moved on since.
idx == play_info.file_index
MovedOn == Behind(idx)

\* Fewer heartbeats can be logged during a playback than fill all the files that are free.
NoLap == MaxMeanwhile + 1 < Full(Indices - AllocFiles + 1)

PlayTypeInv ==
    /\ play_at \in {"idle", "info", "file"}
    /\ play \in Playbacks \/ (play_at = "idle" /\ play_sent = <<>>)
    /\ play_info \in Info /\ play_file \in Index
    /\ play_skipped \in Nat /\ play_counter \in Nat
    /\ play_sent \in Seq(Nat)
    /\ play_newest \in Nat /\ play_newest <= logged
    /\ play_junk \in BOOLEAN

\* How many heartbeats there are since playback began, with the one that is under way.
CountInv ==
    play_at # "idle" =>
        /\ logged <= play_newest + MaxMeanwhile + 1
        /\ hb_at \in {"mkdir", "first_info", "read", "append"} => logged <= play_newest + MaxMeanwhile

\* The files still to be read are behind the one playback started in, and the present one
\* has not come around to them: each file it has left since is full.
TraceInv ==
    play_at = "file" =>
        /\ play_info.full = Gap(idx, play_info.oldest_file_index)
        /\ play_info.full <= AllocFiles - 2
        /\ Gap(idx, play_file) <= play_info.full
        /\ Behind(play_file) = MovedOn + Gap(idx, play_file)
        /\ MovedOn <= Indices - AllocFiles + 1
        /\ MovedOn >= 1 =>
               /\ Full(MovedOn - 1) + Size(cur) <= logged - play_newest
               /\ hb_at \in {"delete", "save"} /\ info.file_index = After(cur) =>
                      Full(MovedOn) <= logged - play_newest

\* What is sent is every every_x-th heartbeat back from go_back_x before m.
SentFrom(sent, m) ==
    \A i \in 1 .. Len(sent) : sent[i] = m - play.go_back_x - (i - 1) * play.every_x

\* With counter heartbeats looked at, the next is sent when the counter is n times every_x.
Counting(n, counter) ==
    IF play.every_x = 0 THEN n = IF counter = 0 THEN 0 ELSE 1
    ELSE n * play.every_x - counter \in 0 .. play.every_x - 1

\* What playback has sent is sent from a heartbeat that was the newest when it began, or later.
SentInv == ~play_junk => \E m \in play_newest .. logged : SentFrom(play_sent, m)

\* Before f_info.bin is read nothing is looked at.
StartInv == play_at = "info" => play_sent = <<>> /\ play_skipped = 0 /\ play_counter = 0

\* Nothing is read yet, or the last heartbeat of the file is the next to be looked at.
ReadInv ==
    play_at = "file" =>
        /\ Len(play_sent) < play.number
        /\ play_skipped <= play.go_back_x
        /\ play_file = idx => /\ play_sent = <<>> /\ play_skipped = 0 /\ play_counter = 0
                              /\ InUse(idx) => Last(idx) >= play_newest
        /\ ~play_junk =>
               /\ play_skipped < play.go_back_x => play_counter = 0
               /\ Counting(Len(play_sent), play_counter)
               /\ play_file # idx =>
                      \E m \in play_newest .. logged :
                          /\ SentFrom(play_sent, m)
                          /\ InUse(play_file) => Last(play_file) = m - play_skipped - play_counter

PlayInv == PlayTypeInv /\ CountInv /\ TraceInv /\ SentInv /\ StartInv /\ ReadInv

-----------------------------------------------------------------------------
(* What is sent of a file. *)

\* What playback is asked for.
LEMMA PlaybackTypes ==
    ASSUME play \in Playbacks
    PROVE  play.every_x \in Nat /\ play.go_back_x \in Nat /\ play.number \in Nat
BY HbTlmLogAssumption

\* The last multiple of x not below c is c itself just when c is divided by x.
LEMMA LastMultiple ==
    ASSUME NEW x \in Nat \ {0}, NEW n \in Nat, NEW c \in Nat, n * x - c \in 0 .. x - 1
    PROVE  c % x = 0 <=> c = n * x
<1> DEFINE q == c \div x
           r == c % x
           left == x * (n - q)
<1>1. q \in Nat /\ c = (x * q) + r /\ r \in 0 .. x - 1
  OBVIOUS
<1> HIDE DEF q, r
<1>2. n * x = (x * q) + left /\ x * q \in Nat /\ left \in Int
  BY <1>1
<1>3. ASSUME n > q PROVE left >= x
  <2>1. left = x + (x * (n - q - 1)) /\ x * (n - q - 1) \in Nat
    <3>1. n - q - 1 \in Nat
      BY <1>1, <1>3
    <3> QED BY <1>1, <3>1
  <2> HIDE DEF left
  <2> QED BY <1>2, <2>1
<1>4. ASSUME n < q PROVE left < 0
  <2>1. left + x + (x * (q - n - 1)) = 0 /\ x * (q - n - 1) \in Nat
    <3>1. q - n - 1 \in Nat
      BY <1>1, <1>4
    <3> QED BY <1>1, <3>1
  <2> HIDE DEF left
  <2> QED BY <1>2, <2>1
<1>5. n = q => left = 0
  BY <1>1
<1> HIDE DEF left
<1> DEFINE most == n * x
           times == x * q
<1>6. most - c \in 0 .. x - 1 /\ most = times + left /\ c = times + r /\ times \in Nat
  BY <1>1, <1>2
<1> HIDE DEF most, times
<1>7. r = 0 <=> c = most
  BY <1>1, <1>2, <1>3, <1>4, <1>5, <1>6
<1> QED BY <1>7 DEF r, most

\* Looking at one heartbeat more, playback sends it when the counter is a multiple of every_x,
\* which it then is of the number of those sent.
LEMMA CountStep ==
    ASSUME play \in Playbacks, NEW n \in Nat, NEW c \in Nat, Counting(n, c)
    PROVE  /\ Remainder(c) = 0 => c = n * play.every_x /\ Counting(n + 1, c + 1)
           /\ Remainder(c) # 0 => Counting(n, c + 1)
<1> DEFINE x == play.every_x
           most == n * x
<1>1. x \in Nat
  BY PlaybackTypes
<1>2. CASE x = 0
  <2>1. Remainder(c) = c /\ n = IF c = 0 THEN 0 ELSE 1
    BY <1>2 DEF Remainder, Counting
  <2>2. n * x = 0
    BY <1>2
  <2>3. \A a, b \in Nat : Counting(a, b) <=> a = IF b = 0 THEN 0 ELSE 1
    BY <1>2 DEF Counting
  <2> QED BY <2>1, <2>2, <2>3
<1>3. CASE x > 0
  <2>1. Remainder(c) = c % x /\ most - c \in 0 .. x - 1
    BY <1>1, <1>3 DEF Remainder, Counting
  <2>2. (n + 1) * x = most + x /\ most \in Nat
    BY <1>1
  <2>3. \A a, b \in Nat : Counting(a, b) <=> a * x - b \in 0 .. x - 1
    BY <1>1, <1>3 DEF Counting
  <2>4. c % x = 0 <=> c = most
    BY <1>1, <1>3, <2>1, LastMultiple
  <2>5. n + 1 \in Nat /\ c + 1 \in Nat
    OBVIOUS
  <2>6. ASSUME c = most PROVE Counting(n + 1, c + 1)
    <3>1. (n + 1) * x - (c + 1) \in 0 .. x - 1
      <4> HIDE DEF most, x
      <4> QED BY <1>1, <1>3, <2>2, <2>6
    <3> HIDE DEF x
    <3> QED BY <2>3, <2>5, <3>1
  <2>7. ASSUME c # most PROVE Counting(n, c + 1)
    <3>1. most - (c + 1) \in 0 .. x - 1
      <4> HIDE DEF most, x
      <4> QED BY <1>1, <2>1, <2>2, <2>7
    <3> HIDE DEF x
    <3> QED BY <2>3, <2>5, <3>1
  <2> QED BY <2>1, <2>4, <2>6, <2>7
<1> QED BY <1>1, <1>2, <1>3

\* What has been sent when the k-th heartbeat of a file has been looked at, and sent had
\* been before it.
Looked(seen, k, sent) ==
    IF /\ k > Skip(Len(seen)) /\ Remainder(play_counter + k - Skip(Len(seen)) - 1) = 0
       /\ Len(sent) < play.number
    THEN Append(sent, seen[k]) ELSE sent

\* The values the recursion of SentAfter runs through.
Looks(seen, sent) ==
    /\ sent[0] = play_sent
    /\ \A k \in 1 .. Len(seen) : sent[k] = Looked(seen, k, sent[k - 1])
    /\ \A k \in 0 .. Len(seen) : sent[k] \in Seq(Nat)

\* Looking at a heartbeat leaves a sequence of heartbeats.
LEMMA LookedType ==
    ASSUME NEW seen \in Seq(Nat), NEW k \in 1 .. Len(seen), NEW s \in Seq(Nat)
    PROVE  Looked(seen, k, s) \in Seq(Nat)
BY DEF Looked

\* SentAfter is the last value of that recursion.
LEMMA SentIs ==
    ASSUME NEW seen \in Seq(Nat), play_sent \in Seq(Nat)
    PROVE  \E sent : Looks(seen, sent) /\ SentAfter(seen) = sent[Len(seen)]
<1> DEFINE n == Len(seen)
           S == Seq(Nat)
           body(f) == [j \in 0 .. n |-> IF j = 0 THEN play_sent ELSE Looked(seen, j, f[j - 1])]
           step == [k \in 1 .. n |-> [s \in S |-> Looked(seen, k, s)]]
           sent == CHOOSE f : f = body(f)
<1>1. n \in Nat /\ play_sent \in S
  OBVIOUS
<1>2. step \in [1 .. n -> [S -> S]]
  <2>1. ASSUME NEW k \in 1 .. n PROVE [s \in S |-> Looked(seen, k, s)] \in [S -> S]
    BY LookedType
  <2> QED BY <2>1
<1>3. \A k \in 1 .. n : \A s \in S : step[k][s] = Looked(seen, k, s)
  OBVIOUS
<1>4. SentAfter(seen) = sent[n]
  BY DEF SentAfter, Looked
<1>5. ASSUME NEW k \in 1 .. n, NEW s \in S PROVE Looked(seen, k, s) \in S
  BY LookedType
<1> HIDE DEF step, n, S
<1>6. \A k \in 1 .. n : k - 1 \in 0 .. n
  BY <1>1
<1>7. \A k \in 0 .. n : k = 0 \/ k \in 1 .. n
  BY <1>1
<1>8. PICK f : Runs(f, n, S, play_sent, step)
  BY <1>1, <1>2, Recursion
<1>9. f = body(f)
  <2>1. f = [k \in 0 .. n |-> f[k]] /\ f[0] = play_sent
    BY <1>8 DEF Runs
  <2>2. ASSUME NEW k \in 1 .. n PROVE f[k] = Looked(seen, k, f[k - 1])
    <3>1. f[k] = step[k][f[k - 1]] /\ f[k - 1] \in S
      BY <1>6, <1>8 DEF Runs
    <3> QED BY <1>3, <3>1
  <2> QED BY <1>7, <2>1, <2>2
<1>10. sent = body(sent)
  <2> HIDE DEF body
  <2> QED BY <1>9
<1> HIDE DEF sent
<1>11. sent[0] = play_sent /\ \A k \in 1 .. n : sent[k] = Looked(seen, k, sent[k - 1])
  <2>1. 0 \in 0 .. n /\ \A k \in 1 .. n : k \in 0 .. n /\ k # 0
    BY <1>1
  <2> QED BY <1>10, <2>1
<1>12. \A k \in 0 .. n : sent[k] \in S
  <2> DEFINE T == {k \in 0 .. n : sent[k] \in S}
  <2>1. 0 \in T
    BY <1>1, <1>11
  <2>2. ASSUME NEW k \in 1 .. n, k - 1 \in T PROVE k \in T
    <3>1. k \in 0 .. n
      BY <1>1
    <3> QED BY <1>5, <1>11, <2>2, <3>1
  <2> HIDE DEF T
  <2>3. 0 .. n \subseteq T
    BY <1>1, <2>1, <2>2, UpTo
  <2> QED BY <2>3 DEF T
<1>13. Looks(seen, sent)
  BY <1>11, <1>12 DEF Looks, n, S
<1> QED BY <1>4, <1>13 DEF n

\* What Skip passes over of a file of n heartbeats.
LEMMA SkipIs ==
    ASSUME play \in Playbacks, NEW n \in Nat, play_skipped \in Nat, play_skipped <= play.go_back_x
    PROVE  /\ Skip(n) \in 0 .. n
           /\ play_skipped + Skip(n) <= play.go_back_x
           /\ Skip(n) < n => play_skipped + Skip(n) = play.go_back_x
           /\ play_skipped + Skip(n) < play.go_back_x => Skip(n) = n
BY PlaybackTypes DEF Skip

\* The counter when k heartbeats of a file of n have been looked at.
CounterAt(n, k) == play_counter + (IF k > Skip(n) THEN k - Skip(n) ELSE 0)

\* What is sent is right so far, and so is the counter as long as more is to be sent.
RightAt(n, k, sent, m) ==
    SentFrom(sent, m) /\ (Len(sent) < play.number => Counting(Len(sent), CounterAt(n, k)))

\* Looking at a heartbeat keeps it so.
LEMMA LookStep ==
    ASSUME play \in Playbacks, NEW seen \in Seq(Nat), NEW k \in 1 .. Len(seen), NEW m \in Nat,
           NEW s \in Seq(Nat), RightAt(Len(seen), k - 1, s, m),
           play_skipped \in Nat, play_counter \in Nat, play_skipped <= play.go_back_x,
           seen[k] = m - play_skipped - play_counter - k + 1
    PROVE  RightAt(Len(seen), k, Looked(seen, k, s), m)
<1> DEFINE n == Len(seen)
           p == Skip(n)
           c == CounterAt(n, k - 1)
           t == Looked(seen, k, s)
<1>1. n \in Nat /\ k \in 1 .. n /\ Len(s) \in Nat
  OBVIOUS
<1>2. /\ p \in 0 .. n
      /\ p < n => play_skipped + p = play.go_back_x
  BY <1>1, SkipIs
<1>3. /\ play.every_x \in Nat /\ play.go_back_x \in Nat /\ play.number \in Nat
  BY PlaybackTypes
<1>4. CASE k <= p
  <2>1. t = s
    BY <1>1, <1>2, <1>4 DEF Looked
  <2>2. CounterAt(n, k) = c
    BY <1>1, <1>2, <1>4 DEF CounterAt
  <2> QED BY <2>1, <2>2 DEF RightAt
<1>5. CASE k > p
  <2>1. c = play_counter + k - p - 1 /\ CounterAt(n, k) = c + 1 /\ c \in Nat
    <3>1. /\ c = play_counter + (IF k - 1 > p THEN k - 1 - p ELSE 0)
          /\ CounterAt(n, k) = play_counter + (IF k > p THEN k - p ELSE 0)
      BY DEF CounterAt
    <3> HIDE DEF c, p
    <3>2. CASE k - 1 > p
      BY <1>1, <1>2, <1>5, <3>1, <3>2
    <3>3. CASE k - 1 = p
      BY <1>1, <1>2, <1>5, <3>1, <3>3
    <3> QED BY <1>1, <1>2, <1>5, <3>2, <3>3
  <2>2. play_skipped + p = play.go_back_x
    BY <1>1, <1>2, <1>5
  <2>3. SentFrom(s, m) /\ (Len(s) < play.number => Counting(Len(s), c))
    BY DEF RightAt
  <2>4. CASE Len(s) < play.number /\ Remainder(c) = 0
    <3>1. t = Append(s, seen[k])
      BY <1>5, <2>1, <2>4 DEF Looked
    <3>2. c = Len(s) * play.every_x /\ Counting(Len(s) + 1, c + 1)
      BY <1>1, <2>1, <2>3, <2>4, CountStep
    <3>3. seen[k] = m - play.go_back_x - Len(s) * play.every_x
      <4>1. seen[k] = m - play.go_back_x - c
        <5> HIDE DEF c, p
        <5> QED BY <1>1, <1>2, <1>3, <2>1, <2>2
      <4> HIDE DEF c
      <4> QED BY <3>2, <4>1
    <3>4. Len(t) = Len(s) + 1 /\ t[Len(s) + 1] = seen[k] /\ \A i \in 1 .. Len(s) : t[i] = s[i]
      BY <3>1
    <3>5. SentFrom(t, m)
      <4> HIDE DEF t, c, p
      <4> SUFFICES ASSUME NEW i \in 1 .. Len(t)
                   PROVE  t[i] = m - play.go_back_x - (i - 1) * play.every_x
        BY DEF SentFrom
      <4>1. CASE i = Len(s) + 1
        <5>1. i - 1 = Len(s)
          BY <1>1, <4>1
        <5> QED BY <3>3, <3>4, <4>1, <5>1
      <4>2. CASE i # Len(s) + 1
        <5>1. i \in 1 .. Len(s)
          BY <1>1, <3>4, <4>2
        <5> QED BY <2>3, <3>4, <5>1 DEF SentFrom
      <4> QED BY <4>1, <4>2
    <3>6. Counting(Len(t), CounterAt(n, k))
      BY <2>1, <3>2, <3>4
    <3> QED BY <3>5, <3>6 DEF RightAt
  <2>5. CASE ~(Len(s) < play.number /\ Remainder(c) = 0)
    <3>1. t = s
      BY <2>1, <2>5 DEF Looked
    <3>2. Len(s) < play.number => Counting(Len(s), c + 1)
      BY <1>1, <2>1, <2>3, <2>5, CountStep
    <3> QED BY <2>1, <2>3, <3>1, <3>2 DEF RightAt
  <2> QED BY <2>4, <2>5
<1> QED BY <1>1, <1>2, <1>4, <1>5

\* So it is when a whole file has been read, from the m-th heartbeat on when all before it
\* have been looked at.
LEMMA ReadFile ==
    ASSUME play \in Playbacks, NEW seen \in Seq(Nat), NEW m \in Nat, play_sent \in Seq(Nat),
           play_skipped \in Nat, play_counter \in Nat, play_skipped <= play.go_back_x,
           SentFrom(play_sent, m), Counting(Len(play_sent), play_counter),
           \A k \in 1 .. Len(seen) : seen[k] = m - play_skipped - play_counter - k + 1
    PROVE  /\ SentFrom(SentAfter(seen), m)
           /\ Len(SentAfter(seen)) < play.number =>
                  Counting(Len(SentAfter(seen)), CounterAfter(Len(seen)))
<1> DEFINE n == Len(seen)
<1>1. PICK sent : Looks(seen, sent) /\ SentAfter(seen) = sent[n]
  BY SentIs
<1>2. n \in Nat /\ Skip(n) \in 0 .. n
  BY SkipIs
<1> DEFINE T == {k \in 0 .. n : RightAt(n, k, sent[k], m)}
<1>3. 0 \in T
  <2>1. CounterAt(n, 0) = play_counter
    BY <1>2 DEF CounterAt
  <2> QED BY <1>1, <1>2, <2>1 DEF Looks, RightAt
<1>4. ASSUME NEW k \in 1 .. n, k - 1 \in T PROVE k \in T
  <2>1. k \in 0 .. n /\ k - 1 \in 0 .. n
    BY <1>2
  <2>2. sent[k - 1] \in Seq(Nat) /\ sent[k] = Looked(seen, k, sent[k - 1])
    BY <1>1, <2>1 DEF Looks
  <2>3. RightAt(n, k - 1, sent[k - 1], m)
    BY <1>4
  <2>4. RightAt(n, k, sent[k], m)
    BY <2>2, <2>3, LookStep
  <2> QED BY <2>1, <2>4
<1>5. RightAt(n, n, sent[n], m)
  <2> HIDE DEF T
  <2>1. 0 .. n \subseteq T
    BY <1>2, <1>3, <1>4, UpTo
  <2> QED BY <1>2, <2>1 DEF T
<1>6. CounterAt(n, n) = CounterAfter(n)
  BY <1>2 DEF CounterAt, CounterAfter
<1> QED BY <1>1, <1>5, <1>6 DEF RightAt

-----------------------------------------------------------------------------
(* The files playback goes through. *)

\* The file before one is one further behind, unless it is the present one.
LEMMA PreviousIs ==
    ASSUME NEW c \in Index, NEW i \in Index
    PROVE  /\ Previous(i) \in Index
           /\ Gap(c, i) < Indices - 1 => Gap(c, Previous(i)) = Gap(c, i) + 1
<1>1. 1 \in Index /\ Indices \in Nat /\ Indices >= 2
  BY HbConstants DEF Index
<1>2. Previous(i) = Gap(i, 1) /\ Previous(i) \in Index
  BY <1>1, Around DEF Previous, Index
<1>3. Gap(c, i) < Indices - 1 => Gap(c, Gap(i, 1)) = Gap(c, i) + 1
  BY <1>1 DEF Gap, Index
<1> QED BY <1>2, <1>3

\* A file in use begins with the heartbeat after the last of the one before it.
LEMMA Adjacent ==
    ASSUME HbInv, NEW i \in Index, NEW j \in Index, InUse(i), InUse(j), Behind(j) = Behind(i) + 1
    PROVE  First(i) = Last(j) + 1
<1>1. /\ \A f \in Index : \A k \in 1 .. Size(f) : files[f][k] = First(f) + k - 1
      /\ \A f \in Index : InUse(f) => First(f) >= 1 /\ Last(f) <= logged
      /\ \A f, g \in Index : InUse(f) /\ InUse(g) /\ Behind(g) < Behind(f) => Last(f) < First(g)
  BY DEF HbInv, OrderInv
<1>2. /\ logged \in Nat /\ cur \in Index
      /\ \A f \in Index : /\ Behind(f) \in Nat /\ Size(f) \in Nat
                          /\ InUse(f) => Size(f) >= 1 /\ First(f) \in Nat /\ Last(f) \in Nat
                          /\ ~InUse(f) => Size(f) = 0
  BY HbTypes
<1>3. \A f \in Index : InUse(f) => Last(f) = First(f) + Size(f) - 1
  BY <1>1, <1>2 DEF Last
<1>4. Last(j) < First(i)
  BY <1>1, <1>2
<1>5. Last(j) + 1 \in Stored
  <2>1. Last(j) \in Stored
    <3>1. Size(j) \in 1 .. Size(j) /\ Last(j) = files[j][Size(j)]
      BY <1>2 DEF Last
    <3> QED BY <3>1, StoredIs
  <2>2. Last(j) + 1 \in Last(j) .. logged
    BY <1>1, <1>2, <1>3, <1>4
  <2> QED BY <2>1, <2>2 DEF HbInv, ClosedInv
<1>6. PICK f \in Index : \E k \in 1 .. Size(f) : Last(j) + 1 = files[f][k]
  BY <1>5, StoredIs
<1>7. PICK k \in 1 .. Size(f) : Last(j) + 1 = files[f][k]
  BY <1>6
<1>8. InUse(f) /\ Last(j) + 1 = First(f) + k - 1 /\ Last(j) + 1 \in First(f) .. Last(f)
  <2>1. InUse(f)
    BY <1>2, <1>7
  <2> QED BY <1>1, <1>2, <1>3, <1>7, <2>1
<1>9. CASE Behind(f) < Behind(i)
  BY <1>1, <1>2, <1>3, <1>4, <1>8, <1>9
<1>10. CASE Behind(f) > Behind(j)
  BY <1>1, <1>2, <1>3, <1>4, <1>8, <1>10
<1>11. CASE Behind(f) \in {Behind(i), Behind(j)}
  <2>1. f = i \/ f = j
    BY <1>2, <1>11, GapAfter DEF Behind
  <2>2. CASE f = i
    BY <1>2, <1>4, <1>8, <2>2
  <2>3. CASE f = j
    BY <1>2, <1>8, <2>3
  <2> QED BY <2>1, <2>2, <2>3
<1> QED BY <1>2, <1>9, <1>10, <1>11

\* Logging a heartbeat changes the last of the present file only, and deletion ends a file.
LEMMA FileAfter ==
    ASSUME HbInv, log_heartbeat_tlm, NEW i \in Index
    PROVE  /\ logged' = logged \/ (LogAppend /\ logged' = logged + 1)
           /\ InUse(i)' => \/ InUse(i) /\ Last(i)' = Last(i)
                           \/ i = cur /\ Last(i)' = logged' /\ logged' = logged + 1 /\ LogAppend
<1>1. CASE LogAppend
  <2>1. logged' = logged + 1 /\ files' = [files EXCEPT ![cur] = Append(@, logged + 1)]
    BY <1>1 DEF LogAppend, HbInv, PlaceInv, cur
  <2>2. cur \in Index /\ logged \in Nat /\ files \in [Index -> Seq(Nat)]
    BY DEF HbInv, HbTypeInv, Info, cur
  <2>3. CASE i = cur
    <3>1. files'[i] = Append(files[i], logged + 1) /\ files[i] \in Seq(Nat)
      BY <2>1, <2>2, <2>3
    <3>2. Last(i)' = files'[i][Len(files'[i])]
      BY DEF Last, Size
    <3>3. Last(i)' = logged + 1
      <4> DEFINE s == files[i]
      <4>1. s \in Seq(Nat) /\ files'[i] = Append(s, logged + 1)
        BY <3>1
      <4> HIDE DEF s
      <4>2. Len(files'[i]) = Len(s) + 1 /\ Append(s, logged + 1)[Len(s) + 1] = logged + 1
        BY <2>2, <4>1
      <4> QED BY <3>2, <4>1, <4>2
    <3> QED BY <1>1, <2>1, <2>3, <3>3
  <2>4. CASE i # cur
    <3>1. files'[i] = files[i]
      BY <2>1, <2>2, <2>4
    <3> QED BY <1>1, <2>1, <3>1 DEF InUse, Last, Size
  <2> QED BY <2>3, <2>4
<1>2. CASE LogDelete
  <2>1. logged' = logged /\ files' = [files EXCEPT ![info.oldest_file_index] = <<>>]
    BY <1>2 DEF LogDelete
  <2>2. files \in [Index -> Seq(Nat)]
    BY DEF HbInv, HbTypeInv
  <2>3. files'[i] = <<>> \/ files'[i] = files[i]
    BY <2>1, <2>2
  <2> QED BY <2>1, <2>3 DEF InUse, Last, Size
<1>3. CASE ~LogAppend /\ ~LogDelete
  <2>1. UNCHANGED <<files, logged>>
    BY <1>3 DEF log_heartbeat_tlm, LogBegin, LogMakeDir, LogFirstInfo, LogReadInfo, LogStat, LogSave, disk
  <2> QED BY <2>1 DEF InUse, Last, Size
<1> QED BY <1>1, <1>2, <1>3

-----------------------------------------------------------------------------
(* Playback while heartbeats are logged. *)

\* A heartbeat's logging leaves alone what playback holds.
LEMMA LogLeavesPlayback ==
    ASSUME log_heartbeat_tlm
    PROVE  UNCHANGED <<play_at, play, play_info, play_file, play_skipped, play_counter, play_sent,
                       play_newest, play_junk, idx>>
BY DEF log_heartbeat_tlm, playback, idx

\* The types, and the count of what is logged meanwhile.
LEMMA LogCounts ==
    ASSUME HbInv, PlayInv, log_heartbeat_tlm
    PROVE  PlayTypeInv' /\ CountInv' /\ SentInv' /\ StartInv'
<1> USE LogLeavesPlayback
<1>1. logged \in Nat /\ cur \in Index /\ MaxMeanwhile \in Nat /\ play_newest \in Nat /\ play_newest <= logged
  BY HbTypes, HbTlmLogAssumption DEF PlayInv, PlayTypeInv
<1>2. logged' = logged \/ (LogAppend /\ logged' = logged + 1)
  BY <1>1, FileAfter
<1>3. PlayTypeInv'
  <2>1. play_newest <= logged'
    BY <1>1, <1>2
  <2>2. play_junk' \in BOOLEAN
    <3>1. play_junk' = play_junk
      OBVIOUS
    <3> QED BY <3>1, Zenon DEF PlayInv, PlayTypeInv
  <2>3. play_junk' \in BOOLEAN /\ play_newest' <= logged'
    BY <2>1, <2>2
  <2>4. /\ (play_at \in {"idle", "info", "file"})'
        /\ (play \in Playbacks \/ (play_at = "idle" /\ play_sent = <<>>))'
        /\ (play_info \in Info /\ play_file \in Index)'
        /\ (play_skipped \in Nat /\ play_counter \in Nat /\ play_sent \in Seq(Nat) /\ play_newest \in Nat)'
    BY DEF PlayInv, PlayTypeInv
  <2> QED BY <2>3, <2>4 DEF PlayTypeInv
<1>4. CountInv'
  <2> SUFFICES ASSUME play_at # "idle" PROVE CountInv'
    BY DEF CountInv
  <2>1. /\ logged <= play_newest + MaxMeanwhile + 1
        /\ hb_at \in {"mkdir", "first_info", "read", "append"} => logged <= play_newest + MaxMeanwhile
    BY DEF PlayInv, CountInv
  <2>2. logged' <= play_newest + MaxMeanwhile + 1
    BY <1>1, <1>2, <2>1 DEF LogAppend
  <2>3. ASSUME hb_at' \in {"mkdir", "first_info", "read", "append"} PROVE logged' <= play_newest + MaxMeanwhile
    <3>1. CASE LogBegin
      BY <1>1, <2>1, <3>1 DEF LogBegin
    <3>2. CASE ~LogBegin
      <4>1. hb_at \in {"mkdir", "first_info", "read", "append"} /\ logged' = logged
        BY <2>3, <3>2 DEF log_heartbeat_tlm, LogMakeDir, LogFirstInfo, LogReadInfo, LogAppend, LogStat,
                          LogDelete, LogSave
      <4> QED BY <2>1, <4>1
    <3> QED BY <3>1, <3>2
  <2> QED BY <2>2, <2>3 DEF CountInv
<1>5. SentInv'
  <2> SUFFICES ASSUME ~play_junk' PROVE \E m \in play_newest .. logged' : SentFrom(play_sent, m)'
    BY DEF SentInv
  <2>1. PICK m \in play_newest .. logged : SentFrom(play_sent, m)
    <3>1. play_junk' = play_junk
      OBVIOUS
    <3> QED BY <3>1 DEF PlayInv, SentInv
  <2>2. m \in play_newest .. logged'
    BY <1>1, <1>2
  <2>3. SentFrom(play_sent, m)'
    BY <2>1 DEF SentFrom
  <2> QED BY <2>2, <2>3
<1>6. StartInv'
  BY DEF PlayInv, StartInv
<1> QED BY <1>3, <1>4, <1>5, <1>6

\* A file still to be read is not the present one, but for the one playback started in.
LEMMA NotYetBack ==
    ASSUME HbInv, PlayInv, play_at = "file", play_file # idx
    PROVE  play_file # cur
<1>1. play_file \in Index /\ idx \in Index /\ cur \in Index
  BY HbTypes DEF PlayInv, PlayTypeInv, Info, idx
<1>2. MovedOn \in Nat /\ Gap(idx, play_file) \in Nat /\ Gap(idx, play_file) # 0
  BY <1>1, GapType, GapAfter DEF MovedOn, Behind
<1>3. Behind(play_file) # 0
  BY <1>2 DEF PlayInv, TraceInv
<1> QED BY <1>1, <1>3, GapAfter DEF Behind

\* What playback has read, and what it reads next, stays right.
LEMMA LogKeepsReading ==
    ASSUME HbInv, PlayInv, log_heartbeat_tlm
    PROVE  ReadInv'
<1> USE LogLeavesPlayback
<1> SUFFICES ASSUME play_at = "file" PROVE ReadInv'
  BY DEF ReadInv
<1>1. logged \in Nat /\ cur \in Index /\ play_newest \in Nat /\ play_newest <= logged
  BY HbTypes DEF PlayInv, PlayTypeInv
<1>2. idx \in Index /\ play_file \in Index
  BY DEF PlayInv, PlayTypeInv, Info, idx
<1>3. /\ logged' = logged \/ logged' = logged + 1
      /\ \A i \in Index : InUse(i)' => \/ InUse(i) /\ Last(i)' = Last(i)
                                       \/ i = cur /\ Last(i)' = logged' /\ logged' = logged + 1
  BY <1>1, FileAfter
<1>4. /\ Len(play_sent) < play.number /\ play_skipped <= play.go_back_x
      /\ play_file = idx => /\ play_sent = <<>> /\ play_skipped = 0 /\ play_counter = 0
                            /\ InUse(idx) => Last(idx) >= play_newest
      /\ ~play_junk =>
             /\ play_skipped < play.go_back_x => play_counter = 0
             /\ Counting(Len(play_sent), play_counter)
             /\ play_file # idx =>
                    \E m \in play_newest .. logged :
                        /\ SentFrom(play_sent, m)
                        /\ InUse(play_file) => Last(play_file) = m - play_skipped - play_counter
  BY DEF PlayInv, ReadInv
<1>5. ASSUME play_file = idx, InUse(idx)' PROVE Last(idx)' >= play_newest
  <2>1. (InUse(idx) /\ Last(idx)' = Last(idx)) \/ Last(idx)' = logged + 1
    BY <1>2, <1>3, <1>5
  <2> QED BY <1>1, <1>4, <1>5, <2>1
<1>6. ASSUME ~play_junk, play_file # idx
      PROVE  \E m \in play_newest .. logged' :
                 /\ SentFrom(play_sent, m)'
                 /\ InUse(play_file)' => Last(play_file)' = m - play_skipped - play_counter
  <2>1. PICK m \in play_newest .. logged :
                /\ SentFrom(play_sent, m)
                /\ InUse(play_file) => Last(play_file) = m - play_skipped - play_counter
    BY <1>4, <1>6
  <2>2. play_file # cur
    BY <1>6, NotYetBack
  <2>3. InUse(play_file)' => InUse(play_file) /\ Last(play_file)' = Last(play_file)
    BY <1>2, <1>3, <2>2
  <2>4. SentFrom(play_sent, m)'
    BY <2>1 DEF SentFrom
  <2>5. m \in play_newest .. logged'
    BY <1>1, <1>3
  <2> QED BY <2>1, <2>3, <2>4, <2>5
<1>7. Counting(Len(play_sent), play_counter)' <=> Counting(Len(play_sent), play_counter)
  BY DEF Counting
<1>8. /\ (Len(play_sent) < play.number)' /\ (play_skipped <= play.go_back_x)'
      /\ (play_file = idx)' => /\ (play_sent = <<>> /\ play_skipped = 0 /\ play_counter = 0)'
                               /\ InUse(idx)' => Last(idx)' >= play_newest'
  BY <1>4, <1>5
<1>9. ASSUME ~play_junk'
      PROVE  /\ (play_skipped < play.go_back_x => play_counter = 0)'
             /\ Counting(Len(play_sent), play_counter)'
             /\ (play_file # idx)' =>
                    (\E m \in play_newest .. logged :
                        /\ SentFrom(play_sent, m)
                        /\ InUse(play_file) => Last(play_file) = m - play_skipped - play_counter)'
  <2>1. ~play_junk
    <3>1. play_junk' = play_junk
      OBVIOUS
    <3> QED BY <1>9, <3>1
  <2>2. (play_skipped < play.go_back_x => play_counter = 0)' /\ Counting(Len(play_sent), play_counter)'
    BY <1>4, <1>7, <2>1
  <2> QED BY <1>6, <2>1, <2>2
<1> QED BY <1>8, <1>9 DEF ReadInv

\* What the numbers of the trace are.
LEMMA TraceTypes ==
    ASSUME HbInv, PlayInv
    PROVE  /\ idx \in Index /\ play_file \in Index /\ cur \in Index /\ play_info.oldest_file_index \in Index
           /\ play_info.full \in Nat
           /\ MovedOn \in Nat /\ Gap(idx, play_file) \in Nat /\ Size(cur) \in Nat
           /\ logged \in Nat /\ play_newest \in Nat /\ play_newest <= logged
           /\ \A n \in Nat : Full(n) \in Nat
           /\ MovedOn >= 1 => MovedOn - 1 \in Nat /\ Full(MovedOn) = Full(MovedOn - 1) + PerFile
<1>1. /\ idx \in Index /\ play_file \in Index /\ cur \in Index /\ play_info.oldest_file_index \in Index
      /\ play_info.full \in Nat /\ Size(cur) \in Nat
      /\ logged \in Nat /\ play_newest \in Nat /\ play_newest <= logged
  BY HbTypes DEF PlayInv, PlayTypeInv, Info, idx
<1>2. MovedOn \in Nat /\ Gap(idx, play_file) \in Nat
  BY <1>1, GapType DEF MovedOn, Behind
<1>3. \A n \in Nat : Full(n) \in Nat
  BY FullMore
<1>4. ASSUME MovedOn >= 1 PROVE MovedOn - 1 \in Nat /\ Full(MovedOn) = Full(MovedOn - 1) + PerFile
  <2> DEFINE k == MovedOn - 1
  <2>1. k \in Nat /\ k + 1 = MovedOn
    BY <1>2, <1>4
  <2>2. Full(k + 1) = Full(k) + PerFile
    <3> HIDE DEF k
    <3> QED BY <2>1, FullMore
  <2> QED BY <2>1, <2>2
<1> QED BY <1>1, <1>2, <1>3, <1>4

\* The present file moves on only after as many heartbeats as it holds.
LEMMA SaveKeepsTrace ==
    ASSUME NoLap, HbInv, PlayInv, LogSave, log_heartbeat_tlm, info.file_index = After(cur)
    PROVE  TraceInv'
<1> USE LogLeavesPlayback
<1> SUFFICES ASSUME play_at = "file" PROVE TraceInv'
  BY DEF TraceInv
<1> DEFINE K == MovedOn
           G == Gap(idx, play_file)
           room == Indices - AllocFiles + 1
<1>1. /\ play_info.full = Gap(idx, play_info.oldest_file_index)
      /\ play_info.full <= AllocFiles - 2
      /\ G <= play_info.full
      /\ Behind(play_file) = K + G
      /\ K <= room
  BY DEF PlayInv, TraceInv
<1>2. K >= 1 => Full(K) <= logged - play_newest
  BY DEF PlayInv, TraceInv, LogSave
<1>3. logged <= play_newest + MaxMeanwhile + 1
  BY DEF PlayInv, CountInv
<1>4. /\ idx \in Index /\ play_file \in Index /\ cur \in Index
      /\ play_info.full \in Nat /\ K \in Nat /\ G \in Nat
      /\ logged \in Nat /\ play_newest \in Nat /\ play_newest <= logged
      /\ \A n \in Nat : Full(n) \in Nat
  BY TraceTypes
<1>5. /\ room \in Nat /\ room >= 1 /\ AllocFiles \in Nat /\ Indices \in Nat /\ AllocFiles >= 2
      /\ MaxMeanwhile \in Nat
  BY HbConstants, HbTlmLogAssumption
<1>6. MaxMeanwhile + 1 < Full(room)
  BY DEF NoLap
<1>7. room <= K => Full(room) <= Full(K)
  <2> HIDE DEF room, K
  <2> QED BY <1>4, <1>5, FullMore
<1>8. K <= room - 1
  <2> HIDE DEF room, K, G
  <2>1. Full(room) \in Nat /\ Full(K) \in Nat
    BY <1>4, <1>5
  <2>2. CASE K >= 1
    BY <1>2, <1>3, <1>4, <1>5, <1>6, <1>7, <2>1, <2>2
  <2>3. CASE K = 0
    BY <1>5, <2>3
  <2> QED BY <1>4, <2>2, <2>3
<1>9. Behind(idx) < Indices - 1 /\ Behind(play_file) < Indices - 1
  <2>1. Behind(idx) = K
    BY DEF MovedOn
  <2>2. K + G < Indices - 1
    <3> HIDE DEF K, G
    <3> QED BY <1>1, <1>4, <1>5, <1>8
  <2> HIDE DEF K, G
  <2> QED BY <1>1, <1>4, <1>5, <2>1, <2>2
<1>10. idx # After(cur) /\ play_file # After(cur)
  BY <1>4, <1>5, <1>9, GapAfter DEF Behind
<1>11. /\ Behind(idx)' = K + 1 /\ Behind(play_file)' = Behind(play_file) + 1
       /\ Size(cur)' = 0 /\ logged' = logged /\ hb_at' = "idle"
  BY <1>4, <1>10, NextFileStep DEF MovedOn, LogSave
<1>12. Gap(idx, play_file)' = G /\ Gap(idx, play_info.oldest_file_index)' = Gap(idx, play_info.oldest_file_index)
  BY DEF Gap
<1>13. MovedOn' = K + 1
  BY <1>11 DEF MovedOn
<1>14. Full(K) + 0 <= logged - play_newest
  <2>1. Full(0) = 0
    BY HbConstants DEF Full
  <2> HIDE DEF K
  <2> QED BY <1>2, <1>4, <2>1
<1>15. Full(MovedOn' - 1) = Full(K)
  <2>1. (K + 1) - 1 = K
    BY <1>4
  <2> QED BY <1>13, <2>1
<1>16. /\ (play_info.full = Gap(idx, play_info.oldest_file_index))' /\ (play_info.full <= AllocFiles - 2)'
       /\ (Gap(idx, play_file) <= play_info.full)'
  BY <1>1, <1>12
<1>17. (Behind(play_file) = MovedOn + Gap(idx, play_file))' /\ (MovedOn <= Indices - AllocFiles + 1)'
  <2>1. K + G + 1 = (K + 1) + G /\ K + 1 <= room
    <3> HIDE DEF K, G, room
    <3> QED BY <1>4, <1>5, <1>8
  <2> QED BY <1>1, <1>11, <1>12, <1>13, <2>1
<1>18. (Full(MovedOn - 1) + Size(cur) <= logged - play_newest)'
  <2>1. Full(MovedOn - 1)' = Full(K)
    BY <1>15 DEF Full
  <2> QED BY <1>11, <1>14, <2>1
<1> QED BY <1>11, <1>16, <1>17, <1>18 DEF TraceInv

\* A heartbeat's logging keeps the present file from coming around to those still to be read.
LEMMA LogKeepsTrace ==
    ASSUME NoLap, HbInv, PlayInv, log_heartbeat_tlm
    PROVE  TraceInv'
<1> USE LogLeavesPlayback
<1> SUFFICES ASSUME play_at = "file" PROVE TraceInv'
  BY DEF TraceInv
<1>1. CASE LogSave /\ info.file_index = After(cur)
  BY <1>1, SaveKeepsTrace
<1>2. CASE ~(LogSave /\ info.file_index = After(cur))
  <2>1. cur' = cur
    <3>1. CASE LogSave
      BY <1>2, <3>1 DEF LogSave, cur, HbInv, PlaceInv, NextFile
    <3>2. CASE ~LogSave
      BY <3>2 DEF log_heartbeat_tlm, LogBegin, LogMakeDir, LogFirstInfo, LogReadInfo, LogAppend, LogStat,
                  LogDelete, disk, cur, HbInv, DirInv
    <3> QED BY <3>1, <3>2
  <2>2. /\ Behind(play_file)' = Behind(play_file) /\ MovedOn' = MovedOn
        /\ Gap(idx, play_file)' = Gap(idx, play_file)
        /\ Gap(idx, play_info.oldest_file_index)' = Gap(idx, play_info.oldest_file_index)
    BY <2>1 DEF Behind, MovedOn, Gap
  <2>3. /\ play_info.full = Gap(idx, play_info.oldest_file_index)
        /\ play_info.full <= AllocFiles - 2
        /\ Gap(idx, play_file) <= play_info.full
        /\ Behind(play_file) = MovedOn + Gap(idx, play_file)
        /\ MovedOn <= Indices - AllocFiles + 1
    BY DEF PlayInv, TraceInv
  <2>4. ASSUME MovedOn >= 1
        PROVE  /\ Full(MovedOn - 1) + Size(cur)' <= logged' - play_newest
               /\ hb_at' \in {"delete", "save"} /\ info'.file_index = After(cur) =>
                      Full(MovedOn) <= logged' - play_newest
    <3> DEFINE before == Full(MovedOn - 1)
               all == Full(MovedOn)
    <3>1. /\ before + Size(cur) <= logged - play_newest
          /\ hb_at \in {"delete", "save"} /\ info.file_index = After(cur) => all <= logged - play_newest
      BY <2>4 DEF PlayInv, TraceInv
    <3>2. /\ before \in Nat /\ all = before + PerFile /\ Size(cur) \in Nat /\ cur \in Index
          /\ logged \in Nat /\ play_newest \in Nat /\ PerFile \in Nat
      BY <2>4, TraceTypes, HbConstants
    <3> HIDE DEF before, all
    <3>3. Size(cur)' = Len(files'[cur])
      BY <2>1 DEF Size
    <3>4. files \in [Index -> Seq(Nat)]
      BY DEF HbInv, HbTypeInv
    <3>5. CASE LogAppend
      <4>1. /\ hb_at' = "stat" /\ logged' = logged + 1
            /\ files' = [files EXCEPT ![cur] = Append(@, logged + 1)]
        BY <3>5 DEF LogAppend, HbInv, PlaceInv, cur
      <4>2. Size(cur)' = Size(cur) + 1
        <5>1. files[cur] \in Seq(Nat) /\ files'[cur] = Append(files[cur], logged + 1)
          BY <3>2, <3>4, <4>1
        <5>2. Len(files'[cur]) = Len(files[cur]) + 1
          BY <5>1
        <5> QED BY <3>3, <5>2 DEF Size
      <4>3. before + (Size(cur) + 1) <= (logged + 1) - play_newest
        BY <3>1, <3>2
      <4> QED BY <4>1, <4>2, <4>3 DEF before
    <3>6. CASE LogDelete
      <4>1. /\ hb_at = "delete" /\ logged' = logged /\ info'.file_index = info.file_index
            /\ files'[cur] = files[cur] \/ files'[cur] = <<>>
        BY <3>2, <3>4, <3>6, HbTypes DEF LogDelete, Info
      <4>2. Size(cur)' <= Size(cur)
        <5>1. Len(<<>>) = 0
          OBVIOUS
        <5> QED BY <3>2, <3>3, <4>1, <5>1 DEF Size
      <4>3. before + Size(cur)' <= logged - play_newest
        <5>1. Size(cur)' \in Nat
          BY <3>2, <3>3, <4>1 DEF Size
        <5> QED BY <3>1, <3>2, <4>2, <5>1
      <4> QED BY <3>1, <4>1, <4>3 DEF before, all
    <3>7. CASE ~LogAppend /\ ~LogDelete
      <4>1. files' = files /\ logged' = logged
        BY <3>7 DEF log_heartbeat_tlm, LogBegin, LogMakeDir, LogFirstInfo, LogReadInfo, LogStat, LogSave, disk
      <4>2. Size(cur)' = Size(cur)
        BY <3>3, <4>1 DEF Size
      <4>3. ASSUME hb_at' \in {"delete", "save"}, info'.file_index = After(cur) PROVE all <= logged - play_newest
        <5>1. LogStat /\ info = f_info
          BY <3>7, <4>3 DEF log_heartbeat_tlm, LogBegin, LogMakeDir, LogFirstInfo, LogReadInfo, LogStat,
                            LogSave, HbInv, PlaceInv
        <5>2. After(cur) # cur
          <6>1. After(cur) = IF cur = Indices - 1 THEN 0 ELSE cur + 1
            BY <3>2, Around
          <6> QED BY <3>2, <6>1, HbConstants DEF Index
        <5>3. Size(cur) + 1 > PerFile
          BY <4>3, <5>1, <5>2 DEF LogStat, Size, cur
        <5> QED BY <3>1, <3>2, <5>3
      <4> QED BY <3>1, <4>1, <4>2, <4>3 DEF before, all
    <3> QED BY <3>5, <3>6, <3>7
  <2>5. ASSUME (MovedOn >= 1)'
        PROVE  /\ (Full(MovedOn - 1) + Size(cur) <= logged - play_newest)'
               /\ (hb_at \in {"delete", "save"} /\ info.file_index = After(cur) =>
                       Full(MovedOn) <= logged - play_newest)'
    <3>1. Full(MovedOn - 1)' = Full(MovedOn - 1) /\ Full(MovedOn)' = Full(MovedOn) /\ After(cur)' = After(cur)
      BY <2>1, <2>2 DEF Full, After
    <3>2. MovedOn >= 1
      BY <2>2, <2>5
    <3> QED BY <2>4, <3>1, <3>2
  <2>6. /\ (play_info.full = Gap(idx, play_info.oldest_file_index))' /\ (play_info.full <= AllocFiles - 2)'
        /\ (Gap(idx, play_file) <= play_info.full)'
        /\ (Behind(play_file) = MovedOn + Gap(idx, play_file))' /\ (MovedOn <= Indices - AllocFiles + 1)'
    BY <2>2, <2>3
  <2> QED BY <2>5, <2>6 DEF TraceInv
<1> QED BY <1>1, <1>2

-----------------------------------------------------------------------------
(* Playback's own steps. *)

\* What Seen shows of a file that is not overfull is the heartbeats back from its last.
LEMMA SeenIs ==
    ASSUME HbInv, NEW i \in Index
    PROVE  /\ Seen(i) \in Seq(Nat)
           /\ Seen(i) = <<>> <=> ~InUse(i)
           /\ Size(i) <= PerFile => /\ Len(Seen(i)) = Size(i)
                                    /\ \A k \in 1 .. Size(i) : Seen(i)[k] = Last(i) - k + 1
<1> DEFINE n == Size(i)
<1>1. n \in Nat /\ files[i] \in Seq(Nat) /\ (InUse(i) => n >= 1) /\ (~InUse(i) => n = 0)
  BY HbTypes
<1>2. PerFile \in Nat /\ PerFile >= 1 /\ Junk \in Nat
  BY HbConstants, HbTlmLogAssumption DEF Junk
<1>3. Seen(i) = IF n > PerFile THEN [j \in 1 .. PerFile |-> Junk] ELSE [j \in 1 .. n |-> files[i][n + 1 - j]]
  BY DEF Seen, Size
<1>4. \A k \in 1 .. n : files[i][k] = First(i) + k - 1
  BY DEF HbInv, OrderInv
<1>5. CASE n > PerFile
  <2>1. Seen(i) = [j \in 1 .. PerFile |-> Junk]
    BY <1>3, <1>5
  <2>2. Seen(i) \in Seq(Nat) /\ Len(Seen(i)) = PerFile
    BY <1>2, <2>1
  <2>3. Seen(i) # <<>>
    BY <1>2, <2>2
  <2> QED BY <1>1, <1>2, <1>5, <2>2, <2>3
<1>6. CASE n <= PerFile
  <2>1. Seen(i) = [j \in 1 .. n |-> files[i][n + 1 - j]]
    BY <1>1, <1>2, <1>3, <1>6
  <2>2. \A j \in 1 .. n : n + 1 - j \in 1 .. n
    BY <1>1
  <2>3. \A j \in 1 .. n : files[i][n + 1 - j] \in Nat
    BY <1>1, <2>2 DEF Size
  <2>4. Seen(i) \in Seq(Nat) /\ Len(Seen(i)) = n
    <3> HIDE DEF n
    <3> QED BY <1>1, <2>1, <2>3
  <2>5. Seen(i) = <<>> <=> n = 0
    <3>1. Len(<<>>) = 0
      OBVIOUS
    <3>2. \A s \in Seq(Nat) : Len(s) = 0 <=> s = <<>>
      OBVIOUS
    <3> QED BY <2>4, <3>2
  <2>6. ASSUME NEW k \in 1 .. n PROVE Seen(i)[k] = Last(i) - k + 1
    <3>1. InUse(i) /\ n >= 1 /\ First(i) \in Nat /\ Last(i) \in Nat
      <4>1. InUse(i)
        <5>1. n # 0
          BY <1>1, <2>6
        <5> QED BY <1>1, <5>1
      <4> QED BY <1>1, <4>1, HbTypes
    <3>2. Last(i) = First(i) + n - 1
      <4>1. n \in 1 .. n /\ Last(i) = files[i][n]
        BY <1>1, <3>1 DEF Last
      <4> QED BY <1>4, <4>1
    <3>3. Seen(i)[k] = files[i][n + 1 - k] /\ n + 1 - k \in 1 .. n
      BY <2>1, <2>2, <2>6
    <3>4. files[i][n + 1 - k] = First(i) + (n + 1 - k) - 1
      BY <1>4, <3>3
    <3> HIDE DEF n
    <3> QED BY <1>1, <2>6, <3>1, <3>2, <3>3, <3>4
  <2> QED BY <1>1, <2>4, <2>5, <2>6
<1> QED BY <1>1, <1>2, <1>5, <1>6

\* Playback begins with the newest heartbeat there is then.
LEMMA PlayBeginInv ==
    ASSUME HbInv, PlayInv, PlayBegin, UNCHANGED <<disk, hbLog, hb_resets>>
    PROVE  PlayInv'
<1>1. /\ logged' = logged /\ hb_at' = hb_at /\ logged \in Nat /\ MaxMeanwhile \in Nat
      /\ play' \in Playbacks /\ play_sent' = <<>> /\ play_skipped' = 0 /\ play_counter' = 0
      /\ play_newest' = logged /\ play_junk' = FALSE
      /\ play_at' \in {"info", "idle"} /\ UNCHANGED <<play_info, play_file>>
  BY HbTypes, HbTlmLogAssumption DEF PlayBegin, PlayReturn, hbLog
<1>2. PlayTypeInv'
  <2>1. play_info' \in Info /\ play_file' \in Index
    BY <1>1 DEF PlayInv, PlayTypeInv
  <2>2. play_junk' \in BOOLEAN
    <3>1. play_junk' = FALSE
      BY <1>1
    <3> QED BY <3>1, Zenon
  <2>3. <<>> \in Seq(Nat) /\ 0 \in Nat /\ logged <= logged
    BY <1>1
  <2> QED BY <1>1, <2>1, <2>2, <2>3 DEF PlayTypeInv
<1>3. CountInv' /\ TraceInv' /\ StartInv' /\ ReadInv'
  BY <1>1 DEF CountInv, TraceInv, StartInv, ReadInv
<1>4. SentInv'
  <2>1. SentFrom(play_sent, logged)'
    BY <1>1 DEF SentFrom
  <2> QED BY <1>1, <2>1 DEF SentInv
<1> QED BY <1>2, <1>3, <1>4 DEF PlayInv

\* It goes back from the file that is the present one when it reads f_info.bin.
LEMMA PlayInfoInv ==
    ASSUME HbInv, PlayInv, PlayInfo, UNCHANGED <<disk, hbLog, hb_resets>>
    PROVE  PlayInv'
<1>1. /\ UNCHANGED <<f_info, files, logged, hb_at, info, cur>>
      /\ UNCHANGED <<play, play_skipped, play_counter, play_sent, play_newest, play_junk>>
      /\ play_at = "info" /\ play_at' \in {"idle", "file"}
  BY DEF PlayInfo, PlayReturn, hbLog, disk, cur
<1>2. /\ logged \in Nat /\ cur \in Index /\ f_info \in Info /\ old \in Index /\ f_info.full \in Nat
      /\ play_newest \in Nat /\ play_newest <= logged
  BY HbTypes DEF PlayInv, PlayTypeInv
<1>3. PlayTypeInv'
  <2>1. play_info' \in Info /\ play_file' \in Index
    BY <1>2 DEF PlayInfo, PlayInv, PlayTypeInv, cur
  <2>2. play_junk' \in BOOLEAN
    <3>1. play_junk' = play_junk
      BY <1>1
    <3> QED BY <3>1, Zenon DEF PlayInv, PlayTypeInv
  <2>3. play' \in Playbacks
    BY <1>1 DEF PlayInv, PlayTypeInv
  <2> QED BY <1>1, <2>1, <2>2, <2>3 DEF PlayInv, PlayTypeInv
<1>4. CountInv'
  BY <1>1 DEF PlayInv, CountInv
<1>5. SentInv'
  <2>1. \A m : SentFrom(play_sent, m)' <=> SentFrom(play_sent, m)
    BY <1>1 DEF SentFrom
  <2>2. play_junk' = play_junk
    BY <1>1
  <2> QED BY <1>1, <2>1, <2>2 DEF PlayInv, SentInv
<1>6. ASSUME play_at' = "file" PROVE TraceInv' /\ ReadInv'
  <2>1. play_info' = f_info /\ play_file' = cur /\ play.number # 0
    BY <1>1, <1>6 DEF PlayInfo, PlayReturn, cur
  <2>2. idx' = cur /\ cur' = cur /\ play_info'.oldest_file_index = old
    BY <1>1, <2>1 DEF idx, cur, old
  <2>3. Gap(cur, cur) = 0
    BY <1>2, GapAfter
  <2>4. MovedOn' = 0 /\ Behind(play_file)' = 0 /\ Gap(idx, play_file)' = 0
        /\ Gap(idx, play_info.oldest_file_index)' = Gap(cur, old)
    BY <2>1, <2>2, <2>3 DEF MovedOn, Behind, Gap
  <2>5. f_info.full = Gap(cur, old) /\ f_info.full <= AllocFiles - 2
    BY DEF HbInv, InfoInv
  <2>6. TraceInv'
    BY <1>2, <2>1, <2>4, <2>5, HbConstants DEF TraceInv
  <2>7. play.number \in Nat /\ play.go_back_x \in Nat /\ play.every_x \in Nat
    BY <1>1, PlaybackTypes DEF PlayInv, PlayTypeInv
  <2>8. play_sent = <<>> /\ play_skipped = 0 /\ play_counter = 0
    BY <1>1 DEF PlayInv, StartInv
  <2>9. InUse(idx)' => Last(idx)' >= play_newest'
    <3>1. (InUse(idx)' <=> InUse(cur)) /\ Last(idx)' = Last(cur)
      BY <1>1, <2>2 DEF InUse, Last, Size
    <3>2. InUse(cur) => Last(cur) = logged
      BY DEF HbInv, OrderInv
    <3> QED BY <1>1, <1>2, <3>1, <3>2
  <2>10. Counting(Len(play_sent), play_counter)'
    <3>1. Len(play_sent)' = 0 /\ play_counter' = 0 /\ play' = play
      BY <1>1, <2>8
    <3>2. Counting(0, 0)
      BY <2>7 DEF Counting
    <3> QED BY <3>1, <3>2 DEF Counting
  <2>11. Len(play_sent') < play'.number
    BY <1>1, <2>1, <2>7, <2>8
  <2>12. (play_skipped <= play.go_back_x)' /\ (play_file = idx)'
         /\ (play_sent = <<>> /\ play_skipped = 0 /\ play_counter = 0)'
    BY <1>1, <2>1, <2>2, <2>7, <2>8
  <2> QED BY <2>6, <2>9, <2>10, <2>11, <2>12 DEF ReadInv
<1>7. CASE play_at' = "file"
  BY <1>3, <1>4, <1>5, <1>6, <1>7 DEF PlayInv, StartInv
<1>8. CASE play_at' # "file"
  BY <1>1, <1>3, <1>4, <1>5, <1>8 DEF PlayInv, TraceInv, StartInv, ReadInv
<1> QED BY <1>7, <1>8

\* What a file that is read and not overfull makes of what was sent.
LEMMA ReadsOn ==
    ASSUME HbInv, PlayInv, play_at = "file", InUse(play_file), Size(play_file) <= PerFile, ~play_junk
    PROVE  \E m \in play_newest .. logged :
               /\ Last(play_file) = m - play_skipped - play_counter
               /\ SentFrom(SentAfter(Seen(play_file)), m)
               /\ Len(SentAfter(Seen(play_file))) < play.number =>
                      Counting(Len(SentAfter(Seen(play_file))), CounterAfter(Size(play_file)))
<1> DEFINE p == play_file
           seen == Seen(p)
<1>1. /\ p \in Index /\ idx \in Index /\ logged \in Nat /\ play_newest \in Nat
      /\ play \in Playbacks /\ play_sent \in Seq(Nat) /\ play_skipped \in Nat /\ play_counter \in Nat
  BY HbTypes DEF PlayInv, PlayTypeInv, Info, idx
<1>2. /\ play_skipped <= play.go_back_x /\ Counting(Len(play_sent), play_counter)
      /\ p = idx => /\ play_sent = <<>> /\ play_skipped = 0 /\ play_counter = 0
                    /\ Last(idx) >= play_newest
      /\ p # idx => \E m \in play_newest .. logged :
                        SentFrom(play_sent, m) /\ Last(p) = m - play_skipped - play_counter
  BY DEF PlayInv, ReadInv
<1>3. Last(p) \in Nat /\ Last(p) <= logged
  BY <1>1, HbTypes DEF HbInv, OrderInv
<1>4. PICK m \in play_newest .. logged : SentFrom(play_sent, m) /\ Last(p) = m - play_skipped - play_counter
  <2>1. CASE p = idx
    <3>1. Last(p) \in play_newest .. logged /\ Last(p) = Last(p) - play_skipped - play_counter
      BY <1>1, <1>2, <1>3, <2>1
    <3>2. SentFrom(play_sent, Last(p))
      BY <1>2, <2>1 DEF SentFrom
    <3> QED BY <3>1, <3>2
  <2>2. CASE p # idx
    BY <1>2, <2>2
  <2> QED BY <2>1, <2>2
<1>5. /\ seen \in Seq(Nat) /\ Len(seen) = Size(p)
      /\ \A k \in 1 .. Len(seen) : seen[k] = Last(p) - k + 1
  BY <1>1, SeenIs
<1>6. \A k \in 1 .. Len(seen) : seen[k] = m - play_skipped - play_counter - k + 1
  BY <1>4, <1>5
<1>7. m \in Nat
  BY <1>1
<1>8. /\ SentFrom(SentAfter(seen), m)
      /\ Len(SentAfter(seen)) < play.number => Counting(Len(SentAfter(seen)), CounterAfter(Len(seen)))
  <2> HIDE DEF seen
  <2> QED BY <1>1, <1>2, <1>4, <1>5, <1>6, <1>7, ReadFile
<1> QED BY <1>4, <1>5, <1>8

\* Playback goes on with the file before, which ends where this one begins.
LEMMA PlayFileInv ==
    ASSUME HbInv, PlayInv, PlayFile, UNCHANGED <<disk, hbLog, hb_resets>>
    PROVE  PlayInv'
<1> DEFINE p == play_file
           seen == Seen(p)
           n == Len(seen)
<1>1. /\ UNCHANGED <<f_info, files, logged, hb_at, info, cur, idx>>
      /\ UNCHANGED <<play, play_info, play_newest>>
      /\ play_at = "file" /\ play_at' \in {"idle", "file"}
  BY DEF PlayFile, PlayReturn, hbLog, disk, cur, idx
<1>2. /\ p \in Index /\ idx \in Index /\ cur \in Index /\ logged \in Nat /\ play_newest \in Nat
      /\ play_newest <= logged /\ play_info \in Info
      /\ play \in Playbacks /\ play_sent \in Seq(Nat) /\ play_skipped \in Nat /\ play_counter \in Nat
      /\ play_junk \in BOOLEAN
  BY <1>1, HbTypes DEF PlayInv, PlayTypeInv, Info, idx
<1>3. play_skipped <= play.go_back_x
  BY <1>1 DEF PlayInv, ReadInv
<1>4. CountInv' /\ StartInv'
  BY <1>1 DEF PlayInv, CountInv, StartInv
<1>5. CASE seen = <<>>
  <2>1. /\ play_at' = "idle"
        /\ UNCHANGED <<play_skipped, play_counter, play_sent, play_junk, play_file>>
    BY <1>5 DEF PlayFile, PlayReturn
  <2>2. PlayTypeInv'
    <3>1. play_junk' \in BOOLEAN
      BY <1>2, <2>1, Zenon
    <3> QED BY <1>1, <1>2, <2>1, <3>1 DEF PlayTypeInv
  <2>3. SentInv'
    <3>1. \A m : SentFrom(play_sent, m)' <=> SentFrom(play_sent, m)
      BY <1>1, <2>1 DEF SentFrom
    <3>2. play_junk' = play_junk
      BY <2>1
    <3> QED BY <1>1, <3>1, <3>2 DEF PlayInv, SentInv
  <2> QED BY <1>4, <2>1, <2>2, <2>3 DEF PlayInv, TraceInv, ReadInv
<1>6. CASE seen # <<>>
  <2>1. /\ play_sent' = SentAfter(seen)
        /\ play_skipped' = play_skipped + Skip(n)
        /\ play_counter' = CounterAfter(n)
        /\ play_file' = Previous(p)
        /\ play_at' = "file" => Len(play_sent') < play.number /\ p # play_info.oldest_file_index
    <3>1. play_sent' = SentAfter(seen) /\ play_skipped' = play_skipped + Skip(n) /\ play_counter' = CounterAfter(n)
          /\ play_file' = Previous(p)
      BY <1>6 DEF PlayFile
    <3>2. /\ Len(play_sent') >= play.number => play_at' = "idle"
          /\ p = play_info.oldest_file_index => play_at' = "idle"
      BY <1>6 DEF PlayFile, PlayReturn
    <3>3. SentAfter(seen) \in Seq(Nat)
      <4>1. seen \in Seq(Nat)
        BY <1>2, SeenIs
      <4>2. PICK s : Looks(seen, s) /\ SentAfter(seen) = s[n]
        BY <1>2, <4>1, SentIs
      <4>3. n \in 0 .. n
        BY <4>1
      <4> QED BY <4>2, <4>3 DEF Looks
    <3>4. Len(play_sent') \in Nat /\ play.number \in Nat
      BY <1>2, <3>1, <3>3, PlaybackTypes
    <3> QED BY <3>1, <3>2, <3>4
  <2>2. play_junk' = (play_junk \/ Size(p) > PerFile)
    BY <1>6 DEF PlayFile, Size
  <2>3. seen \in Seq(Nat) /\ n \in Nat /\ InUse(p) /\ Size(p) \in Nat
    BY <1>2, <1>6, SeenIs, HbTypes
  <2>4. /\ Skip(n) \in 0 .. n /\ play_skipped + Skip(n) <= play.go_back_x
        /\ play_skipped + Skip(n) < play.go_back_x => Skip(n) = n
    BY <1>2, <1>3, <2>3, SkipIs
  <2>5. PlayTypeInv'
    <3>1. play_sent' \in Seq(Nat)
      <4>1. PICK s : Looks(seen, s) /\ SentAfter(seen) = s[n]
        BY <1>2, <2>3, SentIs
      <4>2. n \in 0 .. n
        BY <2>3
      <4> QED BY <2>1, <4>1, <4>2 DEF Looks
    <3>2. play_skipped' \in Nat /\ play_counter' \in Nat
      <4> HIDE DEF n
      <4> QED BY <1>2, <2>1, <2>3, <2>4 DEF CounterAfter
    <3>3. play_file' \in Index
      BY <1>2, <2>1, PreviousIs
    <3>4. play_junk' \in BOOLEAN
      BY <1>2, <2>2, Zenon
    <3> QED BY <1>1, <1>2, <3>1, <3>2, <3>3, <3>4 DEF PlayTypeInv
  <2>6. ASSUME ~play_junk'
        PROVE  /\ ~play_junk /\ Size(p) <= PerFile /\ n = Size(p)
               /\ \E m \in play_newest .. logged :
                      /\ Last(p) = m - play_skipped - play_counter
                      /\ SentFrom(SentAfter(seen), m)
                      /\ Len(SentAfter(seen)) < play.number =>
                             Counting(Len(SentAfter(seen)), CounterAfter(n))
    <3>1. ~play_junk /\ ~(Size(p) > PerFile)
      BY <2>2, <2>6
    <3>2. Size(p) <= PerFile
      BY <2>3, <3>1, HbConstants
    <3>3. n = Size(p)
      BY <1>2, <3>2, SeenIs
    <3> QED BY <1>1, <2>3, <3>1, <3>2, <3>3, ReadsOn
  <2>7. SentInv'
    <3> SUFFICES ASSUME ~play_junk' PROVE \E m \in play_newest .. logged : SentFrom(play_sent, m)'
      BY <1>1 DEF SentInv
    <3>1. PICK m \in play_newest .. logged : SentFrom(SentAfter(seen), m)
      BY <2>6
    <3>2. SentFrom(play_sent, m)'
      BY <1>1, <2>1, <3>1 DEF SentFrom
    <3> QED BY <3>2
  <2>8. ASSUME play_at' = "file" PROVE TraceInv' /\ ReadInv'
    <3> DEFINE K == MovedOn
               G == Gap(idx, p)
               q == Previous(p)
    <3>1. /\ play_info.full = Gap(idx, play_info.oldest_file_index)
          /\ play_info.full <= AllocFiles - 2
          /\ G <= play_info.full
          /\ Behind(p) = K + G
          /\ MovedOn <= Indices - AllocFiles + 1
          /\ MovedOn >= 1 =>
                 /\ Full(MovedOn - 1) + Size(cur) <= logged - play_newest
                 /\ hb_at \in {"delete", "save"} /\ info.file_index = After(cur) =>
                        Full(MovedOn) <= logged - play_newest
      BY <1>1 DEF PlayInv, TraceInv
    <3>2. p # play_info.oldest_file_index /\ Len(play_sent') < play.number
      BY <2>1, <2>8
    <3>3. /\ K \in Nat /\ G \in Nat /\ play_info.full \in Nat /\ play_info.oldest_file_index \in Index
          /\ AllocFiles \in Nat /\ AllocFiles >= 2 /\ Indices \in Nat /\ Indices >= AllocFiles
      BY TraceTypes, HbConstants
    <3>4. G < play_info.full
      <4>1. G # play_info.full
        BY <1>2, <3>1, <3>2, <3>3, GapAfter
      <4> HIDE DEF G
      <4> QED BY <3>1, <3>3, <4>1
    <3>5. q \in Index /\ Gap(idx, q) = G + 1
      <4>1. G < Indices - 1
        <5> HIDE DEF G
        <5> QED BY <3>1, <3>3, <3>4
      <4> QED BY <1>2, <4>1, PreviousIs
    <3>6. Behind(q) = Behind(p) + 1
      <4>1. Behind(p) <= f_info.full /\ f_info.full <= AllocFiles - 2
        BY <1>2, <2>3 DEF HbInv, RingInv, InfoInv
      <4>2. Behind(p) \in Nat /\ f_info.full \in Nat
        BY <1>2, HbTypes
      <4>3. Behind(p) < Indices - 1
        BY <3>3, <4>1, <4>2
      <4> QED BY <1>2, <4>3, PreviousIs DEF Behind
    <3>7. TraceInv'
      <4>1. /\ Gap(idx, play_file)' = G + 1 /\ Behind(play_file)' = Behind(p) + 1 /\ MovedOn' = K
            /\ Gap(idx, play_info.oldest_file_index)' = Gap(idx, play_info.oldest_file_index)
        BY <1>1, <2>1, <3>5, <3>6 DEF Gap, Behind, MovedOn
      <4>2. Behind(p) + 1 = K + (G + 1) /\ G + 1 <= play_info.full
        <5> HIDE DEF K, G
        <5> QED BY <3>1, <3>3, <3>4
      <4>3. Full(MovedOn - 1)' = Full(MovedOn - 1) /\ Full(MovedOn)' = Full(MovedOn)
            /\ Size(cur)' = Size(cur) /\ After(cur)' = After(cur)
        BY <1>1, <4>1 DEF Full, Size, After
      <4>4. (Behind(play_file) = MovedOn + Gap(idx, play_file))' /\ (Gap(idx, play_file) <= play_info.full)'
        BY <1>1, <4>1, <4>2
      <4>5. (MovedOn >= 1 =>
                 /\ Full(MovedOn - 1) + Size(cur) <= logged - play_newest
                 /\ hb_at \in {"delete", "save"} /\ info.file_index = After(cur) =>
                        Full(MovedOn) <= logged - play_newest)'
        BY <1>1, <3>1, <4>1, <4>3
      <4> QED BY <1>1, <3>1, <4>1, <4>4, <4>5 DEF TraceInv
    <3>8. q # idx
      BY <1>2, <3>3, <3>5, GapAfter
    <3>9. ASSUME ~play_junk'
          PROVE  /\ (play_skipped < play.go_back_x => play_counter = 0)'
                 /\ Counting(Len(play_sent), play_counter)'
                 /\ (\E m \in play_newest .. logged :
                         /\ SentFrom(play_sent, m)
                         /\ InUse(play_file) => Last(play_file) = m - play_skipped - play_counter)'
      <4>1. PICK m \in play_newest .. logged :
                    /\ Last(p) = m - play_skipped - play_counter
                    /\ SentFrom(SentAfter(seen), m)
                    /\ Len(SentAfter(seen)) < play.number =>
                           Counting(Len(SentAfter(seen)), CounterAfter(n))
        BY <2>6, <3>9
      <4>2. ~play_junk /\ n = Size(p)
        BY <2>6, <3>9
      <4>3. play.go_back_x \in Nat
        BY <1>2, PlaybackTypes
      <4>4. (play_skipped < play.go_back_x => play_counter = 0)'
        <5> SUFFICES ASSUME play_skipped + Skip(n) < play.go_back_x PROVE CounterAfter(n) = 0
          BY <1>1, <2>1
        <5>1. Skip(n) = n
          BY <2>4
        <5>2. play_skipped < play.go_back_x
          <6> HIDE DEF n
          <6> QED BY <1>2, <2>3, <2>4, <4>3
        <5>3. play_counter = 0
          BY <1>1, <4>2, <5>2 DEF PlayInv, ReadInv
        <5> QED BY <2>3, <5>1, <5>3 DEF CounterAfter
      <4>5. Counting(Len(play_sent), play_counter)'
        BY <1>1, <2>1, <3>2, <4>1 DEF Counting
      <4>6. SentFrom(play_sent, m)'
        BY <1>1, <2>1, <4>1 DEF SentFrom
      <4>7. ASSUME InUse(play_file)' PROVE Last(play_file)' = m - play_skipped' - play_counter'
        <5>1. InUse(q) /\ Last(play_file)' = Last(q)
          BY <1>1, <2>1, <4>7 DEF InUse, Last, Size
        <5>2. First(p) = Last(q) + 1
          BY <1>2, <2>3, <3>5, <3>6, <5>1, Adjacent
        <5>3. Last(p) = First(p) + Size(p) - 1
          <6>1. Size(p) >= 1
            BY <1>2, <2>3, HbTypes
          <6>2. Size(p) \in 1 .. Size(p) /\ Last(p) = files[p][Size(p)]
            BY <2>3, <6>1 DEF Last
          <6> QED BY <1>2, <6>2 DEF HbInv, OrderInv
        <5>4. First(p) \in Nat /\ Last(q) \in Nat
          BY <1>2, <2>3, <3>5, <5>1, HbTypes
        <5>5. Last(q) = m - (play_skipped + Skip(n)) - (play_counter + n - Skip(n))
          <6> DEFINE passed == Skip(n)
                     first == First(p)
                     last == Last(q)
          <6>1. m \in Nat /\ passed \in Nat /\ n \in Nat /\ play_skipped \in Nat /\ play_counter \in Nat
            BY <1>2, <2>3, <2>4
          <6>2. /\ m - play_skipped - play_counter = first + n - 1
                /\ first = last + 1 /\ first \in Nat /\ last \in Nat
            BY <4>1, <4>2, <5>2, <5>3, <5>4
          <6> HIDE DEF passed, first, last, n
          <6>3. last = m - (play_skipped + passed) - (play_counter + n - passed)
            BY <6>1, <6>2
          <6> QED BY <6>3 DEF passed, last
        <5> QED BY <2>1, <5>1, <5>5 DEF CounterAfter
      <4> QED BY <1>1, <4>1, <4>4, <4>5, <4>6, <4>7
    <3>10. /\ (Len(play_sent) < play.number)' /\ (play_skipped <= play.go_back_x)'
           /\ (play_file # idx)'
      BY <1>1, <2>1, <2>4, <3>2, <3>8
    <3>11. ReadInv'
      BY <3>9, <3>10 DEF ReadInv
    <3> QED BY <3>7, <3>11
  <2>9. CASE play_at' = "file"
    BY <1>4, <2>5, <2>7, <2>8, <2>9 DEF PlayInv
  <2>10. CASE play_at' # "file"
    BY <1>4, <2>5, <2>7, <2>10 DEF PlayInv, TraceInv, ReadInv
  <2> QED BY <2>9, <2>10
<1> QED BY <1>5, <1>6

\* A reset ends playback.
LEMMA HbResetPlay ==
    ASSUME PlayInv, HbReset
    PROVE  PlayInv'
<1>1. /\ play_at' = "idle" /\ play_sent' = <<>>
      /\ UNCHANGED <<logged, play_info, play_file, play_skipped, play_counter, play_newest, play_junk>>
  BY DEF HbReset
<1>2. PlayTypeInv'
  <2>1. play_junk' \in BOOLEAN
    <3>1. play_junk' = play_junk
      BY <1>1
    <3> QED BY <3>1, Zenon DEF PlayInv, PlayTypeInv
  <2> QED BY <1>1, <2>1 DEF PlayInv, PlayTypeInv
<1>3. SentInv'
  <2>1. play_newest \in play_newest .. logged /\ play_newest' = play_newest /\ logged' = logged
    BY <1>1 DEF PlayInv, PlayTypeInv
  <2>2. SentFrom(play_sent, play_newest)'
    BY <1>1 DEF SentFrom
  <2> QED BY <2>1, <2>2 DEF SentInv
<1> QED BY <1>1, <1>2, <1>3 DEF PlayInv, CountInv, TraceInv, StartInv, ReadInv

\* Nothing else touches what playback holds, or what it relies on.
LEMMA PlayStays ==
    ASSUME PlayInv, UNCHANGED hbVars
    PROVE  PlayInv'
<1>1. /\ UNCHANGED <<f_info, files, logged, hb_at, info>>
      /\ UNCHANGED <<play_at, play, play_info, play_file, play_skipped, play_counter, play_sent,
                     play_newest, play_junk>>
  BY DEF hbVars, disk, hbLog, playback
<1>2. PlayTypeInv'
  <2>1. play_junk' \in BOOLEAN
    BY <1>1, Zenon DEF PlayInv, PlayTypeInv
  <2> QED BY <1>1, <2>1 DEF PlayInv, PlayTypeInv
<1>3. CountInv' /\ TraceInv'
  BY <1>1 DEF PlayInv, CountInv, TraceInv, idx, MovedOn, Behind, cur, Gap, Full, Size, After
<1>4. play_junk' = play_junk
  BY <1>1
<1>5. SentInv' /\ StartInv' /\ ReadInv'
  BY <1>1, <1>4 DEF PlayInv, SentInv, StartInv, ReadInv, SentFrom, Counting, InUse, Last, Size, idx
<1> QED BY <1>2, <1>3, <1>5 DEF PlayInv

\* Playback goes back from one heartbeat to the one before, file by file, while others are
\* logged and files deleted.
THEOREM PlayInvariance ==
    ASSUME NoLap
    PROVE  HbSpec => []PlayInv
<1>1. HbInit => PlayInv
  <2> SUFFICES ASSUME HbInit PROVE PlayInv
    OBVIOUS
  <2>1. NoInfo \in Info /\ 0 \in Index
    BY HbConstants DEF NoInfo, Info, Index
  <2>2. PlayTypeInv
    <3>1. play_junk \in BOOLEAN
      <4>1. play_junk = FALSE
        BY DEF HbInit
      <4> QED BY <4>1, Zenon
    <3> QED BY <2>1, <3>1 DEF HbInit, PlayTypeInv
  <2>3. SentInv
    <3>1. SentFrom(play_sent, 0) /\ 0 \in play_newest .. logged
      BY DEF HbInit, SentFrom
    <3> QED BY <3>1 DEF SentInv
  <2> QED BY <2>2, <2>3 DEF HbInit, PlayInv, CountInv, TraceInv, StartInv, ReadInv
<1>2. HbInv /\ PlayInv /\ [HbNext]_hbVars => PlayInv'
  <2> SUFFICES ASSUME HbInv, PlayInv, [HbNext]_hbVars PROVE PlayInv'
    OBVIOUS
  <2>1. CASE log_heartbeat_tlm
    BY <2>1, LogCounts, LogKeepsReading, LogKeepsTrace DEF PlayInv
  <2>2. CASE hb_tlm_playback
    BY <2>2, PlayBeginInv, PlayInfoInv, PlayFileInv DEF hb_tlm_playback
  <2>3. CASE HbReset
    BY <2>3, HbResetPlay
  <2>4. CASE UNCHANGED hbVars
    BY <2>4, PlayStays
  <2> QED BY <2>1, <2>2, <2>3, <2>4 DEF HbNext
<1> QED BY <1>1, <1>2, HbInvariance, PTL DEF HbSpec

\* Whatever is logged and deleted meanwhile, what playback sends goes back in steps of
\* exactly every_x_packet, across files, as long as the log does not come around to the
\* files still to be read (hb_tlm_log.c:93-172).
THEOREM PlaybackGoesBack ==
    ASSUME NoLap
    PROVE  HbSpec => []PlaybackDescends
<1>1. PlayInv => PlaybackDescends
  <2> SUFFICES ASSUME PlayInv, play.every_x > 0, ~play_junk, NEW i \in 1 .. Len(play_sent) - 1
               PROVE  play_sent[i] = play_sent[i + 1] + play.every_x
    BY DEF PlaybackDescends
  <2>1. PICK m \in play_newest .. logged : SentFrom(play_sent, m)
    BY DEF PlayInv, SentInv
  <2>2. Len(play_sent) \in Nat /\ play_sent # <<>>
    BY DEF PlayInv, PlayTypeInv
  <2>3. /\ play.every_x \in Nat /\ play.go_back_x \in Nat /\ play_newest \in Nat
        /\ i \in 1 .. Len(play_sent) /\ i + 1 \in 1 .. Len(play_sent)
    BY <2>2, PlaybackTypes DEF PlayInv, PlayTypeInv
  <2>4. /\ play_sent[i] = m - play.go_back_x - (i - 1) * play.every_x
        /\ play_sent[i + 1] = m - play.go_back_x - ((i + 1) - 1) * play.every_x
    BY <2>1, <2>3 DEF SentFrom
  <2> DEFINE x == play.every_x
             steps == (i - 1) * x
  <2>5. ((i + 1) - 1) * x = steps + x /\ steps \in Int
    BY <2>3
  <2>6. play_sent[i] = m - play.go_back_x - steps /\ play_sent[i + 1] = m - play.go_back_x - (steps + x)
    BY <2>4, <2>5
  <2>7. m \in Int /\ x \in Int
    BY <2>3
  <2> HIDE DEF steps, x
  <2>8. play_sent[i] = play_sent[i + 1] + x
    BY <2>3, <2>5, <2>6, <2>7
  <2> QED BY <2>8 DEF x
<1> QED BY <1>1, PlayInvariance, PTL

\* What it sends first is go_back_x_packets before the newest heartbeat there was when it
\* was asked for, or before one logged since (hb_tlm_log.c:101-134).
THEOREM PlaybackStartsThere ==
    ASSUME NoLap
    PROVE  HbSpec => []PlaybackBegins
<1>1. PlayInv => PlaybackBegins
  <2> SUFFICES ASSUME PlayInv, play_sent # <<>>, ~play_junk
               PROVE  play_sent[1] + play.go_back_x \in play_newest .. logged
    BY DEF PlaybackBegins
  <2>1. PICK m \in play_newest .. logged : SentFrom(play_sent, m)
    BY DEF PlayInv, SentInv
  <2>2. /\ play.every_x \in Nat /\ play.go_back_x \in Nat /\ play_newest \in Nat
        /\ 1 \in 1 .. Len(play_sent)
    BY PlaybackTypes DEF PlayInv, PlayTypeInv
  <2>3. play_sent[1] = m - play.go_back_x - (1 - 1) * play.every_x
    BY <2>1, <2>2 DEF SentFrom
  <2>4. (1 - 1) * play.every_x = 0
    BY <2>2
  <2>5. play_sent[1] = m - play.go_back_x - 0
    BY <2>3, <2>4
  <2> QED BY <2>2, <2>5
<1> QED BY <1>1, PlayInvariance, PTL
=============================================================================
