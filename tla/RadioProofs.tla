----------------------------- MODULE RadioProofs -----------------------------
(***************************************************************************)
(* Theorems about Radio, for queues of any length, any operations of the   *)
(* ground and any chips that may break; and about PacketOrder, that the    *)
(* telemetry task and the queue of the radio implement PacketFifo.         *)
(***************************************************************************)
EXTENDS PacketOrder, Radio, Induction, SequenceTheorems

Panicking == radio_at \in {"panic", "panic_scan"}

\* The task has a place to go back to exactly while it sends or panics.
ReturnInv ==
    /\ Panicking => ret \in {"boot_scan", "load", "flags", "retransmit", "loop"}
    /\ radio_at = "send" => ret \in {"create", "deliver", "transmit", "loop", "fallback"}
    /\ ~Panicking /\ radio_at # "send" => ret = "loop"

\* What the chips are left with where RadioReady does not hold.
SwitchInv ==
    /\ radio_at = "boot" => attached = {}
    /\ radio_at = "panic" => attached \subseteq {radio}
    /\ radio_at = "panic_scan" => powered = radio /\ attached = {radio}
    /\ radio_at = "fallback" \/ ret = "fallback" => attached = {radio}

Times == {"none", "recent", "old", "boot_old"}

\* The ground was heard in this boot, or shortly before it.
HeardOnce == contact \in {"recent", "old"}

Booting ==
    \/ radio_at \in {"boot", "boot_scan", "load"}
    \/ Panicking /\ ret \in {"boot_scan", "load"}

\* While the time of the last contact is not loaded nothing is sent or about to be.
BootInv == Booting => hw # "tx" /\ copy = "none"

\* There was a contact when the task took its time, if that was not too long ago, or is
\* about to try again.
ContactInv ==
    /\ contact \in Times
    /\ copy = "recent" => HeardOnce
    /\ radio_at = "retransmit" \/ ret = "retransmit" => HeardOnce

\* The flag of a preamble is gone once the chip receives, and what is being delivered
\* was not received during a transmission.
ReceiveInv ==
    /\ hw \in {"rx", "rx_done"} /\ cad_detected_RFM => radio_at = "clear"
    /\ radio_at = "deliver" \/ ret = "deliver" => ~transmitting

\* The inductive invariant.
IInv ==
    /\ ReturnInv /\ SwitchInv /\ RadioReady
    /\ BootInv /\ ContactInv /\ SilentUntilHeard
    /\ ReceiveInv /\ Attended

\* All that it speaks of.
seen ==
    <<radio_at, ret, copy, radio, powered, attached, hw, contact, receiving, transmitting,
      cad_detected_RFM>>

-----------------------------------------------------------------------------

\* The invariant holds at first.
LEMMA InitIInv == RadioInit => IInv
BY DEF RadioInit, IInv, ReturnInv, SwitchInv, RadioReady, BootInv, Booting, Panicking, ContactInv,
       Times, HeardOnce, SilentUntilHeard, ReceiveInv, Attended

\* A step that changes none of this keeps it.
LEMMA KeepsIInv ==
    ASSUME IInv, UNCHANGED seen
    PROVE  IInv'
BY DEF seen, IInv, ReturnInv, SwitchInv, RadioReady, BootInv, Booting, Panicking, ContactInv,
       Times, HeardOnce, SilentUntilHeard, ReceiveInv, Attended

\* A chip that is told to scan is scanning, or idle if it is broken.
LEMMA Scanning == startChannelScan => hw' \in {"cad", "standby"}
BY DEF startChannelScan, Mode

\* The steps of radio_panic and init_radio up to the file keep it.
LEMMA SwitchIInv ==
    ASSUME IInv, BootBegin \/ BootScan \/ PassivePanic \/ PanicSwitch \/ PanicScan \/ Fallback,
           UNCHANGED contact, UNCHANGED flags
    PROVE  IInv'
<1> USE Scanning DEF IInv, ReturnInv, SwitchInv, RadioReady, BootInv, Booting, Panicking, ContactInv,
        Times, HeardOnce, SilentUntilHeard, ReceiveInv, Attended, Go, PanicThen, operation, flags
<1>1. CASE BootBegin
  BY <1>1 DEF BootBegin, SwitchTo, radio_begin
<1>2. CASE BootScan
  BY <1>2 DEF BootScan
<1>3. CASE PassivePanic
  BY <1>3 DEF PassivePanic, chip
<1>4. CASE PanicSwitch
  BY <1>4 DEF PanicSwitch, SwitchTo, radio_begin
<1>5. CASE PanicScan
  BY <1>5 DEF PanicScan
<1>6. CASE Fallback
  BY <1>6 DEF Fallback
<1> QED BY <1>1, <1>2, <1>3, <1>4, <1>5, <1>6

\* The steps of the loop up to the queue keep it.
LEMMA LoopIInv ==
    ASSUME IInv, TimedOut \/ NoFlags \/ FinishTransmit \/ FinishReceive \/ ScanDone \/ ClearFlags,
           UNCHANGED contact
    PROVE  IInv'
<1> USE Scanning DEF IInv, ReturnInv, SwitchInv, RadioReady, BootInv, Booting, Panicking, ContactInv,
        Times, HeardOnce, SilentUntilHeard, ReceiveInv, Attended, Go, AtFlags, operation, flags
<1>1. CASE TimedOut
  BY <1>1 DEF TimedOut
<1>2. CASE NoFlags
  BY <1>2 DEF NoFlags, Turn, chip
<1>3. CASE FinishTransmit
  BY <1>3 DEF FinishTransmit
<1>4. CASE FinishReceive
  BY <1>4 DEF FinishReceive, SendThen, ScanAgain, TransmitFinished, Flagged
<1>5. CASE ScanDone
  BY <1>5 DEF ScanDone, Mode
<1>6. CASE ClearFlags
  BY <1>6 DEF ClearFlags, Turn, chip
<1> QED BY <1>1, <1>2, <1>3, <1>4, <1>5, <1>6

\* The steps that take an operation from the queue, or transmit, keep it.
LEMMA QueueIInv ==
    ASSUME IInv, Transmit \/ StartTransmit \/ NothingToDo \/ Enable \/ ReturnStats,
           UNCHANGED contact
    PROVE  IInv'
<1> USE DEF IInv, ReturnInv, SwitchInv, RadioReady, BootInv, Booting, Panicking, ContactInv,
        Times, HeardOnce, SilentUntilHeard, ReceiveInv, Attended, Go, operation, flags, Dequeue, SendThen
<1>1. CASE Transmit
  BY <1>1 DEF Transmit, chip, Silent
<1>2. CASE StartTransmit
  BY <1>2 DEF StartTransmit, PanicThen, Silent, Mode
<1>3. CASE NothingToDo
  BY <1>3 DEF NothingToDo, chip
<1>4. CASE Enable
  BY <1>4 DEF Enable
<1>5. CASE ReturnStats
  BY <1>5 DEF ReturnStats, chip
<1> QED BY <1>1, <1>2, <1>3, <1>4, <1>5

\* So do the others: the file, the queue's creation, a delivery, a message to telemetry.
LEMMA HandOverIInv ==
    ASSUME IInv, BootLoad \/ CreateQueue \/ Deliver \/ RadioSend
    PROVE  IInv'
<1> USE Scanning DEF IInv, ReturnInv, SwitchInv, RadioReady, BootInv, Booting, Panicking, ContactInv,
        Times, HeardOnce, SilentUntilHeard, ReceiveInv, Attended, Go, operation, flags, chip
<1>1. CASE BootLoad
  BY <1>1 DEF BootLoad, SendThen
<1>2. CASE CreateQueue
  BY <1>2 DEF CreateQueue
<1>3. CASE Deliver
  BY <1>3 DEF Deliver, ScanAgain
<1>4. CASE RadioSend
  BY <1>4 DEF RadioSend
<1> QED BY <1>1, <1>2, <1>3, <1>4

\* A step of the radio task keeps it.
LEMMA TaskIInv ==
    ASSUME IInv, RadioStep
    PROVE  IInv'
<1>1. CASE LocalStep
  BY <1>1, SwitchIInv, LoopIInv, QueueIInv DEF LocalStep, Alone, PassivePanic, PanicSwitch,
     PanicScan, BootBegin, BootScan, Fallback, flags
<1>2. CASE DequeueStep
  BY <1>2, QueueIInv DEF DequeueStep
<1>3. CASE BootLoad \/ CreateQueue \/ Deliver \/ RadioSend
  BY <1>3, HandOverIInv
<1> QED BY <1>1, <1>2, <1>3 DEF RadioStep

\* The other tasks and the environment keep it.
LEMMA OtherIInv ==
    ASSUME IInv, TelemetryTask \/ ParseCommand \/ deploy_antenna_job \/ QueueRequest \/ Send
                 \/ Environment
    PROVE  IInv'
<1>1. CASE TelemetryTask \/ QueueRequest \/ Send
  BY <1>1, KeepsIInv DEF TelemetryTask, QueueRequest, Send, TaskRest, seen, control, operation, flags, chip
<1> USE DEF IInv, ReturnInv, SwitchInv, RadioReady, BootInv, Booting, Panicking, ContactInv,
        Times, HeardOnce, SilentUntilHeard, ReceiveInv, Attended, control, operation, flags, chip, TaskRest, Others
<1>2. CASE ParseCommand \/ deploy_antenna_job
  BY <1>2 DEF ParseCommand, deploy_antenna_job, radio_flag_valid_packet
<1>3. ASSUME NEW detected \in BOOLEAN, CadDone(detected) PROVE IInv'
  BY <1>3 DEF CadDone
<1>4. CASE PacketDone
  BY <1>4 DEF PacketDone
<1>5. CASE Break
  BY <1>5 DEF Break
<1>6. CASE DaysPass
  BY <1>6 DEF DaysPass
<1>7. CASE Reset
  BY <1>7 DEF Reset
<1> HIDE DEF IInv
<1> QED BY <1>1, <1>2, <1>3, <1>4, <1>5, <1>6, <1>7 DEF Environment

\* The invariant of the radio task and its chips.
THEOREM Invariance == RadioSpec => []IInv
<1>1. IInv /\ [RadioNext]_vars => IInv'
  <2>1. ASSUME IInv, UNCHANGED vars PROVE IInv'
    BY <2>1, KeepsIInv DEF vars, seen, control, operation, flags, chip
  <2> QED BY <2>1, TaskIInv, OtherIInv DEF RadioNext
<1> QED BY InitIInv, <1>1, PTL DEF RadioSpec

\* Whatever chips break, and whenever the task switches or panics, it goes on with the
\* chip that has the power and the interrupts (radio_panic, ENABLE_RFM98, ENABLE_SX1268).
THEOREM ReadyAfterSwitch == RadioSpec => []RadioReady
<1>1. IInv => RadioReady
  BY DEF IInv
<1> QED BY Invariance, <1>1, PTL

\* A satellite without a contact, or a deployment that counts as one, is silent, whatever is
\* queued, broken or retried (radio_task_cpp).
THEOREM SilentBeforeContact == RadioSpec => []SilentUntilHeard
<1>1. IInv => SilentUntilHeard
  BY DEF IInv
<1> QED BY Invariance, <1>1, PTL

\* A chip that sends or receives is one the task attends to, although an interrupt
\* may come while the flags are cleared and stay for the next operation.
THEOREM NoneUnattended == RadioSpec => []Attended
<1>1. IInv => Attended
  BY DEF IInv
<1> QED BY Invariance, <1>1, PTL

-----------------------------------------------------------------------------
(***************************************************************************)
(* The packets between the tasks and the radio, for any number of packets  *)
(* and any limits.                                                         *)
(***************************************************************************)

Op == [op : {"TRANSMIT", "RETURN_STATS"}, number : Nat]
Numbering == Seq(Nat)

\* What the recursion of NumbersIn does with the k-th operation.
Found(queue, k, numbers) ==
    IF queue[k].number = Unnumbered THEN numbers ELSE Append(numbers, queue[k].number)

\* The values that recursion runs through.
Counts(queue, found) ==
    /\ found \in [0 .. Len(queue) -> Numbering]
    /\ found[0] = <<>>
    /\ \A k \in 1 .. Len(queue) : found[k] = Found(queue, k, found[k - 1])

\* A step of the recursion stays among the sequences of numbers.
LEMMA FoundType ==
    ASSUME NEW queue \in Seq(Op), NEW k \in 1 .. Len(queue), NEW s \in Numbering
    PROVE  Found(queue, k, s) \in Numbering
<1>1. queue[k] \in Op
  OBVIOUS
<1>2. queue[k].number \in Nat
  BY <1>1 DEF Op
<1> QED BY <1>2 DEF Found, Numbering

\* NumbersIn is the last value of that recursion.
LEMMA NumbersAre ==
    ASSUME NEW queue \in Seq(Op)
    PROVE  \E found : Counts(queue, found) /\ NumbersIn(queue) = found[Len(queue)]
<1> DEFINE n == Len(queue)
           body(f) == [k \in 0 .. n |-> IF k = 0 THEN <<>> ELSE Found(queue, k, f[k - 1])]
           step == [k \in 1 .. n |-> [s \in Numbering |-> Found(queue, k, s)]]
           found == CHOOSE f : f = body(f)
<1>1. n \in Nat /\ <<>> \in Numbering
  BY DEF Numbering
<1>2. step \in [1 .. n -> [Numbering -> Numbering]]
  <2>1. ASSUME NEW k \in 1 .. n PROVE [s \in Numbering |-> Found(queue, k, s)] \in [Numbering -> Numbering]
    BY FoundType
  <2> QED BY <2>1
<1>3. \A k \in 1 .. n : \A s \in Numbering : step[k][s] = Found(queue, k, s)
  OBVIOUS
<1>4. NumbersIn(queue) = found[n]
  BY DEF NumbersIn, Found
<1> HIDE DEF step, n
<1>5. \A k \in 1 .. n : k - 1 \in 0 .. n
  BY <1>1
<1>6. \A k \in 0 .. n : k = 0 \/ k \in 1 .. n
  BY <1>1
<1>7. PICK f : Runs(f, n, Numbering, <<>>, step)
  BY <1>1, <1>2, Recursion
<1>8. f = body(f)
  <2>1. f = [k \in 0 .. n |-> f[k]] /\ f[0] = <<>>
    BY <1>7 DEF Runs
  <2>2. ASSUME NEW k \in 1 .. n PROVE f[k] = Found(queue, k, f[k - 1])
    <3>1. f[k] = step[k][f[k - 1]] /\ f[k - 1] \in Numbering
      BY <1>5, <1>7 DEF Runs
    <3> QED BY <1>3, <3>1
  <2> QED BY <1>6, <2>1, <2>2
<1>9. found = body(found)
  <2> HIDE DEF body
  <2> QED BY <1>8
<1> HIDE DEF found
<1>10. found[0] = <<>> /\ \A k \in 1 .. n : found[k] = Found(queue, k, found[k - 1])
  <2>1. 0 \in 0 .. n /\ \A k \in 1 .. n : k \in 0 .. n /\ k # 0
    BY <1>1
  <2> QED BY <1>9, <2>1
<1>11. \A k \in 0 .. n : found[k] \in Numbering
  <2> DEFINE T == {k \in 0 .. n : found[k] \in Numbering}
  <2>1. 0 \in T
    BY <1>1, <1>10
  <2>2. ASSUME NEW k \in 1 .. n, k - 1 \in T PROVE k \in T
    <3>1. Found(queue, k, found[k - 1]) \in Numbering
      BY <2>2, FoundType DEF n
    <3>2. k \in 0 .. n
      BY <1>1
    <3> QED BY <1>10, <3>1, <3>2
  <2> HIDE DEF T
  <2>3. 0 .. n \subseteq T
    BY <1>1, <2>1, <2>2, UpTo
  <2> QED BY <2>3 DEF T
<1>12. found = [k \in 0 .. n |-> found[k]]
  BY <1>9
<1>13. Counts(queue, found)
  BY <1>10, <1>11, <1>12 DEF Counts, n
<1> QED BY <1>4, <1>13 DEF n

\* It is a sequence of numbers, no longer than the queue.
LEMMA NumbersType ==
    ASSUME NEW queue \in Seq(Op)
    PROVE  NumbersIn(queue) \in Numbering /\ Len(NumbersIn(queue)) <= Len(queue)
<1>1. PICK f : Counts(queue, f) /\ NumbersIn(queue) = f[Len(queue)]
  BY NumbersAre
<1> DEFINE n == Len(queue)
           T == {k \in 0 .. n : f[k] \in Numbering /\ Len(f[k]) <= k}
<1>2. n \in Nat /\ \A k \in 1 .. n : queue[k].number \in Nat
  <2>1. \A k \in 1 .. n : queue[k] \in Op
    OBVIOUS
  <2> QED BY <2>1 DEF Op
<1>3. 0 \in T
  BY <1>1, <1>2 DEF Counts, Numbering
<1>4. ASSUME NEW k \in 1 .. n, k - 1 \in T PROVE k \in T
  <2>1. f[k] = Found(queue, k, f[k - 1]) /\ f[k - 1] \in Numbering /\ Len(f[k - 1]) <= k - 1
    BY <1>1, <1>4 DEF Counts
  <2>2. f[k] \in Numbering
    BY <2>1, FoundType
  <2>3. Len(f[k]) = Len(f[k - 1]) \/ Len(f[k]) = Len(f[k - 1]) + 1
    BY <1>2, <2>1 DEF Found, Numbering
  <2>4. Len(f[k - 1]) \in Nat /\ Len(f[k]) \in Nat
    BY <2>1, <2>2 DEF Numbering
  <2>5. Len(f[k]) <= k
    BY <2>1, <2>3, <2>4
  <2>6. k \in 0 .. n
    BY <1>2
  <2> QED BY <2>2, <2>5, <2>6
<1> HIDE DEF T
<1>5. 0 .. n \subseteq T
  BY <1>2, <1>3, <1>4, UpTo
<1>6. n \in 0 .. n
  BY <1>2
<1> QED BY <1>1, <1>5, <1>6 DEF T

\* An empty queue has no packets.
LEMMA NumbersEmpty == NumbersIn(<<>>) = <<>>
<1>1. <<>> \in Seq(Op) /\ Len(<<>>) = 0
  OBVIOUS
<1> QED BY <1>1, NumbersAre DEF Counts

\* Two queues that begin alike are counted alike that far.
LEMMA NumbersAlike ==
    ASSUME NEW queue \in Seq(Op), NEW other \in Seq(Op), NEW f, NEW g,
           Counts(queue, f), Counts(other, g), Len(queue) <= Len(other),
           \A k \in 1 .. Len(queue) : other[k] = queue[k]
    PROVE  g[Len(queue)] = f[Len(queue)]
<1> DEFINE n == Len(queue)
           T == {k \in 0 .. n : g[k] = f[k]}
<1>1. n \in Nat /\ Len(other) \in Nat
  OBVIOUS
<1>2. 0 \in T
  BY <1>1 DEF Counts
<1>3. ASSUME NEW k \in 1 .. n, k - 1 \in T PROVE k \in T
  <2>1. k \in 1 .. Len(other) /\ k \in 0 .. n
    BY <1>1
  <2>2. f[k] = Found(queue, k, f[k - 1]) /\ g[k] = Found(other, k, g[k - 1])
    BY <2>1 DEF Counts
  <2>3. other[k] = queue[k] /\ g[k - 1] = f[k - 1]
    BY <1>3
  <2> QED BY <2>1, <2>2, <2>3 DEF Found
<1> HIDE DEF T
<1>4. 0 .. n \subseteq T
  BY <1>1, <1>2, <1>3, UpTo
<1>5. n \in 0 .. n
  BY <1>1
<1> QED BY <1>4, <1>5 DEF T

\* An operation behind the others adds its number, if it is a packet.
LEMMA NumbersAppend ==
    ASSUME NEW queue \in Seq(Op), NEW op \in Op
    PROVE  NumbersIn(Append(queue, op)) =
               IF op.number = Unnumbered THEN NumbersIn(queue) ELSE Append(NumbersIn(queue), op.number)
<1> DEFINE n == Len(queue)
           longer == Append(queue, op)
<1>1. /\ n \in Nat /\ longer \in Seq(Op) /\ Len(longer) = n + 1 /\ longer[n + 1] = op
      /\ \A k \in 1 .. n : longer[k] = queue[k]
  OBVIOUS
<1> HIDE DEF longer
<1>2. PICK f : Counts(queue, f) /\ NumbersIn(queue) = f[n]
  BY NumbersAre
<1>3. PICK g : Counts(longer, g) /\ NumbersIn(longer) = g[Len(longer)]
  BY <1>1, NumbersAre
<1>4. g[n] = f[n]
  BY <1>1, <1>2, <1>3, NumbersAlike
<1>5. g[n + 1] = Found(longer, n + 1, g[n])
  <2>1. n + 1 \in 1 .. n + 1 /\ n + 1 - 1 = n
    BY <1>1
  <2> QED BY <1>1, <1>3, <2>1 DEF Counts
<1> QED BY <1>1, <1>2, <1>3, <1>4, <1>5 DEF Found, longer

\* Appending to the second of two sequences appends to both together.
LEMMA ConcatAppend ==
    ASSUME NEW s \in Seq(Nat), NEW t \in Seq(Nat), NEW x \in Nat
    PROVE  s \o Append(t, x) = Append(s \o t, x)
<1>1. s \o t \in Seq(Nat) /\ <<x>> \in Seq(Nat)
  OBVIOUS
<1>2. Append(t, x) = t \o <<x>> /\ Append(s \o t, x) = (s \o t) \o <<x>>
  BY <1>1, AppendIsConcat
<1>3. (s \o t) \o <<x>> = s \o (t \o <<x>>)
  BY <1>1, ConcatAssociative
<1> QED BY <1>2, <1>3

\* The first operation of a queue puts its number, if it is a packet, before the others'.
LEMMA NumbersTail ==
    ASSUME NEW queue \in Seq(Op), queue # <<>>
    PROVE  NumbersIn(queue) =
               (IF Head(queue).number = Unnumbered THEN <<>> ELSE <<Head(queue).number>>)
                   \o NumbersIn(Tail(queue))
<1> DEFINE n == Len(queue)
           rest == Tail(queue)
           first == IF Head(queue).number = Unnumbered THEN <<>> ELSE <<Head(queue).number>>
<1>1. /\ n \in Nat \ {0} /\ rest \in Seq(Op) /\ Len(rest) = n - 1 /\ queue[1] = Head(queue)
      /\ \A k \in 1 .. n - 1 : rest[k] = queue[k + 1]
      /\ \A k \in 1 .. n : queue[k] \in Op
  OBVIOUS
<1>2. \A k \in 1 .. n : queue[k].number \in Nat
  BY <1>1 DEF Op
<1>3. first \in Seq(Nat)
  <2>1. Head(queue).number \in Nat
    BY <1>1, <1>2
  <2> QED BY <2>1
<1> HIDE DEF rest
<1>4. PICK f : Counts(queue, f) /\ NumbersIn(queue) = f[n]
  BY NumbersAre
<1>5. PICK g : Counts(rest, g) /\ NumbersIn(rest) = g[Len(rest)]
  BY <1>1, NumbersAre
<1> DEFINE m == n - 1
           T == {k \in 0 .. m : f[k + 1] = first \o g[k]}
<1>6. m \in Nat
  BY <1>1
<1>7. 0 \in T
  <2>1. f[1] = Found(queue, 1, f[0]) /\ f[0] = <<>> /\ g[0] = <<>>
    <3>1. 1 \in 1 .. n /\ 1 - 1 = 0
      BY <1>1
    <3> QED BY <1>4, <1>5, <3>1 DEF Counts
  <2>2. f[1] = first
    BY <1>1, <2>1 DEF Found
  <2>3. first \o <<>> = first
    BY <1>3
  <2>4. 0 \in 0 .. m /\ 0 + 1 = 1
    BY <1>6
  <2> HIDE DEF first
  <2> QED BY <2>1, <2>2, <2>3, <2>4
<1>8. ASSUME NEW k \in 1 .. m, k - 1 \in T PROVE k \in T
  <2>1. k + 1 \in 1 .. n /\ k \in 0 .. m /\ k + 1 - 1 = k /\ k - 1 + 1 = k /\ k - 1 \in 0 .. m
    BY <1>6
  <2>2. f[k + 1] = Found(queue, k + 1, f[k]) /\ g[k] = Found(rest, k, g[k - 1])
    BY <1>1, <1>4, <1>5, <2>1 DEF Counts
  <2>3. f[k] = first \o g[k - 1]
    BY <1>8, <2>1
  <2>4. rest[k] = queue[k + 1] /\ queue[k + 1].number \in Nat
    BY <1>1, <1>2, <2>1
  <2>5. g[k - 1] \in Seq(Nat)
    BY <1>1, <1>5, <2>1 DEF Counts, Numbering
  <2>6. \A x \in Nat : first \o Append(g[k - 1], x) = Append(first \o g[k - 1], x)
    <3> HIDE DEF first
    <3> QED BY <1>3, <2>5, ConcatAppend
  <2>7. f[k + 1] = first \o g[k]
    <3> HIDE DEF first, T
    <3> QED BY <2>2, <2>3, <2>4, <2>6 DEF Found
  <2> QED BY <2>1, <2>7
<1> HIDE DEF T
<1>9. 0 .. m \subseteq T
  BY <1>6, <1>7, <1>8, UpTo
<1>10. m \in 0 .. m /\ m + 1 = n
  BY <1>6, <1>1
<1> QED BY <1>1, <1>4, <1>5, <1>9, <1>10 DEF T, rest

-----------------------------------------------------------------------------
(* The refinement. *)

Hand == IF telemetry_at = "radio" THEN <<packet>> ELSE <<>>

\* The inductive invariant: the queue holds operations and is empty until the radio task
\* has created it, and the packet in hand has a number.
OrderInv ==
    /\ radio_queue \in Seq(Op) /\ Len(radio_queue) <= RADIO_MAX_QUEUE_ITEMS
    /\ ~radio_up => radio_queue = <<>>
    /\ radio_up \in BOOLEAN
    /\ g_packet_sequence_number \in Sequence
    /\ telemetry_at = "radio" => packet \in Sequence

\* Numbers below the modulus are not the mark of an operation without one.
LEMMA SequenceNumbers ==
    /\ Sequence \subseteq Nat /\ Unnumbered \in Nat /\ Unnumbered \notin Sequence /\ 0 \in Sequence
    /\ \A n \in Sequence : (n + 1) % Numbers \in Sequence
    /\ \A n \in Sequence : Packet(n) \in Op /\ Packet(n).number = n
    /\ Operation("RETURN_STATS") \in Op /\ Operation("RETURN_STATS").number = Unnumbered
<1>1. Numbers \in Nat \ {0}
  BY TelemetryAssumption
<1>2. Sequence \subseteq Nat /\ Unnumbered \in Nat /\ Unnumbered \notin Sequence /\ 0 \in Sequence
  BY <1>1 DEF Sequence, Unnumbered
<1>3. \A n \in Sequence : (n + 1) % Numbers \in Sequence
  BY <1>1 DEF Sequence
<1>4. ASSUME NEW n \in Sequence PROVE Packet(n) \in Op /\ Packet(n).number = n
  BY <1>2 DEF Packet, Op
<1>5. Operation("RETURN_STATS") \in Op /\ Operation("RETURN_STATS").number = Unnumbered
  BY <1>2 DEF Operation, Op
<1> QED BY <1>2, <1>3, <1>4, <1>5

\* The invariant of the telemetry task and the queue it feeds.
LEMMA OrderInvariance == OrderSpec => []OrderInv
<1>1. ASSUME TelemetryInit PROVE OrderInv
  <2>1. radio_up \in BOOLEAN
    BY <1>1, Zenon DEF TelemetryInit
  <2> QED BY <1>1, <2>1, SequenceNumbers, TelemetryAssumption DEF TelemetryInit, OrderInv
<1>2. ASSUME OrderInv, [OrderNext]_orderVars PROVE OrderInv'
  <2>1. radio_up' \in BOOLEAN
    BY <1>2, Zenon DEF OrderInv, OrderNext, orderVars, linkVars, TelemetryStep, TelemetryStart,
       TelemetryReceive, TelemetryToRadio, Say, RadioCreates, RadioTakes, RadioAsked, OrderReset
  <2>2. CASE TelemetryStart \/ Say \/ RadioCreates \/ UNCHANGED orderVars
    BY <1>2, <2>1, <2>2 DEF OrderInv, TelemetryStart, Say, RadioCreates, orderVars, linkVars, telemetryVars
  <2>3. CASE TelemetryReceive
    BY <1>2, <2>1, <2>3, SequenceNumbers DEF OrderInv, TelemetryReceive, linkVars
  <2>4. ASSUME NEW op \in Op, RadioQueueSend(op), radio_up
        PROVE  radio_queue' \in Seq(Op) /\ Len(radio_queue') <= RADIO_MAX_QUEUE_ITEMS
    <3>1. radio_queue' = Append(radio_queue, op) /\ Len(radio_queue) < RADIO_MAX_QUEUE_ITEMS
      BY <2>4 DEF RadioQueueSend
    <3>2. radio_queue \in Seq(Op) /\ RADIO_MAX_QUEUE_ITEMS \in Nat
      BY <1>2, TelemetryAssumption DEF OrderInv
    <3> QED BY <3>1, <3>2
  <2>5. CASE TelemetryToRadio
    <3>1. telemetry_at = "radio" /\ telemetry_at' = "receive" /\ radio_queue_message(Packet(packet))
          /\ UNCHANGED <<g_packet_sequence_number, radio_up>>
      BY <2>5 DEF TelemetryToRadio
    <3>2. Packet(packet) \in Op
      BY <1>2, <3>1, SequenceNumbers DEF OrderInv
    <3>3. CASE radio_up
      BY <1>2, <2>1, <2>4, <3>1, <3>2, <3>3 DEF OrderInv, radio_queue_message
    <3>4. CASE ~radio_up
      BY <1>2, <2>1, <3>1, <3>4 DEF OrderInv, radio_queue_message
    <3> QED BY <3>3, <3>4
  <2>6. CASE RadioTakes
    <3>1. radio_queue' = Tail(radio_queue) /\ radio_queue # <<>> /\ UNCHANGED <<telemetryVars, radio_up>>
      BY <2>6 DEF RadioTakes
    <3>2. radio_queue \in Seq(Op) /\ RADIO_MAX_QUEUE_ITEMS \in Nat /\ Len(radio_queue) <= RADIO_MAX_QUEUE_ITEMS
      BY <1>2, TelemetryAssumption DEF OrderInv
    <3>3. radio_queue' \in Seq(Op) /\ Len(radio_queue') <= RADIO_MAX_QUEUE_ITEMS
      BY <3>1, <3>2
    <3> QED BY <1>2, <2>1, <3>1, <3>3 DEF OrderInv, telemetryVars
  <2>7. CASE RadioAsked
    BY <1>2, <2>1, <2>4, <2>7, SequenceNumbers DEF OrderInv, RadioAsked, telemetryVars
  <2>8. CASE OrderReset
    BY <1>2, <2>1, <2>8, SequenceNumbers, TelemetryAssumption DEF OrderInv, OrderReset
  <2> QED BY <1>2, <2>2, <2>3, <2>5, <2>6, <2>7, <2>8 DEF OrderNext, TelemetryStep
<1> QED BY <1>1, <1>2, PTL DEF OrderSpec

\* What is on the way is a sequence of numbers.
LEMMA OnTheWayType ==
    ASSUME OrderInv
    PROVE  /\ OnTheWay = NumbersIn(radio_queue) \o Hand
           /\ NumbersIn(radio_queue) \in Seq(Nat) /\ Hand \in Seq(Nat)
           /\ Len(NumbersIn(radio_queue)) <= RADIO_MAX_QUEUE_ITEMS
<1>1. radio_queue \in Seq(Op) /\ Len(radio_queue) <= RADIO_MAX_QUEUE_ITEMS
      /\ RADIO_MAX_QUEUE_ITEMS \in Nat
  BY TelemetryAssumption DEF OrderInv
<1>2. NumbersIn(radio_queue) \in Seq(Nat) /\ Len(NumbersIn(radio_queue)) <= Len(radio_queue)
  BY <1>1, NumbersType DEF Numbering
<1>3. Hand \in Seq(Nat)
  <2>1. telemetry_at = "radio" => packet \in Nat
    BY SequenceNumbers DEF OrderInv
  <2> QED BY <2>1 DEF Hand
<1>4. Len(NumbersIn(radio_queue)) \in Nat /\ Len(radio_queue) \in Nat
  BY <1>1, <1>2
<1> QED BY <1>1, <1>2, <1>3, <1>4 DEF OnTheWay, Hand

\* The telemetry task numbers a packet: it joins what is on the way.
LEMMA ReceivePuts ==
    ASSUME OrderInv, TelemetryReceive
    PROVE  Fifo!Put \/ UNCHANGED <<g_packet_sequence_number, OnTheWay, radio_up>>
<1>1. UNCHANGED <<radio_queue, radio_up>> /\ telemetry_at = "receive"
  BY DEF TelemetryReceive, linkVars
<1>2. CASE UNCHANGED <<telemetry_at, packet, g_packet_sequence_number>>
  BY <1>1, <1>2 DEF OnTheWay
<1>3. CASE /\ telemetry_at' = "radio" /\ packet' = g_packet_sequence_number
           /\ g_packet_sequence_number' = (g_packet_sequence_number + 1) % Numbers
  <2> DEFINE n == NumbersIn(radio_queue)
             x == g_packet_sequence_number
  <2>1. OnTheWay = n \o <<>> /\ OnTheWay' = n \o <<x>>
    BY <1>1, <1>3 DEF OnTheWay
  <2>2. n \in Seq(Nat) /\ Len(n) <= RADIO_MAX_QUEUE_ITEMS /\ x \in Nat /\ RADIO_MAX_QUEUE_ITEMS \in Nat
    BY OnTheWayType, SequenceNumbers, TelemetryAssumption DEF OrderInv
  <2> HIDE DEF n, x
  <2>3. OnTheWay = n /\ OnTheWay' = Append(n, x) /\ Len(n) < RADIO_MAX_QUEUE_ITEMS + 1
    BY <2>1, <2>2, AppendIsConcat, ConcatEmptySeq
  <2> QED BY <1>1, <1>3, <2>3 DEF Fifo!Put, x
<1> QED BY <1>2, <1>3 DEF TelemetryReceive

\* The packet in hand goes to the queue, where it is on the way as before, or is lost if
\* there is none yet.
LEMMA ToRadioLoses ==
    ASSUME OrderInv, TelemetryToRadio
    PROVE  Fifo!Lose \/ UNCHANGED <<g_packet_sequence_number, OnTheWay, radio_up>>
<1>1. /\ telemetry_at = "radio" /\ telemetry_at' = "receive" /\ radio_queue_message(Packet(packet))
      /\ UNCHANGED <<g_packet_sequence_number, radio_up>>
  BY DEF TelemetryToRadio
<1>2. packet \in Sequence /\ packet \in Nat /\ radio_queue \in Seq(Op)
  BY <1>1, SequenceNumbers DEF OrderInv
<1>3. CASE radio_up
  <2>1. radio_queue' = Append(radio_queue, Packet(packet))
    BY <1>1, <1>3 DEF radio_queue_message, RadioQueueSend
  <2>2. Packet(packet) \in Op /\ Packet(packet).number = packet /\ packet # Unnumbered
    BY <1>2, SequenceNumbers
  <2>3. NumbersIn(radio_queue') = Append(NumbersIn(radio_queue), packet)
    BY <1>2, <2>1, <2>2, NumbersAppend
  <2> DEFINE n == NumbersIn(radio_queue)
  <2>4. OnTheWay = n \o <<packet>> /\ OnTheWay' = Append(n, packet) \o <<>>
    BY <1>1, <2>3 DEF OnTheWay
  <2>5. n \in Seq(Nat)
    BY OnTheWayType
  <2> HIDE DEF n
  <2>6. Append(n, packet) \in Seq(Nat) /\ Append(n, packet) = n \o <<packet>>
    BY <1>2, <2>5, AppendIsConcat
  <2>7. OnTheWay' = OnTheWay
    BY <2>4, <2>6, ConcatEmptySeq
  <2> QED BY <1>1, <2>7
<1>4. CASE ~radio_up
  <2>1. radio_queue = <<>> /\ radio_queue' = <<>>
    BY <1>1, <1>4 DEF radio_queue_message, OrderInv
  <2>2. NumbersIn(radio_queue') = <<>>
    BY <2>1, NumbersEmpty
  <2>3. OnTheWay' = <<>> \o <<>>
    BY <1>1, <2>2 DEF OnTheWay
  <2> QED BY <1>1, <1>4, <2>3 DEF Fifo!Lose
<1> QED BY <1>3, <1>4

\* The radio task takes the first operation: the first packet, or none.
LEMMA RadioTakesFirst ==
    ASSUME OrderInv, RadioTakes
    PROVE  Fifo!Take \/ UNCHANGED <<g_packet_sequence_number, OnTheWay, radio_up>>
<1>1. radio_queue \in Seq(Op) /\ radio_queue # <<>> /\ radio_queue' = Tail(radio_queue)
      /\ UNCHANGED <<telemetry_at, packet, g_packet_sequence_number, radio_up>> /\ radio_up
  BY DEF OrderInv, RadioTakes, telemetryVars
<1> DEFINE m == NumbersIn(Tail(radio_queue))
           h == Hand
           x == Head(radio_queue).number
<1>2. m \in Seq(Nat) /\ h \in Seq(Nat) /\ x \in Nat
  <2>1. Tail(radio_queue) \in Seq(Op) /\ Head(radio_queue) \in Op
    BY <1>1
  <2>2. m \in Seq(Nat)
    BY <2>1, NumbersType DEF Numbering
  <2> QED BY <2>1, <2>2, OnTheWayType DEF Op
<1>3. OnTheWay = ((IF x = Unnumbered THEN <<>> ELSE <<x>>) \o m) \o h
  BY <1>1, NumbersTail DEF OnTheWay, Hand
<1>4. OnTheWay' = m \o h
  BY <1>1 DEF OnTheWay, Hand
<1> HIDE DEF m, h, x
<1>5. CASE x = Unnumbered
  <2>1. OnTheWay = OnTheWay'
    BY <1>2, <1>3, <1>4, <1>5, ConcatEmptySeq
  <2> QED BY <1>1, <2>1
<1>6. CASE x # Unnumbered
  <2>1. m \o h \in Seq(Nat) /\ <<x>> \in Seq(Nat)
    BY <1>2
  <2>2. OnTheWay = <<x>> \o (m \o h)
    BY <1>2, <1>3, <1>6, <2>1, ConcatAssociative
  <2>3. \A s \in Seq(Nat) : <<x>> \o s # <<>> /\ Tail(<<x>> \o s) = s
    BY <1>2
  <2>4. OnTheWay # <<>> /\ Tail(OnTheWay) = OnTheWay'
    BY <1>4, <2>1, <2>2, <2>3
  <2> QED BY <1>1, <2>4 DEF Fifo!Take
<1> QED BY <1>5, <1>6

\* The telemetry task and the radio's queue implement the channel that keeps packets in
\* the order of their numbers (telemetry.c:46-76, radio.cpp:147-162), for queues of any
\* lengths and any modulus of the numbers.
THEOREM PacketsStayInOrder == OrderSpec => PacketsInOrder
<1>1. ASSUME TelemetryInit PROVE Fifo!Start
  <2>1. radio_queue = <<>> /\ telemetry_at = "start" /\ g_packet_sequence_number = 0 /\ radio_up = FALSE
    BY <1>1 DEF TelemetryInit
  <2>2. OnTheWay = <<>> \o <<>>
    BY <2>1, NumbersEmpty DEF OnTheWay
  <2> QED BY <2>1, <2>2 DEF Fifo!Start
<1>2. ASSUME OrderInv, [OrderNext]_orderVars
      PROVE  [Fifo!Put \/ Fifo!Take \/ Fifo!Lose \/ Fifo!Open \/ Fifo!Restart]_<<g_packet_sequence_number, OnTheWay, radio_up>>
  <2>1. CASE TelemetryStart \/ Say \/ UNCHANGED orderVars
    <3>1. UNCHANGED <<radio_queue, radio_up, g_packet_sequence_number>>
          /\ (telemetry_at' = "radio" <=> telemetry_at = "radio")
          /\ UNCHANGED packet
      BY <2>1 DEF TelemetryStart, Say, orderVars, telemetryVars, linkVars
    <3> QED BY <3>1 DEF OnTheWay
  <2>2. CASE RadioCreates
    <3>1. UNCHANGED OnTheWay /\ UNCHANGED g_packet_sequence_number /\ radio_up' = TRUE
      BY <2>2 DEF RadioCreates, telemetryVars, OnTheWay
    <3> QED BY <3>1 DEF Fifo!Open
  <2>3. CASE RadioAsked
    <3>1. radio_queue' = Append(radio_queue, Operation("RETURN_STATS")) /\ radio_queue \in Seq(Op)
          /\ UNCHANGED <<telemetry_at, packet, g_packet_sequence_number, radio_up>>
      BY <1>2, <2>3 DEF RadioAsked, RadioQueueSend, telemetryVars, OrderInv
    <3>2. NumbersIn(radio_queue') = NumbersIn(radio_queue)
      BY <3>1, SequenceNumbers, NumbersAppend
    <3> QED BY <3>1, <3>2 DEF OnTheWay
  <2>4. CASE OrderReset
    <3>1. radio_queue' = <<>> /\ telemetry_at' = "start" /\ g_packet_sequence_number' = 0 /\ radio_up' = FALSE
      BY <2>4 DEF OrderReset
    <3>2. NumbersIn(radio_queue') = <<>>
      BY <3>1, NumbersEmpty
    <3>3. OnTheWay' = <<>> \o <<>>
      BY <3>1, <3>2 DEF OnTheWay
    <3> QED BY <3>1, <3>3 DEF Fifo!Restart, Fifo!Start
  <2>5. CASE TelemetryReceive \/ TelemetryToRadio \/ RadioTakes
    BY <1>2, <2>5, ReceivePuts, ToRadioLoses, RadioTakesFirst
  <2> QED BY <1>2, <2>1, <2>2, <2>3, <2>4, <2>5 DEF OrderNext, TelemetryStep
<1> QED BY <1>1, <1>2, OrderInvariance, PTL DEF OrderSpec, PacketsInOrder, Fifo!Spec
=============================================================================
