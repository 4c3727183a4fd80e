------------------------- MODULE FileDownlinkProofs -------------------------
(***************************************************************************)
(* Theorems about FileDownlink, for every set of files, window, packet     *)
(* size, queue and channel.                                                *)
(***************************************************************************)
EXTENDS FileDownlink, FiniteSetTheorems, Induction

\* A packet of file f cut to size n: it begins at its number times n, and is full or
\* ends the file, which its mark says.
CutFrom(p, n, f) ==
    /\ p.file = f
    /\ p.offset = p.seq * n
    /\ p.bytes <= n
    /\ p.offset + p.bytes <= Length[f]
    /\ p.bytes < n => p.offset + p.bytes = Length[f]
    /\ p.eof <=> p.bytes < n

\* All packets of the transfer are cut to one size, which is the present size
\* as long as the transfer goes on: a size command is only taken when it is over.
CutInv ==
    \E n \in 0 .. MaxPacketSize :
        /\ \A p \in sent : CutFrom(p, n, file)
        /\ state = "SENDING" => n = packetSize

\* The next packet is never before the window.
IndexInv == start <= index

\* The inductive invariant.
IInv == TypeOK /\ CutInv /\ IndexInv /\ EofEndsFile

-----------------------------------------------------------------------------
(* Facts about the operators the actions are made of. *)

\* A packet that holds bytes begins at its number times the packet size, inside
\* the file, and is full or ends it.
LEMMA ReadFacts ==
    ASSUME TypeOK, NEW seq \in Nat
    PROVE  /\ Offset(seq) \in Nat
           /\ BytesRead(seq) \in 0 .. packetSize
           /\ BytesRead(seq) # 0 => Offset(seq) + BytesRead(seq) <= Length[file]
           /\ BytesRead(seq) # 0 /\ BytesRead(seq) < packetSize =>
                  Offset(seq) + BytesRead(seq) = Length[file]
<1>1. Length[file] \in Nat /\ packetSize \in Nat
  BY FileDownlinkAssumption DEF TypeOK
<1>2. Offset(seq) \in Nat
  BY <1>1 DEF Offset
<1> QED BY <1>1, <1>2 DEF BytesRead, BytesLeft

\* What a command carries.
LEMMA CommandFacts ==
    ASSUME TypeOK, queue # <<>>
    PROVE  /\ Head(queue) \in Command
           /\ Tail(queue) \in Seq(Command)
           /\ Len(Tail(queue)) <= QueueSize
           /\ Head(queue).id = "init" => Head(queue).file \in Files
           /\ Head(queue).id = "ack" => /\ Head(queue).seq \in Nat
                                        /\ Head(queue).tid \in Nat
                                        /\ Head(queue).transfer \in Nat
           /\ Head(queue).id = "size" => Head(queue).size \in Nat
<1>1. Head(queue) \in Command /\ Tail(queue) \in Seq(Command) /\ Len(Tail(queue)) <= QueueSize
  BY FileDownlinkAssumption DEF TypeOK
<1> QED BY <1>1, FileDownlinkAssumption DEF Command

\* The parts of the invariant that speak of the window and what was sent from
\* it hold as long as these do not change and the transfer is not resumed.
LEMMA WindowFrame ==
    ASSUME CutInv, IndexInv, EofEndsFile,
           UNCHANGED <<file, start, index, reachedEof, sent, packetSize>>,
           state' = "SENDING" => state = "SENDING"
    PROVE  CutInv' /\ IndexInv' /\ EofEndsFile'
<1>1. PICK n \in 0 .. MaxPacketSize :
          (\A p \in sent : CutFrom(p, n, file)) /\ (state = "SENDING" => n = packetSize)
  BY DEF CutInv
<1>2. \A p \in sent' : CutFrom(p, n, file)'
  BY <1>1 DEF CutFrom
<1> QED BY <1>1, <1>2 DEF CutInv, IndexInv, EofEndsFile

\* A new transfer has sent nothing.
LEMMA FreshWindow ==
    ASSUME packetSize' \in 0 .. MaxPacketSize, NEW f, Initialize(f)
    PROVE  CutInv' /\ IndexInv' /\ EofEndsFile'
<1>1. sent' = {} /\ start' = 0 /\ index' = 0
  BY DEF Initialize
<1> QED BY <1>1 DEF CutInv, IndexInv, EofEndsFile

-----------------------------------------------------------------------------
\* The invariant holds when the task starts.
LEMMA InitInv == Init => IInv
<1> SUFFICES ASSUME Init PROVE IInv
  OBVIOUS
<1>1. TypeOK
  <2>1. queue \in Seq(Command) /\ Len(queue) <= QueueSize
    <3>1. queue = <<>> /\ Len(queue) = 0
      BY DEF Init
    <3> QED BY <3>1, FileDownlinkAssumption
  <2>2. /\ packetSize \in 0 .. MaxPacketSize
        /\ ageExp \in 0 .. MaxAge /\ ageAck \in 0 .. MaxAge
        /\ inits \in 0 .. MaxTransfers /\ others \in 0 .. MaxOther
    BY FileDownlinkAssumption DEF Init
  <2>3. sent \subseteq Packet /\ got \subseteq Packet /\ reachedEof \in BOOLEAN
    BY DEF Init
  <2> QED BY <2>1, <2>2, <2>3 DEF Init, TypeOK
<1>2. CutInv
  <2>1. sent = {} /\ MaxPacketSize \in 0 .. MaxPacketSize
    BY FileDownlinkAssumption DEF Init
  <2> QED BY <2>1 DEF Init, CutInv
<1>3. IndexInv /\ EofEndsFile
  BY DEF Init, IndexInv, EofEndsFile
<1> QED BY <1>1, <1>2, <1>3 DEF IInv

\* The ground's commands only enter the queue.
LEMMA GroundInv ==
    ASSUME IInv, SendInit \/ SendAck \/ SendChangeSize
    PROVE  IInv'
<1> USE DEF IInv
<1>1. PICK c \in Command : Enqueue(c)
  <2>1. CASE SendInit
    BY <2>1 DEF SendInit, Command
  <2>2. CASE SendAck
    <3>1. PICK p \in got, t \in Tids, seq \in 0 .. WindowSize + 1 :
              Enqueue([id |-> "ack", tid |-> t, seq |-> seq, transfer |-> p.transfer])
      BY <2>2 DEF SendAck
    <3>2. p.transfer \in Nat /\ seq \in Nat
      BY FileDownlinkAssumption DEF TypeOK, Packet
    <3> QED BY <3>1, <3>2 DEF Command
  <2>3. CASE SendChangeSize
    BY <2>3 DEF SendChangeSize, Command
  <2> QED BY <2>1, <2>2, <2>3
<1>2. queue' \in Seq(Command) /\ Len(queue') <= QueueSize
  BY <1>1, FileDownlinkAssumption DEF Enqueue, TypeOK
<1>3. inits' \in 0 .. MaxTransfers /\ others' \in 0 .. MaxOther
  BY FileDownlinkAssumption DEF SendInit, SendAck, SendChangeSize, TypeOK
<1>4. UNCHANGED <<state, pc, packetSize, window, timers, transfer, sent, ackedBy, got>>
  BY <1>1 DEF Enqueue
<1>5. TypeOK'
  BY <1>2, <1>3, <1>4 DEF TypeOK, window, timers
<1> QED BY <1>4, <1>5, WindowFrame DEF window

\* A new transfer, from either state.
LEMMA InitializeInv ==
    ASSUME IInv, IdleInit \/ PollInit
    PROVE  IInv'
<1> USE DEF IInv
<1>1. queue # <<>> /\ Head(queue).file \in Files /\ Initialize(Head(queue).file)
      /\ queue' = Tail(queue) /\ packetSize' = packetSize
  BY CommandFacts DEF IdleInit, PollInit, Head1, Dequeue
<1>2. TypeOK'
  <2>1. queue' \in Seq(Command) /\ Len(queue') <= QueueSize
    BY <1>1, CommandFacts
  <2>2. /\ state' \in {"IDLE", "SENDING"} /\ pc' \in {"top", "poll"}
        /\ UNCHANGED <<packetSize, ground>>
    BY DEF IdleInit, PollInit, TypeOK
  <2>3. file' \in Files /\ sent' \subseteq Packet /\ reachedEof' \in BOOLEAN
    BY <1>1 DEF Initialize
  <2>4. tid' \in Nat /\ start' \in Nat /\ index' \in Nat /\ transfer' \in Nat /\ ackedBy' \in Nat
    BY <1>1 DEF Initialize, TypeOK
  <2>5. ageExp' \in 0 .. MaxAge /\ ageAck' \in 0 .. MaxAge
    BY <1>1, FileDownlinkAssumption DEF Initialize
  <2> QED BY <2>1, <2>2, <2>3, <2>4, <2>5 DEF TypeOK, ground
<1> QED BY <1>1, <1>2, FreshWindow DEF TypeOK

\* A size command between transfers: what was sent keeps the size it was cut to.
LEMMA IdleChangeSizeInv == ASSUME IInv, IdleChangeSize PROVE IInv'
<1> USE DEF IInv
<1>1. state = "IDLE" /\ UNCHANGED <<state, window, sent>>
  BY DEF IdleChangeSize
<1>2. TypeOK'
  BY CommandFacts, FileDownlinkAssumption
     DEF IdleChangeSize, Head1, Dequeue, SizeAccepted, TypeOK, window, timers, ground
<1>3. CutInv'
  <2>1. PICK n \in 0 .. MaxPacketSize : \A p \in sent : CutFrom(p, n, file)
    BY DEF CutInv
  <2>2. \A p \in sent' : CutFrom(p, n, file)'
    BY <1>1, <2>1 DEF CutFrom, window
  <2> QED BY <1>1, <2>2 DEF CutInv
<1> QED BY <1>1, <1>2, <1>3 DEF IndexInv, EofEndsFile, window

\* A packet of the window is read and sent.
LEMMA SendPacketInv == ASSUME IInv, SendPacket PROVE IInv'
<1> USE DEF IInv
<1> DEFINE bytes == BytesRead(index)
           packet == [transfer |-> transfer, file |-> file, seq |-> index,
                      offset |-> Offset(index), bytes |-> bytes, eof |-> Last(bytes)]
<1>1. /\ UNCHANGED <<queue, state, packetSize, file, tid, start, timers, transfer, ackedBy,
                     inits, others>>
      /\ index' = index + 1 /\ pc' = "poll" /\ state = "SENDING"
  BY DEF SendPacket
<1>2. index \in Nat /\ packetSize \in 0 .. MaxPacketSize
  BY DEF TypeOK
<1>3. CASE bytes = 0
  <2>1. UNCHANGED <<sent, got, reachedEof>>
    BY <1>3 DEF SendPacket
  <2>2. TypeOK'
    BY <1>1, <2>1 DEF TypeOK, timers
  <2>3. CutInv'
    <3>1. PICK n \in 0 .. MaxPacketSize :
              (\A p \in sent : CutFrom(p, n, file)) /\ (state = "SENDING" => n = packetSize)
      BY DEF CutInv
    <3>2. \A p \in sent' : CutFrom(p, n, file)'
      BY <1>1, <2>1, <3>1 DEF CutFrom
    <3> QED BY <1>1, <3>1, <3>2 DEF CutInv
  <2> QED BY <1>1, <1>2, <2>1, <2>2, <2>3 DEF TypeOK, IndexInv, EofEndsFile
<1>4. CASE bytes # 0
  <2>1. /\ sent' = sent \cup {packet}
        /\ got' \in {got, got \cup {packet}}
        /\ reachedEof' = (reachedEof \/ packet.eof)
    BY <1>4 DEF SendPacket
  <2>2. /\ Offset(index) \in Nat /\ bytes \in 1 .. packetSize
        /\ Offset(index) + bytes <= Length[file]
        /\ bytes < packetSize => Offset(index) + bytes = Length[file]
    <3>1. TypeOK /\ index \in Nat
      BY <1>2
    <3>2. /\ Offset(index) \in Nat /\ bytes \in 0 .. packetSize
          /\ bytes # 0 => Offset(index) + bytes <= Length[file]
          /\ bytes # 0 /\ bytes < packetSize => Offset(index) + bytes = Length[file]
      BY <3>1, ReadFacts
    <3> HIDE DEF bytes
    <3> QED BY <1>2, <1>4, <3>2
  <2>3. packet \in Packet /\ packet.eof \in BOOLEAN
    <3>1. transfer \in Nat /\ file \in Files /\ index \in Nat /\ Offset(index) \in Nat
      BY <2>2 DEF TypeOK
    <3>2. bytes \in 1 .. MaxPacketSize
      <4> HIDE DEF bytes
      <4> QED BY <1>2, <2>2, FileDownlinkAssumption
    <3>3. Last(bytes) \in BOOLEAN
      BY DEF Last
    <3> HIDE DEF bytes
    <3> QED BY <3>1, <3>2, <3>3 DEF Packet
  <2>4. TypeOK'
    <3>1. sent' \subseteq Packet /\ got' \subseteq Packet /\ reachedEof' \in BOOLEAN
      BY <2>1, <2>3 DEF TypeOK
    <3> QED BY <1>1, <1>2, <3>1 DEF TypeOK, timers
  <2>5. CutInv'
    <3>1. \A p \in sent : CutFrom(p, packetSize, file)
      BY <1>1 DEF CutInv
    <3>2. CutFrom(packet, packetSize, file)
      <4>1. packet.eof <=> packet.bytes < packetSize
        BY DEF Last
      <4>2. packet.offset = packet.seq * packetSize /\ packet.file = file
        BY DEF Offset
      <4>3. packet.offset = Offset(index) /\ packet.bytes = bytes
        OBVIOUS
      <4>4. bytes <= packetSize
        <5> HIDE DEF bytes
        <5> QED BY <1>2, <2>2
      <4> HIDE DEF bytes, packet
      <4> QED BY <2>2, <4>1, <4>2, <4>3, <4>4 DEF CutFrom
    <3>3. \A p \in sent' : CutFrom(p, packetSize, file)'
      BY <1>1, <2>1, <3>1, <3>2 DEF CutFrom
    <3> QED BY <1>1, <1>2, <3>3 DEF CutInv
  <2>6. EofEndsFile'
    <3>1. packet.eof => packet.offset + packet.bytes = Length[file]
      BY <2>2 DEF Last
    <3> QED BY <1>1, <2>1, <3>1 DEF EofEndsFile
  <2> QED BY <1>1, <1>2, <2>4, <2>5, <2>6 DEF TypeOK, IndexInv
<1> QED BY <1>3, <1>4

\* A read that fails ends the transfer.
LEMMA SendErrorInv == ASSUME IInv, SendError PROVE IInv'
<1> USE DEF IInv
<1>1. TypeOK'
  BY DEF SendError, TypeOK, timers, ground
<1>2. CutInv'
  <2>1. PICK n \in 0 .. MaxPacketSize : \A p \in sent : CutFrom(p, n, file)
    BY DEF CutInv
  <2>2. \A p \in sent' : CutFrom(p, n, file)'
    BY <2>1 DEF SendError, CutFrom
  <2> QED BY <2>2 DEF SendError, CutInv
<1> QED BY <1>1, <1>2 DEF SendError, TypeOK, IndexInv, EofEndsFile

\* The end-of-transfer test only ends a transfer.
LEMMA CheckFacts ==
    ASSUME TypeOK, NEW age, CheckTransfer(age)
    PROVE  state' \in {"IDLE", "SENDING"} /\ (state' = "SENDING" => state = "SENDING")
  BY DEF CheckTransfer, TypeOK

\* An acknowledgement of this transfer moves the window, or ends the transfer.
LEMMA PollAckInv == ASSUME IInv, PollAck PROVE IInv'
<1> USE DEF IInv
<1> DEFINE seq == Head(queue).seq
<1>1. /\ queue # <<>> /\ queue' = Tail(queue) /\ seq \in Nat
      /\ Head(queue).transfer \in Nat
  BY CommandFacts DEF PollAck, Head1, Dequeue
<1>2. UNCHANGED <<packetSize, file, tid, reachedEof, transfer, sent, got, inits, others>>
      /\ pc' = "top"
  BY DEF PollAck, ground
<1>3. /\ state' \in {"IDLE", "SENDING"} /\ (state' = "SENDING" => state = "SENDING")
      /\ start' \in Nat /\ index' \in Nat /\ start' <= index'
      /\ ageExp' \in 0 .. MaxAge /\ ageAck' \in 0 .. MaxAge
      /\ ackedBy' \in Nat
  <2>1. CASE ~Acknowledges(seq)
    BY <2>1, CheckFacts DEF PollAck, timers, TypeOK, IndexInv
  <2>2. CASE Acknowledges(seq) /\ reachedEof /\ seq = WindowEnd
    BY <2>2 DEF PollAck, timers, TypeOK, IndexInv
  <2>3. CASE Acknowledges(seq) /\ ~(reachedEof /\ seq = WindowEnd)
    <3>1. MoveWindow(seq) /\ ageExp' = 0 /\ ageAck' = 0 /\ CheckTransfer(0)
          /\ ackedBy' = Head(queue).transfer
      BY <2>3 DEF PollAck
    <3> QED BY <1>1, <3>1, CheckFacts, FileDownlinkAssumption DEF MoveWindow
  <2> QED BY <2>1, <2>2, <2>3
<1>4. TypeOK'
  BY <1>1, <1>2, <1>3, CommandFacts DEF TypeOK
<1>5. CutInv'
  <2>1. PICK n \in 0 .. MaxPacketSize :
            (\A p \in sent : CutFrom(p, n, file)) /\ (state = "SENDING" => n = packetSize)
    BY DEF CutInv
  <2>2. \A p \in sent' : CutFrom(p, n, file)'
    BY <1>2, <2>1 DEF CutFrom
  <2> QED BY <1>2, <1>3, <2>1, <2>2 DEF CutInv
<1> QED BY <1>2, <1>3, <1>4, <1>5 DEF IndexInv, EofEndsFile

\* The ack timeout takes the sender back to the start of the window.
LEMMA GoBackInv == ASSUME IInv, GoBack PROVE IInv'
<1> USE DEF IInv
<1>1. state' \in {"IDLE", "SENDING"} /\ (state' = "SENDING" => state = "SENDING")
  BY CheckFacts DEF GoBack
<1>2. TypeOK'
  BY <1>1, FileDownlinkAssumption DEF GoBack, TypeOK, ground
<1>3. CutInv'
  <2>1. PICK n \in 0 .. MaxPacketSize :
            (\A p \in sent : CutFrom(p, n, file)) /\ (state = "SENDING" => n = packetSize)
    BY DEF CutInv
  <2>2. \A p \in sent' : CutFrom(p, n, file)'
    BY <2>1 DEF GoBack, CutFrom
  <2> QED BY <1>1, <2>1, <2>2 DEF GoBack, CutInv
<1> QED BY <1>2, <1>3 DEF GoBack, TypeOK, IndexInv, EofEndsFile

\* The steps that leave the window and what was sent from it alone.
LEMMA OtherInv ==
    ASSUME IInv, IdleIgnore \/ WindowSent \/ PollNothing \/ PollOtherAck \/ PollChangeSize \/ Wait
    PROVE  IInv'
<1> USE DEF IInv
<1>1. UNCHANGED <<packetSize, window, transfer, sent, ackedBy, ground>>
  BY DEF IdleIgnore, WindowSent, PollNothing, PollOtherAck, PollChangeSize, Wait
<1>2. state' \in {"IDLE", "SENDING"} /\ (state' = "SENDING" => state = "SENDING")
  BY CheckFacts DEF IdleIgnore, WindowSent, PollNothing, PollOtherAck, PollChangeSize, Wait, TypeOK
<1>3. queue' \in Seq(Command) /\ Len(queue') <= QueueSize
  BY CommandFacts
     DEF IdleIgnore, WindowSent, PollNothing, PollOtherAck, PollChangeSize, Wait, TypeOK,
         Head1, Dequeue
<1>4. pc' \in {"top", "poll"} /\ ageExp' \in 0 .. MaxAge /\ ageAck' \in 0 .. MaxAge
  BY FileDownlinkAssumption
     DEF IdleIgnore, WindowSent, PollNothing, PollOtherAck, PollChangeSize, Wait, TypeOK,
         Older, timers
<1>5. TypeOK'
  BY <1>1, <1>2, <1>3, <1>4 DEF TypeOK, window, ground
<1> QED BY <1>1, <1>2, <1>5, WindowFrame DEF window

\* Where the uptime in ms starts again only the timers change.
LEMMA RollOverInv ==
    ASSUME IInv, RollOver
    PROVE  IInv'
<1> USE DEF IInv
<1>1. UNCHANGED <<state, packetSize, window, transfer, sent>>
  BY DEF RollOver
<1>2. TypeOK'
  <2>1. others' \in 0 .. MaxOther
    BY FileDownlinkAssumption DEF RollOver, TypeOK
  <2>2. ageExp' \in 0 .. MaxAge /\ ageAck' \in 0 .. MaxAge
    BY DEF RollOver
  <2> QED BY <2>1, <2>2 DEF RollOver, TypeOK, window
<1> QED BY <1>1, <1>2, WindowFrame DEF window

-----------------------------------------------------------------------------
\* The invariant is inductive.
THEOREM Invariance == Spec => []IInv
<1>1. ASSUME IInv, [Next]_vars PROVE IInv'
  <2>1. CASE SendInit \/ SendAck \/ SendChangeSize
    BY <1>1, <2>1, GroundInv
  <2>2. CASE TaskStep
    BY <1>1, <2>2, InitializeInv, IdleChangeSizeInv, SendPacketInv, SendErrorInv, PollAckInv,
       GoBackInv, OtherInv DEF TaskStep
  <2>3. CASE Wait
    BY <1>1, <2>3, OtherInv
  <2>4. CASE RollOver
    BY <1>1, <2>4, RollOverInv
  <2>5. CASE UNCHANGED vars
    <3> USE DEF IInv
    <3>1. TypeOK'
      BY <1>1, <2>5 DEF vars, window, timers, ground, TypeOK
    <3> QED BY <1>1, <2>5, <3>1, WindowFrame DEF vars, window
  <2> QED BY <1>1, <2>1, <2>2, <2>3, <2>4, <2>5 DEF Next
<1> QED BY InitInv, <1>1, PTL DEF Spec

\* Every variable of the task keeps its type: the queue never holds more than
\* FILE_DOWNLINK_MAX_QUEUE_ITEMS and the packet size never exceeds the buffer a
\* packet is read into.
THEOREM TypeCorrect == Spec => []TypeOK
<1>1. IInv => TypeOK
  BY DEF IInv
<1> QED BY Invariance, <1>1, PTL

\* The packet marked as the last ends the file, for every file and packet size
\* (send_n_packet).
THEOREM LastPacketEndsFile == Spec => []EofEndsFile
<1>1. IInv => EofEndsFile
  BY DEF IInv
<1> QED BY Invariance, <1>1, PTL

\* Neighbouring packets hold neighbouring bytes, for every file and every
\* sequence of size commands (send_n_packet and the size command).
THEOREM FileTiled == Spec => []PacketsTile
<1>1. ASSUME IInv PROVE PacketsTile
  <2>1. PICK n \in 0 .. MaxPacketSize : \A p \in sent : CutFrom(p, n, file)
    BY <1>1 DEF IInv, CutInv
  <2>2. SUFFICES ASSUME NEW p \in sent, NEW q \in sent, q.seq = p.seq + 1
                 PROVE  q.offset = p.offset + p.bytes
    BY DEF PacketsTile
  <2>3. CutFrom(p, n, file) /\ CutFrom(q, n, file)
    BY <2>1
  <2>4. /\ p.seq \in Nat /\ p.offset \in Nat /\ p.bytes \in Nat \ {0}
        /\ q.offset \in Nat /\ q.bytes \in Nat \ {0}
    BY <1>1 DEF IInv, TypeOK, Packet
  <2>5. n \in Nat
    BY FileDownlinkAssumption
  <2>6. q.offset = p.offset + n
    <3>1. (p.seq + 1) * n = p.seq * n + n
      BY <2>4, <2>5
    <3> QED BY <2>2, <2>3, <3>1 DEF CutFrom
  <2>7. Length[file] \in Nat
    BY <1>1, FileDownlinkAssumption DEF IInv, TypeOK
  <2>8. p.bytes = n
    BY <2>3, <2>4, <2>5, <2>6, <2>7 DEF CutFrom
  <2> QED BY <2>6, <2>8
<1> QED BY Invariance, <1>1, PTL

\* No step sends a packet from outside the window (the condition of the send in
\* file_downlink_task), whatever acknowledgements and timeouts came before.
THEOREM WindowKept == Spec => WindowRespected
<1> DEFINE Inside ==
        \A p \in sent' \ sent : transfer' = transfer => start <= p.seq /\ p.seq < start + WindowSize
<1>1. ASSUME IInv, [Next]_vars PROVE Inside
  <2>1. CASE SendPacket
    <3>1. \A p \in sent' \ sent : p.seq = index
      BY <2>1 DEF SendPacket
    <3> QED BY <1>1, <2>1, <3>1 DEF SendPacket, InWindow, WindowEnd, IInv, IndexInv
  <2>2. ASSUME TaskStep, ~SendPacket PROVE sent' \subseteq sent
    BY <2>2
       DEF TaskStep, IdleInit, IdleChangeSize, IdleIgnore, SendError, WindowSent, PollNothing,
           PollOtherAck, PollAck, PollInit, PollChangeSize, GoBack, Initialize
  <2>3. ASSUME ~TaskStep PROVE sent' \subseteq sent
    BY <1>1, <2>3 DEF Next, SendInit, SendAck, SendChangeSize, Enqueue, Wait, RollOver, vars
  <2> QED BY <2>1, <2>2, <2>3
<1>2. IInv /\ [Next]_vars => [Inside]_vars
  BY <1>1
<1> QED BY Invariance, <1>2, PTL DEF Spec, WindowRespected

-----------------------------------------------------------------------------
(* What the ground has, across transfers. *)

\* The ground only has what was sent, and has all packets of a transfer cut from one
\* file to one size, also those of the transfers before the present one.
GotInv ==
    /\ \A p \in got : p.transfer <= transfer /\ (p.transfer = transfer => p \in sent)
    /\ \A t \in Nat : \E n \in 0 .. MaxPacketSize : \E f \in Files :
           \A p \in got : p.transfer = t => CutFrom(p, n, f)

\* Every step keeps it: only the present transfer gets new packets, and a new transfer
\* begins without any.
LEMMA GotStep ==
    ASSUME IInv, IInv', GotInv, [Next]_vars
    PROVE  GotInv'
<1>1. /\ transfer \in Nat /\ transfer' \in Nat /\ file' \in Files
      /\ \A p \in got : p.transfer \in Nat
  BY DEF IInv, TypeOK, Packet
<1>2. \/ UNCHANGED <<got, transfer, sent>>
      \/ transfer' = transfer + 1 /\ got' = got
      \/ /\ transfer' = transfer /\ sent \subseteq sent'
         /\ \A p \in got' \ got : p.transfer = transfer /\ p \in sent'
  <2>1. CASE SendPacket
    BY <2>1 DEF SendPacket
  <2>2. CASE IdleInit \/ PollInit
    BY <2>2 DEF IdleInit, PollInit, Initialize, ground
  <2>3. CASE TaskStep /\ ~SendPacket /\ ~IdleInit /\ ~PollInit
    BY <2>3
       DEF TaskStep, IdleChangeSize, IdleIgnore, SendError, WindowSent, PollNothing,
           PollOtherAck, PollAck, PollChangeSize, GoBack, ground
  <2>4. CASE ~TaskStep
    BY <2>4 DEF Next, SendInit, SendAck, SendChangeSize, Enqueue, Wait, RollOver, vars, ground
  <2> QED BY <2>1, <2>2, <2>3, <2>4
<1>3. \A p \in got' : /\ p.transfer <= transfer'
                      /\ p.transfer = transfer' => p \in sent'
                      /\ p.transfer # transfer' => p \in got
  BY <1>1, <1>2 DEF GotInv
<1>4. PICK n \in 0 .. MaxPacketSize : \A p \in sent' : CutFrom(p, n, file)'
  BY DEF IInv, CutInv
<1>5. ASSUME NEW t \in Nat
      PROVE  \E m \in 0 .. MaxPacketSize : \E f \in Files :
                 \A p \in got' : p.transfer = t => CutFrom(p, m, f)
  <2>1. CASE t = transfer'
    <3>1. \A p \in got' : p.transfer = t => CutFrom(p, n, file')
      BY <1>3, <1>4, <2>1 DEF CutFrom
    <3> QED BY <1>1, <3>1
  <2>2. CASE t # transfer'
    <3>1. PICK m \in 0 .. MaxPacketSize, f \in Files :
              \A p \in got : p.transfer = t => CutFrom(p, m, f)
      BY DEF GotInv
    <3>2. \A p \in got' : p.transfer = t => CutFrom(p, m, f)
      BY <1>3, <2>2, <3>1
    <3> QED BY <3>2
  <2> QED BY <2>1, <2>2
<1> QED BY <1>3, <1>5 DEF GotInv, CutFrom

\* The sum over a set of packets that all hold n bytes, but for one that holds b: the
\* recursion of MapThenSumSet over the subsets has no other solution.
LEMMA SumOfBytes ==
    ASSUME NEW T, IsFiniteSet(T), NEW n \in Nat, NEW p, NEW b \in Nat,
           \A q \in T : q.bytes = IF q = p THEN b ELSE n
    PROVE  MapThenSumSet(LAMBDA q : q.bytes, T) =
               n * Cardinality(T \ {p}) + IF p \in T THEN b ELSE 0
<1> DEFINE body(f) == [s \in SUBSET T |->
                          IF s = {} THEN 0
                          ELSE LET x == CHOOSE x \in s : TRUE IN x.bytes + f[s \ {x}]]
           sum == CHOOSE f : f = body(f)
           total(s) == n * Cardinality(s \ {p}) + IF p \in s THEN b ELSE 0
<1>1. MapThenSumSet(LAMBDA q : q.bytes, T) = sum[T]
  BY DEF MapThenSumSet, MapThenFoldSet
<1>2. \A s \in SUBSET T : IsFiniteSet(s) /\ Cardinality(s) \in Nat
  BY FS_Subset, FS_CardinalityType
<1>3. total({}) = 0
  <2>1. {} \ {p} = {} /\ Cardinality({}) = 0 /\ n * 0 = 0
    BY FS_EmptySet
  <2> QED BY <2>1
<1>4. ASSUME NEW s \in SUBSET T, NEW x \in s
      PROVE  total(s) = x.bytes + total(s \ {x})
  <2>1. CASE x = p
    <3>1. (s \ {x}) \ {p} = s \ {p} /\ p \notin s \ {x} /\ p \in s /\ x.bytes = b
      BY <2>1
    <3>2. n * Cardinality(s \ {p}) \in Nat
      BY <1>2
    <3>3. total(s) = n * Cardinality(s \ {p}) + b /\ total(s \ {x}) = n * Cardinality(s \ {p})
      <4> DEFINE c == n * Cardinality(s \ {p})
      <4>1. n * Cardinality((s \ {x}) \ {p}) = c /\ c \in Nat
        BY <3>1, <3>2
      <4> HIDE DEF c
      <4>2. total(s) = c + IF p \in s THEN b ELSE 0
        BY DEF c
      <4>3. total(s \ {x}) = c + IF p \in s \ {x} THEN b ELSE 0
        BY <4>1
      <4> HIDE DEF total
      <4> QED BY <3>1, <4>1, <4>2, <4>3 DEF c
    <3> HIDE DEF total
    <3> QED BY <3>1, <3>2, <3>3
  <2>2. CASE x # p
    <3> DEFINE c == Cardinality(s \ {p})
    <3>1. /\ (s \ {x}) \ {p} = (s \ {p}) \ {x} /\ x \in s \ {p}
          /\ (p \in s \ {x} <=> p \in s) /\ x.bytes = n
      BY <2>2
    <3>2. IsFiniteSet(s \ {p}) /\ c \in Nat /\ s \ {p} \in SUBSET T
      BY <1>2
    <3>3. Cardinality((s \ {p}) \ {x}) = c - 1
      BY <3>1, <3>2, FS_RemoveElement
    <3>4. n * c = n + (n * (c - 1))
      BY <3>2
    <3>5. n * (c - 1) \in Int /\ n * c \in Int
      BY <3>2
    <3>6. total(s \ {x}) = (n * (c - 1)) + IF p \in s THEN b ELSE 0
      BY <3>1, <3>3
    <3> HIDE DEF c
    <3>7. total(s) = (n * c) + IF p \in s THEN b ELSE 0
      BY DEF c
    <3> HIDE DEF total
    <3> QED BY <3>1, <3>4, <3>5, <3>6, <3>7
  <2> QED BY <2>1, <2>2
<1> HIDE DEF total
<1>5. sum = body(sum)
  <2> DEFINE g == [s \in SUBSET T |-> total(s)]
  <2>1. ASSUME NEW s \in SUBSET T, s # {}
        PROVE  total(s) = LET x == CHOOSE x \in s : TRUE IN x.bytes + g[s \ {x}]
    <3> DEFINE x == CHOOSE x \in s : TRUE
    <3>1. x \in s
      BY <2>1
    <3> HIDE DEF x
    <3>2. s \ {x} \in SUBSET T
      OBVIOUS
    <3>3. total(s) = x.bytes + g[s \ {x}]
      BY <1>4, <3>1, <3>2
    <3> QED BY <3>3 DEF x
  <2>2. \A s \in SUBSET T : g[s] = total(s)
    OBVIOUS
  <2>3. g = body(g)
    BY <1>3, <2>1
  <2> HIDE DEF g, body
  <2> QED BY <2>3
<1>6. sum[{}] = 0
  <2>1. {} \in SUBSET T
    OBVIOUS
  <2> HIDE DEF sum
  <2> QED BY <1>5, <2>1
<1>7. ASSUME NEW s \in SUBSET T, s # {}
      PROVE  \E x \in s : sum[s] = x.bytes + sum[s \ {x}]
  <2> DEFINE x == CHOOSE x \in s : TRUE
  <2>1. x \in s
    BY <1>7
  <2>2. sum[s] = x.bytes + sum[s \ {x}]
    <3> HIDE DEF sum
    <3> QED BY <1>5, <1>7
  <2> HIDE DEF x, sum
  <2> QED BY <2>1, <2>2
<1> HIDE DEF sum, body
<1>8. \A s \in SUBSET T : sum[s] = total(s)
  <2> DEFINE Wrong == {Cardinality(s) : s \in {s \in SUBSET T : sum[s] # total(s)}}
  <2>1. SUFFICES ASSUME Wrong # {} PROVE FALSE
    OBVIOUS
  <2>2. PICK c \in Wrong : \A d \in Wrong : c <= d
    <3>1. Wrong \in SUBSET Nat
      BY <1>2
    <3> HIDE DEF Wrong
    <3> QED BY <2>1, <3>1, LeastNat
  <2>3. PICK s \in SUBSET T : sum[s] # total(s) /\ c = Cardinality(s)
    BY <2>2
  <2>4. s # {}
    BY <1>3, <1>6, <2>3
  <2>5. PICK x \in s : sum[s] = x.bytes + sum[s \ {x}]
    BY <1>7, <2>4
  <2>6. s \ {x} \in SUBSET T /\ Cardinality(s \ {x}) = c - 1 /\ c \in Nat
    BY <1>2, <2>3, FS_RemoveElement
  <2>7. sum[s \ {x}] = total(s \ {x})
    <3>1. c - 1 \notin Wrong
      <4> HIDE DEF Wrong
      <4> QED BY <1>2, <2>2, <2>6
    <3> QED BY <2>6, <3>1
  <2> QED BY <1>4, <2>3, <2>5, <2>7
<1>9. T \in SUBSET T
  OBVIOUS
<1> QED BY <1>1, <1>8, <1>9 DEF total

\* The packets up to the last, when none is missing, are as many as their numbers, all
\* full but the last.
LEMMA PacketsUpTo ==
    ASSUME IInv, GotInv, NEW p \in got, p.eof, InOrder(p.transfer, p.seq)
    PROVE  LET T == {q \in got : q.transfer = p.transfer /\ q.seq <= p.seq} IN
           \E n \in Nat :
               /\ IsFiniteSet(T) /\ p \in T /\ Cardinality(T) = p.seq + 1
               /\ \A q \in T : q.bytes = IF q = p THEN p.bytes ELSE n
               /\ p.offset = p.seq * n /\ p.offset + p.bytes = Length[p.file]
<1> DEFINE T == {q \in got : q.transfer = p.transfer /\ q.seq <= p.seq}
<1>1. /\ \A q \in got : /\ q \in Packet /\ q.transfer \in Nat /\ q.seq \in Nat
                        /\ q.offset \in Nat /\ q.bytes \in Nat \ {0} /\ q.eof \in BOOLEAN
      /\ p.file \in Files /\ Length[p.file] \in Nat
  BY FileDownlinkAssumption DEF IInv, TypeOK, Packet
<1>2. PICK n \in 0 .. MaxPacketSize, f \in Files :
          \A q \in got : q.transfer = p.transfer => CutFrom(q, n, f)
  BY <1>1 DEF GotInv
<1>3. n \in Nat /\ MaxPacketSize \in Nat /\ CutFrom(p, n, f) /\ p \in T
  BY <1>1, <1>2, FileDownlinkAssumption
<1>4. f = p.file /\ p.bytes < n /\ p.offset = p.seq * n /\ p.offset + p.bytes = Length[f]
  BY <1>3 DEF CutFrom
<1>5. \A q \in T : CutFrom(q, n, f) /\ q.seq <= p.seq /\ q \in got
  BY <1>2
<1>6. ASSUME NEW q \in T, q.seq # p.seq PROVE q.bytes = n
  <2>1. /\ q.seq \in Nat /\ q.seq < p.seq /\ q.bytes \in Nat /\ q.offset = q.seq * n
        /\ q.bytes <= n /\ (q.bytes < n => q.offset + q.bytes = Length[f])
        /\ p.seq \in Nat /\ p.bytes \in Nat \ {0}
    BY <1>1, <1>5, <1>6 DEF CutFrom
  <2>2. (q.seq * n) + n <= p.seq * n
    <3> DEFINE d == p.seq - q.seq - 1
    <3>1. d \in Nat /\ p.seq = (q.seq + 1) + d
      BY <2>1
    <3> HIDE DEF d
    <3>2. p.seq * n = ((q.seq * n) + n) + (d * n)
      BY <1>3, <2>1, <3>1
    <3>3. d * n \in Nat /\ q.seq * n \in Nat
      BY <1>3, <2>1, <3>1
    <3> QED BY <1>3, <3>2, <3>3
  <2>3. q.offset + n <= p.offset
    BY <1>4, <2>1, <2>2
  <2>4. /\ q.offset \in Nat /\ p.offset \in Nat /\ q.bytes \in Nat /\ p.bytes \in Nat \ {0}
        /\ q.bytes <= n /\ (q.bytes < n => q.offset + q.bytes = Length[f])
        /\ p.offset + p.bytes = Length[f]
    BY <1>1, <1>4, <1>5, <2>1
  <2> QED BY <1>3, <2>3, <2>4
<1>7. ASSUME NEW q \in T, NEW r \in T, q.seq = r.seq PROVE q = r
  <2>1. /\ q.transfer = r.transfer /\ q.file = r.file /\ q.offset = r.offset
        /\ q \in Packet /\ r \in Packet
    BY <1>1, <1>5, <1>7 DEF CutFrom
  <2>2. q.bytes = r.bytes
    <3>1. /\ q.bytes <= n /\ r.bytes <= n
          /\ q.offset + q.bytes <= Length[f] /\ r.offset + r.bytes <= Length[f]
          /\ (q.bytes < n => q.offset + q.bytes = Length[f])
          /\ (r.bytes < n => r.offset + r.bytes = Length[f])
          /\ q.bytes \in Nat /\ r.bytes \in Nat /\ q.offset \in Nat
      BY <1>1, <1>5 DEF CutFrom
    <3> QED BY <1>1, <1>3, <1>4, <2>1, <3>1
  <2>3. q.eof = r.eof
    <3>1. q.eof \in BOOLEAN /\ r.eof \in BOOLEAN /\ (q.eof <=> q.bytes < n) /\ (r.eof <=> r.bytes < n)
      BY <1>1, <1>5 DEF CutFrom
    <3> QED BY <2>2, <3>1
  <2> QED BY <1>7, <2>1, <2>2, <2>3 DEF Packet
<1>8. \A q \in T : q.bytes = IF q = p THEN p.bytes ELSE n
  BY <1>3, <1>6, <1>7
<1>9. IsFiniteSet(T) /\ Cardinality(T) = p.seq + 1
  <2> DEFINE numbered == [s \in 0 .. p.seq |-> CHOOSE q \in T : q.seq = s]
  <2>1. ASSUME NEW s \in 0 .. p.seq PROVE \E q \in T : q.seq = s
    BY <1>1 DEF InOrder
  <2>2. \A s \in 0 .. p.seq : numbered[s] \in T /\ numbered[s].seq = s
    BY <2>1
  <2>3. numbered \in [0 .. p.seq -> T]
    BY <2>2
  <2>4. \A q \in T : q.seq \in 0 .. p.seq
    BY <1>1
  <2> HIDE DEF numbered, T
  <2>5. numbered \in Bijection(0 .. p.seq, T)
    <3>1. \A q \in T : numbered[q.seq] = q
      BY <1>7, <2>2, <2>4
    <3>2. \A r, s \in 0 .. p.seq : numbered[r] = numbered[s] => r = s
      BY <2>2
    <3> QED BY <2>3, <2>4, <3>1, <3>2 DEF Bijection, Injection, Surjection, IsInjective
  <2>6. IsFiniteSet(0 .. p.seq) /\ Cardinality(0 .. p.seq) = p.seq + 1
    <3>1. 0 \in Int /\ p.seq \in Int /\ ~(0 > p.seq) /\ p.seq - 0 + 1 = p.seq + 1
      BY <1>1
    <3> QED BY <3>1, FS_Interval, Zenon
  <2>7. ExistsBijection(0 .. p.seq, T)
    BY <2>5 DEF ExistsBijection
  <2> QED BY <2>6, <2>7, FS_Bijection
<1> HIDE DEF T
<1>10. /\ n \in Nat /\ IsFiniteSet(T) /\ p \in T /\ Cardinality(T) = p.seq + 1
       /\ \A q \in T : q.bytes = IF q = p THEN p.bytes ELSE n
       /\ p.offset = p.seq * n /\ p.offset + p.bytes = Length[p.file]
  BY <1>3, <1>4, <1>8, <1>9
<1> QED BY <1>10 DEF T

\* Once the ground has the packet marked as the last and all before it, it has the whole
\* file, whatever was lost, sent again, acknowledged late or left of other transfers
\* (send_n_packet, initialize_file_transfer).
THEOREM FileIsWhole == Spec => []FileReassembles
<1>1. Init => GotInv
  <2> SUFFICES ASSUME Init PROVE GotInv
    OBVIOUS
  <2>1. got = {} /\ file \in Files /\ 0 \in 0 .. MaxPacketSize
    BY FileDownlinkAssumption DEF Init
  <2> QED BY <2>1 DEF GotInv
<1>2. ASSUME IInv, GotInv PROVE FileReassembles
  <2> SUFFICES ASSUME NEW p \in got, p.eof, InOrder(p.transfer, p.seq)
               PROVE  MapThenSumSet(LAMBDA q : q.bytes,
                          {q \in got : q.transfer = p.transfer /\ q.seq <= p.seq}) = Length[p.file]
    BY DEF FileReassembles
  <2> DEFINE T == {q \in got : q.transfer = p.transfer /\ q.seq <= p.seq}
  <2>1. PICK n \in Nat : /\ IsFiniteSet(T) /\ p \in T /\ Cardinality(T) = p.seq + 1
                         /\ \A q \in T : q.bytes = IF q = p THEN p.bytes ELSE n
                         /\ p.offset = p.seq * n /\ p.offset + p.bytes = Length[p.file]
    BY <1>2, PacketsUpTo
  <2>2. p.seq \in Nat /\ p.bytes \in Nat /\ p.offset \in Nat
    BY <1>2 DEF IInv, TypeOK, Packet
  <2> HIDE DEF T
  <2>3. Cardinality(T \ {p}) = p.seq
    <3>1. Cardinality(T \ {p}) = Cardinality(T) - 1
      BY <2>1, FS_RemoveElement, Zenon
    <3> QED BY <2>1, <2>2, <3>1
  <2>4. MapThenSumSet(LAMBDA q : q.bytes, T) = n * p.seq + p.bytes
    <3>1. MapThenSumSet(LAMBDA q : q.bytes, T) =
              n * Cardinality(T \ {p}) + IF p \in T THEN p.bytes ELSE 0
      BY <2>1, <2>2, SumOfBytes
    <3> QED BY <2>1, <2>3, <3>1
  <2>5. n * p.seq = p.seq * n
    BY <2>1, <2>2
  <2> QED BY <2>1, <2>4, <2>5 DEF T
<1>3. IInv /\ IInv' /\ GotInv /\ [Next]_vars => GotInv'
  BY GotStep
<1> QED BY Invariance, <1>1, <1>2, <1>3, PTL DEF Spec
=============================================================================
