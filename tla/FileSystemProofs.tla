-------------------------- MODULE FileSystemProofs --------------------------
(***************************************************************************)
(* Theorems about FileSystem, for any number of callers, any calls and any *)
(* length of the queue.                                                    *)
(***************************************************************************)
EXTENDS FileSystem, SequenceTheorems, TLAPS

\* Only a call that still waits has an operation whose pointers are valid.
WaitInv ==
    \A t \in Tasks :
        /\ \A i \in 1 .. Len(fs_queue) : Awaited(t, fs_queue[i]) => at[t] = "wait"
        /\ Awaited(t, op) => at[t] = "wait" /\ Serving

\* An operation of t with an answer, whether t still waits for it or not.
Answerable(t, operation) == operation.by = t /\ operation.stage \in Answered

\* The one answer a caller that has never given up can have on its way: in the
\* queue, in service, or given.
OneInv ==
    \A t \in Callers :
        /\ own[t] => notes[t] > 0 /\ at[t] = "wait"
        /\ ~gaveUp[t] =>
            /\ \A i \in 1 .. Len(fs_queue) : Answerable(t, fs_queue[i]) =>
                   fs_queue[i].live /\ notes[t] = 0 /\ ~(Serving /\ Answerable(t, op))
            /\ Serving /\ Answerable(t, op) => op.live /\ notes[t] = 0
            /\ notes[t] > 0 => notes[t] = 1 /\ own[t]

\* Where the filesystem task is in write_error_log: when it comes to stat the
\* log itself, it has taken all its notifications and can be given no more.
LogInv ==
    /\ ask[FS] \in {"STAT", "log_dir", "log_mkdir", "log_exists", "log_write"}
    /\ at[FS] \in {"boot", "idle", "finish"} => ask[FS] = "STAT"
    /\ ask[FS] = "log_exists" => notes[FS] = 0

\* The inductive invariant.
IInv == FsTypeOK /\ WaitInv /\ OrderKept /\ AnswerComing /\ OneInv /\ LogInv

-----------------------------------------------------------------------------
(* Facts about the operators the actions are made of. *)

\* A function of the program goes on to one of its operations or is done.
LEMMA FollowingType ==
    ASSUME NEW stage, NEW answer, NEW next \in Following(stage, answer)
    PROVE  next \in Stages \cup {"done"}
  BY DEF Following, Stages

\* Where Go leaves its task and the others.
LEMMA GoFacts ==
    ASSUME FsTypeOK, NEW t \in Tasks, NEW stage \in Stages \cup {"done"}, Go(t, stage)
    PROVE  /\ at' \in [Tasks -> {"boot", "idle", "send", "wait", "finish"}]
           /\ ask' \in [Tasks -> Stages]
           /\ frame' \in [Tasks -> {"unset", "yes", "no"}]
           /\ own' \in [Tasks -> BOOLEAN]
           /\ at'[t] = IF stage = "done" THEN Return(t) ELSE "send"
           /\ ask'[t] = IF stage = "done" THEN "STAT" ELSE stage
           /\ own'[t] = FALSE
           /\ \A u \in Tasks \ {t} : at'[u] = at[u] /\ ask'[u] = ask[u] /\ own'[u] = own[u]
<1>1. "STAT" \in Stages /\ Return(t) \in {"idle", "finish"}
  BY DEF Stages, Return
<1>2. /\ (IF stage = "done" THEN Return(t) ELSE "send") \in {"idle", "send", "finish"}
      /\ (IF stage = "done" THEN "STAT" ELSE stage) \in Stages
  BY <1>1
<1> QED BY <1>2 DEF Go, FsTypeOK

\* An operation is put at the end of the queue.
LEMMA PlaceFacts ==
    ASSUME FsTypeOK, NEW e \in Operation, Place(e)
    PROVE  /\ fs_queue' \in Seq(Operation)
           /\ Len(fs_queue') = Len(fs_queue) + 1
           /\ fs_queue'[Len(fs_queue) + 1] = e
           /\ \A i \in 1 .. Len(fs_queue) : fs_queue'[i] = fs_queue[i]
  BY DEF Place, FsTypeOK

\* The operation at the head of the queue is taken out.
LEMMA HeadFacts ==
    ASSUME FsTypeOK, fs_queue # <<>>, fs_queue' = Tail(fs_queue)
    PROVE  /\ Head(fs_queue) \in Operation
           /\ Head(fs_queue) = fs_queue[1]
           /\ 1 \in 1 .. Len(fs_queue)
           /\ fs_queue' \in Seq(Operation)
           /\ Len(fs_queue') = Len(fs_queue) - 1
           /\ \A i \in 1 .. Len(fs_queue') : fs_queue'[i] = fs_queue[i + 1] /\ i + 1 \in 1 .. Len(fs_queue)
  BY HeadTailProperties DEF FsTypeOK

\* The operations a call leaves behind are the same but for their pointers.
LEMMA OutlivedFacts ==
    ASSUME FsTypeOK, NEW t \in Tasks, Outlived(t)
    PROVE  /\ fs_queue' \in Seq(Operation)
           /\ Len(fs_queue') = Len(fs_queue)
           /\ \A i \in 1 .. Len(fs_queue) :
                  /\ fs_queue'[i].by = fs_queue[i].by
                  /\ fs_queue'[i].stage = fs_queue[i].stage
                  /\ fs_queue[i].by = t => fs_queue'[i].live = FALSE
                  /\ fs_queue[i].by # t => fs_queue'[i] = fs_queue[i]
           /\ op' \in Operation
           /\ op'.by = op.by
           /\ op'.stage = op.stage
           /\ op.by = t => op'.live = FALSE
           /\ op.by # t => op' = op
           /\ gaveUp' \in [Tasks -> BOOLEAN]
           /\ gaveUp'[t] = (gaveUp[t] \/ ~own[t])
           /\ \A u \in Tasks \ {t} : gaveUp'[u] = gaveUp[u]
<1> DEFINE Entry(i) == IF fs_queue[i].by = t THEN [fs_queue[i] EXCEPT !.live = FALSE] ELSE fs_queue[i]
<1>1. Len(fs_queue) \in Nat /\ \A i \in 1 .. Len(fs_queue) : fs_queue[i] \in Operation
  BY DEF FsTypeOK
<1>2. \A i \in 1 .. Len(fs_queue) : Entry(i) \in Operation
  BY <1>1 DEF Operation
<1>3. fs_queue' = [i \in 1 .. Len(fs_queue) |-> Entry(i)]
  BY DEF Outlived
<1>4. fs_queue' \in Seq(Operation) /\ Len(fs_queue') = Len(fs_queue)
  <2> HIDE DEF Entry
  <2> QED BY <1>1, <1>2, <1>3
<1>5. \A i \in 1 .. Len(fs_queue) : fs_queue'[i] = Entry(i)
  BY <1>3
<1>6. \A i \in 1 .. Len(fs_queue) :
          /\ fs_queue'[i].by = fs_queue[i].by
          /\ fs_queue'[i].stage = fs_queue[i].stage
          /\ fs_queue[i].by = t => fs_queue'[i].live = FALSE
          /\ fs_queue[i].by # t => fs_queue'[i] = fs_queue[i]
  BY <1>1, <1>5 DEF Operation
<1>7. /\ op' \in Operation
      /\ op'.by = op.by
      /\ op'.stage = op.stage
      /\ op.by = t => op'.live = FALSE
      /\ op.by # t => op' = op
  BY DEF Outlived, FsTypeOK, Operation
<1>8. /\ gaveUp' \in [Tasks -> BOOLEAN]
      /\ gaveUp'[t] = (gaveUp[t] \/ ~own[t])
      /\ \A u \in Tasks \ {t} : gaveUp'[u] = gaveUp[u]
  BY DEF Outlived, FsTypeOK
<1> QED BY <1>4, <1>6, <1>7, <1>8

-----------------------------------------------------------------------------
\* The invariant holds when the processor starts.
LEMMA InitInv == FsInit => IInv
<1> SUFFICES ASSUME FsInit PROVE IInv
  OBVIOUS
<1>1. FsTypeOK
  <2>1. fs_queue \in Seq(Operation) /\ Len(fs_queue) <= QueueLength
    <3>1. fs_queue = <<>> /\ Len(fs_queue) = 0
      BY DEF FsInit
    <3> QED BY <3>1, FileSystemAssumption
  <2>2. op \in Operation
    BY DEF FsInit, Operation, Tasks, Stages
  <2>3. ask \in [Tasks -> Stages]
    BY DEF FsInit, Stages
  <2>4. at \in [Tasks -> {"boot", "idle", "send", "wait", "finish"}]
    BY DEF FsInit
  <2>5. notes \in [Tasks -> Nat] /\ frame \in [Tasks -> {"unset", "yes", "no"}]
    BY DEF FsInit
  <2>6. own \in [Tasks -> BOOLEAN] /\ gaveUp \in [Tasks -> BOOLEAN]
    BY DEF FsInit
  <2>7. made \in BOOLEAN /\ value \in {"yes", "no"} /\ logsDir \in BOOLEAN
    BY Zenon DEF FsInit
  <2>8. errs \in 0 .. 2
    BY DEF FsInit
  <2> QED BY <2>1, <2>2, <2>3, <2>4, <2>5, <2>6, <2>7, <2>8 DEF FsTypeOK
<1>2. WaitInv /\ OrderKept /\ AnswerComing /\ OneInv
  <2>1. Len(fs_queue) = 0 /\ op.live = FALSE /\ FS \in Tasks /\ FS \notin Callers
    BY FileSystemAssumption DEF FsInit, Tasks
  <2> QED BY <2>1 DEF FsInit, WaitInv, OrderKept, AnswerComing, OneInv, Awaited, Serving, Tasks
<1>3. LogInv
  BY DEF FsInit, LogInv, Tasks
<1> QED BY <1>1, <1>2, <1>3 DEF IInv

\* A caller begins a call.
LEMMA BeginInv == ASSUME IInv, NEW t \in Callers, Begin(t) PROVE IInv'
<1> USE DEF IInv
<1>1. t \in Tasks /\ t # FS /\ FS \in Tasks
  BY FileSystemAssumption DEF Tasks
<1>2. PICK stage \in Calls : Go(t, stage)
  BY DEF Begin
<1>3. stage \in Stages /\ stage # "done"
  BY FileSystemAssumption DEF Beginnings, Stages
<1>4. UNCHANGED <<fs_queue, made, notes, gaveUp, service>> /\ at[t] = "idle"
  BY DEF Begin
<1>5. FsTypeOK'
  BY <1>1, <1>2, <1>3, <1>4, GoFacts DEF FsTypeOK, service
<1>6. at'[t] = "send" /\ own'[t] = FALSE
      /\ \A u \in Tasks \ {t} : at'[u] = at[u] /\ ask'[u] = ask[u] /\ own'[u] = own[u]
  BY <1>1, <1>2, <1>3, GoFacts
<1>7. Serving' = Serving
  BY <1>1, <1>6 DEF Serving
<1>8. WaitInv'
  BY <1>4, <1>6, <1>7 DEF WaitInv, Awaited, service
<1>9. OrderKept'
  BY <1>4 DEF OrderKept, Awaited
<1>10. AnswerComing'
  BY <1>4, <1>6, <1>7 DEF AnswerComing, Awaited, service
<1>11. OneInv'
  BY <1>1, <1>4, <1>6, <1>7 DEF OneInv, Answerable, service, Tasks
<1>12. LogInv'
  BY <1>1, <1>4, <1>6 DEF LogInv
<1> QED BY <1>5, <1>8, <1>9, <1>10, <1>11, <1>12

\* An operation is put in the queue, and the task waits or goes on.
LEMMA SendInv == ASSUME IInv, NEW t \in Tasks, Send(t) PROVE IInv'
<1> USE DEF IInv
<1> DEFINE e == [by |-> t, stage |-> ask[t], live |-> TRUE]
<1>1. FS \in Tasks /\ FS \notin Callers /\ Callers \subseteq Tasks
  BY FileSystemAssumption DEF Tasks
<1>2. e \in Operation /\ Place(e) /\ UNCHANGED <<made, notes, gaveUp, service>> /\ at[t] = "send"
  BY DEF Send, FsTypeOK, Operation
<1>3. /\ fs_queue' \in Seq(Operation)
      /\ Len(fs_queue') = Len(fs_queue) + 1
      /\ fs_queue'[Len(fs_queue) + 1] = e
      /\ \A i \in 1 .. Len(fs_queue) : fs_queue'[i] = fs_queue[i]
      /\ Len(fs_queue) \in Nat
  <2>1. Len(fs_queue) \in Nat
    BY DEF FsTypeOK
  <2> HIDE DEF e
  <2> QED BY <1>2, <2>1, PlaceFacts
<1>4. Len(fs_queue') <= QueueLength
  BY <1>3, FileSystemAssumption DEF Send, Room, FsTypeOK
<1>5. /\ at' \in [Tasks -> {"boot", "idle", "send", "wait", "finish"}]
      /\ ask' \in [Tasks -> Stages]
      /\ frame' \in [Tasks -> {"unset", "yes", "no"}]
      /\ own' \in [Tasks -> BOOLEAN]
      /\ \A u \in Tasks \ {t} : at'[u] = at[u] /\ ask'[u] = ask[u] /\ own'[u] = own[u]
      /\ ask[t] \in Answered => at'[t] = "wait" /\ ask'[t] = ask[t] /\ own'[t] = own[t]
      /\ ask[t] \notin Answered => /\ at'[t] # "wait"
                                   /\ own'[t] = FALSE
      /\ at'[t] \in {"wait", "send", Return(t)}
      /\ t = FS => LogInv'
  <2>1. CASE ask[t] \in Answered
    <3>1. at' = [at EXCEPT ![t] = "wait"] /\ UNCHANGED <<ask, frame, own>>
      BY <2>1 DEF Send
    <3> QED BY <1>2, <2>1, <3>1 DEF FsTypeOK, LogInv
  <2>2. CASE ask[t] \notin Answered
    <3>1. PICK next \in Following(ask[t], "none") : Go(t, next)
      BY <2>2 DEF Send
    <3>2. next \in Stages \cup {"done"}
      BY <3>1, FollowingType
    <3>3. t = FS => next \in {"log_write", "done"}
      BY <2>2, <3>1 DEF LogInv, Following, Answered, Stats
    <3>4. Return(t) \in {"idle", "finish"} /\ "done" \notin Stages
      BY DEF Return, Stages
    <3> QED BY <1>2, <2>2, <3>1, <3>2, <3>3, <3>4, GoFacts DEF LogInv, Return
  <2> QED BY <2>1, <2>2
<1>6. FsTypeOK'
  BY <1>2, <1>3, <1>4, <1>5 DEF FsTypeOK, service
<1>7. Serving' = Serving
  <2>1. CASE t = FS
    BY <1>2, <1>5, <2>1 DEF Serving, Return
  <2>2. CASE t # FS
    BY <1>1, <1>5, <2>2 DEF Serving
  <2> QED BY <2>1, <2>2
<1>8. \A i \in 1 .. Len(fs_queue) : ~Awaited(t, fs_queue[i])
  BY <1>2 DEF WaitInv
<1>9. ~Awaited(t, op)
  BY <1>2 DEF WaitInv
<1>10. WaitInv'
  BY <1>2, <1>3, <1>5, <1>7, <1>8, <1>9 DEF WaitInv, Awaited, service
<1>11. OrderKept'
  <2>1. SUFFICES ASSUME NEW i \in 1 .. Len(fs_queue'), NEW k \in 1 .. Len(fs_queue'),
                        Awaited(fs_queue'[k].by, fs_queue'[i]), ~(k <= i)
                 PROVE  FALSE
    BY DEF OrderKept, Awaited
  <2>2. i \in 1 .. Len(fs_queue) /\ fs_queue'[i] = fs_queue[i]
    BY <1>3, <2>1
  <2>3. k = Len(fs_queue) + 1
    <3>1. k \notin 1 .. Len(fs_queue)
      BY <1>3, <2>1, <2>2 DEF OrderKept
    <3> QED BY <1>3, <3>1
  <2>4. fs_queue'[k].by = t
    BY <1>3, <2>3
  <2> QED BY <1>8, <2>1, <2>2, <2>4
<1>12. AnswerComing'
  <2>1. SUFFICES ASSUME NEW u \in Tasks, at'[u] = "wait"
                 PROVE  \/ notes'[u] > 0
                        \/ \E i \in 1 .. Len(fs_queue') : Awaited(u, fs_queue'[i])
                        \/ Serving' /\ Awaited(u, op')
    BY DEF AnswerComing, Awaited
  <2>2. CASE u = t
    BY <1>3, <1>5, <2>1, <2>2 DEF Awaited
  <2>3. CASE u # t
    <3>1. at[u] = "wait" /\ notes'[u] = notes[u] /\ op' = op
      BY <1>2, <1>5, <2>1, <2>3 DEF service
    <3>2. ASSUME NEW i \in 1 .. Len(fs_queue), Awaited(u, fs_queue[i])
          PROVE  i \in 1 .. Len(fs_queue') /\ Awaited(u, fs_queue'[i])
      BY <1>3, <3>2
    <3> QED BY <1>7, <3>1, <3>2 DEF AnswerComing, Awaited
  <2> QED BY <2>2, <2>3
<1>13. OneInv'
  <2>1. SUFFICES ASSUME NEW u \in Callers
                 PROVE /\ own'[u] => notes'[u] > 0 /\ at'[u] = "wait"
                       /\ ~gaveUp'[u] =>
                            /\ \A i \in 1 .. Len(fs_queue') : Answerable(u, fs_queue'[i]) =>
                                 fs_queue'[i].live /\ notes'[u] = 0 /\ ~(Serving' /\ Answerable(u, op'))
                            /\ Serving' /\ Answerable(u, op') => op'.live /\ notes'[u] = 0
                            /\ notes'[u] > 0 => notes'[u] = 1 /\ own'[u]
    BY DEF OneInv, Answerable
  <2>2. ~own[t] \/ t = FS
    BY <1>2 DEF OneInv, Tasks
  <2>3. CASE u # t
    BY <1>1, <1>2, <1>3, <1>5, <1>7, <2>3 DEF OneInv, Answerable, service
  <2>4. CASE u = t
    <3>1. ~own[u] /\ ~own'[u]
      BY <1>1, <1>5, <2>2, <2>4
    <3>2. ~gaveUp[u] => ~(notes[u] > 0)
      BY <3>1 DEF OneInv
    <3>3. notes[u] \in Nat
      BY <1>1 DEF FsTypeOK
    <3>4. ~gaveUp[u] => ~(Serving /\ Answerable(u, op))
      BY <1>9, <2>4 DEF OneInv, Answerable, Awaited
    <3> QED BY <1>2, <1>3, <1>7, <2>4, <3>1, <3>2, <3>3, <3>4 DEF OneInv, Answerable, service
  <2> QED BY <2>3, <2>4
<1>14. LogInv'
  BY <1>1, <1>2, <1>5 DEF LogInv
<1> QED BY <1>6, <1>10, <1>11, <1>12, <1>13, <1>14

\* A call returns, or goes on, with its answer or without it.
LEMMA LeaveInv ==
    ASSUME IInv, NEW t \in Tasks, NEW answer, NEW next \in Following(ask[t], answer),
           at[t] = "wait", Go(t, next), Outlived(t),
           ClearNotes(t) \/ (notes[t] = 0 /\ notes' = notes),
           ask[t] = "log_exists" => notes[t] > 0 \/ answer = "timeout",
           UNCHANGED <<made, value, errs, logsDir>>
    PROVE  IInv'
<1> USE DEF IInv
<1>1. FS \in Tasks /\ FS \notin Callers /\ Callers \subseteq Tasks
  BY FileSystemAssumption DEF Tasks
<1>2. next \in Stages \cup {"done"} /\ "done" \notin Stages
  BY FollowingType DEF Stages
<1>3. /\ at' \in [Tasks -> {"boot", "idle", "send", "wait", "finish"}]
      /\ ask' \in [Tasks -> Stages]
      /\ frame' \in [Tasks -> {"unset", "yes", "no"}]
      /\ own' \in [Tasks -> BOOLEAN]
      /\ at'[t] = IF next = "done" THEN Return(t) ELSE "send"
      /\ ask'[t] = IF next = "done" THEN "STAT" ELSE next
      /\ own'[t] = FALSE
      /\ \A u \in Tasks \ {t} : at'[u] = at[u] /\ ask'[u] = ask[u] /\ own'[u] = own[u]
  BY <1>2, GoFacts
<1>4. /\ fs_queue' \in Seq(Operation)
      /\ Len(fs_queue') = Len(fs_queue)
      /\ \A i \in 1 .. Len(fs_queue) :
             /\ fs_queue'[i].by = fs_queue[i].by
             /\ fs_queue'[i].stage = fs_queue[i].stage
             /\ fs_queue[i].by = t => fs_queue'[i].live = FALSE
             /\ fs_queue[i].by # t => fs_queue'[i] = fs_queue[i]
      /\ op' \in Operation
      /\ op'.by = op.by
      /\ op'.stage = op.stage
      /\ op.by = t => op'.live = FALSE
      /\ op.by # t => op' = op
      /\ gaveUp' \in [Tasks -> BOOLEAN]
      /\ gaveUp'[t] = (gaveUp[t] \/ ~own[t])
      /\ \A u \in Tasks \ {t} : gaveUp'[u] = gaveUp[u]
  BY OutlivedFacts
<1>5. notes' \in [Tasks -> Nat] /\ notes'[t] = 0 /\ \A u \in Tasks \ {t} : notes'[u] = notes[u]
  <2>1. notes \in [Tasks -> Nat]
    BY DEF FsTypeOK
  <2>2. CASE ClearNotes(t)
    BY <2>1, <2>2 DEF ClearNotes
  <2>3. CASE notes[t] = 0 /\ notes' = notes
    BY <2>1, <2>3
  <2> QED BY <2>2, <2>3
<1>6. FsTypeOK'
  BY <1>3, <1>4, <1>5 DEF FsTypeOK
<1>7. at'[t] # "wait" /\ Serving' = Serving
  <2>1. at'[t] \in {"idle", "finish", "send"} /\ (t = FS => at'[t] # "idle")
    BY <1>3 DEF Return
  <2>2. CASE t = FS
    BY <2>1, <2>2 DEF Serving
  <2>3. CASE t # FS
    BY <1>1, <1>3, <2>1, <2>3 DEF Serving
  <2> QED BY <2>1, <2>2, <2>3
\* What is awaited after the step was before it, by another task.
<1>8. \A u \in Tasks, i \in 1 .. Len(fs_queue) :
          Awaited(u, fs_queue'[i]) <=> u # t /\ Awaited(u, fs_queue[i])
  BY <1>4 DEF Awaited
<1>9. \A u \in Tasks : Awaited(u, op') <=> u # t /\ Awaited(u, op)
  BY <1>4 DEF Awaited
<1>10. WaitInv'
  BY <1>3, <1>4, <1>7, <1>8, <1>9 DEF WaitInv, Awaited
<1>11. OrderKept'
  <2>1. SUFFICES ASSUME NEW i \in 1 .. Len(fs_queue), NEW k \in 1 .. Len(fs_queue),
                        Awaited(fs_queue'[k].by, fs_queue'[i])
                 PROVE  k <= i
    BY <1>4 DEF OrderKept, Awaited
  <2>2. fs_queue'[k].by = fs_queue[k].by /\ fs_queue[k].by \in Tasks
    <3>1. fs_queue[k] \in Operation
      BY DEF FsTypeOK
    <3> QED BY <1>4, <3>1 DEF Operation
  <2>3. Awaited(fs_queue[k].by, fs_queue[i])
    BY <1>8, <2>1, <2>2
  <2> QED BY <2>3 DEF OrderKept
<1>12. AnswerComing'
  <2>1. SUFFICES ASSUME NEW u \in Tasks, at'[u] = "wait"
                 PROVE  \/ notes'[u] > 0
                        \/ \E i \in 1 .. Len(fs_queue') : Awaited(u, fs_queue'[i])
                        \/ Serving' /\ Awaited(u, op')
    BY DEF AnswerComing, Awaited
  <2>2. u # t
    BY <1>7, <2>1
  <2>3. at[u] = "wait" /\ notes'[u] = notes[u]
    BY <1>3, <1>5, <2>1, <2>2
  <2> QED BY <1>4, <1>7, <1>8, <1>9, <2>2, <2>3 DEF AnswerComing
<1>13. OneInv'
  <2>1. SUFFICES ASSUME NEW u \in Callers
                 PROVE /\ own'[u] => notes'[u] > 0 /\ at'[u] = "wait"
                       /\ ~gaveUp'[u] =>
                            /\ \A i \in 1 .. Len(fs_queue') : Answerable(u, fs_queue'[i]) =>
                                 fs_queue'[i].live /\ notes'[u] = 0 /\ ~(Serving' /\ Answerable(u, op'))
                            /\ Serving' /\ Answerable(u, op') => op'.live /\ notes'[u] = 0
                            /\ notes'[u] > 0 => notes'[u] = 1 /\ own'[u]
    BY DEF OneInv, Answerable
  <2>2. CASE u = t
    <3>1. own'[u] = FALSE /\ notes'[u] = 0
      BY <1>3, <1>5, <2>2
    <3>2. ~gaveUp'[u] => ~gaveUp[u] /\ notes[u] > 0
      BY <1>4, <2>2 DEF OneInv
    <3>3. ~gaveUp'[u] => /\ \A i \in 1 .. Len(fs_queue) : ~Answerable(u, fs_queue[i])
                         /\ ~(Serving /\ Answerable(u, op))
      BY <3>2 DEF OneInv
    <3>4. /\ \A i \in 1 .. Len(fs_queue) : Answerable(u, fs_queue'[i]) = Answerable(u, fs_queue[i])
          /\ Answerable(u, op') = Answerable(u, op)
      BY <1>4 DEF Answerable
    <3> QED BY <1>4, <1>7, <3>1, <3>3, <3>4
  <2>3. CASE u # t
    <3>1. /\ \A i \in 1 .. Len(fs_queue) : Answerable(u, fs_queue'[i]) =>
                 Answerable(u, fs_queue[i]) /\ fs_queue'[i] = fs_queue[i]
          /\ Answerable(u, op') => Answerable(u, op) /\ op' = op
      BY <1>4, <2>3 DEF Answerable
    <3>2. /\ at'[u] = at[u] /\ own'[u] = own[u] /\ notes'[u] = notes[u]
          /\ gaveUp'[u] = gaveUp[u]
      BY <1>1, <1>3, <1>4, <1>5, <2>3
    <3> QED BY <1>4, <1>7, <3>1, <3>2 DEF OneInv
  <2> QED BY <2>2, <2>3
<1>14. LogInv'
  <2>1. CASE t # FS
    BY <1>1, <1>3, <1>5, <2>1 DEF LogInv
  <2>2. CASE t = FS
    <3>1. ask[t] = "log_exists" => answer = "timeout"
      BY <2>2 DEF LogInv
    <3>2. next \in {"log_mkdir", "log_exists", "log_write", "done"}
      BY <2>2, <3>1 DEF LogInv, Following
    <3>3. at'[t] \in {"boot", "idle", "finish"} => next = "done"
      BY <1>3
    <3> QED BY <1>3, <1>5, <2>2, <3>2, <3>3 DEF LogInv
  <2> QED BY <2>1, <2>2
<1> QED BY <1>6, <1>10, <1>11, <1>12, <1>13, <1>14

\* Taking an answer keeps the invariant.
LEMMA TakeInv == ASSUME IInv, NEW t \in Tasks, Take(t) PROVE IInv'
<1>1. PICK answer \in (IF notes[t] = 1 THEN Answers(t) ELSE {"timeout"}) :
          \E next \in Following(ask[t], answer) : Go(t, next)
  BY DEF Take
<1>2. PICK next \in Following(ask[t], answer) : Go(t, next)
  BY <1>1
<1>3. /\ at[t] = "wait" /\ notes[t] > 0 /\ ClearNotes(t) /\ Outlived(t)
      /\ UNCHANGED <<made, value, errs, logsDir>>
  BY DEF Take
<1> QED BY <1>2, <1>3, LeaveInv

\* So does a task that stops waiting for one.
LEMMA TimeoutInv == ASSUME IInv, NEW t \in Tasks, Timeout(t) PROVE IInv'
<1>1. PICK next \in Following(ask[t], "timeout") : Go(t, next)
  BY DEF Timeout
<1>2. /\ at[t] = "wait" /\ notes[t] = 0 /\ notes' = notes /\ Outlived(t)
      /\ UNCHANGED <<made, value, errs, logsDir>>
  BY DEF Timeout
<1> QED BY <1>1, <1>2, LeaveInv

\* The filesystem task starts its loop.
LEMMA MountInv == ASSUME IInv, Mount PROVE IInv'
<1> USE DEF IInv
<1>1. FS \in Tasks /\ FS \notin Callers /\ Callers \subseteq Tasks
  BY FileSystemAssumption DEF Tasks
<1>2. /\ UNCHANGED <<fs_queue, ask, notes, own, gaveUp, op>>
      /\ at[FS] = "boot" /\ at'[FS] = "idle"
      /\ \A u \in Tasks \ {FS} : at'[u] = at[u]
  BY <1>1 DEF Mount, FsTypeOK
<1>3. FsTypeOK'
  BY Zenon, <1>2 DEF Mount, FsTypeOK
<1>4. ~Serving /\ ~Serving'
  BY <1>2 DEF Serving
<1>5. WaitInv'
  BY <1>2, <1>4 DEF WaitInv, Awaited
<1>6. OrderKept'
  BY <1>2 DEF OrderKept, Awaited
<1>7. AnswerComing'
  BY <1>2, <1>4 DEF AnswerComing, Awaited
<1>8. OneInv'
  BY <1>1, <1>2, <1>4 DEF OneInv, Answerable
<1>9. LogInv'
  BY <1>2 DEF LogInv
<1> QED BY <1>3, <1>5, <1>6, <1>7, <1>8, <1>9

\* An operation comes from the queue into service.
LEMMA PerformInv == ASSUME IInv, Perform PROVE IInv'
<1> USE DEF IInv
<1>1. FS \in Tasks /\ FS \notin Callers /\ Callers \subseteq Tasks
  BY FileSystemAssumption DEF Tasks
<1>2. PICK n \in 0 .. 2 : errs' = n /\ Go(FS, IF n > 0 THEN "log_dir" ELSE "done")
  BY DEF Perform
<1>3. PICK stage \in {"log_dir", "done"} : Go(FS, stage)
  BY <1>2
<1>4. /\ at' \in [Tasks -> {"boot", "idle", "send", "wait", "finish"}]
      /\ ask' \in [Tasks -> Stages]
      /\ frame' \in [Tasks -> {"unset", "yes", "no"}]
      /\ own' \in [Tasks -> BOOLEAN]
      /\ at'[FS] = IF stage = "done" THEN Return(FS) ELSE "send"
      /\ ask'[FS] = IF stage = "done" THEN "STAT" ELSE stage
      /\ \A u \in Tasks \ {FS} : at'[u] = at[u] /\ ask'[u] = ask[u] /\ own'[u] = own[u]
  <2>1. stage \in Stages \cup {"done"}
    BY DEF Stages
  <2> QED BY <1>1, <1>3, <2>1, GoFacts
<1>5. at'[FS] \in {"send", "finish"} /\ ask'[FS] \in {"log_dir", "STAT"}
      /\ (at'[FS] = "finish" => ask'[FS] = "STAT")
  BY <1>3, <1>4 DEF Return
<1>6. UNCHANGED <<made, notes, gaveUp>> /\ at[FS] = "idle" /\ fs_queue # <<>>
      /\ op' = Head(fs_queue) /\ fs_queue' = Tail(fs_queue) /\ value' \in {"yes", "no"} /\ logsDir' \in BOOLEAN
  BY Zenon DEF Perform
<1>7. /\ op' \in Operation
      /\ op' = fs_queue[1]
      /\ 1 \in 1 .. Len(fs_queue)
      /\ fs_queue' \in Seq(Operation)
      /\ Len(fs_queue') = Len(fs_queue) - 1
      /\ \A i \in 1 .. Len(fs_queue') : fs_queue'[i] = fs_queue[i + 1] /\ i + 1 \in 1 .. Len(fs_queue)
      /\ Len(fs_queue) \in Nat
  BY <1>6, HeadFacts DEF FsTypeOK
<1>8. FsTypeOK'
  <2>1. fs_queue' \in Seq(Operation) /\ Len(fs_queue') <= QueueLength
    BY <1>7, FileSystemAssumption DEF FsTypeOK
  <2>2. made' \in BOOLEAN /\ gaveUp' \in [Tasks -> BOOLEAN] /\ notes' \in [Tasks -> Nat]
    BY Zenon, <1>6 DEF FsTypeOK
  <2> QED BY Zenon, <1>2, <1>4, <1>6, <1>7, <2>1, <2>2 DEF FsTypeOK
<1>9. ~Serving /\ Serving'
  BY <1>5, <1>6 DEF Serving
\* What was awaited in the queue is awaited there or in service.
<1>10. \A u \in Tasks, i \in 1 .. Len(fs_queue') :
           Awaited(u, fs_queue'[i]) => Awaited(u, fs_queue[i + 1]) /\ i + 1 \in 1 .. Len(fs_queue)
  BY <1>7 DEF Awaited
<1>11. \A u \in Tasks : Awaited(u, op') => Awaited(u, fs_queue[1])
  BY <1>7 DEF Awaited
<1>12. \A u \in Tasks, i \in 1 .. Len(fs_queue) : Awaited(u, fs_queue[i]) => u # FS
  BY <1>6 DEF WaitInv
<1>13. WaitInv'
  <2>1. SUFFICES ASSUME NEW u \in Tasks
                 PROVE  /\ \A i \in 1 .. Len(fs_queue') : Awaited(u, fs_queue'[i]) => at'[u] = "wait"
                        /\ Awaited(u, op') => at'[u] = "wait"
    BY <1>9 DEF WaitInv, Awaited
  <2>2. \A i \in 1 .. Len(fs_queue) : Awaited(u, fs_queue[i]) => at'[u] = "wait"
    BY <1>4, <1>12 DEF WaitInv
  <2> QED BY <1>7, <1>10, <1>11, <2>2
<1>14. OrderKept'
  <2>1. SUFFICES ASSUME NEW i \in 1 .. Len(fs_queue'), NEW k \in 1 .. Len(fs_queue'),
                        Awaited(fs_queue'[k].by, fs_queue'[i])
                 PROVE  k <= i
    BY DEF OrderKept, Awaited
  <2>2. Awaited(fs_queue[k + 1].by, fs_queue[i + 1])
        /\ k + 1 \in 1 .. Len(fs_queue) /\ i + 1 \in 1 .. Len(fs_queue)
    BY <1>7, <2>1
  <2>3. k + 1 <= i + 1
    BY <2>2 DEF OrderKept
  <2>4. k \in Nat /\ i \in Nat
    OBVIOUS
  <2> QED BY <2>3, <2>4
<1>15. AnswerComing'
  <2>1. SUFFICES ASSUME NEW u \in Tasks, at'[u] = "wait", ~(notes'[u] > 0), ~Awaited(u, op')
                 PROVE  \E i \in 1 .. Len(fs_queue') : Awaited(u, fs_queue'[i])
    BY <1>9 DEF AnswerComing, Awaited
  <2>2. at[u] = "wait" /\ ~(notes[u] > 0)
    BY <1>4, <1>5, <1>6, <2>1
  <2>3. PICK i \in 1 .. Len(fs_queue) : Awaited(u, fs_queue[i])
    BY <1>9, <2>2 DEF AnswerComing
  <2>4. i # 1
    BY <1>7, <2>1, <2>3
  <2>5. i - 1 \in 1 .. Len(fs_queue') /\ (i - 1) + 1 = i
    BY <1>7, <2>3, <2>4
  <2>6. Awaited(u, fs_queue'[i - 1])
    BY <1>7, <2>3, <2>5
  <2> QED BY <2>5, <2>6
<1>16. OneInv'
  <2>1. SUFFICES ASSUME NEW u \in Callers
                 PROVE /\ own'[u] => notes'[u] > 0 /\ at'[u] = "wait"
                       /\ ~gaveUp'[u] =>
                            /\ \A i \in 1 .. Len(fs_queue') : Answerable(u, fs_queue'[i]) =>
                                 fs_queue'[i].live /\ notes'[u] = 0 /\ ~(Serving' /\ Answerable(u, op'))
                            /\ Serving' /\ Answerable(u, op') => op'.live /\ notes'[u] = 0
                            /\ notes'[u] > 0 => notes'[u] = 1 /\ own'[u]
    BY DEF OneInv, Answerable
  <2>2. /\ at'[u] = at[u] /\ own'[u] = own[u] /\ notes'[u] = notes[u] /\ gaveUp'[u] = gaveUp[u]
    BY <1>1, <1>4, <1>6
  <2>3. ~gaveUp[u] => \A i \in 1 .. Len(fs_queue) : Answerable(u, fs_queue[i]) =>
            fs_queue[i].live /\ notes[u] = 0
    BY DEF OneInv
  \* The queue holds no second operation with an answer: it would be behind the first,
  \* which is awaited, and OrderKept has nothing behind an operation that is awaited.
  <2>4. ASSUME NEW i \in 1 .. Len(fs_queue'), ~gaveUp[u], Answerable(u, fs_queue'[i]), Answerable(u, op')
        PROVE  FALSE
    <3>1. Answerable(u, fs_queue[i + 1]) /\ Answerable(u, fs_queue[1]) /\ i + 1 \in 1 .. Len(fs_queue)
      BY <1>7, <2>4
    <3>2. Awaited(fs_queue[i + 1].by, fs_queue[1])
      BY <1>7, <2>3, <2>4, <3>1 DEF Awaited, Answerable
    <3>3. i + 1 <= 1
      BY <1>7, <3>1, <3>2 DEF OrderKept
    <3> QED BY <3>3
  <2> QED BY <1>7, <2>2, <2>3, <2>4 DEF OneInv
<1>17. LogInv'
  BY <1>5 DEF LogInv
<1> QED BY <1>8, <1>13, <1>14, <1>15, <1>16, <1>17

\* A second error of the operation is logged.
LEMMA LogAgainInv == ASSUME IInv, LogAgain PROVE IInv'
<1> USE DEF IInv
<1>1. FS \in Tasks /\ FS \notin Callers /\ Callers \subseteq Tasks
  BY FileSystemAssumption DEF Tasks
<1>2. UNCHANGED <<fs_queue, made, notes, gaveUp, op, value, logsDir>> /\ errs' = 1 /\ at[FS] = "finish"
  BY DEF LogAgain
<1>3. /\ at' \in [Tasks -> {"boot", "idle", "send", "wait", "finish"}]
      /\ ask' \in [Tasks -> Stages]
      /\ frame' \in [Tasks -> {"unset", "yes", "no"}]
      /\ own' \in [Tasks -> BOOLEAN]
      /\ at'[FS] = "send" /\ ask'[FS] = "log_dir"
      /\ \A u \in Tasks \ {FS} : at'[u] = at[u] /\ own'[u] = own[u]
  <2>1. "log_dir" \in Stages \cup {"done"} /\ Go(FS, "log_dir")
    BY DEF LogAgain, Stages
  <2> QED BY <1>1, <2>1, GoFacts
<1>4. FsTypeOK'
  BY <1>2, <1>3 DEF FsTypeOK
<1>5. Serving /\ Serving'
  BY <1>2, <1>3 DEF Serving
<1>6. \A u \in Tasks : at[u] = "wait" <=> at'[u] = "wait"
  BY <1>2, <1>3
<1>7. WaitInv'
  BY <1>2, <1>5, <1>6 DEF WaitInv, Awaited
<1>8. OrderKept'
  BY <1>2 DEF OrderKept, Awaited
<1>9. AnswerComing'
  BY <1>2, <1>5, <1>6 DEF AnswerComing, Awaited
<1>10. OneInv'
  BY <1>1, <1>2, <1>3, <1>5 DEF OneInv, Answerable
<1>11. LogInv'
  BY <1>3 DEF LogInv
<1> QED BY <1>4, <1>7, <1>8, <1>9, <1>10, <1>11

\* The answer is given.
LEMMA AnswerInv == ASSUME IInv, Answer PROVE IInv'
<1> USE DEF IInv
<1>1. FS \in Tasks /\ FS \notin Callers /\ Callers \subseteq Tasks
  BY FileSystemAssumption DEF Tasks
<1>2. op \in Operation /\ op.by \in Tasks /\ op.live \in BOOLEAN /\ op.stage \in Answered
  BY DEF FsTypeOK, Operation, Answer
<1>3. /\ UNCHANGED <<fs_queue, made, ask, gaveUp, value, logsDir>>
      /\ at' \in [Tasks -> {"boot", "idle", "send", "wait", "finish"}]
      /\ at[FS] = "finish" /\ at'[FS] = "idle"
      /\ \A u \in Tasks \ {FS} : at'[u] = at[u]
  BY <1>1 DEF Answer, FsTypeOK
<1>4. /\ notes' \in [Tasks -> Nat]
      /\ notes'[op.by] = notes[op.by] + 1
      /\ \A u \in Tasks \ {op.by} : notes'[u] = notes[u]
  BY <1>2 DEF Answer, Give, FsTypeOK
<1>5. /\ own' \in [Tasks -> BOOLEAN]
      /\ own'[op.by] = (own[op.by] \/ op.live)
      /\ \A u \in Tasks \ {op.by} : own'[u] = own[u]
  BY <1>2 DEF Answer, FsTypeOK
<1>6. frame' \in [Tasks -> {"unset", "yes", "no"}]
  <2>1. CASE op.live
    BY <1>2, <2>1 DEF Answer, FsTypeOK
  <2>2. CASE ~op.live
    BY <1>2, <2>2 DEF Answer, FsTypeOK
  <2> QED BY <2>1, <2>2
<1>7. op' \in Operation /\ errs' \in 0 .. 2
  <2>1. op' = [op EXCEPT !.live = FALSE] /\ errs' = 0
    BY DEF Answer
  <2>2. op' \in Operation
    BY <1>2, <2>1 DEF Operation
  <2>3. errs' \in 0 .. 2
    BY <2>1
  <2> QED BY <2>2, <2>3
<1>8. FsTypeOK'
  BY Zenon, <1>3, <1>4, <1>5, <1>6, <1>7 DEF FsTypeOK
<1>9. Serving /\ ~Serving'
  BY <1>3 DEF Serving
<1>10. \A u \in Tasks : at[u] = "wait" <=> at'[u] = "wait"
  BY <1>3
<1>11. WaitInv'
  <2>1. \A u \in Tasks : ~Awaited(u, op')
    BY <1>2 DEF Answer, Awaited, Operation
  <2> QED BY <1>3, <1>10, <2>1 DEF WaitInv, Awaited
<1>12. OrderKept'
  BY <1>3 DEF OrderKept, Awaited
<1>13. AnswerComing'
  <2>1. SUFFICES ASSUME NEW u \in Tasks, at'[u] = "wait"
                 PROVE  notes'[u] > 0 \/ \E i \in 1 .. Len(fs_queue') : Awaited(u, fs_queue'[i])
    BY DEF AnswerComing, Awaited
  <2>2. CASE u = op.by
    BY <1>2, <1>4, <2>2 DEF FsTypeOK
  <2>3. CASE u # op.by
    BY <1>3, <1>4, <1>10, <2>1, <2>3 DEF AnswerComing, Awaited
  <2> QED BY <2>2, <2>3
<1>14. OneInv'
  <2>1. SUFFICES ASSUME NEW u \in Callers
                 PROVE /\ own'[u] => notes'[u] > 0 /\ at'[u] = "wait"
                       /\ ~gaveUp'[u] =>
                            /\ \A i \in 1 .. Len(fs_queue') : Answerable(u, fs_queue'[i]) =>
                                 fs_queue'[i].live /\ notes'[u] = 0
                            /\ notes'[u] > 0 => notes'[u] = 1 /\ own'[u]
    BY <1>9 DEF OneInv, Answerable
  <2>2. CASE u # op.by
    BY <1>1, <1>3, <1>4, <1>5, <2>2 DEF OneInv, Answerable
  <2>3. CASE u = op.by
    <3>1. own'[u] => at[u] = "wait"
      BY <1>1, <1>2, <1>5, <2>3 DEF OneInv, WaitInv, Awaited
    <3>2. notes'[u] = notes[u] + 1 /\ notes[u] \in Nat
      BY <1>2, <1>4, <2>3 DEF FsTypeOK
    <3>3. ~gaveUp[u] => op.live /\ notes[u] = 0
      BY <1>2, <1>9, <2>3 DEF OneInv, Answerable
    <3>4. ~gaveUp[u] => \A i \in 1 .. Len(fs_queue) : ~Answerable(u, fs_queue[i])
      BY <1>2, <1>9, <2>3 DEF OneInv, Answerable
    <3> QED BY <1>1, <1>3, <1>5, <1>10, <2>3, <3>1, <3>2, <3>3, <3>4 DEF Answerable
  <2> QED BY <2>2, <2>3
<1>15. LogInv'
  BY <1>3 DEF LogInv
<1> QED BY <1>8, <1>11, <1>12, <1>13, <1>14, <1>15

\* An operation without an answer is over.
LEMMA OverInv == ASSUME IInv, Over PROVE IInv'
<1> USE DEF IInv
<1>1. FS \in Tasks /\ FS \notin Callers /\ Callers \subseteq Tasks
  BY FileSystemAssumption DEF Tasks
<1>2. /\ UNCHANGED <<fs_queue, made, ask, notes, frame, own, gaveUp, op, value, logsDir>>
      /\ at' \in [Tasks -> {"boot", "idle", "send", "wait", "finish"}]
      /\ at[FS] = "finish" /\ at'[FS] = "idle"
      /\ \A u \in Tasks \ {FS} : at'[u] = at[u]
      /\ errs' = 0 /\ op.stage \notin Answered
  BY <1>1 DEF Over, FsTypeOK
<1>3. FsTypeOK'
  BY <1>2 DEF FsTypeOK
<1>4. ~Serving'
  BY <1>2 DEF Serving
<1>5. \A u \in Tasks : at[u] = "wait" <=> at'[u] = "wait"
  BY <1>2
<1>6. \A u \in Tasks : ~Awaited(u, op)
  BY <1>2 DEF Awaited
<1>7. WaitInv'
  BY <1>2, <1>5, <1>6 DEF WaitInv, Awaited
<1>8. OrderKept'
  BY <1>2 DEF OrderKept, Awaited
<1>9. AnswerComing'
  BY <1>2, <1>5, <1>6 DEF AnswerComing, Awaited
<1>10. OneInv'
  BY <1>1, <1>2, <1>4 DEF OneInv, Answerable
<1>11. LogInv'
  BY <1>2 DEF LogInv
<1> QED BY <1>3, <1>7, <1>8, <1>9, <1>10, <1>11

-----------------------------------------------------------------------------
(* The theorems. *)

\* The invariant holds in every state of every behaviour.
THEOREM Invariance == FsSpec => []IInv
<1>1. IInv /\ [FsNext]_fsVars => IInv'
  <2>1. SUFFICES ASSUME IInv, [FsNext]_fsVars PROVE IInv'
    OBVIOUS
  <2>2. FS \in Tasks /\ Callers \subseteq Tasks
    BY DEF Tasks
  <2>3. CASE Mount
    BY <2>1, <2>3, MountInv
  <2>4. CASE Perform
    BY <2>1, <2>4, PerformInv
  <2>5. CASE LogAgain
    BY <2>1, <2>5, LogAgainInv
  <2>6. CASE Answer
    BY <2>1, <2>6, AnswerInv
  <2>7. CASE Over
    BY <2>1, <2>7, OverInv
  <2>8. ASSUME NEW t \in Callers, Begin(t) PROVE IInv'
    BY <2>1, <2>8, BeginInv
  <2>9. ASSUME NEW t \in Tasks, CallStep(t) PROVE IInv'
    BY <2>1, <2>9, SendInv, TakeInv, TimeoutInv DEF CallStep
  <2>10. CASE UNCHANGED fsVars
    BY <2>1, <2>10 DEF fsVars, callState, service, IInv, FsTypeOK, WaitInv, OrderKept, AnswerComing,
                       OneInv, LogInv, Awaited, Answerable, Serving
  <2> QED BY <2>1, <2>2, <2>3, <2>4, <2>5, <2>6, <2>7, <2>8, <2>9, <2>10 DEF FsNext, FsStep
<1> QED BY InitInv, <1>1, PTL DEF FsSpec

\* Every variable keeps its type, and the queue never holds more than its length,
\* whatever the callers ask for and however many errors are logged on the way.
THEOREM TypeCorrect == FsSpec => []FsTypeOK
<1>1. IInv => FsTypeOK
  BY DEF IInv
<1> QED BY <1>1, Invariance, PTL

\* A call that waits for the filesystem task (filesystem.c) has its operation in the
\* queue or in service, or has been notified.
THEOREM NoCallForgotten == FsSpec => []AnswerComing
<1>1. IInv => AnswerComing
  BY DEF IInv
<1> QED BY <1>1, Invariance, PTL

\* A caller whose calls were all answered in time is notified once in each, for the
\* operation of that call: only a call that gave up leaves an answer behind.
THEOREM OneAnswer == FsSpec => []OneAnswerEach
<1>1. IInv => OneAnswerEach
  BY DEF IInv, OneInv, OneAnswerEach
<1> QED BY <1>1, Invariance, PTL

\* An operation that is waited for is behind everything its task asked for before.
THEOREM OrderPreserved == FsSpec => []OrderKept
<1>1. IInv => OrderKept
  BY DEF IInv
<1> QED BY <1>1, Invariance, PTL

\* The filesystem task logs its errors without ever reading the log, so write_error_log
\* (log.c) cannot call itself there through a read that times out.
THEOREM FsNeverReads == FsSpec => []NoReadInFs
<1>1. IInv => NoReadInFs
  BY DEF IInv, LogInv, NoReadInFs, Reads
<1> QED BY <1>1, Invariance, PTL
=============================================================================
