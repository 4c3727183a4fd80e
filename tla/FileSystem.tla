----------------------------- MODULE FileSystem -----------------------------
(***************************************************************************)
(* The filesystem task (tasks/filesystem/filesystem.c), the functions with *)
(* which the other tasks use it, and write_error_log (utilities/log.c),    *)
(* which runs in any task that logs an error, the filesystem task too.     *)
(*                                                                         *)
(* A caller puts an operation in the queue; for an operation with an       *)
(* answer it then waits for a task notification, at most                   *)
(* NOTIFICATION_WAIT_TIME.  The answer itself goes through pointers to the *)
(* caller's stack.  An operation whose caller has given up stays in the    *)
(* queue.                                                                  *)
(***************************************************************************)
EXTENDS Naturals, Sequences, FiniteSets

CONSTANTS
    Callers,      \* the tasks that use the filesystem
    FS,           \* the filesystem task
    Calls,        \* what a caller may begin: a subset of Beginnings
    QueueLength   \* FILESYSTEM_QUEUE_LENGTH

Tasks == Callers \cup {FS}

\* The operations a task asks for, each named for the call it is made in:
\* "exists" and "read" by read_file_offset, the others in lower case by
\* write_error_log.  Those in capitals are asked for on their own.
Stages == {"STAT", "OPEN_DIRECTORY", "READ_DIRECTORY", "LIST_DIRECTORY", "WRITE", "DELETE",
           "MAKE_DIRECTORY", "MAKE_FILESYSTEM",
           "exists", "read",
           "log_dir", "log_mkdir", "log_exists", "log_read", "log_write"}
Beginnings == Stages \ {"read", "log_mkdir", "log_exists", "log_read", "log_write"}

Stats == {"STAT", "exists", "log_dir", "log_exists"}
Reads == {"read", "log_read"}

\* The operations with an answer; the others return as soon as they are queued.
Answered == Stats \cup Reads \cup {"OPEN_DIRECTORY", "READ_DIRECTORY"}

ASSUME FileSystemAssumption ==
    /\ FS \notin Callers
    /\ IsFiniteSet(Callers)
    /\ Calls \subseteq Beginnings
    /\ QueueLength \in Nat \ {0}

VARIABLES
    fs_queue, \* filesystem_queue
    made,     \* it has been created
    at,       \* where each task is
    ask,      \* the operation each task is in
    notes,    \* notification value of each task
    frame,    \* what the pointers into each task's frame have been used to write
    own,      \* history: the operation of each task's present call was performed
    gaveUp,   \* history: the task has returned from a call before its answer
    op,       \* received_operation
    value,    \* its result
    errs,     \* errors of it still to be logged
    logsDir   \* the directory /logs exists

callState == <<at, ask, frame, own>>
service == <<op, value, errs, logsDir>>
fsVars == <<fs_queue, made, callState, notes, gaveUp, service>>

\* live: the call that made it has not returned, so its pointers are valid.
Operation == [by : Tasks, stage : Stages, live : BOOLEAN]

-----------------------------------------------------------------------------
(* The functions a task calls, the filesystem task among them. *)

\* Where a function goes after an operation: read_file_offset reads a file that
\* exists, and logs an error when the read times out; write_error_log makes the
\* directory and a new file, or reads the file and writes it back, unless the text
\* has become too long for write_file.
Following(stage, answer) ==
    CASE stage = "exists" /\ answer = "yes" -> {"read"}
      [] stage = "read" /\ answer = "timeout" -> {"log_dir"}
      [] stage = "log_dir" -> IF answer = "yes" THEN {"log_exists"} ELSE {"log_mkdir"}
      [] stage = "log_mkdir" -> {"log_write"}
      [] stage = "log_exists" /\ answer = "yes" -> {"log_read"}
      [] stage = "log_read" /\ answer = "timeout" -> {"log_dir"}
      [] stage = "log_read" /\ answer = "yes" -> {"log_write", "done"}
      [] OTHER -> {"done"}

Return(t) == IF t = FS THEN "finish" ELSE "idle"

\* Task t goes on to an operation, with a new frame, or returns.
Go(t, stage) ==
    /\ at' = [at EXCEPT ![t] = IF stage = "done" THEN Return(t) ELSE "send"]
    /\ ask' = [ask EXCEPT ![t] = IF stage = "done" THEN "STAT" ELSE stage]
    /\ frame' = [frame EXCEPT ![t] = "unset"]
    /\ own' = [own EXCEPT ![t] = FALSE]

Begin(t) ==
    /\ t # FS
    /\ at[t] = "idle"
    /\ \E stage \in Calls : Go(t, stage)
    /\ UNCHANGED <<fs_queue, made, notes, gaveUp, service>>

Room_OneMore == Len(fs_queue) <= QueueLength

Room == Len(fs_queue) < QueueLength

Place_Front(operation) == fs_queue' = <<operation>> \o fs_queue

\* xQueueSendToBack, which waits for room.
Place(operation) == fs_queue' = Append(fs_queue, operation)

Send(t) ==
    /\ at[t] = "send"
    /\ made
    /\ Room
    /\ Place([by |-> t, stage |-> ask[t], live |-> TRUE])
    /\ IF ask[t] \in Answered THEN at' = [at EXCEPT ![t] = "wait"] /\ UNCHANGED <<ask, frame, own>>
       ELSE \E stage \in Following(ask[t], "none") : Go(t, stage)
    /\ UNCHANGED <<made, notes, gaveUp, service>>

\* What a call whose wait was ended by one notification makes of its frame: an
\* answer that was never written is a successful stat of an unknown entry, or a
\* read of no bytes.
Answers(t) ==
    IF frame[t] # "unset" THEN {frame[t]}
    ELSE IF ask[t] \in Stats THEN {"yes", "no"} ELSE {"yes"}

\* The call of t returns: what it still has in the queue outlives it.
Outlived(t) ==
    /\ fs_queue' = [i \in 1 .. Len(fs_queue) |->
                     IF fs_queue[i].by = t THEN [fs_queue[i] EXCEPT !.live = FALSE] ELSE fs_queue[i]]
    /\ op' = IF op.by = t THEN [op EXCEPT !.live = FALSE] ELSE op
    /\ gaveUp' = [gaveUp EXCEPT ![t] = @ \/ ~own[t]]

ClearNotes_Kept(t) == notes' = notes

\* ulTaskNotifyTake(pdTRUE, ...) returns the value and clears it.
ClearNotes(t) == notes' = [notes EXCEPT ![t] = 0]

\* Any value but one counts as a timeout, two notifications too.
Take(t) ==
    /\ at[t] = "wait"
    /\ notes[t] > 0
    /\ \E answer \in (IF notes[t] = 1 THEN Answers(t) ELSE {"timeout"}) :
           \E stage \in Following(ask[t], answer) : Go(t, stage)
    /\ ClearNotes(t)
    /\ Outlived(t)
    /\ UNCHANGED <<made, value, errs, logsDir>>

Timeout_Never(t) == FALSE

Timeout(t) ==
    /\ at[t] = "wait"
    /\ notes[t] = 0
    /\ \E stage \in Following(ask[t], "timeout") : Go(t, stage)
    /\ Outlived(t)
    /\ UNCHANGED <<made, notes, value, errs, logsDir>>

CallStep(t) == Send(t) \/ Take(t) \/ Timeout(t)

-----------------------------------------------------------------------------
(* The filesystem task. *)

\* It mounts the volume, or makes a new one, and creates the queue.
Mount ==
    /\ at[FS] = "boot"
    /\ logsDir' \in {logsDir, FALSE}
    /\ made' = TRUE
    /\ at' = [at EXCEPT ![FS] = "idle"]
    /\ UNCHANGED <<fs_queue, ask, notes, frame, own, gaveUp, op, value, errs>>

\* How many errors an operation can log: a failed read and the close after it
\* each log one, stat and mkfs none.
MaxErrors(stage) ==
    IF stage \in Reads THEN 2
    ELSE IF stage \in Stats \cup {"MAKE_FILESYSTEM"} THEN 0 ELSE 1

\* The outcomes of an operation on the medium: a result, the errors it logs and
\* what it makes of /logs.  Making the directory again is an error.
Outcome(stage, result, n, logs) ==
    /\ n \in 0 .. MaxErrors(stage)
    /\ n > 0 => result = "no"
    /\ stage \notin Stats /\ n = 0 => result = "yes"
    /\ stage = "log_dir" /\ result = "yes" => logsDir
    /\ stage = "log_mkdir" => (n = 0) = (~logsDir /\ logs)
    /\ logs # logsDir => n = 0 /\ stage \in (IF logs THEN {"log_mkdir", "MAKE_DIRECTORY"}
                                             ELSE {"DELETE", "MAKE_FILESYSTEM"})

\* The operation is taken from the queue and carried out; its first error is
\* logged at once, by the task itself.
Perform ==
    /\ at[FS] = "idle"
    /\ fs_queue # <<>>
    /\ op' = Head(fs_queue)
    /\ fs_queue' = Tail(fs_queue)
    /\ \E result \in {"yes", "no"}, n \in 0 .. 2, logs \in BOOLEAN :
        /\ Outcome(Head(fs_queue).stage, result, n, logs)
        /\ value' = result
        /\ errs' = n
        /\ logsDir' = logs
        /\ Go(FS, IF n > 0 THEN "log_dir" ELSE "done")
    /\ UNCHANGED <<made, notes, gaveUp>>

LogAgain ==
    /\ at[FS] = "finish"
    /\ errs = 2
    /\ errs' = 1
    /\ Go(FS, "log_dir")
    /\ UNCHANGED <<fs_queue, made, notes, gaveUp, op, value, logsDir>>

Give_OnSuccess(t) == notes' = IF value = "yes" THEN [notes EXCEPT ![t] = @ + 1] ELSE notes

Give_Twice(t) == notes' = [notes EXCEPT ![t] = @ + 2]

\* xTaskNotifyGive
Give(t) == notes' = [notes EXCEPT ![t] = @ + 1]

\* The answer.  Pointers of a call that has returned point to dead stack
\* memory, where the present call of that task may have its frame.
Answer ==
    /\ at[FS] = "finish"
    /\ errs < 2
    /\ op.stage \in Answered
    /\ Give(op.by)
    /\ IF op.live THEN frame' = [frame EXCEPT ![op.by] = value]
       ELSE frame' \in {frame, [frame EXCEPT ![op.by] = IF at[op.by] = "wait" THEN value ELSE @]}
    /\ own' = [own EXCEPT ![op.by] = @ \/ op.live]
    /\ at' = [at EXCEPT ![FS] = "idle"]
    /\ op' = [op EXCEPT !.live = FALSE]
    /\ errs' = 0
    /\ UNCHANGED <<fs_queue, made, ask, gaveUp, value, logsDir>>

\* An operation without an answer is over.
Over ==
    /\ at[FS] = "finish"
    /\ errs < 2
    /\ op.stage \notin Answered
    /\ at' = [at EXCEPT ![FS] = "idle"]
    /\ errs' = 0
    /\ UNCHANGED <<fs_queue, made, ask, notes, frame, own, gaveUp, op, value, logsDir>>

FsStep == Mount \/ Perform \/ LogAgain \/ Answer \/ Over \/ CallStep(FS)

-----------------------------------------------------------------------------
FsInit ==
    /\ fs_queue = <<>>
    /\ made = FALSE
    /\ at = [t \in Tasks |-> IF t = FS THEN "boot" ELSE "idle"]
    /\ ask = [t \in Tasks |-> "STAT"]
    /\ notes = [t \in Tasks |-> 0]
    /\ frame = [t \in Tasks |-> "unset"]
    /\ own = [t \in Tasks |-> FALSE]
    /\ gaveUp = [t \in Tasks |-> FALSE]
    /\ op = [by |-> FS, stage |-> "STAT", live |-> FALSE]
    /\ value = "no"
    /\ errs = 0
    /\ logsDir \in BOOLEAN

FsNext == FsStep \/ \E t \in Callers : Begin(t) \/ CallStep(t)

FsSpec == FsInit /\ [][FsNext]_fsVars

\* Every task gets its turn, and every wait its end; no caller need begin a call.
FsFairSpec == FsSpec /\ WF_fsVars(FsStep) /\ \A t \in Callers : WF_fsVars(CallStep(t))

-----------------------------------------------------------------------------
(* Properties. *)

FsTypeOK ==
    /\ fs_queue \in Seq(Operation) /\ Len(fs_queue) <= QueueLength
    /\ made \in BOOLEAN
    /\ at \in [Tasks -> {"boot", "idle", "send", "wait", "finish"}]
    /\ ask \in [Tasks -> Stages]
    /\ notes \in [Tasks -> Nat]
    /\ frame \in [Tasks -> {"unset", "yes", "no"}]
    /\ own \in [Tasks -> BOOLEAN]
    /\ gaveUp \in [Tasks -> BOOLEAN]
    /\ op \in Operation
    /\ value \in {"yes", "no"}
    /\ errs \in 0 .. 2
    /\ logsDir \in BOOLEAN

\* The task's own operation with an answer, for a call that has not returned.
Awaited(t, operation) ==
    operation.by = t /\ operation.live /\ operation.stage \in Answered

Serving == at[FS] \notin {"boot", "idle"}

\* A call that waits is never forgotten: its operation is in the queue or in
\* service, or it has been notified, whatever failed or was logged on the way.
AnswerComing ==
    \A t \in Tasks : at[t] = "wait" =>
        \/ notes[t] > 0
        \/ \E i \in 1 .. Len(fs_queue) : Awaited(t, fs_queue[i])
        \/ Serving /\ Awaited(t, op)

\* A caller that has never given up waits for one answer at a time: whenever it
\* has been notified, it was once, in a call, for the operation of that call.
OneAnswerEach ==
    \A t \in Callers : notes[t] > 0 /\ ~gaveUp[t] =>
        notes[t] = 1 /\ at[t] = "wait" /\ own[t]

\* The operation a call waits for is behind everything its task asked for
\* before, so that dir_exists after make_dir and file_exists after write_file
\* see what was made (user_auth.c relies on it).
OrderKept ==
    \A i, k \in 1 .. Len(fs_queue) : Awaited(fs_queue[k].by, fs_queue[i]) => k <= i

\* While it logs an error the filesystem task never gets as far as reading the
\* log, so the recursion of write_error_log through a read that times out
\* cannot begin in the one task that can answer no read.
NoReadInFs == ask[FS] \notin Reads

\* The filesystem task waits for room in the queue only it can make.
Stuck == at[FS] = "send" /\ ~Room

\* The filesystem task always comes back to its queue, although it waits for
\* itself each time it logs an error, unless it has filled the queue itself.
FsReturns == at[FS] # "idle" ~> (at[FS] = "idle" \/ Stuck)

\* "Users push operations on to the queue, and the queue pops them off and
\* performs them" (docs/tasks/filesystem.md).
QueueIsServed == at[FS] # "idle" ~> at[FS] = "idle"

\* "Wait for notification that file read is finished" (filesystem.c): a call
\* that is about to return an answer has had its operation performed.
AnswerIsOwn ==
    \A t \in Callers : at[t] = "wait" /\ notes[t] = 1 => own[t]
=============================================================================
