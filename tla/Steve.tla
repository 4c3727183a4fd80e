------------------------------- MODULE Steve -------------------------------
(***************************************************************************)
(* S.T.E.V.E., the job scheduler (tasks/steve/steve.c), with its two       *)
(* users: the STEVE task, which schedules the boot jobs and then runs what *)
(* is due, and the COMMAND task, which edits, lists and adds jobs for the  *)
(* ground.  They share g_steve_context: an array of job pointers, a count  *)
(* and one FreeRTOS mutex, which is not recursive.                         *)
(*                                                                         *)
(* A section between a take and a give in which the task does nothing      *)
(* another task can see is one action; a section that runs a job or prints *)
(* is several.  Time is counted in scheduler ticks.                        *)
(***************************************************************************)
EXTENDS Integers, FiniteSets

CONSTANTS
    Ptr,          \* heap addresses a steve_job_t can be allocated at
    NULL,
    MaxJobs,      \* MAX_JOBS
    Wrap,         \* TickType_t counts modulo Wrap (2^32)
    LastTick,     \* bound: time stops here
    MaxCommands,  \* bound: ground commands accepted in a behaviour
    Delay,        \* ticks of each delay the code passes to schedule_*
    Rates         \* ticks a CHANGE_HEARTBEAT_TELEM_RATE command can ask for

Tasks == {"STEVE", "COMMAND"}
Names == {"heartbeat", "beep", "antenna", "set_rtc"}
Sites == {"heartbeat", "beep", "antenna", "antenna_now", "antenna_retry", "set_rtc"}

ASSUME SteveAssumption ==
    /\ Ptr \subseteq Nat
    /\ NULL \notin Ptr
    /\ MaxJobs \in Nat \ {0}
    /\ Wrap \in Nat \ {0}
    /\ LastTick \in Nat
    /\ MaxCommands \in Nat
    /\ Delay \in [Sites -> 0 .. Wrap - 1]
    /\ Rates \subseteq 0 .. Wrap - 1

VARIABLES
    jobs,      \* g_steve_context.jobs
    jobCount,  \* g_steve_context.job_count
    mutex,     \* "none" before initialize_steve, "free", or the task that has it
    live,      \* the addresses allocated for a job
    job,       \* what each address holds
    pc,        \* where each task is
    call,      \* the arguments of the create_steve_job call each task is in
    idx,       \* i of the loop in steve_task
    cur,       \* indexed_job of the loop in steve_task
    findIdx,   \* i of the find_steve_job call in the SET_RTC_TIME handler
    found,     \* its result
    commands,  \* ground commands still to come
    now,       \* ticks since boot, never wrapping
    since      \* history: the tick the heartbeat's current wait is counted from

context == <<jobs, jobCount, mutex>>
memory == <<live, job, since>>
steveLocals == <<idx, cur>>
commandLocals == <<findIdx, found, commands>>
vars == <<context, memory, pc, call, steveLocals, commandLocals, now>>

Slots == 0 .. MaxJobs - 1
Ticks == 0 .. Wrap - 1
Labels == {"boot", "boot_beep", "boot_antenna", "take", "scan", "run", "finish",
           "idle", "edit", "list", "listing", "fall_through", "find", "set_arg",
           "check", "append", "halted"}
Job == [name : Names, exec : Ticks, recur : Ticks, arg : {"garbage", "set"}]
Call == [name : Names, exec : Ticks, recur : Ticks, ret : Labels]

\* Memory that holds no job: only arg_data can be seen again, by the next job
\* allocated there, since create_steve_job writes every other field.
Freed(arg) == [name |-> "beep", exec |-> 0, recur |-> 0, arg |-> arg]

\* A task that is in no create_steve_job call.
NoCall == [name |-> "beep", exec |-> 0, recur |-> 0, ret |-> "idle"]

\* get_uptime: the tick counter, which wraps.
Uptime == now % Wrap

Goto(t, label) == pc' = [pc EXCEPT ![t] = label]

\* Undefined behaviour stops the processor or lets the task go on to label.
Undefined(t, label) == \/ Goto(t, label)
                       \/ pc' = [u \in Tasks |-> "halted"]

-----------------------------------------------------------------------------
(* create_steve_job and the schedule_* functions in front of it. *)

\* schedule_*: the run time is computed before the mutex is asked for.
Schedule(t, name, site, recur, ret) ==
    /\ call' = [call EXCEPT ![t] =
           [name |-> name, exec |-> (Uptime + Delay[site]) % Wrap,
            recur |-> recur, ret |-> ret]]
    /\ Goto(t, "check")

Room_OffByOne == jobCount < MaxJobs

\* The capacity test of create_steve_job.
Room == jobCount < MaxJobs - 1

\* Before initialize_steve the call gives up; with a full list it returns
\* with the mutex still held.
CreateCheck(t) ==
    /\ pc[t] = "check"
    /\ mutex \in {"none", "free"}
    /\ Goto(t, IF mutex = "free" /\ Room THEN "append" ELSE call[t].ret)
    /\ mutex' = IF mutex = "free" /\ ~Room THEN t ELSE mutex
    /\ call' = IF mutex = "free" /\ Room THEN call ELSE [call EXCEPT ![t] = NoCall]
    /\ UNCHANGED <<jobs, jobCount, memory, steveLocals, commandLocals, now>>

\* Allocation, the copy of the fields and, under the mutex taken again, the
\* append.  The heap is first fit (heap_4).  arg_data is not written: it keeps
\* what the memory held.
CreateAppend(t) ==
    /\ pc[t] = "append"
    /\ mutex = "free"
    /\ \E p \in Ptr \ live :
        /\ \A q \in Ptr \ live : p <= q
        /\ live' = live \cup {p}
        /\ job' = [job EXCEPT ![p] = [name |-> call[t].name, exec |-> call[t].exec,
                                      recur |-> call[t].recur, arg |-> job[p].arg]]
        /\ jobs' = [jobs EXCEPT ![jobCount] = p]
    /\ jobCount' = jobCount + 1
    /\ Goto(t, call[t].ret)
    /\ call' = [call EXCEPT ![t] = NoCall]
    /\ UNCHANGED <<mutex, since, steveLocals, commandLocals, now>>

Create(t) == CreateCheck(t) \/ CreateAppend(t)

-----------------------------------------------------------------------------
(* The STEVE task. *)

InitializeSteve ==
    /\ pc["STEVE"] = "boot"
    /\ mutex' = "free"
    /\ Schedule("STEVE", "heartbeat", "heartbeat", Delay["heartbeat"], "boot_beep")
    /\ since' = now
    /\ UNCHANGED <<jobs, jobCount, live, job, steveLocals, commandLocals, now>>

BootBeep ==
    /\ pc["STEVE"] = "boot_beep"
    /\ Schedule("STEVE", "beep", "beep", 0, "boot_antenna")
    /\ UNCHANGED <<context, memory, steveLocals, commandLocals, now>>

BootAntenna ==
    /\ pc["STEVE"] = "boot_antenna"
    /\ Schedule("STEVE", "antenna", "antenna", 0, "take")
    /\ UNCHANGED <<context, memory, steveLocals, commandLocals, now>>

TakeMutex_FromOne ==
    /\ pc["STEVE"] = "take"
    /\ mutex = "free"
    /\ mutex' = "STEVE"
    /\ idx' = 1
    /\ Goto("STEVE", "scan")
    /\ UNCHANGED <<jobs, jobCount, memory, call, cur, commandLocals, now>>

TakeMutex_NoWait ==
    /\ pc["STEVE"] = "take"
    /\ mutex' = "STEVE"
    /\ idx' = 0
    /\ Goto("STEVE", "scan")
    /\ UNCHANGED <<jobs, jobCount, memory, call, cur, commandLocals, now>>

\* Start of a pass, any time after the last one: vTaskDelay sets no deadline.
TakeMutex ==
    /\ pc["STEVE"] = "take"
    /\ mutex = "free"
    /\ mutex' = "STEVE"
    /\ idx' = 0
    /\ Goto("STEVE", "scan")
    /\ UNCHANGED <<jobs, jobCount, memory, call, cur, commandLocals, now>>

Ready(p) == p # NULL /\ Uptime >= job[p].exec

SkipJob ==
    /\ pc["STEVE"] = "scan"
    /\ idx < jobCount
    /\ ~Ready(jobs[idx])
    /\ idx' = idx + 1
    /\ UNCHANGED <<context, memory, pc, call, cur, commandLocals, now>>

StartJob ==
    /\ pc["STEVE"] = "scan"
    /\ idx < jobCount
    /\ Ready(jobs[idx])
    /\ cur' = jobs[idx]
    /\ Goto("STEVE", "run")
    /\ UNCHANGED <<context, memory, call, idx, commandLocals, now>>

\* The job functions, run with the mutex held.
RunPlainJob ==
    /\ pc["STEVE"] = "run"
    /\ job[cur].name \in {"heartbeat", "beep"}
    /\ Goto("STEVE", "finish")
    /\ UNCHANGED <<context, memory, call, steveLocals, commandLocals, now>>

AntennaDeployed ==
    /\ pc["STEVE"] = "run"
    /\ job[cur].name = "antenna"
    /\ Goto("STEVE", "finish")
    /\ UNCHANGED <<context, memory, call, steveLocals, commandLocals, now>>

\* deploy_antenna_job schedules its own retry.
AntennaFailed ==
    /\ pc["STEVE"] = "run"
    /\ job[cur].name = "antenna"
    /\ Schedule("STEVE", "antenna", "antenna_retry", 0, "finish")
    /\ UNCHANGED <<context, memory, steveLocals, commandLocals, now>>

\* set_rtc_job reads and frees its argument.
RunSetRtc ==
    /\ pc["STEVE"] = "run"
    /\ job[cur].name = "set_rtc"
    /\ IF job[cur].arg = "set" THEN Goto("STEVE", "finish") ELSE Undefined("STEVE", "finish")
    /\ job' = [job EXCEPT ![cur].arg = "garbage"]
    /\ UNCHANGED <<context, live, since, call, steveLocals, commandLocals, now>>

\* The recurring branch of run_steve_job.
Reschedule ==
    /\ pc["STEVE"] = "finish"
    /\ job[cur].recur > 0
    /\ job' = [job EXCEPT ![cur].exec = (Uptime + job[cur].recur) % Wrap]
    /\ since' = IF job[cur].name = "heartbeat" THEN now ELSE since
    /\ idx' = idx + 1
    /\ cur' = NULL
    /\ Goto("STEVE", "scan")
    /\ UNCHANGED <<context, live, call, commandLocals, now>>

DropSlot_NoSwap(i) == jobs' = [jobs EXCEPT ![jobCount - 1] = NULL]

\* delete_steve_job clears the slot; cleanup_steve_jobs_list moves the last
\* job into it.
DropSlot(i) == jobs' = [jobs EXCEPT ![i] = jobs[jobCount - 1], ![jobCount - 1] = NULL]

\* The one-shot branch: delete_steve_job.  The job moved into the slot is not
\* looked at again in this pass.
DeleteJob ==
    /\ pc["STEVE"] = "finish"
    /\ job[cur].recur = 0
    /\ \E i \in 0 .. jobCount - 1 : jobs[i] = cur /\ DropSlot(i)
    /\ jobCount' = jobCount - 1
    /\ live' = live \ {cur}
    /\ job' = [job EXCEPT ![cur] = Freed(job[cur].arg)]
    /\ idx' = idx + 1
    /\ cur' = NULL
    /\ Goto("STEVE", "scan")
    /\ UNCHANGED <<mutex, since, call, commandLocals, now>>

EndPass ==
    /\ pc["STEVE"] = "scan"
    /\ idx >= jobCount
    /\ mutex' = "free"
    /\ idx' = 0
    /\ Goto("STEVE", "take")
    /\ UNCHANGED <<jobs, jobCount, memory, call, cur, commandLocals, now>>

SteveStep ==
    \/ InitializeSteve \/ BootBeep \/ BootAntenna \/ Create("STEVE")
    \/ TakeMutex \/ SkipJob \/ StartJob
    \/ RunPlainJob \/ AntennaDeployed \/ AntennaFailed \/ RunSetRtc
    \/ Reschedule \/ DeleteJob \/ EndPass

-----------------------------------------------------------------------------
(* The COMMAND task: the handlers of parse_command_packet that use STEVE. *)

\* A command arrives and its handler is entered.
Receive ==
    /\ pc["COMMAND"] = "idle"
    /\ commands > 0
    /\ commands' = commands - 1
    /\ \/ Goto("COMMAND", "edit") /\ UNCHANGED call
       \/ Goto("COMMAND", "list") /\ UNCHANGED call
       \/ Schedule("COMMAND", "antenna", "antenna_now", 0, "fall_through")
       \/ Schedule("COMMAND", "set_rtc", "set_rtc", 0, "find")
    /\ UNCHANGED <<context, memory, steveLocals, findIdx, found, now>>

\* The missing break after ANTENNA_DEPLOY: whether the SET_RTC_TIME handler
\* goes on depends on the payload it finds.
FallThrough ==
    /\ pc["COMMAND"] = "fall_through"
    /\ \/ Goto("COMMAND", "idle") /\ UNCHANGED call
       \/ Schedule("COMMAND", "set_rtc", "set_rtc", 0, "find")
    /\ UNCHANGED <<context, memory, steveLocals, commandLocals, now>>

\* xSemaphoreTake on the mutex that initialize_steve has not created yet.
TakeNoMutex ==
    /\ pc["COMMAND"] \in {"edit", "list"}
    /\ mutex = "none"
    /\ Undefined("COMMAND", "idle")
    /\ UNCHANGED <<context, memory, call, steveLocals, commandLocals, now>>

\* i is the slot find_steve_job stops at.
FirstNamed(i, name) ==
    /\ i < jobCount
    /\ job[jobs[i]].name = name
    /\ \A k \in 0 .. i - 1 : job[jobs[k]].name # name

NewExec_NoWrap(j, rate) == j.exec - j.recur + rate

NewExec_NoRollBack(j, rate) == (j.exec + rate) % Wrap

\* The new run time: the old period rolled back, the new one added.
NewExec(j, rate) == (j.exec - j.recur + rate) % Wrap

\* edit_steve_job_recur_time: without a heartbeat job it returns with the
\* mutex still held.
EditRate ==
    /\ pc["COMMAND"] = "edit"
    /\ mutex = "free"
    /\ IF \E i \in Slots : FirstNamed(i, "heartbeat")
       THEN /\ \E i \in Slots, rate \in Rates :
                 /\ FirstNamed(i, "heartbeat")
                 /\ job' = [job EXCEPT ![jobs[i]].exec = NewExec(job[jobs[i]], rate),
                                       ![jobs[i]].recur = rate]
            /\ UNCHANGED mutex
       ELSE /\ mutex' = "COMMAND"
            /\ UNCHANGED job
    /\ Goto("COMMAND", "idle")
    /\ UNCHANGED <<jobs, jobCount, live, since, call, steveLocals, commandLocals, now>>

\* print_debug_exec_times holds the mutex while it prints.
ListBegin ==
    /\ pc["COMMAND"] = "list"
    /\ mutex = "free"
    /\ mutex' = "COMMAND"
    /\ Goto("COMMAND", "listing")
    /\ UNCHANGED <<jobs, jobCount, memory, call, steveLocals, commandLocals, now>>

ListEnd ==
    /\ pc["COMMAND"] = "listing"
    /\ mutex' = "free"
    /\ Goto("COMMAND", "idle")
    /\ UNCHANGED <<jobs, jobCount, memory, call, steveLocals, commandLocals, now>>

\* find_steve_job, called by SET_RTC_TIME without the mutex, slot by slot.
FindStep ==
    /\ pc["COMMAND"] = "find"
    /\ LET p == jobs[findIdx] IN
       IF findIdx >= jobCount THEN /\ found' = NULL
                                   /\ findIdx' = 0
                                   /\ Goto("COMMAND", "set_arg")
       ELSE IF p # NULL /\ job[p].name = "set_rtc"
            THEN /\ found' = p
                 /\ findIdx' = 0
                 /\ Goto("COMMAND", "set_arg")
            ELSE /\ findIdx' = findIdx + 1
                 /\ UNCHANGED <<found, pc>>
    /\ UNCHANGED <<context, memory, call, steveLocals, commands, now>>

\* job->arg_data = args, on whatever find_steve_job returned.
SetArg ==
    /\ pc["COMMAND"] = "set_arg"
    /\ IF found = NULL THEN Undefined("COMMAND", "idle") /\ UNCHANGED job
       ELSE Goto("COMMAND", "idle") /\ job' = [job EXCEPT ![found].arg = "set"]
    /\ found' = NULL
    /\ UNCHANGED <<context, live, since, call, steveLocals, findIdx, commands, now>>

CommandStep ==
    \/ Create("COMMAND") \/ FallThrough \/ TakeNoMutex \/ EditRate
    \/ ListBegin \/ ListEnd \/ FindStep \/ SetArg

-----------------------------------------------------------------------------
Tick ==
    /\ now < LastTick
    /\ pc["STEVE"] # "halted"
    /\ now' = now + 1
    /\ UNCHANGED <<context, memory, pc, call, steveLocals, commandLocals>>

Init ==
    /\ jobs = [i \in Slots |-> NULL]
    /\ jobCount = 0
    /\ mutex = "none"
    /\ live = {}
    /\ job = [p \in Ptr |-> Freed("garbage")]
    /\ since = 0
    /\ pc = [t \in Tasks |-> IF t = "STEVE" THEN "boot" ELSE "idle"]
    /\ call = [t \in Tasks |-> NoCall]
    /\ idx = 0 /\ cur = NULL
    /\ findIdx = 0 /\ found = NULL
    /\ commands = MaxCommands
    /\ now = 0

Next == SteveStep \/ CommandStep \/ Receive \/ Tick

Spec == Init /\ [][Next]_vars

\* FreeRTOS runs every ready task of equal priority in turn, and the tick
\* interrupt keeps counting.  The ground owes no command.
Fairness == WF_vars(SteveStep) /\ WF_vars(CommandStep) /\ WF_vars(Tick)

FairSpec == Spec /\ Fairness

-----------------------------------------------------------------------------
(* Properties. *)

TypeOK ==
    /\ jobs \in [Slots -> Ptr \cup {NULL}]
    /\ jobCount \in Nat
    /\ mutex \in Tasks \cup {"none", "free"}
    /\ live \subseteq Ptr
    /\ job \in [Ptr -> Job]
    /\ since \in 0 .. LastTick
    /\ pc \in [Tasks -> Labels]
    /\ call \in [Tasks -> Call]
    /\ idx \in Nat
    /\ cur \in Ptr \cup {NULL}
    /\ findIdx \in Nat
    /\ found \in Ptr \cup {NULL}
    /\ commands \in 0 .. MaxCommands
    /\ now \in 0 .. LastTick

Listed(p) == \E i \in 0 .. jobCount - 1 : jobs[i] = p

\* The capacity test is not repeated when the mutex is taken again for the
\* append, so two creators can both pass it; the array still never overflows
\* (steve.c, create_steve_job).
ArrayBounded == jobCount <= MaxJobs

\* Whatever the tasks interleave, the first jobCount slots hold exactly the
\* allocated jobs, each once, and the slots above hold NULL: no freed job can
\* be run and no job is lost (delete_steve_job, cleanup_steve_jobs_list).
ListIntact ==
    /\ \A i \in Slots : i < jobCount <=> jobs[i] # NULL
    /\ \A i, k \in 0 .. jobCount - 1 : jobs[i] = jobs[k] => i = k
    /\ \A p \in Ptr : p \in live <=> Listed(p)

\* The job being run stays in the list, at the slot the pass is at, until it
\* has been run: nobody reorders the list under the pass.
CurrentAtIndex ==
    pc["STEVE"] \in {"run", "finish"} =>
        mutex = "STEVE" /\ idx < jobCount /\ jobs[idx] = cur

\* A job leaves the list only by being deleted at the end of its own run.
LeavesOnlyWhenRun ==
    [][\A p \in Ptr : Listed(p) /\ ~Listed(p)' => pc["STEVE"] = "finish" /\ cur = p]_vars

\* The heartbeat's next run is one current period after its last.
PeriodKept ==
    \A p \in live : job[p].name = "heartbeat" =>
        job[p].exec = (since + job[p].recur) % Wrap

\* The tick counter has come round as often at a as at b.
SameTurn(a, b) == a \div Wrap = b \div Wrap

\* In the turn of the tick counter its run time lies in, it is due from then on and no
\* sooner, by a clock that does not wrap.
DueOnTime ==
    \A p \in live : job[p].name = "heartbeat" /\ SameTurn(now, since + job[p].recur) =>
        (Ready(p) <=> now - since >= job[p].recur)

\* Across any sequence of rate changes and runs the heartbeat's next run is one current
\* period after its last (edit_steve_job_recur_time), and the comparison of wrapping
\* counts finds it due just when that period is over, but where the counts wrap between
\* (steve.c:276).
OnTime == PeriodKept /\ DueOnTime

Holding(t) == IF t = "STEVE" THEN {"scan", "run", "finish"} ELSE {"listing"}

\* The mutex belongs to a task that has left the section it took it for.
Leaked == \E t \in Tasks : mutex = t /\ pc[t] \notin Holding(t)

Halted == pc["STEVE"] = "halted"

\* Every job that has become due is run, unless a rate change puts it off, the
\* mutex has been leaked or the processor has stopped.
DueJobsRun ==
    \A p \in Ptr : (Listed(p) /\ Ready(p))
        ~> ((pc["STEVE"] = "run" /\ cur = p) \/ ~(Listed(p) /\ Ready(p)) 
             \/ Leaked \/ Halted)

\* A failed deployment is retried: "retrying in 10 min" (antenna_deploy_job.c).
AntennaRetryScheduled ==
    (pc["STEVE"] = "check" /\ call["STEVE"].ret = "finish")
        ~> (\E p \in live : job[p].name = "antenna" /\ p # cur)

\* set_rtc_job is passed the arguments of a command (arg_data, steve.h).
RtcHasArgs ==
    pc["STEVE"] = "run" /\ job[cur].name = "set_rtc" => job[cur].arg = "set"
=============================================================================
