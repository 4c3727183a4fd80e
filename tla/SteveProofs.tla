---------------------------- MODULE SteveProofs ----------------------------
(***************************************************************************)
(* Theorems about Steve, for every heap, list size, counter width, delay   *)
(* and set of rates.                                                       *)
(***************************************************************************)
EXTENDS Steve, TLAPS

\* A task between the capacity test of create_steve_job and the append.
Pending(t) == IF pc[t] = "append" THEN 1 ELSE 0

\* Why the array cannot overflow: the test leaves two free slots, one for each
\* task that can be past it.
RoomInv == jobCount + Pending("STEVE") + Pending("COMMAND") <= MaxJobs

\* Who has the mutex, and where a create_steve_job call returns to.  A job
\* function that creates a job never gets past the capacity test: its own
\* task has the mutex.
MutexInv ==
    /\ pc["STEVE"] = "boot" => mutex = "none"
    /\ pc["STEVE"] \in {"scan", "run", "finish"} => mutex = "STEVE"
    /\ pc["COMMAND"] = "listing" => mutex = "COMMAND"
    /\ pc["STEVE"] \in {"check", "append"} =>
           \/ call["STEVE"].ret \in {"boot_beep", "boot_antenna", "take"}
           \/ call["STEVE"].ret = "finish" /\ pc["STEVE"] = "check" /\ mutex = "STEVE"
    /\ pc["COMMAND"] \in {"check", "append"} =>
           call["COMMAND"].ret \in {"fall_through", "find"}

\* The inductive invariant.
IInv == TypeOK /\ RoomInv /\ MutexInv /\ ListIntact /\ CurrentAtIndex

-----------------------------------------------------------------------------
(* Facts about the operators the actions are made of. *)

\* A tick count reduced modulo Wrap is a TickType_t value.
LEMMA WrapRange == ASSUME NEW a \in Int PROVE a % Wrap \in Ticks
  BY SteveAssumption DEF Ticks

\* The first run time Schedule computes is a TickType_t value.
LEMMA FirstRunRange ==
    ASSUME TypeOK, NEW site \in Sites
    PROVE  (Uptime + Delay[site]) % Wrap \in Ticks
<1>1. Uptime \in Int
  <2>1. now \in Int
    BY SteveAssumption DEF TypeOK
  <2> QED BY <2>1, WrapRange, SteveAssumption DEF Uptime, Ticks
<1>2. Delay[site] \in Int
  BY SteveAssumption
<1>3. Uptime + Delay[site] \in Int
  BY <1>1, <1>2
<1> QED BY <1>3, WrapRange

\* Schedule leaves a well-typed call and program counter behind.
LEMMA ScheduleType ==
    ASSUME TypeOK, NEW t \in Tasks, NEW name \in Names, NEW site \in Sites,
           NEW recur \in Ticks, NEW ret \in Labels, Schedule(t, name, site, recur, ret)
    PROVE  /\ call' \in [Tasks -> Call]
           /\ pc' \in [Tasks -> Labels]
           /\ pc' = [pc EXCEPT ![t] = "check"]
           /\ call'[t].ret = ret
           /\ \A u \in Tasks \ {t} : call'[u] = call[u]
<1>1. (Uptime + Delay[site]) % Wrap \in Ticks
  BY FirstRunRange
<1>2. "check" \in Labels
  BY DEF Labels
<1>3. [name |-> name, exec |-> (Uptime + Delay[site]) % Wrap,
       recur |-> recur, ret |-> ret] \in Call
  BY <1>1 DEF Call
<1> QED BY <1>2, <1>3 DEF Schedule, Goto, TypeOK

\* Ticks are numbers, and 0 is one.
LEMMA TickFacts == Ticks \subseteq Int /\ 0 \in Ticks
  BY SteveAssumption DEF Ticks

\* No call in progress is a well-typed value of call.
LEMMA NoCallType == NoCall \in Call
  BY TickFacts DEF NoCall, Call, Names, Labels

-----------------------------------------------------------------------------
\* The invariant holds when the processor starts.
LEMMA InitInv == Init => IInv
<1> SUFFICES ASSUME Init PROVE IInv
  OBVIOUS
<1>1. TypeOK
  <2>1. Freed("garbage") \in Job
    BY TickFacts DEF Freed, Job, Names
  <2>2. pc \in [Tasks -> Labels]
    BY DEF Init, Labels, Tasks
  <2> QED BY <2>1, <2>2, NoCallType, SteveAssumption DEF Init, TypeOK
<1>2. RoomInv /\ MutexInv
  BY SteveAssumption DEF Init, RoomInv, Pending, MutexInv, Tasks
<1>3. ListIntact /\ CurrentAtIndex
  BY SteveAssumption DEF Init, ListIntact, CurrentAtIndex, Listed, Tasks, Slots
<1> QED BY <1>1, <1>2, <1>3 DEF IInv

-----------------------------------------------------------------------------
(* The two halves of create_steve_job, called by either task. *)

\* A step that leaves the list and the allocated jobs alone keeps the list intact.
LEMMA ListFrame ==
    ASSUME ListIntact, UNCHANGED <<jobs, jobCount, live>>
    PROVE  ListIntact'
  BY DEF ListIntact, Listed

\* The capacity test of create_steve_job, with or without room.
LEMMA CreateCheckInv ==
    ASSUME IInv, NEW t \in Tasks, CreateCheck(t)
    PROVE  IInv'
<1> USE DEF IInv
<1>1. TypeOK'
  <2>1. call[t].ret \in Labels /\ "append" \in Labels
    BY DEF TypeOK, Call, Labels
  <2>2. pc' \in [Tasks -> Labels]
    BY <2>1 DEF CreateCheck, Goto, TypeOK
  <2>3. call' \in [Tasks -> Call] /\ mutex' \in Tasks \cup {"none", "free"}
    BY NoCallType DEF CreateCheck, TypeOK
  <2> QED BY <2>2, <2>3 DEF CreateCheck, TypeOK, memory, steveLocals, commandLocals
<1>2. RoomInv'
  BY SteveAssumption DEF CreateCheck, Goto, TypeOK, RoomInv, Pending, Room, Tasks, MutexInv
<1>3. MutexInv'
  BY DEF CreateCheck, Goto, TypeOK, MutexInv, Tasks
<1>4. ListIntact'
  BY ListFrame DEF CreateCheck, memory
<1>5. CurrentAtIndex'
  BY DEF CreateCheck, Goto, TypeOK, MutexInv, CurrentAtIndex, Tasks, steveLocals
<1> QED BY <1>1, <1>2, <1>3, <1>4, <1>5

\* The append of create_steve_job finds a free slot and a fresh address.
LEMMA CreateAppendInv ==
    ASSUME IInv, NEW t \in Tasks, CreateAppend(t)
    PROVE  IInv'
<1> USE DEF IInv
<1>1. PICK p \in Ptr \ live :
          /\ live' = live \cup {p}
          /\ job' = [job EXCEPT ![p] = [name |-> call[t].name, exec |-> call[t].exec,
                                        recur |-> call[t].recur, arg |-> job[p].arg]]
          /\ jobs' = [jobs EXCEPT ![jobCount] = p]
  BY DEF CreateAppend
<1>2. jobCount < MaxJobs /\ jobCount \in Slots
  BY SteveAssumption DEF CreateAppend, RoomInv, Pending, TypeOK, Tasks, Slots
<1>3. TypeOK'
  <2>1. [name |-> call[t].name, exec |-> call[t].exec,
         recur |-> call[t].recur, arg |-> job[p].arg] \in Job
    BY DEF TypeOK, Call, Job
  <2>2. job' \in [Ptr -> Job] /\ live' \subseteq Ptr /\ jobs' \in [Slots -> Ptr \cup {NULL}]
    BY <1>1, <2>1 DEF TypeOK
  <2>3. call[t].ret \in Labels
    BY DEF TypeOK, Call
  <2>4. pc' \in [Tasks -> Labels] /\ call' \in [Tasks -> Call] /\ jobCount' \in Nat
    BY <2>3, NoCallType DEF CreateAppend, Goto, TypeOK
  <2> QED BY <2>2, <2>4 DEF CreateAppend, TypeOK, steveLocals, commandLocals
<1>4. RoomInv'
  BY SteveAssumption DEF CreateAppend, Goto, TypeOK, RoomInv, Pending, Tasks, MutexInv
<1>5. MutexInv'
  BY DEF CreateAppend, Goto, TypeOK, MutexInv, Tasks
<1>6. ListIntact'
  <2>1. jobCount' = jobCount + 1 /\ jobCount \in Nat
    BY DEF CreateAppend, TypeOK
  <2>2. jobs'[jobCount] = p /\ (\A i \in Slots : i # jobCount => jobs'[i] = jobs[i])
    BY <1>1, <1>2 DEF TypeOK
  <2>3. \A i \in Slots : i < jobCount' <=> jobs'[i] # NULL
    BY <1>1, <2>1, <2>2, SteveAssumption DEF ListIntact, Slots
  <2>4. 0 .. jobCount - 1 \subseteq Slots /\ 0 .. jobCount' - 1 = (0 .. jobCount - 1) \cup {jobCount}
    BY <1>2, <2>1, SteveAssumption DEF Slots
  <2>5. ~Listed(p)
    BY <1>1 DEF ListIntact
  <2>6. \A i, k \in 0 .. jobCount' - 1 : jobs'[i] = jobs'[k] => i = k
    BY <2>2, <2>4, <2>5 DEF ListIntact, Listed
  <2>7. \A q \in Ptr : Listed(q)' <=> Listed(q) \/ q = p
    BY <2>2, <2>4, <2>1 DEF Listed
  <2> QED BY <1>1, <2>3, <2>6, <2>7 DEF ListIntact
<1>7. CurrentAtIndex'
  BY DEF CreateAppend, Goto, TypeOK, MutexInv, CurrentAtIndex, Tasks, steveLocals
<1> QED BY <1>3, <1>4, <1>5, <1>6, <1>7

-----------------------------------------------------------------------------
(* The STEVE task. *)

\* A step that starts a create_steve_job call outside of a pass.
LEMMA ScheduleInv ==
    ASSUME IInv, NEW t \in Tasks, NEW name \in Names, NEW site \in Sites,
           NEW recur \in Ticks, NEW ret \in Labels,
           Schedule(t, name, site, recur, ret),
           IF t = "STEVE"
           THEN \/ ret \in {"boot_beep", "boot_antenna", "take"}
                \/ ret = "finish" /\ mutex' = "STEVE"
           ELSE ret \in {"fall_through", "find"},
           pc[t] \notin {"append", "listing"},
           mutex' = mutex \/ (mutex = "none" /\ mutex' = "free" /\ t = "STEVE"),
           UNCHANGED <<jobs, jobCount, live, job, idx, cur, findIdx, found, now>>,
           since' \in 0 .. LastTick, commands' \in 0 .. MaxCommands
    PROVE  IInv'
<1> USE DEF IInv
<1>1. /\ call' \in [Tasks -> Call]
      /\ pc' \in [Tasks -> Labels]
      /\ pc' = [pc EXCEPT ![t] = "check"]
      /\ call'[t].ret = ret
      /\ \A u \in Tasks \ {t} : call'[u] = call[u]
  BY ScheduleType
<1>2. TypeOK'
  BY <1>1 DEF TypeOK
<1>3. RoomInv'
  BY <1>1 DEF TypeOK, RoomInv, Pending, Tasks
<1>4. MutexInv'
  BY <1>1 DEF TypeOK, MutexInv, Tasks
<1>5. ListIntact'
  BY ListFrame
<1>6. CurrentAtIndex'
  BY <1>1 DEF TypeOK, MutexInv, CurrentAtIndex, Tasks
<1> QED BY <1>2, <1>3, <1>4, <1>5, <1>6

\* initialize_steve and the two schedule calls before the loop of steve_task.
LEMMA BootInv ==
    ASSUME IInv, InitializeSteve \/ BootBeep \/ BootAntenna
    PROVE  IInv'
<1>1. Delay["heartbeat"] \in Ticks /\ 0 \in Ticks
  BY SteveAssumption, TickFacts DEF Sites, Ticks
<1>2. {"boot_beep", "boot_antenna", "take"} \subseteq Labels
  BY DEF Labels
<1>3. CASE InitializeSteve
  BY <1>1, <1>2, <1>3, ScheduleInv
     DEF InitializeSteve, IInv, TypeOK, MutexInv, Tasks, Names, Sites, steveLocals, commandLocals
<1>4. CASE BootBeep
  BY <1>1, <1>2, <1>4, ScheduleInv
     DEF BootBeep, IInv, TypeOK, Tasks, Names, Sites, context, memory, steveLocals, commandLocals
<1>5. CASE BootAntenna
  BY <1>1, <1>2, <1>5, ScheduleInv
     DEF BootAntenna, IInv, TypeOK, Tasks, Names, Sites, context, memory, steveLocals, commandLocals
<1> QED BY <1>3, <1>4, <1>5

\* The steps of a pass that leave the list alone.
LEMMA PassInv ==
    ASSUME IInv, TakeMutex \/ SkipJob \/ StartJob \/ EndPass
    PROVE  IInv'
<1> USE DEF IInv
<1>1. {"scan", "run", "take"} \subseteq Labels
  BY DEF Labels
<1>2. CASE TakeMutex
  <2>1. TypeOK'
    BY <1>1, <1>2 DEF TakeMutex, Goto, TypeOK, memory, commandLocals, Tasks
  <2>2. RoomInv' /\ MutexInv' /\ CurrentAtIndex'
    BY <1>2 DEF TakeMutex, Goto, TypeOK, RoomInv, Pending, MutexInv, CurrentAtIndex, Tasks
  <2> QED BY <1>2, <2>1, <2>2, ListFrame DEF TakeMutex, memory
<1>3. CASE SkipJob
  <2>1. TypeOK'
    BY <1>3 DEF SkipJob, TypeOK, context, memory, commandLocals
  <2>2. RoomInv' /\ MutexInv' /\ CurrentAtIndex'
    BY <1>3 DEF SkipJob, RoomInv, Pending, MutexInv, CurrentAtIndex, context
  <2> QED BY <1>3, <2>1, <2>2, ListFrame DEF SkipJob, context, memory
<1>4. CASE StartJob
  <2>1. cur' \in Ptr
    BY <1>4, SteveAssumption DEF StartJob, Ready, TypeOK, RoomInv, Pending, Slots
  <2>2. TypeOK'
    BY <1>1, <1>4, <2>1 DEF StartJob, Goto, TypeOK, context, memory, commandLocals, Tasks
  <2>3. RoomInv' /\ MutexInv' /\ CurrentAtIndex'
    BY <1>4 DEF StartJob, Goto, TypeOK, RoomInv, Pending, MutexInv, CurrentAtIndex, Tasks, context
  <2> QED BY <1>4, <2>2, <2>3, ListFrame DEF StartJob, context, memory
<1>5. CASE EndPass
  <2>1. TypeOK'
    BY <1>1, <1>5 DEF EndPass, Goto, TypeOK, memory, commandLocals, Tasks
  <2>2. RoomInv' /\ MutexInv' /\ CurrentAtIndex'
    BY <1>5 DEF EndPass, Goto, TypeOK, RoomInv, Pending, MutexInv, CurrentAtIndex, Tasks
  <2> QED BY <1>5, <2>1, <2>2, ListFrame DEF EndPass, memory
<1> QED BY <1>2, <1>3, <1>4, <1>5

\* While a job is run or finished, cur is a listed, allocated job.
LEMMA CurrentListed ==
    ASSUME IInv, pc["STEVE"] \in {"run", "finish"}
    PROVE  cur \in Ptr /\ idx \in 0 .. jobCount - 1 /\ jobs[idx] = cur
  BY SteveAssumption
     DEF IInv, TypeOK, RoomInv, Pending, CurrentAtIndex, ListIntact, Slots

\* A processor stopped by undefined behaviour breaks nothing more.
LEMMA HaltInv ==
    ASSUME IInv, pc' = [u \in Tasks |-> "halted"], jobCount' = jobCount
    PROVE  RoomInv' /\ MutexInv' /\ CurrentAtIndex'
<1>1. pc'["STEVE"] = "halted" /\ pc'["COMMAND"] = "halted"
  BY DEF Tasks
<1>2. RoomInv'
  BY <1>1, SteveAssumption DEF IInv, TypeOK, RoomInv, Pending
<1>3. MutexInv' /\ CurrentAtIndex'
  BY <1>1 DEF MutexInv, CurrentAtIndex
<1> QED BY <1>2, <1>3

\* The job functions leave the list alone, whatever their outcome.
LEMMA RunInv ==
    ASSUME IInv, RunPlainJob \/ AntennaDeployed \/ AntennaFailed \/ RunSetRtc
    PROVE  IInv'
<1> USE DEF IInv
<1>1. {"finish", "halted"} \subseteq Labels
  BY DEF Labels
<1>2. CASE RunPlainJob \/ AntennaDeployed
  <2>1. TypeOK'
    BY <1>1, <1>2 DEF RunPlainJob, AntennaDeployed, Goto, TypeOK, context, memory,
                      steveLocals, commandLocals, Tasks
  <2>2. RoomInv' /\ MutexInv' /\ CurrentAtIndex'
    BY <1>2 DEF RunPlainJob, AntennaDeployed, Goto, TypeOK, RoomInv, Pending, MutexInv,
                CurrentAtIndex, Tasks, context, steveLocals
  <2> QED BY <1>2, <2>1, <2>2, ListFrame DEF RunPlainJob, AntennaDeployed, context, memory
<1>3. CASE AntennaFailed
  BY <1>1, <1>3, ScheduleInv, TickFacts
     DEF AntennaFailed, TypeOK, MutexInv, Tasks, Names, Sites, context, memory,
         steveLocals, commandLocals
<1>4. CASE RunSetRtc
  <2>1. pc' \in [Tasks -> Labels]
    BY <1>1, <1>4 DEF RunSetRtc, Goto, Undefined, TypeOK, Tasks
  <2>2. job' \in [Ptr -> Job]
    BY <1>4, CurrentListed DEF RunSetRtc, TypeOK, Job
  <2>3. TypeOK'
    BY <1>4, <2>1, <2>2 DEF RunSetRtc, TypeOK, context, steveLocals, commandLocals
  <2>4. /\ pc["STEVE"] = "run"
        /\ pc' \in {[pc EXCEPT !["STEVE"] = "finish"], [u \in Tasks |-> "halted"]}
        /\ UNCHANGED <<jobs, jobCount, mutex, call, idx, cur>>
    BY <1>4 DEF RunSetRtc, Undefined, Goto, context, steveLocals
  <2>5. ASSUME pc' = [pc EXCEPT !["STEVE"] = "finish"]
       PROVE  RoomInv' /\ MutexInv' /\ CurrentAtIndex'
    BY <2>4, <2>5 DEF TypeOK, RoomInv, Pending, MutexInv, CurrentAtIndex, Tasks
  <2>6. ASSUME pc' = [u \in Tasks |-> "halted"]
       PROVE  RoomInv' /\ MutexInv' /\ CurrentAtIndex'
    BY <2>4, <2>6, HaltInv
  <2>7. RoomInv' /\ MutexInv' /\ CurrentAtIndex'
    BY <2>4, <2>5, <2>6
  <2> QED BY <1>4, <2>3, <2>7, ListFrame DEF RunSetRtc, context
<1> QED BY <1>2, <1>3, <1>4

\* A recurring job that has run gets a new run time and stays where it is.
LEMMA RescheduleInv ==
    ASSUME IInv, Reschedule
    PROVE  IInv'
<1> USE DEF IInv
<1>1. cur \in Ptr
  BY CurrentListed DEF Reschedule
<1>2. (Uptime + job[cur].recur) % Wrap \in Ticks
  <2>1. now \in Int /\ job[cur].recur \in Int
    <3>1. now \in Int
      BY SteveAssumption DEF TypeOK
    <3>2. job[cur].recur \in Ticks
      BY <1>1 DEF TypeOK, Job
    <3> QED BY <3>1, <3>2, TickFacts
  <2>2. Uptime \in Int
    BY <2>1, WrapRange, TickFacts DEF Uptime
  <2> QED BY <2>1, <2>2, WrapRange
<1>3. TypeOK'
  <2>1. job' \in [Ptr -> Job]
    BY <1>1, <1>2 DEF Reschedule, TypeOK, Job
  <2> QED BY <2>1 DEF Reschedule, Goto, TypeOK, context, commandLocals, Tasks, Labels
<1>4. RoomInv' /\ MutexInv' /\ CurrentAtIndex'
  BY DEF Reschedule, Goto, TypeOK, RoomInv, Pending, MutexInv, CurrentAtIndex, Tasks, context
<1> QED BY <1>3, <1>4, ListFrame DEF Reschedule, context

\* Clearing the slot of the deleted job and moving the last job into it leaves
\* exactly the other jobs, each once.
LEMMA DeleteKeepsList ==
    ASSUME IInv, DeleteJob
    PROVE  ListIntact' /\ (\A p \in Ptr : Listed(p)' <=> Listed(p) /\ p # cur)
<1> USE DEF IInv
<1>1. PICK i \in 0 .. jobCount - 1 : jobs[i] = cur /\ DropSlot(i)
  BY DEF DeleteJob
<1>2. DEFINE last == jobCount - 1
<1>3. /\ jobCount \in Nat /\ last \in Slots /\ i \in Slots
      /\ 0 .. jobCount - 1 \subseteq Slots
      /\ jobCount' = last
      /\ cur \in Ptr
  BY <1>1, SteveAssumption, CurrentListed
     DEF DeleteJob, TypeOK, RoomInv, Pending, Slots
<1>4. /\ jobs'[last] = NULL
      /\ i # last => jobs'[i] = jobs[last]
      /\ \A k \in Slots : k # i /\ k # last => jobs'[k] = jobs[k]
  BY <1>1, <1>3 DEF DropSlot, TypeOK
<1>5. \A k \in Slots : k < jobCount' <=> jobs'[k] # NULL
  BY <1>1, <1>3, <1>4 DEF ListIntact, Slots
<1>6. \A k, m \in 0 .. jobCount' - 1 : jobs'[k] = jobs'[m] => k = m
  BY <1>1, <1>3, <1>4 DEF ListIntact
<1>7. \A p \in Ptr : Listed(p)' <=> Listed(p) /\ p # cur
  <2> SUFFICES ASSUME NEW p \in Ptr PROVE Listed(p)' <=> Listed(p) /\ p # cur
    OBVIOUS
  <2>1. ASSUME Listed(p)' PROVE Listed(p) /\ p # cur
    BY <1>1, <1>3, <1>4, <2>1 DEF Listed, ListIntact
  <2>2. ASSUME Listed(p), p # cur PROVE Listed(p)'
    <3>1. PICK k \in 0 .. jobCount - 1 : jobs[k] = p
      BY <2>2 DEF Listed
    <3>2. CASE k = last
      <4>1. i # last
        BY <1>1, <2>2, <3>1, <3>2
      <4>2. i \in 0 .. jobCount' - 1 /\ jobs'[i] = p
        BY <1>1, <1>3, <1>4, <3>1, <3>2, <4>1
      <4> QED BY <4>2 DEF Listed
    <3>3. CASE k # last
      <4>1. k \in 0 .. jobCount' - 1 /\ jobs'[k] = p
        BY <1>1, <1>3, <1>4, <2>2, <3>1, <3>3
      <4> QED BY <4>1 DEF Listed
    <3> QED BY <3>2, <3>3
  <2> QED BY <2>1, <2>2
<1>8. \A p \in Ptr : p \in live' <=> Listed(p)'
  BY <1>7 DEF ListIntact, DeleteJob
<1> QED BY <1>5, <1>6, <1>7, <1>8 DEF ListIntact

\* delete_steve_job takes exactly the job just run out of the list.
LEMMA DeleteInv ==
    ASSUME IInv, DeleteJob
    PROVE  IInv'
<1> USE DEF IInv
<1>1. cur \in Ptr /\ jobCount \in Nat \ {0}
  BY CurrentListed DEF DeleteJob, TypeOK
<1>2. TypeOK'
  <2>1. job' \in [Ptr -> Job]
    BY <1>1, TickFacts DEF DeleteJob, Freed, TypeOK, Job, Names
  <2>2. jobs' \in [Slots -> Ptr \cup {NULL}]
    <3>1. PICK i \in 0 .. jobCount - 1 : DropSlot(i)
      BY DEF DeleteJob
    <3>2. jobs[jobCount - 1] \in Ptr \cup {NULL}
      BY <1>1, SteveAssumption DEF TypeOK, RoomInv, Pending, Slots
    <3> QED BY <3>1, <3>2 DEF DropSlot, TypeOK
  <2>3. pc' \in [Tasks -> Labels]
    BY DEF DeleteJob, Goto, TypeOK, Tasks, Labels
  <2> QED BY <1>1, <2>1, <2>2, <2>3 DEF DeleteJob, TypeOK, commandLocals
<1>3. pc' = [pc EXCEPT !["STEVE"] = "scan"] /\ jobCount' = jobCount - 1
  BY DEF DeleteJob, Goto
<1>4. RoomInv'
  BY <1>1, <1>3, SteveAssumption DEF DeleteJob, TypeOK, RoomInv, Pending, Tasks
<1>5. MutexInv' /\ CurrentAtIndex'
  BY <1>3 DEF DeleteJob, TypeOK, MutexInv, CurrentAtIndex, Tasks
<1> QED BY <1>2, <1>4, <1>5, DeleteKeepsList

\* Every step of the STEVE task keeps the invariant.
LEMMA SteveStepInv == ASSUME IInv, SteveStep PROVE IInv'
  BY BootInv, CreateCheckInv, CreateAppendInv, PassInv, RunInv, RescheduleInv, DeleteInv
     DEF SteveStep, Create, Tasks

-----------------------------------------------------------------------------
(* The COMMAND task and the clock. *)

\* The handlers that call schedule_*.
LEMMA ReceiveInv ==
    ASSUME IInv, Receive \/ FallThrough
    PROVE  IInv'
<1> USE DEF IInv
<1>1. {"edit", "list", "idle", "fall_through", "find"} \subseteq Labels /\ 0 \in Ticks
  BY TickFacts DEF Labels
<1>2. commands' \in 0 .. MaxCommands
  BY SteveAssumption DEF Receive, FallThrough, TypeOK, commandLocals
<1>3. CASE pc' = [pc EXCEPT !["COMMAND"] = "edit"] /\ UNCHANGED call
  <2>1. TypeOK'
    BY <1>1, <1>2, <1>3 DEF Receive, FallThrough, TypeOK, Tasks, context, memory,
                            steveLocals, commandLocals
  <2>2. RoomInv' /\ MutexInv' /\ CurrentAtIndex'
    BY <1>3 DEF Receive, FallThrough, TypeOK, RoomInv, Pending, MutexInv, CurrentAtIndex,
                Tasks, context, steveLocals
  <2> QED BY <2>1, <2>2, ListFrame DEF Receive, FallThrough, context, memory
<1>4. CASE pc' = [pc EXCEPT !["COMMAND"] = "list"] /\ UNCHANGED call
  <2>1. TypeOK'
    BY <1>1, <1>2, <1>4 DEF Receive, FallThrough, TypeOK, Tasks, context, memory,
                            steveLocals, commandLocals
  <2>2. RoomInv' /\ MutexInv' /\ CurrentAtIndex'
    BY <1>4 DEF Receive, FallThrough, TypeOK, RoomInv, Pending, MutexInv, CurrentAtIndex,
                Tasks, context, steveLocals
  <2> QED BY <2>1, <2>2, ListFrame DEF Receive, FallThrough, context, memory
<1>5. CASE pc' = [pc EXCEPT !["COMMAND"] = "idle"] /\ UNCHANGED call
  <2>1. TypeOK'
    BY <1>1, <1>2, <1>5 DEF Receive, FallThrough, TypeOK, Tasks, context, memory,
                            steveLocals, commandLocals
  <2>2. RoomInv' /\ MutexInv' /\ CurrentAtIndex'
    BY <1>5 DEF Receive, FallThrough, TypeOK, RoomInv, Pending, MutexInv, CurrentAtIndex,
                Tasks, context, steveLocals
  <2> QED BY <2>1, <2>2, ListFrame DEF Receive, FallThrough, context, memory
<1>6. CASE Schedule("COMMAND", "antenna", "antenna_now", 0, "fall_through")
  BY <1>1, <1>2, <1>6, ScheduleInv
     DEF Receive, FallThrough, TypeOK, Tasks, Names, Sites, context, memory,
         steveLocals, commandLocals
<1>7. CASE Schedule("COMMAND", "set_rtc", "set_rtc", 0, "find")
  BY <1>1, <1>2, <1>7, ScheduleInv
     DEF Receive, FallThrough, TypeOK, Tasks, Names, Sites, context, memory,
         steveLocals, commandLocals
<1> QED BY <1>3, <1>4, <1>5, <1>6, <1>7 DEF Receive, FallThrough, Goto

\* The handlers that use the mutex and the list.
LEMMA HandlerInv ==
    ASSUME IInv, TakeNoMutex \/ EditRate \/ ListBegin \/ ListEnd
    PROVE  IInv'
<1> USE DEF IInv
<1>1. {"idle", "listing", "halted"} \subseteq Labels
  BY DEF Labels
<1>2. CASE TakeNoMutex
  <2>1. TypeOK'
    BY <1>1, <1>2 DEF TakeNoMutex, Undefined, Goto, TypeOK, Tasks, context, memory,
                      steveLocals, commandLocals
  <2>2. /\ pc' \in {[pc EXCEPT !["COMMAND"] = "idle"], [u \in Tasks |-> "halted"]}
        /\ UNCHANGED <<jobs, jobCount, mutex, call, idx, cur>>
    BY <1>2 DEF TakeNoMutex, Undefined, Goto, context, steveLocals
  <2>3. ASSUME pc' = [pc EXCEPT !["COMMAND"] = "idle"]
       PROVE  RoomInv' /\ MutexInv' /\ CurrentAtIndex'
    BY <2>2, <2>3, SteveAssumption DEF TypeOK, RoomInv, Pending, MutexInv, CurrentAtIndex, Tasks
  <2>4. ASSUME pc' = [u \in Tasks |-> "halted"]
       PROVE  RoomInv' /\ MutexInv' /\ CurrentAtIndex'
    BY <2>2, <2>4, HaltInv
  <2>5. RoomInv' /\ MutexInv' /\ CurrentAtIndex'
    BY <2>2, <2>3, <2>4
  <2> QED BY <1>2, <2>1, <2>5, ListFrame DEF TakeNoMutex, context, memory
<1>3. CASE EditRate
  <2>1. job' \in [Ptr -> Job]
    <3>1. CASE UNCHANGED job
      BY <3>1 DEF TypeOK
    <3>2. ASSUME NEW i \in Slots, NEW rate \in Rates, FirstNamed(i, "heartbeat"),
                 job' = [job EXCEPT ![jobs[i]].exec = NewExec(job[jobs[i]], rate),
                                    ![jobs[i]].recur = rate]
          PROVE  job' \in [Ptr -> Job]
      <4>1. jobs[i] \in Ptr
        BY <3>2, SteveAssumption DEF FirstNamed, ListIntact, TypeOK
      <4>2. job[jobs[i]] \in Job /\ rate \in Ticks
        BY <4>1, SteveAssumption DEF TypeOK, Ticks
      <4>3. NewExec(job[jobs[i]], rate) \in Ticks
        <5>1. job[jobs[i]].exec \in Int /\ job[jobs[i]].recur \in Int /\ rate \in Int
          BY <4>2, TickFacts DEF Job
        <5>2. job[jobs[i]].exec - job[jobs[i]].recur + rate \in Int
          BY <5>1
        <5> QED BY <5>2, WrapRange DEF NewExec
      <4> QED BY <3>2, <4>1, <4>2, <4>3 DEF TypeOK, Job
    <3> QED BY <1>3, <3>1, <3>2 DEF EditRate
  <2>2. mutex' \in {mutex, "COMMAND"} /\ mutex = "free"
    BY <1>3 DEF EditRate
  <2>3. TypeOK'
    BY <1>1, <1>3, <2>1, <2>2 DEF EditRate, Goto, TypeOK, Tasks, steveLocals, commandLocals
  <2>4. RoomInv' /\ MutexInv' /\ CurrentAtIndex'
    BY <1>3, <2>2 DEF EditRate, Goto, TypeOK, RoomInv, Pending, MutexInv, CurrentAtIndex,
                      Tasks, steveLocals
  <2> QED BY <1>3, <2>3, <2>4, ListFrame DEF EditRate
<1>4. CASE ListBegin \/ ListEnd
  <2>1. TypeOK'
    BY <1>1, <1>4 DEF ListBegin, ListEnd, Goto, TypeOK, Tasks, memory, steveLocals,
                      commandLocals
  <2>2. RoomInv' /\ MutexInv' /\ CurrentAtIndex'
    BY <1>4 DEF ListBegin, ListEnd, Goto, TypeOK, RoomInv, Pending, MutexInv,
                CurrentAtIndex, Tasks, steveLocals
  <2> QED BY <1>4, <2>1, <2>2, ListFrame DEF ListBegin, ListEnd, memory
<1> QED BY <1>2, <1>3, <1>4

\* The part of SET_RTC_TIME that works without the mutex.
LEMMA FindInv ==
    ASSUME IInv, FindStep \/ SetArg
    PROVE  IInv'
<1> USE DEF IInv
<1>1. {"idle", "set_arg", "halted"} \subseteq Labels
  BY DEF Labels
<1>2. CASE FindStep
  <2>1. findIdx' \in Nat /\ found' \in Ptr \cup {NULL}
    BY <1>2, SteveAssumption DEF FindStep, TypeOK, RoomInv, Pending, Slots
  <2>2. pc' \in {pc, [pc EXCEPT !["COMMAND"] = "set_arg"]} /\ pc["COMMAND"] = "find"
    BY <1>2 DEF FindStep, Goto
  <2>3. TypeOK'
    BY <1>1, <1>2, <2>1, <2>2 DEF FindStep, TypeOK, Tasks, context, memory, steveLocals
  <2>4. RoomInv' /\ MutexInv' /\ CurrentAtIndex'
    BY <1>2, <2>2 DEF FindStep, TypeOK, RoomInv, Pending, MutexInv, CurrentAtIndex, Tasks,
                      context, steveLocals
  <2> QED BY <1>2, <2>3, <2>4, ListFrame DEF FindStep, context, memory
<1>3. CASE SetArg
  <2>1. job' \in [Ptr -> Job]
    BY <1>3 DEF SetArg, TypeOK, Job
  <2>2. TypeOK'
    BY <1>1, <1>3, <2>1 DEF SetArg, Undefined, Goto, TypeOK, Tasks, context, steveLocals
  <2>3. /\ pc' \in {[pc EXCEPT !["COMMAND"] = "idle"], [u \in Tasks |-> "halted"]}
        /\ UNCHANGED <<jobs, jobCount, mutex, call, idx, cur>>
    BY <1>3 DEF SetArg, Undefined, Goto, context, steveLocals
  <2>4. ASSUME pc' = [pc EXCEPT !["COMMAND"] = "idle"]
       PROVE  RoomInv' /\ MutexInv' /\ CurrentAtIndex'
    BY <2>3, <2>4, SteveAssumption DEF TypeOK, RoomInv, Pending, MutexInv, CurrentAtIndex, Tasks
  <2>5. ASSUME pc' = [u \in Tasks |-> "halted"]
       PROVE  RoomInv' /\ MutexInv' /\ CurrentAtIndex'
    BY <2>3, <2>5, HaltInv
  <2>6. RoomInv' /\ MutexInv' /\ CurrentAtIndex'
    BY <2>3, <2>4, <2>5
  <2> QED BY <1>3, <2>2, <2>6, ListFrame DEF SetArg, context
<1> QED BY <1>2, <1>3

\* Every step of the COMMAND task keeps the invariant.
LEMMA CommandStepInv == ASSUME IInv, CommandStep PROVE IInv'
  BY CreateCheckInv, CreateAppendInv, ReceiveInv, HandlerInv, FindInv
     DEF CommandStep, Create, Tasks

\* Steps that change no more than the clock.
LEMMA ClockInv == ASSUME IInv, Tick \/ UNCHANGED vars PROVE IInv'
<1> USE DEF IInv
<1>1. now' \in 0 .. LastTick
  BY SteveAssumption DEF Tick, TypeOK, vars
<1>2. UNCHANGED <<jobs, jobCount, mutex, live, job, since, pc, call, idx, cur, findIdx,
                  found, commands>>
  BY DEF Tick, vars, context, memory, steveLocals, commandLocals
<1>3. TypeOK'
  BY <1>1, <1>2 DEF TypeOK
<1>4. RoomInv' /\ MutexInv' /\ CurrentAtIndex'
  BY <1>2 DEF RoomInv, Pending, MutexInv, CurrentAtIndex
<1> QED BY <1>2, <1>3, <1>4, ListFrame

-----------------------------------------------------------------------------
(* The theorems. *)

\* IInv holds in every reachable state.
THEOREM Invariance == Spec => []IInv
<1>1. IInv /\ [Next]_vars => IInv'
  BY SteveStepInv, CommandStepInv, ReceiveInv, ClockInv DEF Next
<1> QED BY InitInv, <1>1, PTL DEF Spec

\* Every variable of the scheduler keeps its type: no pointer of the list, of
\* the running job or of find_steve_job leaves the heap, and every tick count
\* stays in the range of TickType_t.
THEOREM TypeCorrect == Spec => []TypeOK
<1>1. IInv => TypeOK
  BY DEF IInv
<1> QED BY Invariance, <1>1, PTL

\* The job array never overflows, for any MAX_JOBS: the test against MAX_JOBS-1
\* makes up for the mutex being given back between test and append, as long as
\* no more than two tasks create jobs.
THEOREM ArrayNeverOverflows == Spec => []ArrayBounded
<1>1. IInv => ArrayBounded
  BY SteveAssumption DEF IInv, TypeOK, RoomInv, Pending, ArrayBounded
<1> QED BY Invariance, <1>1, PTL

\* The list holds exactly the allocated jobs, each once, in its first job_count
\* slots, whatever the two tasks interleave.
THEOREM ListAlwaysIntact == Spec => []ListIntact
<1>1. IInv => ListIntact
  BY DEF IInv
<1> QED BY Invariance, <1>1, PTL

\* The running job keeps its slot and its task keeps the mutex until the run
\* is over.
THEOREM CurrentKeepsSlot == Spec => []CurrentAtIndex
<1>1. IInv => CurrentAtIndex
  BY DEF IInv
<1> QED BY Invariance, <1>1, PTL

\* No job is lost: across every step of either task, a job is missing from the
\* list afterwards only if STEVE has just run it and deleted it.
THEOREM NoJobLost == Spec => LeavesOnlyWhenRun
<1> DEFINE Kept == \A p \in Ptr : Listed(p) /\ ~Listed(p)' => pc["STEVE"] = "finish" /\ cur = p
<1>1. ASSUME IInv, IInv', [Next]_vars PROVE Kept
  <2>1. \A p \in Ptr : Listed(p) /\ ~Listed(p)' => p \in live \ live'
    BY <1>1 DEF IInv, ListIntact
  <2>2. CASE live \subseteq live'
    BY <2>1, <2>2
  <2>3. CASE DeleteJob
    BY <2>1, <2>3 DEF DeleteJob
  <2>4. ASSUME SteveStep, ~DeleteJob PROVE live \subseteq live'
    BY <2>4
       DEF SteveStep, InitializeSteve, BootBeep, BootAntenna, Create, CreateCheck, CreateAppend,
           TakeMutex, SkipJob, StartJob, RunPlainJob, AntennaDeployed, AntennaFailed, RunSetRtc,
           Reschedule, EndPass, memory
  <2>5. ASSUME CommandStep \/ Receive PROVE live \subseteq live'
    BY <2>5
       DEF CommandStep, Receive, Create, CreateCheck, CreateAppend, FallThrough, TakeNoMutex,
           EditRate, ListBegin, ListEnd, FindStep, SetArg, memory
  <2>6. ASSUME Tick \/ UNCHANGED vars PROVE live \subseteq live'
    BY <2>6 DEF Tick, vars, memory
  <2> QED BY <1>1, <2>2, <2>3, <2>4, <2>5, <2>6 DEF Next
<1>2. IInv /\ IInv' /\ [Next]_vars => [Kept]_vars
  BY <1>1
<1> QED BY Invariance, <1>2, PTL DEF Spec, LeavesOnlyWhenRun

-----------------------------------------------------------------------------
(* The heartbeat's period. *)

\* There is one heartbeat job at most: the one initialize_steve schedules, as a call
\* in progress until it is in the list.
HeartbeatLive == \E p \in live : job[p].name = "heartbeat"

\* Why an edit of the period finds the job whose wait it rolls back: no other is
\* created, and each has a run time one period after the moment it was set.
HeartbeatInv ==
    /\ \A p, q \in live : job[p].name = "heartbeat" /\ job[q].name = "heartbeat" => p = q
    /\ pc["STEVE"] = "boot" => ~HeartbeatLive
    /\ \A t \in Tasks : call[t].name = "heartbeat" =>
           /\ t = "STEVE" /\ pc["STEVE"] # "boot" /\ ~HeartbeatLive
           /\ call[t].exec = (since + call[t].recur) % Wrap
    /\ PeriodKept

\* Reducing a part of a sum modulo Wrap changes nothing modulo Wrap.
LEMMA WrapShift ==
    ASSUME NEW a \in Int, NEW b \in Int
    PROVE  ((a % Wrap) + b) % Wrap = (a + b) % Wrap
<1>1. Wrap \in Nat \ {0}
  BY SteveAssumption
<1>2. \A x \in Int : x = (Wrap * (x \div Wrap)) + (x % Wrap) /\ x % Wrap \in 0 .. Wrap - 1 /\ x \div Wrap \in Int
  BY <1>1
<1> DEFINE r == a % Wrap
           q == a \div Wrap
           c == r + b
           k == c \div Wrap
           m == c % Wrap
<1>3. a = (Wrap * q) + r /\ r \in Int /\ q \in Int
  BY <1>1, <1>2
<1>4. c \in Int
  BY <1>3
<1>5. c = (Wrap * k) + m /\ m \in 0 .. Wrap - 1 /\ k \in Int
  BY <1>2, <1>4
<1> HIDE DEF r, q, k, m
<1>6. a + b = (Wrap * (q + k)) + m
  <2>1. Wrap * q \in Int /\ Wrap * k \in Int /\ m \in Int /\ Wrap \in Int
    BY <1>1, <1>3, <1>5
  <2>2. (Wrap * q) + (Wrap * k) = Wrap * (q + k)
    BY <1>1, <1>3, <1>5
  <2> DEFINE u == Wrap * q
             v == Wrap * k
             w == Wrap * (q + k)
  <2>3. a = u + r /\ r + b = v + m /\ u + v = w /\ u \in Int /\ v \in Int /\ m \in Int /\ r \in Int
    BY <1>3, <1>5, <2>1, <2>2
  <2> HIDE DEF u, v, w
  <2>4. a + b = w + m
    BY <2>3
  <2> QED BY <2>4 DEF w
<1>7. \A n \in 0 .. Wrap - 1, j \in Int : ((Wrap * j) + n) % Wrap = n
  BY <1>1
<1>8. (a + b) % Wrap = m
  <2>1. q + k \in Int
    BY <1>3, <1>5
  <2> QED BY <1>5, <1>6, <1>7, <2>1
<1> QED BY <1>8 DEF m, r

\* A step that leaves the jobs their names, run times and periods, allocates none and
\* starts no heartbeat keeps the invariant.
LEMMA HeartbeatFrame ==
    ASSUME HeartbeatInv, since' = since, live' \subseteq live,
           \A p \in live' : /\ job'[p].name = job[p].name
                            /\ job'[p].exec = job[p].exec /\ job'[p].recur = job[p].recur,
           \A t \in Tasks : call'[t] = call[t] \/ call'[t].name # "heartbeat",
           pc'["STEVE"] = "boot" => pc["STEVE"] = "boot"
    PROVE  HeartbeatInv'
<1>1. HeartbeatLive' => HeartbeatLive
  BY DEF HeartbeatLive
<1>2. \A p, q \in live' : job'[p].name = "heartbeat" /\ job'[q].name = "heartbeat" => p = q
  BY DEF HeartbeatInv
<1>3. PeriodKept'
  BY DEF HeartbeatInv, PeriodKept
<1>4. ASSUME NEW t \in Tasks, call'[t].name = "heartbeat"
      PROVE  /\ t = "STEVE" /\ pc'["STEVE"] # "boot" /\ ~HeartbeatLive'
             /\ call'[t].exec = (since + call'[t].recur) % Wrap
  BY <1>1, <1>4 DEF HeartbeatInv
<1> QED BY <1>1, <1>2, <1>3, <1>4 DEF HeartbeatInv

\* Schedule leaves behind a call with the name it was given.
LEMMA ScheduleNames ==
    ASSUME TypeOK, NEW t \in Tasks, NEW name, NEW site, NEW recur, NEW ret,
           Schedule(t, name, site, recur, ret)
    PROVE  /\ call'[t] = [name |-> name, exec |-> (Uptime + Delay[site]) % Wrap, recur |-> recur, ret |-> ret]
           /\ \A u \in Tasks : u # t => call'[u] = call[u]
           /\ pc'[t] = "check" /\ \A u \in Tasks : u # t => pc'[u] = pc[u]
  BY DEF Schedule, Goto, TypeOK

\* The steps that neither make, delete, reschedule nor edit a job.
LEMMA HeartbeatRests ==
    ASSUME IInv, HeartbeatInv,
           \/ BootBeep \/ BootAntenna \/ \E t \in Tasks : CreateCheck(t)
           \/ TakeMutex \/ SkipJob \/ StartJob \/ EndPass
           \/ RunPlainJob \/ AntennaDeployed \/ AntennaFailed \/ RunSetRtc
           \/ Receive \/ FallThrough \/ TakeNoMutex \/ ListBegin \/ ListEnd \/ FindStep \/ SetArg
           \/ Tick \/ UNCHANGED vars
    PROVE  HeartbeatInv'
<1> USE DEF Tasks
<1>1. since' = since /\ live' = live
  BY DEF BootBeep, BootAntenna, CreateCheck, TakeMutex, SkipJob, StartJob, EndPass, RunPlainJob,
         AntennaDeployed, AntennaFailed, RunSetRtc, Receive, FallThrough, TakeNoMutex, ListBegin,
         ListEnd, FindStep, SetArg, Tick, vars, memory
<1>2. \A p \in Ptr : /\ job'[p].name = job[p].name
                     /\ job'[p].exec = job[p].exec /\ job'[p].recur = job[p].recur
  <2>1. job' = job \/ \E p \in Ptr, arg \in {"garbage", "set"} : job' = [job EXCEPT ![p].arg = arg]
    <3>1. CASE RunSetRtc
      BY <3>1, CurrentListed DEF RunSetRtc
    <3>2. CASE SetArg
      BY <3>2 DEF SetArg, Undefined, Goto, IInv, TypeOK
    <3>3. CASE ~RunSetRtc /\ ~SetArg
      BY <3>3 DEF BootBeep, BootAntenna, CreateCheck, TakeMutex, SkipJob, StartJob, EndPass, RunPlainJob,
         AntennaDeployed, AntennaFailed, Receive, FallThrough, TakeNoMutex, ListBegin,
         ListEnd, FindStep, Tick, vars, memory
    <3> QED BY <3>1, <3>2, <3>3
  <2>2. job \in [Ptr -> Job]
    BY DEF IInv, TypeOK
  <2> QED BY <2>1, <2>2 DEF Job
<1>3. \A t \in Tasks : call'[t] = call[t] \/ call'[t].name # "heartbeat"
  <2>1. CASE BootBeep \/ BootAntenna \/ AntennaFailed \/ Receive \/ FallThrough
    <3>1. call' = call \/ \E t \in Tasks, name \in Names \ {"heartbeat"}, site \in Sites, ret \in Labels :
              Schedule(t, name, site, 0, ret)
      BY <2>1 DEF BootBeep, BootAntenna, AntennaFailed, Receive, FallThrough, Names, Sites, Labels
    <3>2. ASSUME NEW t \in Tasks, NEW name \in Names \ {"heartbeat"}, NEW site \in Sites, NEW ret \in Labels,
                 Schedule(t, name, site, 0, ret), NEW u \in Tasks
          PROVE  call'[u] = call[u] \/ call'[u].name # "heartbeat"
      <4>1. /\ call'[t] = [name |-> name, exec |-> (Uptime + Delay[site]) % Wrap, recur |-> 0, ret |-> ret]
            /\ u # t => call'[u] = call[u]
        BY <3>2, ScheduleNames DEF IInv
      <4>2. call'[t].name = name
        BY <4>1
      <4> QED BY <3>2, <4>1, <4>2
    <3> QED BY <3>1, <3>2
  <2>2. CASE \E t \in Tasks : CreateCheck(t)
    BY <2>2 DEF CreateCheck, NoCall, IInv, TypeOK
  <2>3. CASE ~(BootBeep \/ BootAntenna \/ AntennaFailed \/ Receive \/ FallThrough \/ \E t \in Tasks : CreateCheck(t))
    BY <2>3 DEF TakeMutex, SkipJob, StartJob, EndPass, RunPlainJob,
         AntennaDeployed, RunSetRtc, TakeNoMutex, ListBegin,
         ListEnd, FindStep, SetArg, Tick, vars
  <2> QED BY <2>1, <2>2, <2>3
<1>4. pc'["STEVE"] = "boot" => pc["STEVE"] = "boot"
  <2>1. pc \in [Tasks -> Labels]
    BY DEF IInv, TypeOK
  <2>2. CASE BootBeep \/ BootAntenna \/ AntennaFailed \/ Receive \/ FallThrough
    BY <2>1, <2>2 DEF BootBeep, BootAntenna, AntennaFailed, Receive, FallThrough, Schedule, Goto
  <2>3. CASE \E t \in Tasks : CreateCheck(t)
    BY <2>1, <2>3 DEF CreateCheck, Goto, IInv, MutexInv
  <2>4. CASE TakeMutex \/ SkipJob \/ StartJob \/ EndPass \/ RunPlainJob \/ AntennaDeployed \/ RunSetRtc
    BY <2>1, <2>4 DEF TakeMutex, SkipJob, StartJob, EndPass, RunPlainJob, AntennaDeployed, RunSetRtc,
                      Goto, Undefined
  <2>5. CASE TakeNoMutex \/ ListBegin \/ ListEnd \/ FindStep \/ SetArg \/ Tick \/ UNCHANGED vars
    BY <2>1, <2>5 DEF TakeNoMutex, ListBegin, ListEnd, FindStep, SetArg, Tick, vars, Goto, Undefined
  <2> QED BY <2>2, <2>3, <2>4, <2>5
<1>5. live \subseteq Ptr
  BY DEF IInv, TypeOK
<1> QED BY <1>1, <1>2, <1>3, <1>4, <1>5, HeartbeatFrame

\* initialize_steve starts the one call that makes a heartbeat.
LEMMA HeartbeatBegins ==
    ASSUME IInv, HeartbeatInv, InitializeSteve
    PROVE  HeartbeatInv'
<1>1. /\ pc["STEVE"] = "boot" /\ since' = now /\ UNCHANGED <<live, job>>
      /\ Schedule("STEVE", "heartbeat", "heartbeat", Delay["heartbeat"], "boot_beep")
  BY DEF InitializeSteve
<1>2. /\ call'["STEVE"].exec = (Uptime + Delay["heartbeat"]) % Wrap
      /\ call'["STEVE"].recur = Delay["heartbeat"]
      /\ call'["COMMAND"] = call["COMMAND"] /\ pc'["STEVE"] = "check"
  <2>1. "STEVE" \in Tasks /\ "COMMAND" \in Tasks
    BY DEF Tasks
  <2>2. call'["STEVE"] = [name |-> "heartbeat", exec |-> (Uptime + Delay["heartbeat"]) % Wrap,
                          recur |-> Delay["heartbeat"], ret |-> "boot_beep"]
    BY <1>1, <2>1, ScheduleNames DEF IInv
  <2>3. call'["COMMAND"] = call["COMMAND"] /\ pc'["STEVE"] = "check"
    BY <1>1, <2>1, ScheduleNames DEF IInv
  <2> QED BY <2>2, <2>3
<1>3. ~HeartbeatLive /\ ~HeartbeatLive'
  BY <1>1 DEF HeartbeatInv, HeartbeatLive
<1>4. call'["STEVE"].exec = (since' + call'["STEVE"].recur) % Wrap
  <2>1. now \in Int /\ Delay["heartbeat"] \in Int
    BY SteveAssumption DEF IInv, TypeOK, Sites
  <2>2. ((now % Wrap) + Delay["heartbeat"]) % Wrap = (now + Delay["heartbeat"]) % Wrap
    BY <2>1, WrapShift
  <2> QED BY <1>1, <1>2, <2>2 DEF Uptime
<1>5. call["COMMAND"].name # "heartbeat"
  BY DEF HeartbeatInv, Tasks
<1> QED BY <1>2, <1>3, <1>4, <1>5 DEF HeartbeatInv, HeartbeatLive, PeriodKept, Tasks

\* The append puts a job in the list with the run time its call was given.
LEMMA HeartbeatListed ==
    ASSUME IInv, HeartbeatInv, NEW t \in Tasks, CreateAppend(t)
    PROVE  HeartbeatInv'
<1>1. PICK p \in Ptr \ live :
          /\ live' = live \cup {p}
          /\ job' = [job EXCEPT ![p] = [name |-> call[t].name, exec |-> call[t].exec,
                                        recur |-> call[t].recur, arg |-> job[p].arg]]
  BY DEF CreateAppend
<1>2. /\ job'[p].name = call[t].name /\ job'[p].exec = call[t].exec /\ job'[p].recur = call[t].recur
      /\ \A q \in Ptr : q # p => job'[q] = job[q]
      /\ live \subseteq Ptr
  BY <1>1 DEF IInv, TypeOK
<1>3. /\ since' = since /\ call'[t].name = "beep"
      /\ \A u \in Tasks : u # t => call'[u] = call[u]
      /\ \/ pc'["STEVE"] # "boot" /\ pc["STEVE"] # "boot"
         \/ t = "COMMAND" /\ pc'["STEVE"] = pc["STEVE"]
  <2>1. since' = since /\ call' = [call EXCEPT ![t] = NoCall]
        /\ pc[t] = "append" /\ pc' = [pc EXCEPT ![t] = call[t].ret]
    BY DEF CreateAppend, Goto
  <2>2. call \in [Tasks -> Call] /\ pc \in [Tasks -> Labels]
    BY DEF IInv, TypeOK
  <2>3. t = "STEVE" => call[t].ret # "boot"
    BY <2>1 DEF IInv, MutexInv
  <2>4. t = "STEVE" \/ t = "COMMAND"
    BY DEF Tasks
  <2> QED BY <2>1, <2>2, <2>3, <2>4 DEF NoCall, Tasks
<1>4. CASE call[t].name = "heartbeat"
  <2>1. ~HeartbeatLive /\ t = "STEVE" /\ call[t].exec = (since + call[t].recur) % Wrap
    BY <1>4 DEF HeartbeatInv
  <2>2. \A q \in live' : job'[q].name = "heartbeat" => q = p
    BY <1>1, <1>2, <2>1 DEF HeartbeatLive
  <2>3. PeriodKept'
    BY <1>2, <1>3, <1>4, <2>1, <2>2 DEF PeriodKept
  <2>4. \A u \in Tasks : call'[u].name # "heartbeat"
    BY <1>3, <2>1 DEF HeartbeatInv, Tasks
  <2>5. pc'["STEVE"] # "boot"
    BY <1>3, <2>1
  <2> QED BY <2>2, <2>3, <2>4, <2>5 DEF HeartbeatInv
<1>5. CASE call[t].name # "heartbeat"
  <2>1. \A q \in live' : job'[q].name = "heartbeat" => q \in live /\ job'[q] = job[q]
    BY <1>1, <1>2, <1>5
  <2>2. HeartbeatLive' => HeartbeatLive
    BY <2>1 DEF HeartbeatLive
  <2>3. PeriodKept'
    BY <1>3, <2>1 DEF HeartbeatInv, PeriodKept
  <2>4. \A q, s \in live' : job'[q].name = "heartbeat" /\ job'[s].name = "heartbeat" => q = s
    BY <2>1 DEF HeartbeatInv
  <2>5. \A u \in Tasks : call'[u].name = "heartbeat" => call[u].name = "heartbeat" /\ call'[u] = call[u]
    BY <1>3
  <2>6. pc'["STEVE"] = "boot" => pc["STEVE"] = "boot"
    BY <1>3
  <2> QED BY <1>3, <2>2, <2>3, <2>4, <2>5, <2>6 DEF HeartbeatInv
<1> QED BY <1>4, <1>5

\* The job that has run waits one period from now; it is the heartbeat, or since stays.
LEMMA HeartbeatRescheduled ==
    ASSUME IInv, HeartbeatInv, Reschedule
    PROVE  HeartbeatInv'
<1>1. /\ cur \in Ptr /\ cur \in live
      /\ pc["STEVE"] = "finish" /\ pc'["STEVE"] = "scan" /\ UNCHANGED <<live, call>>
      /\ since' = IF job[cur].name = "heartbeat" THEN now ELSE since
  <2>1. cur \in Ptr /\ idx \in 0 .. jobCount - 1 /\ jobs[idx] = cur
    BY CurrentListed DEF Reschedule
  <2>2. cur \in live
    BY <2>1 DEF IInv, ListIntact, Listed
  <2> QED BY <2>1, <2>2 DEF Reschedule, Goto, IInv, TypeOK, Tasks
<1>2. /\ job'[cur].name = job[cur].name /\ job'[cur].recur = job[cur].recur
      /\ job'[cur].exec = (Uptime + job[cur].recur) % Wrap
      /\ \A p \in Ptr : p # cur => job'[p] = job[p]
      /\ live \subseteq Ptr
  BY <1>1 DEF Reschedule, IInv, TypeOK, Job
<1>3. CASE job[cur].name = "heartbeat"
  <2>1. HeartbeatLive /\ \A p \in live : job[p].name = "heartbeat" => p = cur
    BY <1>1, <1>3 DEF HeartbeatInv, HeartbeatLive
  <2>2. (Uptime + job[cur].recur) % Wrap = (now + job[cur].recur) % Wrap
    <3>1. now \in Int
      BY SteveAssumption DEF IInv, TypeOK
    <3>2. job[cur].recur \in Int
      BY <1>1, TickFacts DEF IInv, TypeOK, Job
    <3> QED BY <3>1, <3>2, WrapShift DEF Uptime
  <2>3. \A p \in live : job'[p].name = "heartbeat" => p = cur
    BY <1>2, <2>1
  <2>4. PeriodKept'
    BY <1>1, <1>2, <1>3, <2>2, <2>3 DEF PeriodKept
  <2>5. \A t \in Tasks : call'[t].name # "heartbeat"
    BY <1>1, <2>1 DEF HeartbeatInv
  <2> QED BY <1>1, <2>3, <2>4, <2>5 DEF HeartbeatInv
<1>4. CASE job[cur].name # "heartbeat"
  <2>1. \A p \in live : job'[p].name = "heartbeat" => p # cur /\ job'[p] = job[p]
    BY <1>2, <1>4
  <2>2. since' = since
    BY <1>1, <1>4
  <2>3. HeartbeatLive' => HeartbeatLive
    BY <1>1, <2>1 DEF HeartbeatLive
  <2>4. PeriodKept'
    BY <1>1, <2>1, <2>2 DEF HeartbeatInv, PeriodKept
  <2>5. \A q, s \in live' : job'[q].name = "heartbeat" /\ job'[s].name = "heartbeat" => q = s
    BY <1>1, <2>1 DEF HeartbeatInv
  <2> QED BY <1>1, <2>2, <2>3, <2>4, <2>5 DEF HeartbeatInv
<1> QED BY <1>3, <1>4

\* delete_steve_job takes a job away.
LEMMA HeartbeatDeleted ==
    ASSUME IInv, HeartbeatInv, DeleteJob
    PROVE  HeartbeatInv'
<1>1. since' = since /\ live' = live \ {cur} /\ call' = call /\ job' = [job EXCEPT ![cur] = Freed(job[cur].arg)]
  BY DEF DeleteJob
<1>2. \A p \in live' : job'[p] = job[p]
  BY <1>1 DEF IInv, TypeOK
<1>3. pc'["STEVE"] = "scan"
  BY DEF DeleteJob, Goto, IInv, TypeOK, Tasks
<1> QED BY <1>1, <1>2, <1>3, HeartbeatFrame

\* A rate change takes the old period off the run time and adds the new one.
LEMMA HeartbeatEdited ==
    ASSUME IInv, HeartbeatInv, EditRate
    PROVE  HeartbeatInv'
<1>1. UNCHANGED <<live, since, call>> /\ pc'["STEVE"] = pc["STEVE"]
  BY DEF EditRate, Goto, IInv, TypeOK, Tasks
<1>2. CASE UNCHANGED job
  BY <1>1, <1>2, HeartbeatFrame
<1>3. ASSUME NEW i \in Slots, NEW rate \in Rates, FirstNamed(i, "heartbeat"),
             job' = [job EXCEPT ![jobs[i]].exec = NewExec(job[jobs[i]], rate), ![jobs[i]].recur = rate]
      PROVE  HeartbeatInv'
  <2>1. PICK p \in Ptr : p = jobs[i] /\ p \in live /\ job[p].name = "heartbeat"
    <3>1. i \in 0 .. jobCount - 1 /\ job[jobs[i]].name = "heartbeat" /\ jobs[i] \in Ptr \cup {NULL}
      BY <1>3 DEF FirstNamed, Slots, IInv, TypeOK
    <3>2. jobs[i] # NULL
      BY <1>3 DEF FirstNamed, IInv, ListIntact
    <3> QED BY <3>1, <3>2 DEF IInv, ListIntact, Listed
  <2>2. /\ job'[p].name = "heartbeat" /\ job'[p].recur = rate /\ job'[p].exec = NewExec(job[p], rate)
        /\ \A q \in Ptr : q # p => job'[q] = job[q]
        /\ live \subseteq Ptr
    BY <1>3, <2>1 DEF IInv, TypeOK, Job
  <2>3. NewExec(job[p], rate) = (since + rate) % Wrap
    <3>1. since \in Int /\ rate \in Int /\ job[p].recur \in Int
      <4>1. job[p].recur \in Ticks
        BY DEF IInv, TypeOK, Job
      <4>2. Ticks \subseteq Int
        BY TickFacts
      <4>3. rate \in Int
        <5>1. rate \in 0 .. Wrap - 1 /\ Wrap \in Int
          BY SteveAssumption
        <5> QED BY <5>1
      <4>4. since \in Int
        <5>1. since \in 0 .. LastTick /\ LastTick \in Int
          BY SteveAssumption DEF IInv, TypeOK
        <5> QED BY <5>1
      <4> QED BY <4>1, <4>2, <4>3, <4>4
    <3>2. job[p].exec = (since + job[p].recur) % Wrap
      BY <2>1 DEF HeartbeatInv, PeriodKept
    <3> DEFINE a == since + job[p].recur
               b == rate - job[p].recur
    <3>3. a \in Int /\ b \in Int /\ a + b = since + rate
      BY <3>1
    <3>4. ((a % Wrap) + b) % Wrap = (a + b) % Wrap
      BY <3>3, WrapShift
    <3>5. job[p].exec - job[p].recur + rate = job[p].exec + b
      <4>1. job[p].exec \in Int
        BY TickFacts DEF IInv, TypeOK, Job
      <4> QED BY <3>1, <4>1
    <3> QED BY <3>2, <3>3, <3>4, <3>5 DEF NewExec
  <2>4. \A q \in live : job'[q].name = "heartbeat" => q = p
    BY <2>1, <2>2 DEF HeartbeatInv
  <2>5. PeriodKept'
    BY <1>1, <2>2, <2>3, <2>4 DEF PeriodKept
  <2>6. HeartbeatLive
    BY <2>1 DEF HeartbeatLive
  <2>7. \A t \in Tasks : call'[t].name # "heartbeat"
    BY <1>1, <2>6 DEF HeartbeatInv
  <2> QED BY <1>1, <2>4, <2>5, <2>6, <2>7 DEF HeartbeatInv
<1> QED BY <1>2, <1>3 DEF EditRate

\* Across any sequence of rate changes and runs, and whatever the two tasks interleave,
\* the heartbeat's next run is one current period after its last, however the tick
\* counter has wrapped since (edit_steve_job_recur_time, run_steve_job).
THEOREM PeriodAlwaysKept == Spec => []PeriodKept
<1>1. Init => HeartbeatInv
  BY DEF Init, HeartbeatInv, HeartbeatLive, PeriodKept, NoCall, Tasks
<1>2. IInv /\ HeartbeatInv /\ [Next]_vars => HeartbeatInv'
  BY HeartbeatRests, HeartbeatBegins, HeartbeatListed, HeartbeatRescheduled, HeartbeatDeleted, HeartbeatEdited
     DEF Next, SteveStep, CommandStep, Create, Tasks
<1>3. HeartbeatInv => PeriodKept
  BY DEF HeartbeatInv
<1> QED BY Invariance, <1>1, <1>2, <1>3, PTL DEF Spec

\* In one turn of the tick counter its values are in the order of the ticks.
LEMMA TurnOrder ==
    ASSUME NEW a \in Int, NEW b \in Int, SameTurn(a, b)
    PROVE  a % Wrap >= b % Wrap <=> a >= b
<1>1. Wrap \in Nat \ {0}
  BY SteveAssumption
<1>2. \A x \in Int : x = (Wrap * (x \div Wrap)) + (x % Wrap) /\ x % Wrap \in Int /\ x \div Wrap \in Int
  BY <1>1
<1> DEFINE r == a % Wrap
           s == b % Wrap
           q == a \div Wrap
           turns == Wrap * q
<1>3. a = turns + r /\ b = turns + s /\ r \in Int /\ s \in Int /\ q \in Int
  BY <1>2 DEF SameTurn
<1>4. turns \in Int
  BY <1>1, <1>3
<1> HIDE DEF r, s, q, turns
<1>5. r >= s <=> a >= b
  BY <1>3, <1>4
<1> QED BY <1>5 DEF r, s

\* The heartbeat keeps its period and is found due when it is over: comparing the wrapped
\* run time with the counter is comparing the ticks, as long as both are in one turn of
\* the counter (steve.c:276).
THEOREM DueExactlyOnTime == Spec => []OnTime
<1>1. TypeOK /\ PeriodKept => OnTime
  <2> SUFFICES ASSUME TypeOK, PeriodKept, NEW p \in live, job[p].name = "heartbeat",
                      SameTurn(now, since + job[p].recur)
               PROVE  Ready(p) <=> now - since >= job[p].recur
    BY DEF OnTime, DueOnTime
  <2>1. p \in Ptr /\ p # NULL /\ job[p] \in Job
    BY SteveAssumption DEF TypeOK
  <2>2. now \in Int /\ since \in Int /\ job[p].recur \in Int
    BY <2>1, SteveAssumption DEF TypeOK, Job, Ticks
  <2>3. job[p].exec = (since + job[p].recur) % Wrap
    BY DEF PeriodKept
  <2>4. now % Wrap >= (since + job[p].recur) % Wrap <=> now >= since + job[p].recur
    BY <2>2, TurnOrder
  <2>5. now >= since + job[p].recur <=> now - since >= job[p].recur
    BY <2>2
  <2> QED BY <2>1, <2>3, <2>4, <2>5 DEF Ready, Uptime
<1> QED BY TypeCorrect, PeriodAlwaysKept, <1>1, PTL

=============================================================================
