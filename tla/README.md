# Coconut flight software: a TLA+ verification project

Coconut is the flight software of a CubeSat: eight FreeRTOS tasks on an RP2040,
all at the same priority, that talk through queues, task notifications and one
shared job list. This directory models its tasks in TLA+, checks the models
with TLC on small instances and proves theorems about them with TLAPS. Paths
below are relative to the directory that holds `main/`.

## 1. Inventory

| Component | State it keeps | Operations | Interacts through | What is hard about it |
|---|---|---|---|---|
| S.T.E.V.E. scheduler (`main/tasks/steve/steve.c`) | array of job pointers, count, mutex | schedule, edit rate, find, list, delete, the pass that runs what is due | the mutex; jobs call every other component | jobs run inside the critical section; create takes the mutex twice; wrapping ticks |
| Jobs (`main/tasks/steve/jobs`) | boot count file, RTC | heartbeat, beep, antenna deployment, set RTC | scheduler, filesystem, telemetry, drivers | a job that schedules a job; arguments handed over through the list |
| File downlink (`main/tasks/file-downlink`) | command queue, window, two timers, packet size | initialize, acknowledge, change size; send, poll, go back | filesystem (reads), telemetry (packets), COMMAND task | loss, late and repeated acknowledgements, restarts, read errors |
| Command task (`main/tasks/command`) | byte queue, counters, enable flag | byte input, sync search, AX.25 mode, header and payload, about 25 handlers | everything | two byte sources, truncated packets, dropped bytes |
| Filesystem task (`main/tasks/filesystem`) | request queue, mounted volume | read, write, list, delete, mkdir, open/read directory, stat, mkfs | queue in, task notification out, out-parameters on the caller's stack | callers give up after 10 s, the request does not |
| Error log (`main/utilities/src/log.c`) | `/logs/errors.txt` | append with rotation, read the last line | runs in whichever task logs, calls the filesystem | the filesystem task logs its own errors |
| Telemetry task (`main/tasks/telemetry`) | queue, packet sequence number | `send_telemetry`, encode and forward | radio queue, UART | full queues in a cycle with the radio |
| Radio task (`main/tasks/radio`) | two chips, interrupt flags, queue, last contact | receive, transmit, scan, reset, switch, panic, deadman | interrupts, command bytes, filesystem | flags cleared after re-arming, timeouts in ms over wrapping ticks |
| Heartbeat log (`main/utilities/src/hb_tlm_log.c`) | index file, rotating log files | write, play back | filesystem, telemetry | crash between two writes, rotation |
| User storage (`main/utilities/src/user_auth.c`) | a directory per user, token, data file | add, delete, authenticate, upload | filesystem | limit arithmetic, half-made users |
| Time (`main/utilities/src/timing.c`) | epoch time, whether it was set | uptime, conversions, refreshing | clock driver, radio, every time stamp | times since boot and epoch times in one number; unsigned differences; a clock read in parts |
| Watchdog (`main/tasks/watchdog`) | notification, two timers | feed, freeze | COMMAND, filesystem | a request before the task starts |
| GSE (`main/tasks/gse`), boot (`main/tasks/main`) | little | byte forwarding, task creation, first read of the clock | all tasks | start-up order |
| Drivers (`main/drivers`) | registers, calibration, measurements | i2c reads and writes, conversions | heartbeat | failures that are not looked at, values of an earlier conversion |
| FatFs, RadioLib, FreeRTOS, simulator | media, chips | I/O | - | external or host-side; modelled by their effects |

What makes each correct, in a sentence:

- *Scheduler*: the list holds exactly the live jobs; no job is lost, run twice
  at once or after it was freed; recurring jobs keep their period; due jobs run.
- *File downlink*: the numbered packets of a transfer, put together, are the
  file; no more than a window is outstanding; every transfer ends; an
  acknowledgement acts on the transfer it was meant for.
- *Filesystem*: a caller gets the answer to its own request; requests are served
  in order and each once; every call returns.
- *Telemetry*: every packet gets the next number, and they reach the radio task
  in that order, none missing and none twice.
- *Radio*: the chip the task takes to be in use is the one that has the power and
  the interrupts; it goes on listening whatever breaks; nothing is on the air
  before a contact, and no operation of a chip is left unattended.
- *Contact*: silent in time, and not silenced early, also across resets, as far
  as the clock was read whole and the contact reached its file.
- *Command parser*: while no byte is dropped, mixed or misleading, the packets
  parsed are the packets sent. It has no timeout, and nothing brings it back from
  a packet that was cut off but more bytes.
- *Heartbeat log*: a log that loses only its oldest entries and keeps to its
  allocation, whenever a reset comes; playback goes back through it without
  gaps while it goes on.
- *User storage*: data goes to its user, within the quota, and nobody finds the
  data of a former user.
- *Heartbeat*: what it reports was measured or is marked as missing (which is not
  so for the clock's temperature, the antenna's status and disturbed currents and
  powers: finding 8); no two boots have the same number.
- *Watchdog*: a reset within a bound of the request, and none otherwise.

`PROJECT.json` lists the hazards line by line, each with the property that
covers it or the reason none does yet.

## 2. Modules

| Module | What it is |
|---|---|
| `Steve` | the scheduler with the STEVE and COMMAND tasks |
| `MCSteve` + `MCSteve.cfg`, `SteveSetRtc.cfg`, `SteveAntennaRetry.cfg` | its instances for TLC |
| `SteveProofs` | its inductive invariant and the theorems |
| `FileDownlink` | the downlink task, its queue, the channel and the ground |
| `MCFileDownlink` + `FileDownlinkAck.cfg`, `FileDownlinkStaleAck.cfg`, `FileDownlinkRequest.cfg` | its instances for TLC |
| `FileDownlinkProofs` | its inductive invariant and the theorems |
| `FileSystem` | the filesystem task, the functions its callers use, and `write_error_log` |
| `MCFileSystem` + `FileSystemLateAnswer.cfg`, `FileSystemOwnQueue.cfg` | its instances for TLC |
| `FileSystemProofs` | its inductive invariant and the theorems |
| `MCFiles` + `MCFiles.cfg` | the instances of `FileDownlink` and `FileSystem` for the passing run, one at a time |
| `Telemetry` | the telemetry task's steps and its two queues; used by the next two |
| `PacketOrder`, `PacketFifo` | the telemetry task among its neighbours, and the FIFO it implements |
| `Radio` (extends `Telemetry`) | the radio task, the two chips, and the tasks around it |
| `MCLink` + `MCLink.cfg` | the instance of `Radio` for TLC |
| `RadioProofs` | the inductive invariants and the theorems of `Radio` and of `PacketOrder`, its refinement included |
| `HbTlmLog`, `BoundedLog` | the heartbeat log and its playback, and the bounded log it implements |
| `HbTlmLogProofs` | the inductive invariant, the theorems and the refinement |
| `HeartbeatJob`, `HeartbeatJobProofs` | the heartbeat with its drivers, and boot.bin |
| `UserAuth` | the users and their storage |
| `CommandParser` | the command queue and the parser |
| `Contact` | the clock, the epoch time and the time of the last contact |
| `Watchdog` | the watchdog task and its timers |
| `BoardProofs` | the inductive invariants and the theorems of these four, which share nothing |
| `Induction` | what the proofs need to count: a least counterexample, and the values a recursion runs through |
| `MCBoard` + `MCBoard.cfg`, `HeartbeatErrors.cfg` | the instances for TLC of `PacketOrder` and of the six components from `HbTlmLog` to `Watchdog` |

The components meet as follows. `Radio` composes the radio task, the telemetry
task, and what COMMAND and the scheduler do to both, because they block on each
other. `Steve` composes STEVE and COMMAND on the mutex, `FileSystem` the
filesystem task and its callers, `FileDownlink` the downlink and the ground, to
which the filesystem is a read that may fail; `MCFiles` runs one or the other. The
seven of `MCBoard` reach each other only through values that an outer module
chooses freely (a heartbeat logs whatever came, a contact is whenever one
comes, a reset strikes at any step), so they share no variable, and the run
explores their sum and not their product.

Operators whose name ends in `_Something` (`Room_OffByOne`), or begins with `X_`
or `Y_`, are variants of the
definition that follows them, each with a plausible mistake in it. Nothing uses
them; substituted for the definition, each breaks the property `PROJECT.json`
pairs it with.

### Steve

`jobs`, `jobCount` and `mutex` are `g_steve_context`; `live` and `job` are the
heap, so that a freed job and the contents left in its memory can be told apart
from a live one; `pc`, `call`, `idx`, `cur`, `findIdx` and `found` are the
tasks' program counters and locals; `now` is the tick counter before it wraps.
`since` is a history variable: the tick the heartbeat's present wait is counted
from.

A section between a take and a give of the mutex in which nothing is visible to
the other task is one action (`CreateCheck`, `CreateAppend`, `EditRate`); a
section that runs a job or prints is several (`TakeMutex`, `SkipJob`,
`StartJob`, the job's own action, `Reschedule` or `DeleteJob`, `EndPass`).
`create_steve_job` is two actions because the code gives the mutex back between
its capacity test and the append. Undefined behaviour (a mutex handle that is
still NULL, an argument never written, a NULL pointer written through) stops
the processor or lets the task go on, whichever TLC likes. The heap is first
fit, like `heap_4`, at equal block sizes. The jobs' own work (sensors, antenna,
buzzer) is a step with no effect on the scheduler. The antenna deployment
succeeds or fails at will.

The full list and the missing job both return with the mutex held; the model
does the same, and the liveness property names the state (`Leaked`) rather than
assuming it away.

### FileDownlink

`state`, `packetSize`, `file`, `tid`, `start`, `index` and `reachedEof` are
`current_file_downlink_data`; `window_end` is always written together with
`window_start`, so it is the operator `WindowEnd`. A round of the task's loop
is two actions, the send and the poll of the queue, because commands arrive
while a packet is being sent. `ageExp` and `ageAck` are the times since the two
timers were set, as the code computes them: past `MaxAge` the 32-bit product in
`ticks_to_ms` overflows and starts again at 0 (`Older`), and so does the uptime
in ms every 4.8 hours, which makes a time measured across that moment any number
(`RollOver`). At rest the task looks at neither timer before it sets it, and time
stands still for them. `transfer`, `sent` and `ackedBy` are history. A packet is the record of its numbers, not its bytes: what the ground
can get wrong is which part of which file it was sent.

The channel loses a packet (`got'` in `SendPacket` may stay as it is); the
ground acknowledges any number with any id, for any transfer it holds a packet
of, at any later time and as often as it likes. It may ask for new transfers and
new packet sizes at any point.

Sequence numbers have 16 bits in the code and are unbounded here: no transfer
gets past its first window (see the first finding below), so no number comes
near the limit.

### FileSystem

Every task that uses the filesystem, the filesystem task among them, is in one
of few places (`at`): idle, putting an operation in the queue, or waiting for
its notification. `ask` says which operation, and in which function: a
function that makes several (`read_file_offset`: stat, then read;
`write_error_log`: stat, mkdir, write, or stat, stat, read, write) goes from one
to the next by `Following`. `notes` is the notification value of the task,
which `ulTaskNotifyTake` returns and clears, and which counts as an answer only
when it is exactly 1. The answer proper is written through pointers into the
caller's frame (`frame`). When a call returns, by answer or timeout, whatever it
left in the queue has pointers to a dead frame (`live` becomes FALSE); the
model lets such a write reach the frame of the caller's present call, or
nothing.

`Perform` takes an operation from the queue and chooses its outcome: the
result, the number of errors it logs (a read may log two) and what becomes of
the directory `/logs`. Each error sends the filesystem task itself through
`write_error_log` before it gives the answer. The contents of files are not
modelled. `own` and `gaveUp` are history.

There is no clock: a wait can time out whenever it has not been notified. The
filesystem task's own wait always can, since it would have to notify itself.

### Telemetry, PacketOrder, PacketFifo

`telemetry_queue` holds what waits for the task, a log line or telemetry, and
`radio_queue` the radio task's operations; `telemetry_at` is where the task is,
`packet` the number of the packet in its hand. A send to a full queue waits
(the guard of `send_telemetry` and `RadioQueueSend`), one to a queue that does
not exist yet is lost. `PacketOrder` adds everyone who sends, the radio task
that takes, and resets; `PacketFifo` is the abstract FIFO. The refinement maps
its channel to the numbered packets in the radio queue followed by the one in
hand, so the numbering is the abstract `Put`, and the hand-over is a stutter
(or, before the radio has its queue, a `Lose`).

### Radio

`radio_at` is the place in `init_radio` or in the loop of `radio_task_cpp`;
`ret` is where a panic or a log line goes back to, since both are calls that may
take long. One action of the loop is a stretch of code between two places at
which an interrupt, another task or a wait could matter. The interrupt handlers
only set flags; `ClearFlags` is two steps because an interrupt between them is
kept while one before is lost. `hw` is what the chip with power is doing,
`works` which chips work; a chip that breaks, breaks for good. Receive and
transmit timeouts and the interval between panics are nondeterministic, with
fairness.

`contact` classifies the time of the last contact; `copy` is the copy
`radio_task_cpp` makes before the log line that may wait. `deploy_antenna_job`
is there because it calls `radio_flag_valid_packet` at its end. `Reset` stands
for the watchdog and for the fault in the handler of `RADIO_SET_MODE`, whose
call of `xTaskNotifyIndexed` has two arguments exchanged (command.c:248). For
the same reason the mode is always the safe one.

The radio task waiting for room in the telemetry queue while the telemetry task
waits for room in the radio queue is a real deadlock (`Cycle`); the two liveness
properties except it by name.

### HbTlmLog, BoundedLog

`files` holds the numbers of the heartbeats in each file; `f_info` and
`readable` what `f_info.bin` holds and whether it can be read; `hb_at`, `info`
the place and the locals of `log_heartbeat_tlm`; `play_*` those of
`hb_tlm_playback`. One action is one operation of the filesystem task, so
playback and logging interleave as in the code, and a reset comes between any
two. The refinement maps the abstract log to the set of all heartbeats in any
file: logging appends, deleting the oldest file drops the oldest, and never
below `(AllocFiles - 2) * PerFile` of them.

### UserAuth

One action is one operation of the filesystem task; `auth_at` is the place in
`add_user`, `delete_user`, or `get_user` and `upload_user_data`. Directories
and token files are separate state because a reset may come between them.
`token_buffer` is a local the code does not initialise. Sizes count modulo
`Width` because `buf_size` has 16 bits.

### CommandParser

`byte_queue` is `command_byte_queue`; `left` is what each source has still to
put in it; the rest are the locals of `command_task`. The alphabet is small,
but a byte may be part of the sync word, the AX.25 flag, a header and the admin
token at once, which is what can go wrong. There may be no memory for a payload
(`ReadHeader`), which leaves the parser searching in it. `clean`, `sent` and
`parsed` are history: they say which packets must come out, as long as no byte
was dropped, mixed with the other source's or misleading and every payload got
its memory; `Muddle` is where that ends, and `BeginAnew` starts the history again
where the line is quiet and the parser is back at the beginning of its search. A
packet cut off or a byte lost leaves it in a header or a payload, and it stays there
until more bytes come, which may be the next packet's; nothing is said of that.

`Inputs` is what the sources may send, anything at all. Of it, `Packets` are
commands made as the ground makes them (`IsPacket`), and `Fill` is what may stand
between them and keep the parser in step: a whole frame, or bytes without a flag,
that match no sync word on their way and no part of one at their end
(`NeverSyncs`). Everything else muddles.

### Contact

Time is counted in units, and true time, the clock's error and the boot are kept
apart. Numbers below `Epoch` are times since boot and others are epoch times, which
is how the code tells them apart. A time is the sum of six fields, each of which
stays for `FieldLength` and then turns; the calendar is no more than that here.

The fields are read one by one, in main's order at boot and in the heartbeat's later,
and time may pass between any two. What they add up to is the epoch time, whatever it
is; a read is `Torn` when the sum is no time between its beginning and its end, which
a turn of a second, a minute or a year can make it. `honest` is history: no read was
torn, none failed, and the clock was not set wrong.

`contact_at` walks through the end of `init_radio`: the time in radio.bin is read
(`ReadContact`), compared and taken for the last contact (`SetContact`), or
radio.bin is created (`CreateContact`). `radio_flag_valid_packet` has no guard but
that main has read the clock, so a contact may be marked at any of these steps and is
then lost to the older time in the file: `forgotten` says so. `writes` is what
`write_file` has put in the filesystem task's queue for radio.bin; a write may fail,
which nobody is told, and a reset drops it or leaves it half done. `record` is
history: whether the last contact is in the file.

### HeartbeatJob

`step` walks through `Steps`, the calls of the job in their order; each read may
fail. A measured value is the number of the heartbeat in which it was measured,
so that a value left over from an earlier one, or from the stack, shows. There
is one current monitor for the six alike. A conversion of the thermometers has no
guard: with a heartbeat rate shorter than the 750 ms it takes, it is started while
one is under way, and a probe is taken to begin anew then; `recent` holds the
heartbeats a temperature may be of (the last conversion, and those back to the last
one that ended in all probes). The clock stands still here but for being set: its
turning between two reads is `Contact`'s. The registers of the clock are
encoded and decoded as in the driver, at full width. `boot_writes` is what the
filesystem task has still to do to boot.bin, in its order, and a reset may come
at any point of it.

### Watchdog

The task with its delay, the notification, the timer of the processor and the
one on the pin. `Lag` bounds how long a task that is ready waits for its turn.

## 3. Runs, bounds and what they show

`steve` - `MAX_JOBS` 4 (three usable), five heap blocks, ticks modulo 3 for
three ticks, two ground commands. This is enough for: a full list reached and
refused; two creators between test and append; a deletion that moves a job
while a pass goes on; a recycled block; the wrap of the tick counter with a job
due on either side; and two commands of every kind in every order with the boot
sequence. Properties: `TypeOK`, `ArrayBounded`, `ListIntact`, `CurrentAtIndex`,
`OnTime`, `LeavesOnlyWhenRun`, and under fairness `DueJobsRun`. Deadlock is
not checked: with the ground silent, time at its bound and the mutex leaked or
the processor stopped, the model really stops.

`steve_set_rtc`, `steve_antenna_retry` - what the code says of the argument of a
job and of the retry of the antenna is not so; the counterexamples are short.

`files` - the file downlink or the filesystem task, one in each behaviour; the one
that stands still has one beginning.

- *downlink*: files of 2 and 3 bytes, packets of up to 3 bytes, windows of 2, sizes
  0, 1, 2 and 4 (too large), two transfers, two other commands or new starts of the
  uptime in ms, a window timeout of 4 ms and a transfer timeout of 8 ms at 4 ms a
  tick, and times that overflow past 2 ms. Packets of 2 and of 3 bytes each end one
  of the files full and the other short; in packets of 1 the longer file takes more
  than a window. Enough for: go-back, a packet size of zero, a transfer replaced in
  mid-window, late, repeated and foreign acknowledgements, and either timer read
  across a new start of the uptime. `TypeOK`, `PacketsTile`, `EofEndsFile`,
  `FileReassembles`, `WindowRespected`, and under fairness `TransferEnds`.
- *filesystem*: one ordinary caller and the filesystem task as its own second
  caller, a queue of 3 (64 in the code), and one call of each shape: a read (stat
  and read), a directory listing (an answer and an error log), a deletion (no
  answer), a logged error. The number of calls is not bounded. A queue of 3 holds
  a whole pass of the error log, and fills both with what the caller leaves
  behind and with what the filesystem task puts there. `FsTypeOK`,
  `AnswerComing`, `OneAnswerEach`, `OrderKept`, `NoReadInFs`, and under fairness
  `FilesystemReturns`: each round of the task ends; that rounds do not repeat an
  error for ever is not said.

Deadlock is not checked: with the filesystem task blocked on its own queue,
everything stops, which `filesystem_own_queue` shows.

`file_downlink_ack`, `file_downlink_stale_ack`, `file_downlink_request` - the
header and the comments describe a sender that goes on after an
acknowledgement, knows its transactions apart and starts what it accepts. The
code does not; each run finds the shortest way to see it.

`filesystem_late_answer`, `filesystem_own_queue` - the answer that belongs to an
abandoned operation, and the filesystem task waiting for room in its queue.

`link` - `Radio` with queues of one entry (so every wait for room happens, and
the cycle), one chip that may break, all four operations the ground may ask for,
packets that all have one number (their order is `PacketOrder`'s), and resets,
panics and interrupts without a bound. Properties: `RadioReady`,
`SilentUntilHeard`, `Attended`, and under `RadioFairSpec` `HearsAgain` and
`QueueMoves`. Deadlock is not checked, because the cycle is one.

`board` - the seven components of `MCBoard`, each alone:

- *telemetry*: queues of two and numbers modulo four: a full queue on either
  side, the wrap, operations between packets. `PacketsInOrder`.
- *heartbeat log*: files of two heartbeats, three files, indices modulo four, so
  that the index wraps and the oldest file is deleted several times in nine
  heartbeats; one reset; two heartbeats during a playback; playbacks of every
  heartbeat with a step back, of every second, and with a step of zero.
  `NoFileLeaks`, `LogFits`, `KeepsNewest`, `PlaybackDescends`, `PlaybackBegins`.
- *users*: two users, two tokens, a quota of three and uploads of at most two,
  calls and resets without a bound: an upload is cut, refused, and written over
  the remainder of the quota. `QuotaKept`, `UploadsGoHome`, `FreshStart`.
- *command*: three packets (one that asks for an acknowledgement, AX25_ON_OFF by
  an admin and by someone else), frames, one of them with the beginning of the sync
  word inside, bytes that begin a sync word, a queue of one byte; two packets
  between quiet moments. `ParsesWhatWasSent`,
  `EchoNeedsAdmin`.
- *time*: seconds of one unit, minutes of two, and so on to years of 32, of which one
  ends after four of the seven units, so that any field may turn between two reads of
  one reading; a deadman time of four, resets and contacts at any step, those of
  `init_radio` among them, a clock that may be set wrong: the contact grows old in one
  boot and across several. Contacts come up to the fourth unit (`LastHeard`): late
  enough for a second save, early enough for the deadman time and two heartbeats to
  pass after the first. The run goes no further once the clock is not `honest`, since
  both properties hold then whatever comes, and what is written to radio.bin is
  written, or fails, within a unit of time. `SilentInTime`, `NotSilencedEarly`.
- *heartbeat*: three heartbeats, two resets, one failed read, one setting of the
  clock (an evening at the end of a year), heartbeats that follow each other before a
  conversion is over. `ReportedAsRead`, `BootsHaveOwnNumber`.
- *watchdog*: a request at any time, before and after the task starts.
  `ResetsWhenAsked`.

Deadlock is not checked: where a component's counters reach their bound, it
stops. None of these bounds is in the code but those of the queues, files and
quota, which are smaller here.

`heartbeat_errors` - the heartbeat of `board` alone: a field whose read failed is not
always sent as the mark of an error, as the documentation has it (finding 8).

### Fairness

All tasks have the same priority and the kernel slices time between them, so a
step that stays possible is taken: weak fairness of each task's steps; a wait
with a timeout ends. The tick
interrupt keeps counting. The ground owes nothing: no command, acknowledgement
or request is fair. `TransferEnds` excepts behaviours in which the task is kept
from looking at its timer for more than a window timeout, or that timer seems to
say so after a new start of the uptime, since fairness promises it a turn but not
a deadline.

`RadioFairness` is strong: each task's step is possible again and again but not
always, since it waits for room in a queue the other empties, and FreeRTOS wakes
the waiting task of a queue in its turn. Four cases of the radio task have
fairness of their own. An operation of a chip that does not end is found late
(its limit is five seconds); a satellite that hears nothing panics in the end;
and the loop does not find every reception late and every scan over at just the
moment it looks. `Send` is fair because the scheduler's heartbeats never stop.
The interrupts, the ground, the failures and the resets owe nothing.

### Findings

1. `antenna_deploy_job.c:21`: the retry of a failed antenna deployment waits for
   the mutex its own task holds; the scheduler stops.
2. `command.c:271`: `SET_RTC_TIME` stores the argument of its job after
   scheduling it, without the mutex.
3. `file_downlink.c:262`: the test for the end of a transfer is inverted, so the
   acknowledgement of a window ends the transfer.
4. `file_downlink.c:150`: the transaction id is never incremented.
5. `file_downlink.c:209`: a request consumed in the round of a read error is
   lost.
6. `filesystem.c:76`: after a timeout the next call takes the late notification
   for its own answer.
7. `log.c:88`: the filesystem task logs its errors through its own queue and
   may wait for ever for room in it.
8. `heartbeat_job.c:117`: a value that could not be read is sent as what the stack
   held (the clock's temperature; the antenna's status, `vega_ant.c:17`, whose
   success and failure are exchanged), or as what a current monitor without its
   calibration computes (`ina219.c:186-230`), where `docs/DOCS.md:234` says that
   such values "are set to max values".

### Observations

What else the models were written to do because the code does it, and that a
reader may not expect. None is a finding with a run of its own: we found no statement
in the repository that a property could take as the opposite, or the state is
excepted by name in a property, or it is beside a finding above.

- `steve.c:276`: a run time past the wrap of the tick counter is due at once, so
  that in the last period before the wrap (after 198 days) a recurring job runs in
  every pass and does not "wait a specified time" (`steve.c:28`); one that is still
  to run when the counter wraps is not due until the counter is there again.
  `OnTime` excepts both (`SameTurn`).
- `radio.cpp:161`, `telemetry.c:70`: the cycle of the two full queues (`Cycle`).
- `command.c:248`: the arguments of `xTaskNotifyIndexed` are exchanged, so
  RADIO_SET_MODE faults and the fast mode is never used.
- `radio.cpp:698-700`: an interrupt between the two clears is taken for the end
  of the next operation: a transmission that has just begun is cut short, and a
  received packet may be lost.
- `antenna_deploy_job.c:26`: a finished antenna job is a contact. With
  `vega_ant.c:17`, which reports success as failure, it finishes exactly when
  the antenna does not answer, and asks for a retry (finding 1) when it does.
- `radio.cpp:99`: the comment says eight days, the value is seven.
- `radio.cpp:216-229`: a contact in the first five minutes of a boot is not
  saved. Whether a save worked is not looked at, and the next is five minutes away.
- `radio.cpp:506`: `init_radio` takes the time it has read in radio.bin for the last
  contact, although a packet, of the USB UART too, may have been a contact since
  (`command.c` calls `radio_flag_valid_packet` for any source). If the time in the
  file is more than seven days old, a satellite that has just been heard is silent.
  `NotSilencedEarly` excepts it (`forgotten`).
- `heartbeat_job.c:104-120`, `main.c:64-67`: the clock is read in six transactions, in
  the heartbeat with the hour first. An hour that turns between the reads of hour and
  minute makes the epoch time an hour wrong until the next heartbeat, a new year
  between month and year a year. A contact marked then is in the future or the past
  by as much. Both properties of the contact except it (`honest`).
- `timing.c:118-127`: differences are unsigned. A contact that seems to lie in
  the future (a torn read of the clock, a clock set back) silences the satellite
  until the clock is past it; at a boot with a failed read of the clock the
  saved contact becomes the present, which re-arms the seven days.
- `hb_tlm_log.c:65`: a reset while `f_info.bin` is rewritten leaves it empty, and
  no heartbeat is logged again. A reset after the append and before the save
  makes a file longer than a playback can read, which then starts in the middle
  of an entry.
- `hb_tlm_log.c:113`: a playback between the rotation and the next heartbeat
  ends with status 3, which `hb_tlm_log.h:25` does not list.
- `user_auth.c:32`: a user whose making was cut short exists and has no token;
  `add_user` leaves it so. `user_auth.c:148`: an upload that does not fit the
  rest of the quota is not cut to it; nothing of it is stored, and the function
  returns 0.
- `command.c:386-390`: the byte that ends a false start of the sync word is not
  tried as the beginning of one. `command.c:431-451`: the parser waits for the rest
  of a header or payload without a timeout (the comment at 459 asks for one), so a
  packet that was cut off, or lost a byte, swallows the beginning of the next.
  `command.c:317-324`: AX25_ON_OFF always ends with the echo on.
- `ds18b20.c`: temperatures are those of the conversion before,
  since the wait of a tenth of a second is shorter than a conversion, although
  `ds18b20.h:48` has it that the values are those just converted. With a heartbeat
  rate shorter than a conversion (`command.c:114` takes any) each starts it anew, and
  temperatures may grow older without limit. A battery that cannot be read is sent
  as -1 (a float), which `ErrorsAreMarked` takes for a mark.
- `watchdog.c:64`: `WATCHDOG_CONNECTED_TASKS` is 0, so a task that hangs is not
  noticed.

## 4. What is proved

`SteveProofs` proves, for every value of the constants that satisfies
`SteveAssumption` and for any number of commands and ticks:

- `TypeCorrect`: `Spec => []TypeOK`;
- `ArrayNeverOverflows`: `Spec => []ArrayBounded`;
- `ListAlwaysIntact`: `Spec => []ListIntact`;
- `CurrentKeepsSlot`: `Spec => []CurrentAtIndex`;
- `NoJobLost`: `Spec => LeavesOnlyWhenRun`;
- `PeriodAlwaysKept`: `Spec => []PeriodKept`, for any wrap of the tick counter;
- `DueExactlyOnTime`: `Spec => []OnTime`.

They follow from one inductive invariant, `IInv`, the conjunction of `TypeOK`,
`RoomInv`, `MutexInv`, `ListIntact` and `CurrentAtIndex`. None of the last two
is inductive alone. The append writes at `jobCount` without testing it again,
so it needs `RoomInv`: the tasks that have passed the test and not yet appended,
plus the jobs in the list, fit the array. There are two tasks and the test
leaves one slot free, which is why `MAX_JOBS - 1` and not `MAX_JOBS` is the
right limit. The deletion and the append do not disturb each other because each
needs the mutex, which is `MutexInv`: while STEVE is in its pass the mutex is
STEVE's. `CurrentAtIndex` is what makes the deletion remove the right slot.
There is one lemma per group of actions and one step per action in it.

`PeriodAlwaysKept` has an invariant of its own, `HeartbeatInv`. A change of rate
rolls the run time back by the old period before it adds the new one, so it is
right only if the run time was one period after a known moment, and only if the
job it finds is the one heartbeat there is. `HeartbeatInv` says both, and for
the call that creates the job as well. All sums are modulo `Wrap`; the lemma
`WrapShift`, that a part of a sum may be reduced first, is the whole of the
arithmetic. `DueExactlyOnTime` adds `TurnOrder`: in one turn of the counter wrapped
values are in the order of the ticks, so that the code's comparison is then the
right one.

`FileDownlinkProofs` proves, for every set of files of any length, every window,
packet size and queue length, and any number of transfers, commands and losses:

- `TypeCorrect`: `Spec => []TypeOK`;
- `LastPacketEndsFile`: `Spec => []EofEndsFile`;
- `FileTiled`: `Spec => []PacketsTile`;
- `FileIsWhole`: `Spec => []FileReassembles`;
- `WindowKept`: `Spec => WindowRespected`.

The invariant is `TypeOK`, `CutInv`, `IndexInv` and `EofEndsFile`. A packet's
place in the file is its number times the packet size, which the ground may
change; `PacketsTile` by itself says nothing of the packet that comes next.
`CutInv` says that all packets of the transfer are cut to one size, and that it
is the present size for as long as the transfer goes on: the size command is
taken while nothing is being sent only. `IndexInv`, the next packet is not before
the window, gives `WindowKept` with the condition of the send.

`FileIsWhole` is the promise of the transfer: once the ground has the packet
marked as the last and all before it, in whatever order and however often, their
bytes add up to the file. `GotInv` carries `CutInv` from the packets of the
transfer that goes on to all the ground holds, so it outlives the transfer and
later changes of size. From it the packets up to a number are as many bytes as
that number of packet sizes, or the whole file (`PacketsUpTo`). The sum is over
a set, and is unfolded from its definition (`SumOfBytes`): a least number for
which the closed form fails has one before it for which it holds.

`FileSystemProofs` proves, for any number of callers, any set of calls and any
length of the queue:

- `TypeCorrect`: `FsSpec => []FsTypeOK`;
- `NoCallForgotten`: `FsSpec => []AnswerComing`;
- `OneAnswer`: `FsSpec => []OneAnswerEach`;
- `OrderPreserved`: `FsSpec => []OrderKept`;
- `FsNeverReads`: `FsSpec => []NoReadInFs`.

The invariant adds three parts to `FsTypeOK`, `OrderKept` and `AnswerComing`.
`WaitInv`: only a call that waits has an operation whose pointers are valid, so
a task has nothing awaited in the queue when it sends its next operation; this
is why that one is behind everything else of its task. `OneInv`, for a caller
that has never given up: all it still has coming is one answer, which is in the
queue, in service or given, and there is no second one behind it (here
`OrderKept` is needed). `LogInv`: when the filesystem task stats the log in
`write_error_log`, it has no notification left and can get none, so its stat
times out and it never reads the log; that is `FsNeverReads`.

`RadioProofs` proves, for queues of any length, any operations of the ground and
any chips that may break:

- `ReadyAfterSwitch`: `RadioSpec => []RadioReady`;
- `SilentBeforeContact`: `RadioSpec => []SilentUntilHeard`;
- `NoneUnattended`: `RadioSpec => []Attended`.

`RadioReady` is not inductive where a switch is under way. `ReturnInv` says where
a panic or a log line may go back to, and `SwitchInv` what the handlers and the
power are in those places. `ContactInv` carries the deadman check over the log
line and the retries, `BootInv` over the boot, where the time is not loaded yet.
`Attended` needs `ReceiveInv`: a flag left by the interrupt between the two
clears cannot be a preamble while the chip receives.

- `PacketsStayInOrder`: `OrderSpec => PacketsInOrder`, for queues of any length and any
  modulus of the numbers.

This one is about `PacketOrder`: the channel of the abstract FIFO is the numbers
in the radio queue, without the operations that have none, and then the packet
in the telemetry task's hand. `NumbersIn` finds them by a recursion along the
queue, so that an append, or taking the first away, has to be carried through
it: `NumbersAre` says that a recursion over the queue exists
(`Recursion` in `Induction`), `NumbersAppend` and `NumbersTail` what the two do
to its last value. Each action is then a step of `PacketFifo` or a stutter.

`HbTlmLogProofs` proves, for files of any size, any number of files and indices,
any number of heartbeats, playbacks and resets:

- `RingLeaksNoFile`: `HbSpec => []NoFileLeaks`;
- `LogKeepsToAllocation`: `HbSpec => []LogFits`;
- `RingImplementsBoundedLog`: `HbSpec => KeepsNewest`.

None of these is inductive, and each needs what the others do. `InfoInv`:
the count of full files in f_info.bin is the distance around the ring from the
oldest file to the present one. `PlaceInv`: what the job holds of f_info.bin at
each step, in particular that after a deletion f_info.bin still names a file
that is gone, until it is saved. `RingInv`: only the files of that distance are
in use, and those between are full. `OrderInv` and `ClosedInv`: the heartbeats
in the files follow each other without a gap up to the last one logged.
`SizeInv`: the heartbeats from one file on are as many as full files hold, and
one more for each reset that came between an append and its save, which is where
a file gets one too many. The refinement follows: a deletion takes all of the
oldest file (`LogDeleteDrops`), and what stays is an interval, whose cardinality
is counted (`LogDeleteKeeps`).

Two more are about the playback, in any interleaving with the logging:

- `PlaybackGoesBack`: `HbSpec => []PlaybackDescends`;
- `PlaybackStartsThere`: `HbSpec => []PlaybackBegins`.

They have a hypothesis, `NoLap`: fewer heartbeats are logged during one playback
than fill the indices no file uses. The code numbers files in 16 bits, so over
65 000 files would have to be filled while one playback reads the ten of the
allocation. It is needed: where it fails, the present file comes around to the
index the playback was about to read, and TLC finds `PlaybackDescends` violated.
`MaxMeanwhile`, the bound of the heartbeats during a playback, is the one bound
of TLC a theorem speaks of.

The invariant is `PlayInv`. `CountInv` counts what was logged since the playback
read f_info.bin. `TraceInv` follows the present file since then: it has not come
around to the files still to be read, and each file it left is full. `ReadInv`
says that the file to be read next, where it is still there, ends with the
heartbeat before the oldest one of the file read last (`Adjacent`), and `SentInv`
that what was sent is every `every_x`-th going back from `go_back_x` before the
last one logged, at the start or up to the read. `SentAfter`, the loop over one
file, is a recursion along the file, so `SentIs` takes from `Recursion` that it
has a value and `CountStep` does one turn of the loop.

`HeartbeatJobProofs` proves, for any number of heartbeats, failures and resets,

- `BootsTellApart`: `HeartbeatSpec => []BootsHaveOwnNumber`;
- `FieldsAreAsRead`: every field of a heartbeat holds what was read in it or the mark
  of a failed read, but for the exceptions below; its temperatures are of the
  conversion before or of one no probe has outlived, and its epoch time is of a time
  read whole;
- `ReportIsAsRead`: `HeartbeatSpec => []ReportedAsRead`, which adds that the fields of
  the time are the clock's, if the ground sets it to times of a calendar.

What they except is what `heartbeat_errors` shows: `rtcTemp` and `vega_ant_status` may
hold what was on the stack, and a current or a power anything when its calibration
failed or a brown-out undid it.

For the first, `CountInv`: as long as the
count is not lost, boot.bin holds no less than any number that was ever settled
there, and the present number is above those and either on disk or the one
number on its way to it.

The other two go along the steps of the job. `FieldInv`: a field that has been
read may hold what `MayHold` says. `LeftInv`: the two fields that may keep what they
hold were written by nothing before they are read. `CalibrationInv`: a current or a
power is only read after a calibration, unless that failed or a brown-out undid
it. `ProbeInv`: what a thermometer shows is of `recent`, whether or not its
conversion is over and however often it was started anew. `ClockInv` is apart from the
rest because it needs the hypothesis `GivenIn24h`: the hour below 24 and the month at
most 12. rtc_ds3231.c:25 asks for "24h time" and nothing tests it, since
`SET_RTC_TIME` passes on what the ground sent. With it, `DecodeEncode` says that
the registers read back as what was written.

`BoardProofs` holds the proofs of four components that share nothing.

*UserAuth*, for any users, tokens, quota, write limit and word width
that satisfy `UserAuthAssumption`, with resets between any two operations:

- `QuotaNeverPassed`: `AuthSpec => []QuotaKept`;
- `NoDataInherited`: `AuthSpec => FreshStart`;
- `UploadsReachTheirUser`: `AuthSpec => UploadsGoHome`.

`HomeInv`: data is only where there is a directory, and a directory is made only
where there is none. `FoundInv`: past its search, an upload has found a user
with the token it was given, or with none. `SizeInv`: the size that was read is
still that of the file when the upload writes, and below the quota. The lemma
`WrappedIsTooLong` does the rest: the difference with its sign reversed wraps to
more than `write_file` takes, so an upload that does not fit stores nothing.

*CommandParser*: `EchoOnlyForAdmin`: `CommandSpec => []EchoNeedsAdmin`,
for any bytes, sources and queue: the frame state is entered only with the echo
on, which only an admin's packet sets. And, for any sync word, packets, fill,
queue and number of packets:

- `StreamInvariance`: `CommandSpec => []StreamIInv`;
- `WhatIsSentIsParsed`: `CommandSpec => []ParsesWhatWasSent`.

The bytes still to be parsed are those in the queue and, behind them, those the
one source that is sending has left. `StreamInv` gives each of them a label: the
input it belongs to, its place in that input, and how many packets were sent up
to it. Labels next to each other are of places next to each other in one input,
or of the end of one input and the beginning of another; the last is the end of
an input, the last one sent. The label of the first byte says where the parser
is: which of its states, how much of the sync word, header or payload it has and
what it remembers of them (`InPacket`, `InFill`), and how many packets it has
parsed. A step of the parser takes the first label away and moves to the state
the next one calls for; a byte put in the queue changes no label, since queue and
remainder are one stream; an input that begins adds its labels at the end. So the
splitting of the bytes into packets is never computed, and no induction over
them is needed. `PrefixInv` says that what is parsed is a beginning of what was
sent, and the two agree in length when the stream is empty. What the theorem
assumes of `Packets` and `Fill` is in `CommandParserAssumption`, which TLC
evaluates.

*Contact*, for any intervals that satisfy `ContactAssumption`, with a reset at
any moment:

- `SilencedByDeadman`: `TimeSpec => []SilentInTime`;
- `HeardIsNotSilenced`: `TimeSpec => []NotSilencedEarly`.

The true time of the last contact is seen through three others: the time the
radio task holds, the one it saved, and the epoch time it compares them with,
each older than it should be by up to a heartbeat. `PaceInv`: a reading of the clock
begins no later than a heartbeat after the last. `ClockInv`: while the clock is
`honest` the epoch time is no more than two heartbeats old and never ahead, since a
reading that is not torn is of a moment of its own. `TimesInv`: none of the times held,
saved, waiting to be written or in radio.bin is after the contact (`NotAfter`, which
gives the first theorem). `RecordInv`: a contact that is "kept" is in the file, and one
that is "saving" is the last thing to be written to it, not long before the true one
(`Remembered`). `LoadInv`: until a contact is marked, `init_radio` finds what was kept,
and from then on, or when it is done, the time held is not long before the contact
unless it was `forgotten`. These give the second. The clauses hold while the clock is `honest`; what happens otherwise is among the observations.

*Watchdog*: `ResetInTimeOnly`: `WatchdogSpec => []ResetsWhenAsked`, for
any delay, timeouts and lag of `WatchdogAssumption`. The invariant relates what
is left of each timer to where the task is in its round, and the time since the
request to both: it says how old the request may be in each place.

`Induction` is the part of the library the provers here cannot use. The
induction theorems of the library take an operator as a parameter; `LeastNat` and
`UpTo` take a set instead, and `Recursion` says that a sequence of values exists
whose every value is made from the one before, for a sequence of functions.

The constants are assumed to satisfy the named assumption of their module, which
says little more than that they are what their names say; TLC evaluates each in
the run of that module. The bounds among them (commands, ticks, transfers,
resets) hold back the models of TLC; the proofs never use their values, but for
`MaxMeanwhile` in `NoLap`.

Only model-checked: liveness under fairness, which is out of the prover's reach
(`DueJobsRun`, `TransferEnds`, `FilesystemReturns`, `HearsAgain`, `QueueMoves`). Every
invariant and every action property a passing run checks is a theorem.

Everything the theorems say was checked by TLC first.

## 5. What is left

In order of what it would add:

1. The SPI memory and `diskio.c` below the filesystem, so that the atomicity of
   its operations is shown and not assumed.
2. The conversion of commanded rates in `timing.c:14` at 32 bits; `Steve` takes any
   number of ticks it may come to.

## 6. What is not modelled

- The SPI memory, `diskio.c` and FatFs: operations of the filesystem task are
  atomic but for writes a reset cuts short, and their medium fails only where
  `FileSystem` says so.
- The registers of the two radio chips and RadioLib: present as the states and
  interrupts of `Radio`. The fast mode, which no command reaches.
- The FreeRTOS kernel: present as what queues, mutexes, notifications and equal
  priorities guarantee. Stack and heap limits, and memory errors (an
  unterminated buffer in `log.c:107`, a file left open at `filesystem.c:345`, the
  data of an acknowledgement that is never freed).
- The text of log messages, the bytes of telemetry packets, and the calendar.
- Commands that only pass their arguments to functions modelled elsewhere.
- The simulator, the tests, the fuzz target, build files and debug scripts:
  host-side, with no flight behaviour.
