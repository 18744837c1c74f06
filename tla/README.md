# Verification of railway_trio

`src/TL_System/railway_trio` is the on-board program of a railway radio test
system. A ground station books test calls on a train; the on-board unit makes
the calls at the booked times, records a trace of the modem, and uploads the
trace. This directory models the parts of it that decide something, checks them
with TLC on small instances and proves the safety properties with TLAPS for
every instance. Paths below are relative to `src/TL_System/railway_trio`.

## 1. The system

The rest of the repository (GAir, bshadow, cstock, sunup, trainer, ...) holds
unrelated programs, vendored firmware and data; `railway_trio_p` is an older
copy of `railway_trio`. What follows is the inventory of `railway_trio`.

| component | source | state | operations |
|---|---|---|---|
| task queue | `client/client_task_queue.c` | `tt`, a memory-mapped file of `QUEUE_SIZE` slots, kept over restarts | look-ups, `check_new_task`, `update_task`, `del_task` |
| task handlers | `client/remote_client_task_event.c` | `sync_task` | frames 200, 202, 205, 208, 211, 212; timed start and stop |
| upload | `client/remote_client_upload_event.c` | cache of `get_uploading_task`, `no_file_check`, fragment positions | periodic check, 300, 301, 303 to 305, 311 |
| event loop of the client | `client/client_connection.c`, `client/remote_client_event.c` | select sets | `process_task_queue`, `clients_data_changed` |
| telephone control | `client/local_client_event.c` | `tele`, `hanup_latest`, `dial_first`, `dial_deadline` | start and stop of trace and call, dial timer, replies |
| link to the ground | `client/remote_client_connection.c` | `remote_fd`, partial frame | connect in a thread, heart beat, reassembly, write |
| link to core | `client/local_client_connection.c` | `local_fd`, partial message | connect in a thread, reassembly |
| telephone HAL | `Triorail_ril/HAL/Triorail/hal_triorail.cpp` | `s_pendingDialing`, `s_existCall`, `s_pCurrentCall_0` | requests, dialing and polling threads, answers of rild and of the trace daemon |
| core | `core/` | slots of connections, table of module descriptors, one receive buffer | accept, registration, routing |
| monitor | `monitor/` | process table, connection to core | start, poll and restart of all modules, reboot |
| gps | `gps/` | position, connection to core and device | polling, replies |
| trace daemon | `Triorail_ril/trace_0/` | `s_trace_open`, list of frames, open file | trace on and off, reader and processor threads |
| radio daemons, ntpclient | `Triorail_ril/ril_*`, `ntpclient/` | device state | adapted third-party code |

How they interact: the monitor forks core, client, gps and the radio modules and
waits for them. Every module has one stream socket to core, which routes the
messages by module number. The client is the only module that talks to the
ground, over TCP. The ground drives the tasks (book 200, start 202, stop 205,
cancel 208); the client announces starts (204) and stops (207), the ground
answers 212 and 211, the client gives the reason of the stop (10000 automatic,
10001 manual) and offers the trace (300), and the ground confirms it (311).

What makes it hard: timers and the ground act on the same queue in any order;
the queue survives a restart and the static variables do not; frames are lost
with the connection; the telephone is controlled by two daemons that answer in
no common order, through a HAL with delayed threads; children die while the
monitor restarts their siblings and `wait(NULL)` reaps any of them; streams are
cut anywhere, and buffers, lengths and counters outlive the connection or the
file they belong to; the trace daemon's threads are started and stopped by a
flag nobody waits for.

What makes each part correct: the queue is a calendar (no overlap, unique ids)
and each task passes its phases once and in order; what the client tells the
ground is true and finally leads to an empty queue; no call is left up, and the
trace is on during calls; every dead module is started again, and none runs
twice; a message reaches the module it is for, whole and in order; the ground
gets the whole trace of every finished task, and a connection that works is kept. The full list of hazards with their lines is in `PROJECT.json`.

## 2. Modules

| module | models | composed with |
|---|---|---|
| `TaskQueue` | data and look-ups of `client_task_queue.c` | |
| `ClientTask` | task handlers, timed start and stop, what the upload does to the queue, event loop, restart | extends `TaskQueue` |
| `ClientTaskProps` | properties and the refinement mapping | extends `ClientTask`, instantiates `TaskLifecycle` |
| `TaskLifecycle` | abstract specification: a calendar of tasks that go through their phases | |
| `ClientTaskObs` | history variables and the properties that need them | extends `ClientTaskProps` |
| `ClientGround` | the client with a ground station that answers it | extends `ClientTaskProps` |
| `ClientTaskProofs`, `ClientTaskObsProofs` | proofs | extend `ClientTaskProps` and `ClientTaskObs` |
| `Tele`, `TeleProps`, `TeleProofs` | telephone control of the client, HAL, rild and trace daemon | |
| `Upload`, `UploadProps`, `UploadProofs` | the trace files fragment by fragment, with the ground's copy of them | takes the phases of a task from `ClientTask` |
| `RemoteLink`, `RemoteLinkProps`, `RemoteLinkProofs` | the client's connection to the ground, with reports and heart beat | the loop of `ClientTask` reduced to `select` and reading |
| `Core`, `CoreProps`, `CoreProofs` | core, and the ends of client, gps, radio HAL (or monitor) | carries the messages `Tele` takes as reliable queues |
| `TraceDaemon`, `TraceDaemonProps`, `TraceDaemonProofs` | trace daemon of one modem | serves the trace requests of `Tele`, writes the files of `Upload` |
| `Monitor`, `MonitorProps`, `MonitorProofs` | monitor and its children | |
| `MC*` | the instances TLC checks | |

**ClientTask.** `tt` is the mapped file: a function from slots to records of the
stored `task_fmt` (identified with its task, or `Zero` when `task.len == 0`),
the `task_id` and the status. The two are separate fields because the code
treats them so: without the flag of Trio 0 `recv_task` stores the task and
leaves id and status alone. `sync_task`, `idx`, `startTime` and `no_file_check`
are the statics of the source. `sent` holds the frames the last step wrote.
There is one action per handler, with every early return as a disjunct.
One round of the loop is `StartPass`, one `check_and_process_task` step per
slot, and `check_and_upload_task`; frames are handled while the loop is in
`select` (`scan = 0`). The clock may advance, and the process may restart, at
any point. `start_task` contains what the compiler makes of the wrong pointer
type passed to `check_new_task` (`CheckRefusesStart`): the comment there gives
the arithmetic, and `LongCall` is the set of tasks it refuses.

**Tele.** The running task is reduced to what the telephone reads of it: whether
`online_interval` is 0, the range of `access_interval`, whether the number fits.
`pos` follows one round of the loop: local task, dial timer, `select`, frames of
the ground, messages of core. The HAL's two kinds of threads are counters of
threads in their sleep; `dialThread` is split between the test of
`s_pendingDialing` and the dial. An answer of rild or of the trace daemon and
its handling in the HAL are one step, since nothing else sees the answer in
between. Intervals are nondeterministic: `due` says that the present one is
over.

**Upload.** Files and fragments are measured in units, two to a fragment. The
contents of a file at a place never change, so a fragment is its number and its
length. `trace_stop`, `old_file_len`, `no_file_check`, `fragment_id` and the task
that `get_uploading_task` remembers are the statics of the source, shared by all
tasks. A task is in one of its phases, which change as in `ClientTask`; the
trace daemon (`Opens`, `Grows`, `Closes`) and the ground are outside. The ground
asks for the first fragment it lacks and confirms a file when its last fragment
has come. `check_stop_task` (frames only) is in `ClientTask`.

**RemoteLink.** The stream to the client consists of units that arrive one by
one; a frame is two units, or four with data, and a unit in the middle of a
frame may look like a head of any length to a reader that begins there.
`recv_remote_server` is one action with its five outcomes. `isset` and `ready`
separate the moment the loop fills its `fd_set`, the answer of `select` and the
moment the descriptor is read: in between it may have been replaced. A partial
write is continued with the whole length (`remote_client_connection.c:45`), so
it leaves garbage on the stream (`torn`); from then on the ground answers
nothing.

**Core.** One life of core. A connection is named by its module, and a
descriptor by its slot, since both are given lowest first and freed together.
`buffer` is the one static buffer of `recv_and_process`, and `cur` is set while
its loop runs. A registration is one unit, any other message two, so a message
may be cut in its middle. The model has both ways in which core ends: a write to
a module that has closed its end (no handler for `SIGPIPE`), and `recv` returning
-1, after which `sum < chp->len + CMD_HEADER_SIZE + idx` compares unsigned
numbers and the loop has no end. What runs over the buffer's end is either found
again there or kills core.

**TraceDaemon.** The doubly linked list of frames is modelled with its pointers,
since nothing keeps a second pair of threads from starting while the first still
runs. A thread's position names the next statement that touches shared state;
the processor's two local pointers are variables. Undefined behaviour (a freed
frame, `fclose(NULL)`) sets `crashed`, and the model goes no further. `fwrite` and
`fclose` are atomic.

**Monitor.** `pc` is the next system call. `alive` and `zombie` are the kernel's
view of the children, `pid` and `retry` the table. `setup_all_process` is split
into kill, wait and fork for each entry since a module may die between any two
of them. `failed` and `forkFailed` are histories used by the properties only.

## 3. Runs

Passing runs:

| run | instance | shows |
|---|---|---|
| `MCClientTaskObs` | 2 slots; 3 tasks [1,2], [2,3], [3,3], one overlapping both others and without Trio 0; clock 0..4, set at will; restarts at any time; ground frames in any order | `TypeOK`; calendar (`NoOverlap`), `UniqueIds`, `VoidIsZero`; a confirmed stop is final (`StopConfirmed`); the first answer to 211 is true (`FirstReasonTrue`); uploads do not interleave (`UploadOneAtATime`) |
| `ClientTaskLifecycle` | the same, all with Trio 0, one a long call, with `GroundOrdered` and `TraceFileKept` | the queue implements `TaskLifecycle` (`LifecycleSpec`); 204 names a task that runs (`StartConfirmed`) |
| `MCClientGround` | 2 tasks, 1 restart, no loss | every stored task is finally run, explained, uploaded and deleted (`EveryTaskLeaves`) |
| `MCTele` | 3 tasks of both kinds, started and stopped at any time | the line is free after the last task (`LineReleased`), the client learns of the end of a call (`OnlineIsTrue`), `TELE_WAIT` ends (`WaitEnds`) |
| `MCMonitor` | 3 modules, 2 retries, 4 process ids that are given again, forks that fail | no module runs twice (`SingleInstance`), the retries are the failed checks (`RetryAccount`), `wait(NULL)` never blocks for ever before a fork has failed (`WatchNeverHangs`) |
| `MonitorRestart` | 3 modules, 1 retry, no death during a restart | every dead module is started again (`Restarted`) |

| `MCUpload` | 2 tasks, files of 0 to 3 units (a fragment is 2), 2 frames on the way in each direction, one lost connection or restart | the ground's copy is complete when the task is deleted (`CopyIsComplete`), the last fragment of a growing file is sent only after two equal lengths (`LastIsJudged`), a running test is not deleted (`RunningIsKept`), every finished test is uploaded unless an empty file blocks it (`UploadEnds`) |
| `MCRemoteLink` | 4 units on the way, threads that cannot be created | one connecting thread at most (`OneConnector`), frames come out whole, once and in order (`FramesAreWhole`), a connection with timely answers is kept (`AnsweredLinkIsKept`), there is a connection again and again (`LinkComesBack`), a dead or torn one is replaced (`SilentLinkIsReplaced`) |
| `MCCore` | 3 modules, 2 messages, a receive buffer of 2 units, 1 module that dies or loses its link | messages reach the right module while it is registered (`RightReceiver`), in order and once (`InOrder`), put together from one message (`WholeFrames`); a connected module becomes known (`RegistrationArrives`) |
| `MCTraceDaemon` | 2 traces, 2 frames, `fopen` may fail | no freed frame is used (`NoUseAfterFree`), each file is a run of the device's frames (`FilesInOrder`), a trace that is switched off is closed (`FileIsClosed`) and its list drained (`ListIsDrained`) |

Runs that find a disagreement between the code and what a comment, a log message
or a document says of it (the quotations are in `PROJECT.json`):

| run | disagreement |
|---|---|
| `ClientGroundLossy` | a lost 207 of the only task is never repeated |
| `MonitorWrongChild` | a module that dies during the restart of the others is never started again |

**Bounds and why they suffice.** Two slots are the fewest in which slots differ,
the queue is full while a third task arrives, and slots are reused; the code
never treats a slot specially. Three windows give overlapping, touching and
disjoint pairs. The clock runs past the last window. `NoFileLimit = 1` stands
for 6: only "not yet" and "reached" matter. The monitor needs three modules for
two deaths besides the one that is waited for, and one more id than modules for
a fresh start; with `FreshPids` five. `MaxPolls` bounds the polling threads,
`MaxTasks` the tasks: the third task starts from every state two can leave
behind. `Upload` needs two tasks for the shared statics, three units for a whole
fragment followed by a part, and files that end with a whole fragment; of the
two frames on the way one is a request that crosses an answer. `RemoteLink` needs
four units for the longest frame, or two short ones; frames are counted modulo 3,
so a lost or repeated one shows. In `Core` two messages and a buffer of two units
give every cut, the mixture of two modules' messages and an overflow; one module
that ends and one that takes its slot give the reuse of a descriptor. Two traces
overlap in `TraceDaemon`, and two frames are one that is processed and one that
is linked behind it. The safety properties of all components are proved without
these bounds (section 4).

**Constants that restrict an instance.** They name what a passing run takes for
granted, and each of them can be switched off:

- `GroundOrdered`: 311 comes only for a task in its upload phase. The code
  deletes whatever task the id names; without the assumption a running or
  waiting task can be deleted, and `LifecycleSpec` fails.
- `TraceFileKept`: the trace file of a finished task can be opened. Otherwise
  the task is deleted unsent after repeated failures, by design.
- `QuietSetup`: no module dies while the others are restarted. Without it
  `Restarted` fails (`MonitorWrongChild`).
- `FreshPids`: a process id is not reused while the table still names it.
- `Settled`: answers travel faster than `offline_interval`, so a call is dialled
  when nothing is on its way. Otherwise a dial that is refused because the call
  before it is still up makes the client believe it is offline while a call is up.
- `SameRound = FALSE`: `select` does not report the ground and core in one
  round. Otherwise there is a window of one round in which the dial timer has
  expired unnoticed, the stop does not hang up, and the late answer cancels the
  timer: the call stays up.
- `DialRace = FALSE`: a dialing thread is not interrupted between its test of
  `s_pendingDialing` and the dial. The code has no lock there; with
  `DialRace = TRUE` a hangup in between leaves the call up.
- `CreateFails = TRUE`, `OpenFails = TRUE`: nothing is taken for granted there;
  the properties name what follows from such a failure.
- `MaxEnds = 1`: the monitor replaces core and all modules some time after the
  first death, so a second one in the same life of core is not followed.
- the task kinds of `MCTele`: `access_interval` in 1..300 and a number of at most
  15 digits. `access_interval` 0 or above 300 starts no timer (`set_dial_timer`),
  and a longer number leaves `TELE_WAIT` set with nothing sent (`dial_tele0`).

**Fairness.** `ClientGround`: the event loop runs and time passes (weak); the
upload check becomes due again and again, and a frame the ground has answered is
read in some visit of `select` (strong: both are enabled only at one position of
the loop, which `select` with its timeout and its readiness test visits again
and again). `Tele`: the steps of the loop, of the HAL's threads and of the
daemons are weakly fair; the reading of a message is strongly fair, because
`select` reports a descriptor with data in every round. Stops, starts and the
network are not fair. `Monitor`: the monitor's own steps and its connecting
thread are weakly fair; deaths are not. `Upload`: the checks are due again and
again, frames are handled, the ground answers what reaches it, and a test ends
and its file is closed; the growth of a file, losses and restarts are not fair.
`RemoteLink`: the loop and the connecting thread (the ground accepts in the end)
are weakly fair; the report is strongly fair because it is due every minute and
only possible at one position of the loop. Nothing is assumed of what the ground
sends. `Core`: core, the connecting threads and the modules' reading. `TraceDaemon`:
the HAL's thread inside a request and the threads of each trace; spurious
wake-ups, the device and the requests are not fair.

## 4. Proofs

The proof modules are about arbitrary constants, with the assumptions stated in
the module that declares them (finite process ids, windows with
`Start <= Stop`, `Zero` not a task, ...). TLC evaluates these assumptions. Every
invariant and every action property of the passing runs is stated by a theorem;
each inductive invariant was first checked with TLC on the instance of its run.
Two theorems have a hypothesis on the constants that name what the environment
does, `Orderly` and `Punctual`; they are the constants of the runs that check the
same properties, and section 3 says what happens without them.

**ClientTaskProofs.** `TypeCorrect`, `CalendarIsFree` (`NoOverlap`),
`IdsAreUnique`, `VoidSlotsAreZero` and `StopsAreTrue` (`StopConfirmed`).
`NoOverlap` is not inductive: a slot is reused when its task is void, and a slot
of a task without Trio 0 keeps the id and status it had, so the induction has to
know what a void slot holds and that an id always belongs to the task beside it.
The invariant `IInv` is `TypeOK` with `QueueOK`: void slots are all zeroes, an
id is `Zero` or that of the slot's own task, no two windows overlap. Unique ids
follow, since a task overlaps itself. One lemma states what the first-match
search returns, one per look-up what it finds, one per way the code writes a
slot (a new task, a status, a deletion) that it keeps `QueueOK`; the step proof
then has one case per action. `StopsAreTrue` combines the invariant with what
each action sends.

`StartsAreTrue` (`StartConfirmed`) and `QueueIsLifecycle` (`LifecycleSpec`) hold
for an `Orderly` system: `GroundOrdered`, `TraceFileKept` and only tasks with
Trio 0. Their invariant `SInv` adds that every used slot carries its own id and
that `sync_task` names a running task; a 311 for a running task, or a deletion of
it, would leave `sync_task` behind. `Changes` lists the ways in which a step may
change the queue: a task is booked where none overlaps it, one task goes on by
one phase, or one leaves that has not run or has been uploaded. One lemma per
handler shows that it does nothing else. The refinement then maps each of these
ways to one action of `TaskLifecycle`, and everything else, restarts included, to
a stutter.

**ClientTaskObsProofs.** `ReasonsAreTrue` (`FirstReasonTrue`) and
`UploadsDoNotInterleave` (`UploadOneAtATime`), without any condition. Both relate
a frame to what happened many steps earlier, so the invariant ties each history
to the queue: a stopped task is remembered with the status its slot holds
(`Remembered`), a task in its upload phase has had its question answered
(`Answered`), and the task last asked for is the one the static cache names
(`CachedIsAsked`). The first answer to 211 is given from a slot that no answer
has changed yet. `SpecObs => Spec` carries the invariant of the queue over.

**TeleProofs.** `TypeCorrect` for all constants. `LineIsReleased`
(`LineReleased`) and `OnlineIsTrueOfLine` (`OnlineIsTrue`) for a `Punctual`
system: `Settled`, not `SameRound`, not `DialRace`, and tasks with a timer and a
number that fits; any number of tasks and of polling threads. The two properties
speak of states in which nothing is on its way, and the induction is about all
the others. `Staged` says that there is one dial at most, and at which of its
stages: request, sleeping thread, dialing thread, request to rild, call in the
making, answer. `Existing` and `Polled` say that the HAL polls what it does not
know yet. `Released` is the heart of it: when there is a call, or will be one, a
hangup is on its way behind it (`Covered`), or the client waits for the answer
with its timer set and with nothing but dials and their answers on the way
(`Waiting`), or the timer has passed and the loop comes to it before it reads
core again (`Late`), or the client is online and nothing is on its way to or from
it (`Believes`). A stop leads from `Waiting` to `Covered` or, in the one round in
which the timer has passed unnoticed, to `Late`; this is where `SameRound` would
break the proof, `DialRace` breaks `Covered`, and `Settled` is what makes the
stage of the new dial the only one. `Online` says that a client that is, or is
about to be, online has the end of the call on its way when there is no call.

**UploadProofs.** `TypeCorrect`, `ConfirmedIsComplete` (`CopyIsComplete`),
`RunningSurvives` (`RunningIsKept`) and `EarlyIsJudged` (`LastIsJudged`), for any
tasks, file sizes, losses and restarts. When a confirmation deletes a task, the
fragment it confirms is long gone. The invariant says of every frame what still
holds of it when it arrives: a whole fragment lies in the file, a last fragment
is the rest of a file nobody writes (`TrueOfFile`); a question is for the fragment
after those the file has, a confirmation is for a copy that has its last one
(`TrueOfCopy`); the copy is a prefix of the file (`CopyOK`). `OneUpload` says that
all frames, and the lengths the static variables remember, are of the task being
uploaded or of one that is deleted, which is what the shared statics need.

**CoreProofs.** `TypeCorrect`, `ReachesItsReceiver` (`RightReceiver`),
`PassedInOrder` (`InOrder`) and `PassedWhole` (`WholeFrames`), for any modules,
messages and buffer size, up to core's end. `Order`: each module's units in the
buffer and in its stream are in the order sent and newer than what was passed
on. `Unmixed`: as long as no two modules' data have met in the buffer it begins
the stream of one module, cut anywhere. `Known`: a module core knows is at the
other end of its descriptor. `Position`: where the loop stands in the buffer.

**TraceDaemonProofs.** `TypeCorrect`, `NothingIsUsedTwice` (`NoUseAfterFree`) and
`FilesAreRuns` (`FilesInOrder`), for any number of traces and frames. The list is
described by numbers: for some `d`, the frames up to `d` have left it and those
after `d` are linked in order, forwards and backwards (`Listed(d)`); the running
processor is at the first of them (`Works`), and the file it writes ends with the
last one done (`Recorded`). As long as traces do not overlap and their files open
there is such a `d` (`Tidy`); `Linked`, that only freed frames have lost their
neighbours, holds always.

**MonitorProofs.** `Shape` adds to `TypeOK` that a running process is the one
its entry names, that it is not also dead, and what the entry holds at `wait`
and at `fork`; `NoSecondInstance` follows, also with failing forks and reused
ids. `Balance` says that there are as many children, dead or alive, as entries
that name a process, and that entries already passed are filled. That is what
makes `WatchGoesOn` true although `wait(NULL)` may have reaped the wrong child:
if no child were dead, the running ones would map one to one into the entries
other than the current one, which are one too few. A failing fork breaks
`Balance`, until the machine is rebooted. `RetriesAreCounted` (`RetryAccount`):
the retries used up are a set of pairs of a module and a retry, which gets one
more pair with each failed check and is empty after a clean one.
`RestartsAreBounded` follows: the system is restarted at most
`PROCESS_NUM * MaxRetry` times in a row.

**RemoteLinkProofs.** `NoSecondConnector` (`OneConnector`) and
`TimelyAnswersCount` (`AnsweredLinkIsKept`), for any number of units on their way
and also when threads cannot be created. The invariant `Control` adds two facts
to `OneConnector`: there is a connection exactly while `remote_fd` names an open
descriptor, and since its first answer the reports without an answer and
`heart_beat` add up to 3. With the second, a heart beat that gives the connection
up has counted two reports. One lemma treats the steps that attach, one the steps
that leave descriptor and thread alone; the step proof has one case per action.
For these two the contents of the stream play no part: whatever
`recv_remote_server` takes for a frame, it either gives `heart_beat` back or
leaves it. `TypeCorrect` and `FramesArriveWhole` (`FramesAreWhole`) need the
contents: `Frames` adds that the buffer never holds a whole frame between two
reads, and that buffer and stream together go on with the last frame that was
handled, each unit following the one before, up to the last frame the ground has
sent, unless the connection is `split`.

**Only model-checked.** Liveness, which needs fairness and `ENABLED`:
`EveryTaskLeaves`, `WaitEnds`, `Restarted`, `UploadEnds`, `LinkComesBack`,
`SilentLinkIsReplaced`, `RegistrationArrives`, `FileIsClosed`, `ListIsDrained`.
`StartConfirmed`, `LifecycleSpec`, `LineReleased` and `OnlineIsTrue` are proved
under the hypotheses named above only.

## 5. Not modelled, and known differences without a run

Not modelled:

- Formatting, logging, checksums, configuration files, NMEA sentences, SIM and
  module status, the contents of reports and of trace records, modem 1.
- `reboot()` is taken to succeed and the process ids to be bounded.
- rild is taken to carry out a hangup and to answer a poll; it may refuse any
  dial. The restart of the client in the middle of a call is not in `Tele`.
- The framing of the modem's bytes (`Triorail_trace_stream.cpp`), and the one
  static stream that two overlapping readers share: they read it atomically here.
- No module sends `CORE_MSG_UNREGISTER_CMD` or a status request to core, and
  nine slots are never full with the modules there are; gps is not routable
  (its case in `get_fd_by_module` is commented out).
- `railway_trio_p` and the other directories of the repository: an older copy,
  and unrelated programs, vendored firmware and data. They make up almost all of
  the repository's lines.

The client does what the code says, and not what a log, a comment or the
protocol says, in these places:

- The timed start does not look for a running task
  (`remote_client_task_event.c:476`), so a task started early by 202 and the next
  one run together, although `start_task_manual` logs "only one task".
- `start_task` passes a `struct task_t` where `check_new_task` reads a
  `struct task_fmt` (line 238): with an online interval from 2208 s on (modulo
  65536) the task is refused as expired at every pass. `LongCall` is this set.
- A repeated 211 for a task stopped by hand is answered "automatic", since the
  first one has overwritten the status (line 403). The protocol lets the ground
  repeat 211.
- The stop of one task clears the pending start confirmation of another
  (line 291).
- A hangup that is answered after the trace stop sets `TELE_OFFLINE`
  (`local_client_event.c:524`), and the next task dials without a trace.
- A refused 202 is answered with the id of the task that runs, not of the one
  that was refused (`remote_client_task_event.c:262-265`).
- `if(fail_reason =  -ACTION_RECV_REPEAT_TASK)` (line 138) assigns: every refused
  200 is answered 201. This is what `recv_task` does in the model.
- The task is given up at the seventh failure to open its file, while the log
  says "5 times" (`remote_client_upload_event.c:161-164`).
- `set_system_datetime` may build its reply from an uninitialised length
  (`remote_client_time_event.c:46`); the reply is not modelled.
- An answer to a report (401) falls through to the setting of the clock
  (`remote_client_event.c:121-125`).

Weak points that the properties above exclude by name, because the code has them:

- An empty trace file never counts as finished, and blocks all later uploads
  (`Stuck` in `UploadProps`).
- Two equal lengths, ten seconds apart, count as the end of a trace, also when
  the first was that of the file before (`LastIsJudged`): a slow trace may be cut.
- A frame whose data has not arrived yet with its head makes the client reconnect
  (`recv` on a non-blocking socket, `remote_client_connection.c:183`), and the next
  connection begins with that head in the buffer (`split`).
- When no thread can be created, `remote_fd` stays 0 and nothing connects again.
- A module that dies with a partial message in core's buffer, or whose message is
  cut where another module's data comes next, corrupts the other's messages
  (`mixed`); a descriptor that is given again gets the messages of its former
  owner until that one registers again.
- A module whose loop selects the descriptor before its thread has connected it
  closes it for good.
- A trace switched on before the threads of the one before have ended
  (`overlap`), a file that cannot be opened (`unopened`), and the last signal of a
  reader that comes just before its processor waits (`missed`): the file then stays
  open, without its last frames, until the next trace.

## 6. Plan

1. Task queue, handlers, lifecycle, ground; monitor; telephone. (Done.)
2. Upload, link to the ground, core, trace daemon. (Done.)
3. Proofs of the safety properties of all components. (Done.)
4. Proofs that ask for less or say more: `StartConfirmed` also with tasks that
   are not for Trio 0; `OnlineIsTrue` without `Settled`; the abstract
   `TaskLifecycle` itself (what a calendar of tasks promises, proved once and
   carried over by the refinement); the safety halves of the liveness properties
   (what each step towards the goal cannot undo).
