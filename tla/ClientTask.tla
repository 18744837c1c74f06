------------------------------ MODULE ClientTask ------------------------------
(***************************************************************************)
(* The life of the test tasks in the client process: the handlers of the   *)
(* ground's test-task frames (client/remote_client_task_event.c), the      *)
(* timed start and stop, and what the upload handlers do to the queue      *)
(* (client/remote_client_upload_event.c), run by the single-threaded event *)
(* loop of client/client_connection.c and restarted by the monitor.        *)
(*                                                                         *)
(* One iteration of the loop runs process_task_queue, slot by slot, and    *)
(* then handles at most the frames that select reported: scan is 0 while   *)
(* the loop is in select, i while check_and_process_task is at slot i, and *)
(* QueueSize + 1 before check_and_upload_task.  Time may pass at any point.*)
(***************************************************************************)
EXTENDS TaskQueue

CONSTANTS
  LongCall,       \* tasks whose online_interval, modulo 2^16, is >= 2208 s
  NoFileLimit,    \* failed opens of the trace file tolerated (6 in the code)
  MaxTime,        \* bound of the clock
  GroundOrdered,  \* TRUE: the ground confirms an upload (311) only of a task
                  \* that is in its upload phase
  TraceFileKept   \* TRUE: the trace file of the uploading task can be opened

ASSUME ClientAssumption ==
  /\ LongCall \subseteq Tasks
  /\ NoFileLimit \in Nat
  /\ MaxTime \in Nat
  /\ GroundOrdered \in BOOLEAN
  /\ TraceFileKept \in BOOLEAN

VARIABLES
  tt,             \* the queue, in the mapped file
  sync_task,      \* slot whose start is confirmed again until the ground
                  \* answers, or NULL
  idx, startTime, \* the static cache of get_uploading_task
  no_file_check,  \* consecutive failures to open the trace file
  scan,           \* position of the event loop
  now,            \* time(NULL)
  sent            \* the test-task and upload-request frames the last step
                  \* wrote to the ground

static == <<sync_task, idx, startTime, no_file_check>>
vars   == <<tt, sync_task, idx, startTime, no_file_check, scan, now, sent>>

Select    == 0
UploadPos == QueueSize + 1

\* A frame to the ground; reason is 0 in a frame without data.
Frame(state, id, reason) == [state |-> state, id |-> id, reason |-> reason]
Ok(state, id) == Frame(state, id, 0)

\* The id a reply carries when it is filled from slot i: &tth->task_id[0],
\* which is a null pointer, left as zeroes, when the slot is NULL.
IdOf(q, i) == IF i = NULL THEN Zero ELSE q[i].id

-----------------------------------------------------------------------------
(* Functions called by the handlers.                                       *)

stop_task_rsp(q, i)         == Ok("STOP_TASK_SUCCESS", IdOf(q, i))
stop_task_refused(q, i)     == Frame("STOP_TASK_FAILED", IdOf(q, i), ACTION_NO_THIS_TASK)
start_task_rsp(q, i)        == Ok("START_TASK_SUCCESS", IdOf(q, i))

\* Mutant: the sign of ok is lost.
start_task_refused_ok(q, i, r) == start_task_rsp(q, i)
start_task_refused(q, i, r) == Frame("START_TASK_FAILED", IdOf(q, i), r)

\* Mutant: a task that stops by time is marked as done.
update_task_done(i, status) ==
  tt' = [tt EXCEPT ![i].status = IF status = STOP_AUTO THEN "TASK_DONE" ELSE status]
update_task(i, status) == tt' = [tt EXCEPT ![i].status = status]

\* Mutant: only the length of the task is cleared.
del_task_len(i) == tt' = IF i = NULL THEN tt ELSE [tt EXCEPT ![i].task = Zero]
del_task(i)     == tt' = IF i = NULL THEN tt ELSE [tt EXCEPT ![i] = Void]

\* start_task passes its struct task_t to check_new_task, which reads it as a
\* struct task_fmt: the stop time it sees holds the low half of
\* online_interval in its top 16 bits.  Below 2208 that is a date before the
\* epoch (which wraps, and never expires) and before every stored window;
\* from 2208 on it has expired or it overlaps the slot itself.
CheckRefusesStart(i) == tt[i].id # Zero /\ tt[i].task \in LongCall

start_task(i) ==
  \/ /\ CheckRefusesStart(i)
     /\ sent' = {start_task_refused(tt, i, ACTION_EXPIRED_ERR)}
     /\ UNCHANGED <<tt, sync_task>>
  \/ /\ ~ CheckRefusesStart(i)
     /\ Used(tt, i) /\ tt[i].status = QUEUE
     /\ update_task(i, TESTING)
     /\ sent' = {start_task_rsp(tt, i)}
     /\ sync_task' = i
  \/ /\ ~ CheckRefusesStart(i)
     /\ ~ (Used(tt, i) /\ tt[i].status = QUEUE)
     /\ sent' = {start_task_refused(tt, i, ACTION_NO_THIS_TASK)}
     /\ UNCHANGED <<tt, sync_task>>

\* Stopping a running task also stops its call and its trace (StopTask of Tele).
stop_task(i, how) ==
  \/ /\ Used(tt, i) /\ tt[i].status = TESTING
     /\ update_task(i, how)
     /\ sent' = {stop_task_rsp(tt, i)}
     /\ sync_task' = NULL
  \/ /\ Used(tt, i) /\ tt[i].status = QUEUE
     /\ sent' = {stop_task_rsp(tt, i)}
     /\ del_task(i)
     /\ UNCHANGED sync_task
  \/ /\ ~ (Used(tt, i) /\ tt[i].status \in {TESTING, QUEUE})
     /\ sent' = {stop_task_refused(tt, i)}
     /\ UNCHANGED <<tt, sync_task>>

-----------------------------------------------------------------------------
(* Frames of the ground, handled while the loop is in select.              *)

Handling == scan = Select /\ UNCHANGED <<idx, startTime, no_file_check, scan, now>>

\* 200: a task that fails check_new_task is answered like one that is stored.
\* Without the flag of Trio 0 the slot keeps the id and status it had.
recv_task(k) ==
  LET i == get_void_task(tt) IN
  /\ Handling
  /\ UNCHANGED sync_task
  /\ \/ /\ i = NULL
        /\ sent' = {Frame("RECV_TASK_FAILED", k, ACTION_DATABASE_NO_SPACE_ERR)}
        /\ UNCHANGED tt
     \/ /\ i # NULL
        /\ check_new_task(tt, k, now) # 0
        /\ sent' = {Ok("RECV_TASK_SUCCESS", k)}
        /\ UNCHANGED tt
     \/ /\ i # NULL
        /\ check_new_task(tt, k, now) = 0
        /\ tt' = [tt EXCEPT ![i].task = k,
                            ![i].id = IF k \in Trio0 THEN k ELSE @,
                            ![i].status = IF k \in Trio0 THEN QUEUE ELSE @]
        /\ sent' = {Ok("RECV_TASK_SUCCESS", k)}

\* 202
start_task_manual(id) ==
  LET running == get_running_task(tt)
      i       == get_task_by_id(tt, id)
  IN
  /\ Handling
  /\ \/ /\ running # NULL
        /\ sent' = {start_task_refused(tt, running, ACTION_OTHER_TASK_RUNNING)}
        /\ UNCHANGED <<tt, sync_task>>
     \/ /\ running = NULL
        /\ i = NULL
        /\ sent' = {start_task_refused(tt, i, ACTION_NO_THIS_TASK)}
        /\ UNCHANGED <<tt, sync_task>>
     \/ /\ running = NULL
        /\ i # NULL
        /\ start_task(i)

\* 205
stop_task_manual(id) ==
  LET i == get_task_by_id(tt, id) IN
  /\ Handling
  /\ \/ /\ i = NULL
        /\ sent' = {Frame("STOP_TASK_FAILED", id, ACTION_NO_THIS_TASK)}
        /\ UNCHANGED <<tt, sync_task>>
     \/ /\ i # NULL
        /\ stop_task(i, STOP_MANU)

\* 208
cancel_task(id) ==
  LET i == get_task_by_id(tt, id) IN
  /\ Handling
  /\ UNCHANGED sync_task
  /\ \/ /\ i = NULL
        /\ sent' = {Frame("CANCEL_TASK_FAILED", id, ACTION_NO_THIS_TASK)}
        /\ UNCHANGED tt
     \/ /\ i # NULL /\ tt[i].status = QUEUE
        /\ sent' = {Ok("CANCEL_TASK_SUCCESS", tt[i].id)}
        /\ del_task(i)
     \/ /\ i # NULL /\ tt[i].status # QUEUE
        /\ sent' = {Ok("START_TASK_DOING", tt[i].id)}
        /\ UNCHANGED tt

\* 212, the ground's answer to 204
report_task_status(id) ==
  LET i == get_task_by_id(tt, id) IN
  /\ Handling
  /\ UNCHANGED tt
  /\ \/ /\ i = NULL
        /\ sent' = {Frame("START_TASK_FAILED", id, ACTION_NO_THIS_TASK)}
        /\ UNCHANGED sync_task
     \/ /\ i # NULL /\ Used(tt, i) /\ tt[i].status # QUEUE
        /\ sent' = {Ok("START_TASK_DOING", id)}
        /\ sync_task' = NULL
     \/ /\ i # NULL /\ ~ (Used(tt, i) /\ tt[i].status # QUEUE)
        /\ sent' = {}
        /\ UNCHANGED sync_task

\* Mutant: the reason is not looked at.
StopReason_auto(id, status) == Ok("STOP_TASK_SUCCESS_AUTO", id)

\* The reply of report_stop_reason to a task that was stopped.
StopReason(id, status) ==
  Ok(IF status = STOP_MANU THEN "STOP_TASK_SUCCESS_MANUAL" ELSE "STOP_TASK_SUCCESS_AUTO", id)

\* 211, the ground's answer to 207; then the next stopped task is announced.
report_stop_reason(id) ==
  LET i       == get_task_by_id(tt, id)
      answers == i # NULL /\ Used(tt, i) /\ tt[i].status \in Stopped \cup {UPLOADING}
      q       == IF answers THEN [tt EXCEPT ![i].status = UPLOADING] ELSE tt
      next    == get_stop_task(q)
  IN
  /\ Handling
  /\ tt' = q
  /\ sent' = (IF i = NULL THEN {Frame("STOP_TASK_REASON", id, ACTION_NO_THIS_TASK)} ELSE {})
             \cup (IF answers THEN {StopReason(id, tt[i].status)} ELSE {})
             \cup (IF next # NULL THEN {stop_task_rsp(q, next)} ELSE {})
  /\ UNCHANGED sync_task

\* 311: the task is deleted whatever its status.
upload_success(id) ==
  /\ Handling
  /\ GroundOrdered => \E i \in Slots : tt[i].id = id /\ tt[i].status = UPLOADING
  /\ del_task(get_task_by_id(tt, id))
  /\ sent' = {}
  /\ UNCHANGED sync_task

\* 600: settimeofday
set_system_datetime(t) ==
  /\ scan = Select
  /\ now' = t
  /\ sent' = {}
  /\ UNCHANGED <<tt, static, scan>>

RemoteFrame ==
  \/ \E k \in Tasks : recv_task(k)
  \/ \E id \in Ids : \/ start_task_manual(id)
                     \/ stop_task_manual(id)
                     \/ cancel_task(id)
                     \/ report_task_status(id)
                     \/ report_stop_reason(id)
                     \/ upload_success(id)
  \/ \E t \in 0 .. MaxTime : set_system_datetime(t)

-----------------------------------------------------------------------------
(* process_task_queue.                                                     *)

\* The loop leaves select and starts the next iteration.
StartPass ==
  /\ scan = Select
  /\ scan' = 1
  /\ sent' = {}
  /\ UNCHANGED <<tt, static, now>>

\* check_and_process_task at one slot.
check_and_process_task ==
  /\ scan \in Slots
  /\ scan' = scan + 1
  /\ \/ /\ Used(tt, scan) /\ tt[scan].status = TESTING
        /\ Stop[tt[scan].task] < now
        /\ stop_task(scan, STOP_AUTO)
     \/ /\ Used(tt, scan) /\ tt[scan].status = QUEUE
        /\ Start[tt[scan].task] <= now
        /\ start_task(scan)
     \/ /\ ~ (/\ Used(tt, scan)
              /\ \/ tt[scan].status = TESTING /\ Stop[tt[scan].task] < now
                 \/ tt[scan].status = QUEUE /\ Start[tt[scan].task] <= now)
        /\ sent' = {}
        /\ UNCHANGED <<tt, sync_task>>
  /\ UNCHANGED <<idx, startTime, no_file_check, now>>

\* The static cache of get_uploading_task still names its task.
CacheHit == startTime > 0 /\ start_time(tt, idx) = startTime

\* Mutant: the search is repeated every time.
get_uploading_task_uncached == EarliestUpload(tt)
get_uploading_task          == IF CacheHit THEN idx ELSE EarliestUpload(tt)

\* The frames of check_stop_task on queue q.
check_stop_task(q) ==
  (IF get_stop_task(q) # NULL THEN {stop_task_rsp(q, get_stop_task(q))} ELSE {})
  \cup (IF sync_task # NULL THEN {start_task_rsp(q, sync_task)} ELSE {})

\* check_and_request(t): opened tells whether the trace file can be opened and
\* grown whether it holds a fragment more than was requested.
check_and_request(t, opened, grown) ==
  \/ /\ opened
     /\ no_file_check' = 0
     /\ UNCHANGED tt
     /\ sent' = check_stop_task(tt)
                \cup (IF tt[t].status = UPLOADING \/ grown
                      THEN {Ok("UPLOAD_REQUEST", tt[t].id)} ELSE {})
  \/ /\ ~ opened
     /\ no_file_check < NoFileLimit
     /\ no_file_check' = no_file_check + 1
     /\ UNCHANGED tt
     /\ sent' = check_stop_task(tt)
  \/ /\ ~ opened
     /\ no_file_check >= NoFileLimit
     /\ no_file_check' = 0
     /\ del_task(t)
     /\ sent' = check_stop_task([tt EXCEPT ![t] = Void])

\* check_and_upload_task; due tells whether UPLOAD_INTERVAL_SEC has passed.
check_and_upload_task(due, opened, grown) ==
  LET t == get_uploading_task IN
  /\ scan = UploadPos
  /\ scan' = Select
  /\ TraceFileKept => opened
  /\ \/ /\ ~ due
        /\ sent' = {}
        /\ UNCHANGED <<tt, idx, startTime, no_file_check>>
     \/ /\ due
        /\ idx' = IF CacheHit THEN idx ELSE IF t = NULL THEN 1 ELSE t
        /\ startTime' = IF t = NULL THEN 0 ELSE start_time(tt, t)
        /\ \/ /\ t = NULL
              /\ sent' = {}
              /\ UNCHANGED <<tt, no_file_check>>
           \/ /\ t # NULL
              /\ check_and_request(t, opened, grown)
  /\ UNCHANGED <<sync_task, now>>

ProcessTaskQueue ==
  \/ StartPass
  \/ check_and_process_task
  \/ \E due, opened, grown \in BOOLEAN : check_and_upload_task(due, opened, grown)

-----------------------------------------------------------------------------
(* The world around the process.                                           *)

Tick ==
  /\ now < MaxTime
  /\ now' = now + 1
  /\ sent' = {}
  /\ UNCHANGED <<tt, static, scan>>

\* The process dies and the monitor starts it again: the mapped file keeps the
\* queue, the statics are lost, and the loop begins with process_task_queue.
Restart ==
  /\ sync_task' = NULL
  /\ idx' = 1
  /\ startTime' = 0
  /\ no_file_check' = 0
  /\ scan' = 1
  /\ sent' = {}
  /\ UNCHANGED <<tt, now>>

Init ==
  /\ tt = [i \in Slots |-> Void]
  /\ sync_task = NULL
  /\ idx = 1
  /\ startTime = 0
  /\ no_file_check = 0
  /\ scan = 1
  /\ now = 0
  /\ sent = {}

Next == RemoteFrame \/ ProcessTaskQueue \/ Tick \/ Restart

Spec == Init /\ [][Next]_vars
=============================================================================
