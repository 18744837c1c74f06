-------------------------------- MODULE Upload --------------------------------
(***************************************************************************)
(* The upload of the trace files to the ground, fragment by fragment       *)
(* (client/remote_client_upload_event.c).  A task is uploaded while it     *)
(* still records: every check that finds another whole fragment offers it  *)
(* (300), the ground asks for a fragment (301, 305), the client answers    *)
(* with a whole one (303), with the last one (304) or not at all, and the  *)
(* ground confirms the last one (311), which deletes the task.             *)
(*                                                                         *)
(* Files and fragments are measured in units, Fragment units to the 1024   *)
(* bytes of a fragment.  What the file holds at a place never changes, so  *)
(* a fragment is its number and its length.  The trace daemon writes the   *)
(* file through a buffer: its length on disk grows in steps, the last one  *)
(* when the daemon closes it.  A frame that finds the way full is lost.    *)
(***************************************************************************)
EXTENDS Integers, Sequences

CONSTANTS
  MaxTasks,     \* tasks, in the order of their start times
  MaxLen,       \* bound: length of a file
  MaxWay,       \* bound: frames on their way in each direction
  MaxLoss,      \* bound: connections that are lost, restarts of the client
  NoFileLimit   \* failed opens of the file tolerated (6 in the code)

ASSUME UploadAssumption ==
  /\ MaxTasks \in Nat /\ MaxLen \in Nat /\ MaxWay \in Nat
  /\ MaxLoss \in Nat /\ NoFileLimit \in Nat

Tasks    == 1 .. MaxTasks
NoTask   == 0
Fragment == 2              \* UPLOAD_FRAME_DATA_SIZE, in units
MaxId    == MaxLen \div Fragment + 1   \* the last fragment of a file
Missing  == -1             \* the length of a file that does not exist

VARIABLES
  status,       \* of each task; "waiting" and "stopped" stand for TASK_QUEUE
                \* and for both of TASK_STOP_AUTO and TASK_STOP_MANU
  len,          \* length of each file on disk
  recording,    \* the trace daemon has the file of the task open
  fragment_id, trace_stop, old_file_len, no_file_check,  \* static variables
  cached,       \* the task get_uploading_task remembers
  toGround, toClient,  \* frames on their way
  pieces, units, whole,  \* the ground's copy of each file: fragments, length,
                \* and whether its last fragment has come
  losses,
  sized,        \* history: the task old_file_len is of
  judged,       \* history: the task whose length made the last check believe
                \* that the trace has stopped
  early         \* history: the last fragment was sent while the task recorded

static  == <<fragment_id, trace_stop, old_file_len, no_file_check, cached>>
way     == <<toGround, toClient>>
ground  == <<pieces, units, whole>>
history == <<sized, judged, early>>
vars    == <<status, len, recording, static, way, ground, losses, history>>

Uploads == {"running", "uploading"}   \* the tasks get_uploading_task looks for

Frame(state, t, id, n) == [state |-> state, task |-> t, id |-> id, len |-> n]

\* write_remote_server, and the ground's write_msg.
Write(q, f) == IF Len(q) < MaxWay THEN Append(q, f) ELSE q

-----------------------------------------------------------------------------
(* The task: its test runs, is stopped and explained to the ground (211),  *)
(* as ClientTask models it, while the trace daemon writes the file.        *)

Starts(t) ==
  /\ status[t] = "waiting"
  /\ \A u \in Tasks : u < t => status[u] # "waiting"
  /\ \A u \in Tasks : status[u] # "running"
  /\ status' = [status EXCEPT ![t] = "running"]
  /\ UNCHANGED <<len, recording, static, way, ground, losses, history>>

Stops(t) ==
  /\ status[t] = "running"
  /\ status' = [status EXCEPT ![t] = "stopped"]
  /\ UNCHANGED <<len, recording, static, way, ground, losses, history>>

report_stop_reason(t) ==
  /\ status[t] = "stopped"
  /\ status' = [status EXCEPT ![t] = "uploading"]
  /\ UNCHANGED <<len, recording, static, way, ground, losses, history>>

Opens(t) ==
  /\ status[t] = "running" /\ len[t] = Missing
  /\ len' = [len EXCEPT ![t] = 0]
  /\ recording' = [recording EXCEPT ![t] = TRUE]
  /\ UNCHANGED <<status, static, way, ground, losses, history>>

\* What is written to the file of a deleted task is not followed.
Grows(t) ==
  /\ recording[t] /\ status[t] # "gone" /\ len[t] < MaxLen
  /\ len' = [len EXCEPT ![t] = @ + 1]
  /\ UNCHANGED <<status, recording, static, way, ground, losses, history>>

Closes(t) ==
  /\ recording[t] /\ status[t] # "running"
  /\ recording' = [recording EXCEPT ![t] = FALSE]
  /\ UNCHANGED <<status, len, static, way, ground, losses, history>>

-----------------------------------------------------------------------------
(* The client.                                                             *)

get_uploading_task ==
  LET candidates == {t \in Tasks : status[t] \in Uploads} IN
  IF cached # NoTask /\ status[cached] # "gone" THEN cached
  ELSE IF candidates = {} THEN NoTask
  ELSE CHOOSE t \in candidates : \A u \in candidates : t <= u

\* The same length as at the last check, of whichever task, stands for a
\* trace that has stopped.  Mutants: the length does not matter; the length of
\* the last check is not kept.
Stopped_any(n)  == old_file_len > 0
Stopped_never(n) == FALSE
Stopped(n) == old_file_len > 0 /\ old_file_len = n

\* Failed opens are counted; one too many deletes the task.  (Mutant: one more
\* than the limit is tolerated.)
TooMany_late(n) == n > NoFileLimit
TooMany(n) == n >= NoFileLimit

check_and_request(t) ==
  LET n == len[t] IN
  \/ /\ n = Missing                                    \* open fails
     /\ IF TooMany(no_file_check)
        THEN /\ status' = [status EXCEPT ![t] = "gone"]
             /\ no_file_check' = 0
        ELSE /\ no_file_check' = no_file_check + 1
             /\ UNCHANGED status
     /\ UNCHANGED <<trace_stop, old_file_len, toGround, sized, judged>>
  \/ /\ n # Missing
     /\ no_file_check' = 0
     /\ trace_stop' = Stopped(n)
     /\ old_file_len' = n
     /\ sized' = t
     /\ judged' = IF old_file_len = n THEN sized ELSE NoTask
     /\ toGround' = IF status[t] = "uploading" \/ n >= (fragment_id + 1) * Fragment
                    THEN Write(toGround, Frame("REQUEST", t, 0, 0)) ELSE toGround
     /\ UNCHANGED status

\* Every ten seconds.  The bound leaves room for the answer to a fragment that
\* is asked for: the way does not fill up with requests between two checks.
check_and_upload_task ==
  LET t == get_uploading_task IN
  /\ t # NoTask
  /\ Len(toGround) + 1 < MaxWay
  /\ cached' = t
  /\ check_and_request(t)
  /\ UNCHANGED <<len, recording, fragment_id, toClient, ground, losses, early>>

Taken == toClient' = Tail(toClient)

\* The client has a whole fragment f.id of the file; or the rest of it, which
\* is sent when the trace has stopped.  (Mutants: one unit less is taken for a
\* whole fragment; the status does not matter.)
IsWhole_short(f) == len[f.task] >= Fragment * f.id - 1
IsWhole(f) == len[f.task] >= Fragment * f.id
IsLast_running(f) == trace_stop
IsLast(f)  == status[f.task] = "uploading" /\ trace_stop

\* 301 and 305.
upload_file ==
  LET f    == Head(toClient)
      rest == len[f.task] - Fragment * (f.id - 1)
      answer == IF IsWhole(f) THEN Frame("UPLOADING", f.task, f.id, Fragment)
                ELSE Frame("LATEST", f.task, f.id, IF rest > 0 THEN rest ELSE 0)
      sends == IsWhole(f) \/ IsLast(f)
  IN
  /\ toClient # <<>> /\ f.state \in {"AGREE", "GOON"}
  /\ Taken
  /\ IF status[f.task] = "gone" \/ len[f.task] = Missing
     THEN UNCHANGED <<fragment_id, toGround, history>>
     ELSE /\ fragment_id' = f.id
          /\ toGround' = IF sends THEN Write(toGround, answer) ELSE toGround
          /\ early' = [early EXCEPT ![f.task] =
                         @ \/ (sends /\ answer.state = "LATEST" /\ recording[f.task])]
          /\ UNCHANGED <<sized, judged>>
  /\ UNCHANGED <<status, len, recording, trace_stop, old_file_len, no_file_check, cached, ground, losses>>

\* 311.
upload_success ==
  LET f == Head(toClient) IN
  /\ toClient # <<>> /\ f.state = "SUCCESS"
  /\ Taken
  /\ status' = [status EXCEPT ![f.task] = "gone"]
  /\ fragment_id' = 0
  /\ UNCHANGED <<len, recording, trace_stop, old_file_len, no_file_check, cached, toGround, ground, losses, history>>

-----------------------------------------------------------------------------
(* The ground: it asks for the first fragment it does not have, appends it   *)
(* and confirms the file when it has the last one.                          *)

Asks(t, state, have) == toClient' = Write(toClient, Frame(state, t, have + 1, 0))
Confirms(t) == toClient' = Write(toClient, Frame("SUCCESS", t, 0, 0))

Stores(f) ==
  LET t == f.task IN
  IF f.id = pieces[t] + 1 /\ ~ whole[t]
  THEN /\ pieces' = [pieces EXCEPT ![t] = f.id]
       /\ units' = [units EXCEPT ![t] = @ + f.len]
       /\ whole' = [whole EXCEPT ![t] = f.state = "LATEST"]
  ELSE UNCHANGED ground

Ground ==
  LET f == Head(toGround)
      t == f.task
  IN
  /\ toGround # <<>> /\ toGround' = Tail(toGround)
  /\ \/ f.state = "REQUEST" /\ UNCHANGED ground
     \/ f.state # "REQUEST" /\ Stores(f)
  /\ IF whole'[t] THEN Confirms(t)
     ELSE Asks(t, IF f.state = "REQUEST" THEN "AGREE" ELSE "GOON", pieces'[t])
  /\ UNCHANGED <<status, len, recording, static, losses, history>>

-----------------------------------------------------------------------------
\* The connection is lost with what is on its way.
Disconnects ==
  /\ losses < MaxLoss
  /\ losses' = losses + 1
  /\ toGround' = <<>> /\ toClient' = <<>>
  /\ UNCHANGED <<status, len, recording, static, ground, history>>

\* The client restarts; the queue is a mapped file, the variables are not.
Restarts ==
  /\ losses < MaxLoss
  /\ losses' = losses + 1
  /\ toGround' = <<>> /\ toClient' = <<>>
  /\ fragment_id' = 0 /\ trace_stop' = TRUE /\ old_file_len' = 0 /\ no_file_check' = 0
  /\ cached' = NoTask
  /\ sized' = NoTask /\ judged' = NoTask
  /\ UNCHANGED <<status, len, recording, ground, early>>

Init ==
  /\ status = [t \in Tasks |-> "waiting"]
  /\ len = [t \in Tasks |-> Missing] /\ recording = [t \in Tasks |-> FALSE]
  /\ fragment_id = 0 /\ trace_stop = TRUE /\ old_file_len = 0 /\ no_file_check = 0
  /\ cached = NoTask
  /\ toGround = <<>> /\ toClient = <<>>
  /\ pieces = [t \in Tasks |-> 0] /\ units = [t \in Tasks |-> 0]
  /\ whole = [t \in Tasks |-> FALSE]
  /\ losses = 0
  /\ sized = NoTask /\ judged = NoTask /\ early = [t \in Tasks |-> FALSE]

Handles == upload_file \/ upload_success
Ends(t) == Stops(t) \/ report_stop_reason(t) \/ Closes(t)

Next ==
  \/ \E t \in Tasks : Starts(t) \/ Opens(t) \/ Grows(t) \/ Ends(t)
  \/ check_and_upload_task \/ Handles
  \/ Ground
  \/ Disconnects \/ Restarts

\* Checks are due again and again, frames are handled, a test ends at its stop
\* time and is explained, and the daemon closes the file of a stopped test.
Fairness ==
  /\ WF_vars(check_and_upload_task)
  /\ WF_vars(Handles)
  /\ WF_vars(Ground)
  /\ WF_vars(\E t \in Tasks : Ends(t))

Spec == Init /\ [][Next]_vars /\ Fairness
=============================================================================
