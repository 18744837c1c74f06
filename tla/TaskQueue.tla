------------------------------ MODULE TaskQueue ------------------------------
(***************************************************************************)
(* The task queue of the client process: the QUEUE_SIZE slots of the file  *)
(* TTask.db, mapped into memory and kept over restarts (client/client_     *)
(* task_queue.c).  This module holds the data and the pure look-ups; the   *)
(* handlers that change the queue are in ClientTask.                       *)
(*                                                                         *)
(* A task is identified by its 16-byte task_id.  The ground gives every    *)
(* task one window [Start, Stop] and never reuses an id, so the content of *)
(* a stored task_fmt is a function of the task it belongs to.              *)
(***************************************************************************)
EXTENDS Integers, FiniteSets

CONSTANTS
  Tasks,        \* the test tasks the ground may send
  Zero,         \* the all-zero task_id, and the content of a void slot
  QueueSize,    \* QUEUE_SIZE, the number of slots
  Start, Stop,  \* start_time and stop_time of each task
  Trio0         \* the tasks whose module flag for Trio 0 is set

ASSUME QueueAssumption ==
  /\ Zero \notin Tasks
  /\ QueueSize \in Nat \ {0}
  /\ Start \in [Tasks -> Nat \ {0}]
  /\ Stop \in [Tasks -> Nat]
  /\ \A k \in Tasks : Start[k] <= Stop[k]
  /\ Trio0 \subseteq Tasks

QUEUE          == "TASK_QUEUE"
TESTING        == "TASK_TESTING_AND_UPLOADING"
STOP_AUTO      == "TASK_STOP_AUTO"
STOP_MANU      == "TASK_STOP_MANU"
UPLOADING      == "TASK_UPLOADING"

\* The values of enum task_status the client ever stores.
task_status == {QUEUE, TESTING, STOP_AUTO, STOP_MANU, UPLOADING}
Stopped     == {STOP_AUTO, STOP_MANU}

Ids   == Tasks \cup {Zero}
Slots == 1 .. QueueSize
NULL  == 0

\* struct task_t: task is Zero exactly when task.len == 0.
task_t == [task : Ids, id : Ids, status : task_status]

\* A slot after memset(task, 0, sizeof(struct task_t)).
Void == [task |-> Zero, id |-> Zero, status |-> QUEUE]

-----------------------------------------------------------------------------
(* Look-ups over a queue q \in [Slots -> task_t].                          *)

Used(q, i) == q[i].task # Zero

\* start_time of a slot as the code reads it: a void slot reads as 0.
start_time(q, i) == IF Used(q, i) THEN Start[q[i].task] ELSE 0

\* Every search of the code scans from slot 0 and stops at the first match.
First(S) == IF S = {} THEN NULL ELSE CHOOSE i \in S : \A j \in S : i <= j

get_void_task(q)      == First({i \in Slots : ~ Used(q, i)})
get_running_task(q)   == First({i \in Slots : q[i].status = TESTING})

\* Mutant: every task that has left the queue status counts as stopped.
get_stop_task_started(q) == First({i \in Slots : q[i].status # QUEUE})
get_stop_task(q)         == First({i \in Slots : q[i].status \in Stopped})

get_task_by_id(q, id) == First({i \in Slots : q[i].id = id})

\* Mutant: stopped tasks whose upload is not complete are passed over.
EarliestUpload_running(q) ==
  LET C == {i \in Slots : q[i].status = TESTING}
  IN  First({i \in C : \A j \in C : start_time(q, i) <= start_time(q, j)})

\* The search of get_uploading_task, without its static cache.
EarliestUpload(q) ==
  LET C == {i \in Slots : q[i].status \in {TESTING, UPLOADING}}
  IN  First({i \in C : \A j \in C : start_time(q, i) <= start_time(q, j)})

Overlap(k, m) == ~ (Stop[k] < Start[m] \/ Start[k] > Stop[m])

ACTION_EXPIRED_ERR           == 8
ACTION_DATABASE_NO_SPACE_ERR == 9
ACTION_NO_THIS_TASK          == 10
ACTION_OTHER_TASK_RUNNING    == 11
ACTION_RECV_REPEAT_TASK      == 12

\* Mutants: finished tasks are not compared; repeated tasks are not compared.
clashing_queued(q, k) == First({i \in Slots : q[i].status = QUEUE /\ Used(q, i) /\ Overlap(k, q[i].task)})
clashing_other(q, k)  == First({i \in Slots : q[i].task # k /\ Used(q, i) /\ Overlap(k, q[i].task)})

\* The first stored task whose window overlaps that of task k.
clashing(q, k) == First({i \in Slots : Used(q, i) /\ Overlap(k, q[i].task)})

\* The result of check_new_task, with the sign of the errors dropped.
check_new_task(q, k, t) ==
  LET clash == clashing(q, k)
  IN  CASE t >= Stop[k]   -> ACTION_EXPIRED_ERR
        [] t < Stop[k] /\ clash = NULL -> 0
        [] OTHER -> IF /\ Start[k] = Start[q[clash].task]
                       /\ Stop[k] = Stop[q[clash].task]
                    THEN ACTION_RECV_REPEAT_TASK
                    ELSE ACTION_EXPIRED_ERR
=============================================================================
