--------------------------- MODULE ClientTaskProofs ---------------------------
(***************************************************************************)
(* Proofs about ClientTask for any set of tasks, any windows and any size  *)
(* of the queue.                                                           *)
(*                                                                         *)
(* All of them rest on QueueOK, the shape of the queue.  NoOverlap alone   *)
(* is not inductive: check_new_task is called with the windows of the      *)
(* tasks stored in used slots, and a slot is reused when its task is Zero, *)
(* so the proof needs to know that a slot without a task holds nothing     *)
(* else and that a slot is only ever found by the id of its own task.      *)
(***************************************************************************)
EXTENDS ClientTaskProps, FiniteSetTheorems, TLAPS

QueueOK(q) ==
  /\ q \in [Slots -> task_t]
  /\ \A i \in Slots : ~ Used(q, i) => q[i] = Void
  /\ \A i \in Slots : q[i].id \in {Zero, q[i].task}
  /\ \A i, j \in Slots :
       i # j /\ Used(q, i) /\ Used(q, j) => ~ Overlap(q[i].task, q[j].task)

\* The inductive invariant.
IInv == TypeOK /\ QueueOK(tt)

-----------------------------------------------------------------------------
(* The look-ups.                                                           *)

\* The first-match search of the C loops finds a matching slot if there is one.
LEMMA FirstFound ==
  ASSUME NEW S, S \subseteq Slots
  PROVE  /\ S = {} => First(S) = NULL
         /\ S # {} => First(S) \in S
         /\ First(S) # NULL => First(S) \in S
         /\ First(S) \in Slots \cup {NULL}
<1>1. CASE S = {}
  BY <1>1 DEF First
<1>2. CASE S # {}
  <2> DEFINE T == {1 .. i : i \in S}
  <2>1. S \subseteq Nat
    BY QueueAssumption DEF Slots
  <2>2. T \subseteq FiniteSubsetsOf(Nat) /\ T # {}
    <3>1. ASSUME NEW i \in S PROVE 1 .. i \in FiniteSubsetsOf(Nat)
      <4>1. IsFiniteSet(1 .. i)
        BY <2>1, FS_Interval
      <4> QED BY <4>1, <2>1 DEF FiniteSubsetsOf
    <3> QED BY <3>1, <1>2
  <2>3. PICK x \in T : \A y \in T : ~ (<<y, x>> \in StrictSubsetOrdering(Nat))
    BY <2>2, FS_StrictSubsetOrderingWellFounded, WFMin
  <2>4. PICK i \in S : x = 1 .. i
    OBVIOUS
  <2>5. ASSUME NEW j \in S PROVE i <= j
    <3>1. ~ (<<1 .. j, 1 .. i>> \in StrictSubsetOrdering(Nat))
      BY <2>3, <2>4
    <3>2. ~ (1 .. j \subseteq 1 .. i /\ 1 .. j # 1 .. i)
      BY <3>1, <2>1 DEF StrictSubsetOrdering
    <3>3. i \in Nat /\ j \in Nat
      BY <2>1
    <3> QED
      BY <3>2, <3>3
  <2>6. First(S) \in S
    BY <1>2, <2>5 DEF First
  <2> QED BY <1>2, <2>6
<1> QED BY <1>1, <1>2

\* Each look-up returns NULL or a slot of the kind it searches.
LEMMA LookUps ==
  ASSUME NEW q \in [Slots -> task_t]
  PROVE  /\ \/ get_void_task(q) = NULL
            \/ get_void_task(q) \in {i \in Slots : ~ Used(q, i)}
         /\ \/ get_running_task(q) = NULL
            \/ get_running_task(q) \in {i \in Slots : q[i].status = TESTING}
         /\ \/ get_stop_task(q) = NULL
            \/ get_stop_task(q) \in {i \in Slots : q[i].status \in Stopped}
         /\ \A id : \/ get_task_by_id(q, id) = NULL
                    \/ get_task_by_id(q, id) \in {i \in Slots : q[i].id = id}
         /\ \/ EarliestUpload(q) = NULL
            \/ EarliestUpload(q) \in {i \in Slots : q[i].status \in {TESTING, UPLOADING}}
<1>1. \/ get_void_task(q) = NULL
      \/ get_void_task(q) \in {i \in Slots : ~ Used(q, i)}
  BY FirstFound, {i \in Slots : ~ Used(q, i)} \subseteq Slots DEF get_void_task
<1>2. \/ get_running_task(q) = NULL
      \/ get_running_task(q) \in {i \in Slots : q[i].status = TESTING}
  BY FirstFound, {i \in Slots : q[i].status = TESTING} \subseteq Slots DEF get_running_task
<1>3. \/ get_stop_task(q) = NULL
      \/ get_stop_task(q) \in {i \in Slots : q[i].status \in Stopped}
  BY FirstFound, {i \in Slots : q[i].status \in Stopped} \subseteq Slots DEF get_stop_task
<1>4. ASSUME NEW id
      PROVE  \/ get_task_by_id(q, id) = NULL
             \/ get_task_by_id(q, id) \in {i \in Slots : q[i].id = id}
  BY FirstFound, {i \in Slots : q[i].id = id} \subseteq Slots DEF get_task_by_id
<1>5. \/ EarliestUpload(q) = NULL
      \/ EarliestUpload(q) \in {i \in Slots : q[i].status \in {TESTING, UPLOADING}}
  <2> DEFINE C == {i \in Slots : q[i].status \in {TESTING, UPLOADING}}
             S == {i \in C : \A j \in C : start_time(q, i) <= start_time(q, j)}
  <2>1. EarliestUpload(q) = First(S)
    BY DEF EarliestUpload
  <2>2. S \subseteq C /\ C \subseteq Slots
    OBVIOUS
  <2>3. First(S) = NULL \/ First(S) \in S
    BY <2>2, FirstFound
  <2> QED BY <2>1, <2>2, <2>3
<1> QED BY <1>1, <1>2, <1>3, <1>4, <1>5

\* A task that passes check_new_task overlaps no stored task.
LEMMA CheckedIsFree ==
  ASSUME NEW q \in [Slots -> task_t], NEW k \in Tasks, NEW t \in Int,
         check_new_task(q, k, t) = 0
  PROVE  \A i \in Slots : Used(q, i) => ~ Overlap(k, q[i].task)
<1> DEFINE S == {i \in Slots : Used(q, i) /\ Overlap(k, q[i].task)}
<1>1. S \subseteq Slots
  OBVIOUS
<1>2. t < Stop[k] /\ First(S) = NULL
  BY QueueAssumption DEF check_new_task, clashing, ACTION_EXPIRED_ERR, ACTION_RECV_REPEAT_TASK
<1>3. First(S) \in Slots => First(S) # NULL
  BY DEF Slots, NULL
<1>4. S = {}
  BY <1>1, <1>2, <1>3, FirstFound
<1> QED BY <1>4

-----------------------------------------------------------------------------
(* The four ways in which the handlers change the queue.                   *)

\* update_task: a used slot gets another status.
LEMMA StatusKeeps ==
  ASSUME NEW q, QueueOK(q), NEW i \in Slots, Used(q, i), NEW s \in task_status
  PROVE  QueueOK([q EXCEPT ![i].status = s])
<1> DEFINE r == [q EXCEPT ![i].status = s]
<1>1. r \in [Slots -> task_t]
  BY DEF QueueOK, task_t
<1>2. \A j \in Slots : r[j].task = q[j].task /\ r[j].id = q[j].id
  BY DEF QueueOK, task_t
<1>3. \A j \in Slots : j # i => r[j] = q[j]
  BY DEF QueueOK
<1>4. \A j \in Slots : Used(r, j) = Used(q, j)
  BY <1>2 DEF Used
<1> HIDE DEF r
<1>5. QueueOK(r)
  BY <1>1, <1>2, <1>3, <1>4 DEF QueueOK
<1> QED BY <1>5 DEF r

\* del_task: a slot is cleared.
LEMMA DeleteKeeps ==
  ASSUME NEW q, QueueOK(q), NEW i \in Slots
  PROVE  QueueOK([q EXCEPT ![i] = Void])
<1> DEFINE r == [q EXCEPT ![i] = Void]
<1>1. Void \in task_t
  BY DEF Void, task_t, Ids, task_status
<1>2. r \in [Slots -> task_t]
  BY <1>1 DEF QueueOK
<1>3. r[i] = Void /\ \A j \in Slots : j # i => r[j] = q[j]
  BY DEF QueueOK
<1> HIDE DEF r
<1>4. ~ Used(r, i) /\ \A j \in Slots : j # i => (Used(r, j) <=> Used(q, j))
  BY <1>3 DEF Used, Void
<1>5. QueueOK(r)
  BY <1>2, <1>3, <1>4 DEF QueueOK, Void
<1> QED BY <1>5 DEF r

\* recv_task: a checked task goes to a void slot, with or without its id.
LEMMA StoreKeeps ==
  ASSUME NEW q, QueueOK(q), NEW i \in Slots, ~ Used(q, i), NEW k \in Tasks,
         \A j \in Slots : Used(q, j) => ~ Overlap(k, q[j].task)
  PROVE  QueueOK([q EXCEPT ![i].task = k,
                           ![i].id = IF k \in Trio0 THEN k ELSE @,
                           ![i].status = IF k \in Trio0 THEN QUEUE ELSE @])
<1> DEFINE r == [q EXCEPT ![i].task = k,
                          ![i].id = IF k \in Trio0 THEN k ELSE @,
                          ![i].status = IF k \in Trio0 THEN QUEUE ELSE @]
<1>1. q[i] = Void /\ q \in [Slots -> task_t]
  BY DEF QueueOK
<1>2. r \in [Slots -> task_t]
  BY ZenonT(60), <1>1 DEF task_t, Ids, task_status
<1>3. r[i].task = k /\ r[i].id \in {Zero, k}
  BY <1>1 DEF task_t, Void
<1>4. \A j \in Slots : j # i => r[j] = q[j]
  BY <1>1
<1> HIDE DEF r
<1>5. k # Zero
  BY QueueAssumption
<1>6. Used(r, i) /\ \A j \in Slots : j # i => (Used(r, j) <=> Used(q, j))
  BY <1>3, <1>4, <1>5 DEF Used
<1>7. \A j \in Slots : Used(q, j) => ~ Overlap(q[j].task, k)
  BY QueueAssumption, <1>1 DEF Overlap, Used, task_t, Ids
<1>8. QueueOK(r)
  BY <1>2, <1>3, <1>4, <1>5, <1>6, <1>7 DEF QueueOK
<1> QED BY <1>8 DEF r

-----------------------------------------------------------------------------
(* The invariant.                                                          *)

\* start_task, by hand or by time, keeps the queue in order.
LEMMA StartTaskKeeps ==
  ASSUME IInv, NEW i \in Slots, start_task(i)
  PROVE  QueueOK(tt') /\ sync_task' \in Slots \cup {NULL}
<1>1. CASE Used(tt, i) /\ update_task(i, TESTING) /\ sync_task' = i
  BY <1>1, StatusKeeps DEF IInv, update_task, task_status
<1>2. CASE UNCHANGED <<tt, sync_task>>
  BY <1>2 DEF IInv, TypeOK
<1> QED BY <1>1, <1>2 DEF start_task

\* So does stop_task, which may delete the task it stops.
LEMMA StopTaskKeeps ==
  ASSUME IInv, NEW i \in Slots, NEW how \in Stopped, stop_task(i, how)
  PROVE  QueueOK(tt') /\ sync_task' \in Slots \cup {NULL}
<1>1. CASE Used(tt, i) /\ update_task(i, how) /\ sync_task' = NULL
  BY <1>1, StatusKeeps DEF IInv, update_task, task_status, Stopped
<1>2. CASE Used(tt, i) /\ del_task(i) /\ UNCHANGED sync_task
  <2>1. i # NULL
    BY DEF Slots, NULL
  <2> QED BY <1>2, <2>1, DeleteKeeps DEF IInv, TypeOK, del_task
<1>3. CASE UNCHANGED <<tt, sync_task>>
  BY <1>3 DEF IInv, TypeOK
<1> QED BY <1>1, <1>2, <1>3 DEF stop_task

\* Every frame of the ground keeps the invariant.
LEMMA RemoteFrameKeeps ==
  ASSUME IInv, RemoteFrame
  PROVE  IInv'
<1> DEFINE Rest == /\ idx \in Slots /\ startTime \in Nat
                   /\ no_file_check \in 0 .. NoFileLimit
                   /\ scan \in Select .. UploadPos
<1>1. QueueOK(tt) /\ tt \in [Slots -> task_t] /\ sync_task \in Slots \cup {NULL}
  BY DEF IInv, TypeOK
<1>2. ASSUME Handling, QueueOK(tt'), sync_task' \in Slots \cup {NULL} PROVE IInv'
  BY <1>2 DEF IInv, TypeOK, Handling, QueueOK
<1>3. ASSUME NEW k \in Tasks, recv_task(k) PROVE IInv'
  <2> DEFINE i == get_void_task(tt)
  <2>1. CASE UNCHANGED tt
    BY <1>1, <1>2, <1>3, <2>1 DEF recv_task
  <2>2. CASE /\ i # NULL /\ check_new_task(tt, k, now) = 0
             /\ tt' = [tt EXCEPT ![i].task = k,
                                 ![i].id = IF k \in Trio0 THEN k ELSE @,
                                 ![i].status = IF k \in Trio0 THEN QUEUE ELSE @]
    <3>1. i \in Slots /\ ~ Used(tt, i)
      BY <1>1, <2>2, LookUps
    <3>2. now \in Int
      BY DEF IInv, TypeOK
    <3>3. \A j \in Slots : Used(tt, j) => ~ Overlap(k, tt[j].task)
      BY <1>1, <2>2, <3>2, CheckedIsFree
    <3>4. QueueOK(tt')
      BY <1>1, <2>2, <3>1, <3>3, StoreKeeps
    <3> QED BY <1>1, <1>2, <1>3, <3>4 DEF recv_task
  <2> QED BY <1>3, <2>1, <2>2 DEF recv_task
<1>4. ASSUME NEW id \in Ids, start_task_manual(id) PROVE IInv'
  <2> DEFINE i == get_task_by_id(tt, id)
  <2>1. CASE UNCHANGED <<tt, sync_task>>
    BY <1>1, <1>2, <1>4, <2>1 DEF start_task_manual
  <2>2. CASE i # NULL /\ start_task(i)
    <3>1. i \in Slots
      BY <1>1, <2>2, LookUps
    <3> QED BY <1>2, <1>4, <2>2, <3>1, StartTaskKeeps DEF start_task_manual
  <2> QED BY <1>4, <2>1, <2>2 DEF start_task_manual
<1>5. ASSUME NEW id \in Ids, stop_task_manual(id) PROVE IInv'
  <2> DEFINE i == get_task_by_id(tt, id)
  <2>1. CASE UNCHANGED <<tt, sync_task>>
    BY <1>1, <1>2, <1>5, <2>1 DEF stop_task_manual
  <2>2. CASE i # NULL /\ stop_task(i, STOP_MANU)
    <3>1. i \in Slots
      BY <1>1, <2>2, LookUps
    <3> QED BY <1>2, <1>5, <2>2, <3>1, StopTaskKeeps DEF stop_task_manual, Stopped
  <2> QED BY <1>5, <2>1, <2>2 DEF stop_task_manual
<1>6. ASSUME NEW i, i = NULL \/ i \in Slots, del_task(i) PROVE QueueOK(tt')
  BY <1>1, <1>6, DeleteKeeps DEF del_task
<1>7. ASSUME NEW id \in Ids, cancel_task(id) PROVE IInv'
  <2>1. get_task_by_id(tt, id) = NULL \/ get_task_by_id(tt, id) \in Slots
    BY <1>1, LookUps
  <2> QED BY <1>1, <1>2, <1>6, <1>7, <2>1 DEF cancel_task
<1>8. ASSUME NEW id \in Ids, report_task_status(id) PROVE IInv'
  BY <1>1, <1>2, <1>8 DEF report_task_status
<1>9. ASSUME NEW id \in Ids, report_stop_reason(id) PROVE IInv'
  <2> DEFINE i == get_task_by_id(tt, id)
  <2>1. CASE tt' = tt
    BY <1>1, <1>2, <1>9, <2>1 DEF report_stop_reason
  <2>2. CASE i # NULL /\ Used(tt, i) /\ tt' = [tt EXCEPT ![i].status = UPLOADING]
    <3>1. i \in Slots
      BY <1>1, <2>2, LookUps
    <3>2. QueueOK(tt')
      BY <1>1, <2>2, <3>1, StatusKeeps DEF task_status
    <3> QED BY <1>1, <1>2, <1>9, <3>2 DEF report_stop_reason
  <2> QED BY <1>9, <2>1, <2>2 DEF report_stop_reason
<1>10. ASSUME NEW id \in Ids, upload_success(id) PROVE IInv'
  <2>1. get_task_by_id(tt, id) = NULL \/ get_task_by_id(tt, id) \in Slots
    BY <1>1, LookUps
  <2> QED BY <1>1, <1>2, <1>6, <1>10, <2>1 DEF upload_success
<1>11. ASSUME NEW t \in 0 .. MaxTime, set_system_datetime(t) PROVE IInv'
  BY <1>11 DEF set_system_datetime, static, IInv, TypeOK, QueueOK
<1> QED
  BY <1>3, <1>4, <1>5, <1>7, <1>8, <1>9, <1>10, <1>11 DEF RemoteFrame

\* So does every step of process_task_queue.
LEMMA ProcessTaskQueueKeeps ==
  ASSUME IInv, ProcessTaskQueue
  PROVE  IInv'
<1>1. QueueSize \in Nat \ {0}
  BY QueueAssumption
<1>2. CASE StartPass
  BY <1>1, <1>2 DEF StartPass, static, IInv, TypeOK, QueueOK, Select, UploadPos
<1>3. CASE check_and_process_task
  <2>1. scan \in Slots /\ scan' \in Select .. UploadPos
    BY <1>1, <1>3 DEF check_and_process_task, Slots, Select, UploadPos
  <2>2. QueueOK(tt') /\ sync_task' \in Slots \cup {NULL}
    <3>1. CASE stop_task(scan, STOP_AUTO)
      BY <2>1, <3>1, StopTaskKeeps DEF Stopped
    <3>2. CASE start_task(scan)
      BY <2>1, <3>2, StartTaskKeeps
    <3>3. CASE UNCHANGED <<tt, sync_task>>
      BY <3>3 DEF IInv, TypeOK
    <3> QED BY <1>3, <3>1, <3>2, <3>3 DEF check_and_process_task
  <2> QED BY <1>3, <2>1, <2>2 DEF check_and_process_task, IInv, TypeOK, QueueOK
<1>4. ASSUME NEW due \in BOOLEAN, NEW opened \in BOOLEAN, NEW grown \in BOOLEAN,
             check_and_upload_task(due, opened, grown)
      PROVE  IInv'
  <2> DEFINE t == get_uploading_task
  <2>1. t = NULL \/ t \in Slots
    BY LookUps DEF get_uploading_task, IInv, TypeOK, QueueOK
  <2>2. \A i \in Slots : start_time(tt, i) \in Nat
    BY QueueAssumption DEF start_time, Used, IInv, TypeOK, task_t, Ids
  <2>3. 1 \in Slots /\ Select \in Select .. UploadPos /\ NoFileLimit \in Nat
    BY <1>1, ClientAssumption DEF Slots, Select, UploadPos
  <2> HIDE DEF t
  <2>4. idx' \in Slots /\ startTime' \in Nat
    BY <1>4, <2>1, <2>2, <2>3 DEF check_and_upload_task, IInv, TypeOK, t
  <2>5. ASSUME t \in Slots, check_and_request(t, opened, grown)
        PROVE  QueueOK(tt') /\ no_file_check' \in 0 .. NoFileLimit
    <3>1. no_file_check \in 0 .. NoFileLimit /\ t # NULL /\ QueueOK(tt)
      BY <2>5 DEF IInv, TypeOK, Slots, NULL
    <3>2. CASE del_task(t) /\ no_file_check' = 0
      <4>1. tt' = [tt EXCEPT ![t] = Void]
        BY <3>1, <3>2, Zenon DEF del_task
      <4>2. QueueOK(tt')
        BY <2>5, <3>1, <4>1, DeleteKeeps, Zenon
      <4> QED BY <2>3, <3>2, <4>2
    <3>3. CASE UNCHANGED tt /\ no_file_check' = 0
      BY <2>3, <3>1, <3>3
    <3>4. CASE UNCHANGED tt /\ no_file_check < NoFileLimit
               /\ no_file_check' = no_file_check + 1
      BY <2>3, <3>1, <3>4
    <3>5. \/ UNCHANGED tt /\ no_file_check' = 0
          \/ /\ UNCHANGED tt /\ no_file_check < NoFileLimit
             /\ no_file_check' = no_file_check + 1
          \/ del_task(t) /\ no_file_check' = 0
      BY <2>5, Zenon DEF check_and_request
    <3> QED BY <3>2, <3>3, <3>4, <3>5, Zenon
  <2>6. QueueOK(tt') /\ no_file_check' \in 0 .. NoFileLimit
    <3>1. CASE UNCHANGED <<tt, no_file_check>>
      BY <3>1 DEF IInv, TypeOK
    <3>2. CASE t # NULL /\ check_and_request(t, opened, grown)
      BY <2>1, <2>5, <3>2
    <3> QED BY <1>4, <3>1, <3>2 DEF check_and_upload_task, t
  <2>7. /\ scan' \in Select .. UploadPos
        /\ UNCHANGED <<sync_task, now>>
    BY <1>4, <2>3 DEF check_and_upload_task
  <2> QED BY <2>4, <2>6, <2>7 DEF IInv, TypeOK, QueueOK
<1> QED BY <1>2, <1>3, <1>4 DEF ProcessTaskQueue

\* The queue keeps its shape whatever the ground, the clock, the trace file and
\* the monitor do.
THEOREM Invariance == Spec => []IInv
<1>1. Init => IInv
  <2> SUFFICES ASSUME Init PROVE IInv
    OBVIOUS
  <2>1. Void \in task_t /\ 1 \in Slots /\ 1 \in Select .. UploadPos
    BY QueueAssumption DEF Void, task_t, Ids, task_status, Slots, Select, UploadPos
  <2>2. \A i \in Slots : tt[i] = Void /\ ~ Used(tt, i)
    BY DEF Init, Used, Void
  <2>3. TypeOK
    BY <2>1, ClientAssumption DEF Init, TypeOK
  <2> QED BY <2>2, <2>3 DEF IInv, QueueOK, TypeOK, Void
<1>2. IInv /\ [Next]_vars => IInv'
  <2> SUFFICES ASSUME IInv, [Next]_vars PROVE IInv'
    OBVIOUS
  <2>1. CASE RemoteFrame
    BY <2>1, RemoteFrameKeeps
  <2>2. CASE ProcessTaskQueue
    BY <2>2, ProcessTaskQueueKeeps
  <2>3. CASE Tick
    BY <2>3, ClientAssumption DEF Tick, static, IInv, TypeOK, QueueOK
  <2>4. CASE Restart
    <3>1. 1 \in Slots /\ 1 \in Select .. UploadPos /\ 0 \in 0 .. NoFileLimit
      BY QueueAssumption, ClientAssumption DEF Slots, Select, UploadPos
    <3> QED BY <2>4, <3>1 DEF Restart, IInv, TypeOK, QueueOK
  <2>5. CASE UNCHANGED vars
    BY <2>5 DEF vars, IInv, TypeOK, QueueOK
  <2> QED BY <2>1, <2>2, <2>3, <2>4, <2>5 DEF Next
<1> QED BY <1>1, <1>2, PTL DEF Spec

-----------------------------------------------------------------------------
(* What follows from it.                                                   *)

\* The variables stay in their domains; the statics of the upload never leave
\* theirs.
THEOREM TypeCorrect == Spec => []TypeOK
<1>1. IInv => TypeOK
  BY DEF IInv
<1> QED BY <1>1, Invariance, PTL

\* recv_task never stores two tasks whose windows overlap.
THEOREM CalendarIsFree == Spec => []NoOverlap
<1>1. IInv => NoOverlap
  BY DEF IInv, QueueOK, NoOverlap
<1> QED BY <1>1, Invariance, PTL

\* In a well-shaped queue two slots never carry the same id: a task overlaps
\* itself, so it is not stored twice.
LEMMA OneSlotPerId ==
  ASSUME NEW q, QueueOK(q), NEW i \in Slots, NEW j \in Slots,
         q[i].id = q[j].id, q[i].id # Zero
  PROVE  i = j
<1>1. Used(q, i) /\ Used(q, j) /\ q[i].task = q[j].task
  BY DEF QueueOK, Used
<1>2. q[i].task \in Tasks
  BY <1>1 DEF QueueOK, task_t, Used, Ids
<1>3. Overlap(q[i].task, q[i].task)
  BY <1>2, QueueAssumption DEF Overlap
<1> QED BY <1>1, <1>3 DEF QueueOK

\* A look-up by id finds the only slot of the task it names.
THEOREM IdsAreUnique == Spec => []UniqueIds
<1>1. IInv => UniqueIds
  BY OneSlotPerId DEF IInv, UniqueIds
<1> QED BY <1>1, Invariance, PTL

\* A slot that recv_task reuses holds nothing of the task it held before.
THEOREM VoidSlotsAreZero == Spec => []VoidIsZero
<1>1. IInv => VoidIsZero
  BY DEF IInv, QueueOK, VoidIsZero
<1> QED BY <1>1, Invariance, PTL

-----------------------------------------------------------------------------
(* The confirmation of a stop.                                             *)

Confirms(f, q) ==
  f.state = "STOP_TASK_SUCCESS" /\ f.id # Zero =>
    \A i \in Slots : q[i].id = f.id => q[i].status \in Stopped \cup {UPLOADING}

\* A frame filled from a slot that has stopped is true of the queue.
LEMMA StopRspIsTrue ==
  ASSUME NEW q, QueueOK(q), NEW i \in Slots, q[i].status \in Stopped \cup {UPLOADING}
  PROVE  Confirms(stop_task_rsp(q, i), q)
<1>1. stop_task_rsp(q, i).id = q[i].id
  BY DEF stop_task_rsp, Ok, Frame, IdOf, Slots, NULL
<1> QED BY <1>1, OneSlotPerId DEF Confirms

\* What check_stop_task sends is true of the queue it looks at.
LEMMA CheckStopIsTrue ==
  ASSUME NEW q, QueueOK(q), NEW f \in check_stop_task(q)
  PROVE  Confirms(f, q)
<1>1. CASE get_stop_task(q) # NULL /\ f = stop_task_rsp(q, get_stop_task(q))
  <2>1. get_stop_task(q) \in Slots /\ q[get_stop_task(q)].status \in Stopped
    BY <1>1, LookUps DEF QueueOK
  <2> QED BY <1>1, <2>1, StopRspIsTrue
<1>2. CASE f = start_task_rsp(q, sync_task)
  BY <1>2 DEF start_task_rsp, Ok, Frame, Confirms
<1> QED BY <1>1, <1>2 DEF check_stop_task

\* start_task sends no confirmation of a stop.
LEMMA StartTaskConfirms ==
  ASSUME NEW i \in Slots, start_task(i), NEW f \in sent'
  PROVE  Confirms(f, tt')
<1>1. f.state \in {"START_TASK_SUCCESS", "START_TASK_FAILED"}
  BY DEF start_task, start_task_rsp, start_task_refused, Ok, Frame
<1> QED BY <1>1 DEF Confirms

\* stop_task confirms the stop of a slot that no longer runs.
LEMMA StopTaskConfirms ==
  ASSUME IInv, NEW i \in Slots, NEW how \in Stopped, stop_task(i, how), NEW f \in sent'
  PROVE  Confirms(f, tt')
<1>1. QueueOK(tt) /\ QueueOK(tt') /\ i # NULL
  BY StopTaskKeeps DEF IInv, Slots, NULL
<1>2. CASE update_task(i, how) /\ sent' = {stop_task_rsp(tt, i)}
  <2>1. tt'[i].status = how /\ tt'[i].id = tt[i].id
    BY <1>1, <1>2 DEF update_task, QueueOK, task_t
  <2>2. stop_task_rsp(tt, i) = stop_task_rsp(tt', i)
    BY <2>1 DEF stop_task_rsp, IdOf
  <2> QED BY <1>1, <1>2, <2>1, <2>2, StopRspIsTrue
<1>3. CASE del_task(i) /\ sent' = {stop_task_rsp(tt, i)}
  <2>1. f.id = tt[i].id
    BY <1>1, <1>3 DEF stop_task_rsp, Ok, Frame, IdOf
  <2>2. tt'[i].id = Zero /\ \A j \in Slots : j # i => tt'[j] = tt[j]
    BY <1>1, <1>3 DEF del_task, Void, QueueOK
  <2> QED BY <1>1, <2>1, <2>2, OneSlotPerId DEF Confirms
<1>4. CASE sent' = {stop_task_refused(tt, i)}
  BY <1>4 DEF stop_task_refused, Frame, Confirms
<1> QED BY <1>2, <1>3, <1>4 DEF stop_task

\* The ground never hears that a task has stopped when that task may still run.
THEOREM StopsAreTrue == Spec => []StopConfirmed
<1> USE DEF StopConfirmed
<1>1. Init => StopConfirmed
  BY DEF Init
<1>2. IInv /\ IInv' /\ StopConfirmed /\ [Next]_vars => StopConfirmed'
  <2> SUFFICES ASSUME IInv, IInv', StopConfirmed, [Next]_vars PROVE StopConfirmed'
    OBVIOUS
  <2>1. CASE UNCHANGED vars
    BY <2>1 DEF vars
  <2> SUFFICES ASSUME Next, NEW f \in sent' PROVE Confirms(f, tt')
    BY <2>1 DEF Confirms
  <2>2. QueueOK(tt) /\ QueueOK(tt')
    BY DEF IInv, QueueOK
  <2>3. ASSUME f.state # "STOP_TASK_SUCCESS" PROVE Confirms(f, tt')
    BY <2>3 DEF Confirms
  <2>4. ASSUME NEW id, get_task_by_id(tt, id) # NULL
        PROVE  get_task_by_id(tt, id) \in Slots
    BY <2>2, <2>4, LookUps DEF QueueOK
  <2>5. CASE RemoteFrame
    <3>1. ASSUME NEW k \in Tasks, recv_task(k) PROVE Confirms(f, tt')
      BY <2>3, <3>1 DEF recv_task, Ok, Frame
    <3>2. ASSUME NEW id \in Ids, start_task_manual(id) PROVE Confirms(f, tt')
      <4>1. CASE f.state = "START_TASK_FAILED"
        BY <2>3, <4>1
      <4>2. CASE /\ get_task_by_id(tt, id) # NULL
                 /\ start_task(get_task_by_id(tt, id))
        BY <2>4, <4>2, StartTaskConfirms
      <4> QED BY <3>2, <4>1, <4>2 DEF start_task_manual, start_task_refused, Frame
    <3>3. ASSUME NEW id \in Ids, stop_task_manual(id) PROVE Confirms(f, tt')
      <4>1. CASE f.state = "STOP_TASK_FAILED"
        BY <2>3, <4>1
      <4>2. CASE /\ get_task_by_id(tt, id) # NULL
                 /\ stop_task(get_task_by_id(tt, id), STOP_MANU)
        BY <2>4, <4>2, StopTaskConfirms DEF Stopped
      <4> QED BY <3>3, <4>1, <4>2 DEF stop_task_manual, Frame
    <3>4. ASSUME NEW id \in Ids, cancel_task(id) PROVE Confirms(f, tt')
      BY <2>3, <3>4 DEF cancel_task, Ok, Frame
    <3>5. ASSUME NEW id \in Ids, report_task_status(id) PROVE Confirms(f, tt')
      BY <2>3, <3>5 DEF report_task_status, Ok, Frame
    <3>6. ASSUME NEW id \in Ids, report_stop_reason(id) PROVE Confirms(f, tt')
      <4>1. CASE f.state = "STOP_TASK_REASON"
        BY <2>3, <4>1
      <4>2. CASE f \in {StopReason(id, tt[get_task_by_id(tt, id)].status)}
        BY <2>3, <4>2 DEF StopReason, Ok, Frame
      <4>3. CASE /\ get_stop_task(tt') # NULL
                 /\ f = stop_task_rsp(tt', get_stop_task(tt'))
        <5>1. /\ get_stop_task(tt') \in Slots
              /\ tt'[get_stop_task(tt')].status \in Stopped
          BY <2>2, <4>3, LookUps DEF QueueOK
        <5> QED BY <2>2, <4>3, <5>1, StopRspIsTrue
      <4> QED BY <3>6, <4>1, <4>2, <4>3 DEF report_stop_reason, Frame
    <3>7. ASSUME NEW id \in Ids, upload_success(id) PROVE Confirms(f, tt')
      BY <3>7 DEF upload_success
    <3>8. ASSUME NEW t \in 0 .. MaxTime, set_system_datetime(t) PROVE Confirms(f, tt')
      BY <3>8 DEF set_system_datetime
    <3> QED BY <2>5, <3>1, <3>2, <3>3, <3>4, <3>5, <3>6, <3>7, <3>8 DEF RemoteFrame
  <2>6. CASE check_and_process_task
    BY <2>6, StartTaskConfirms, StopTaskConfirms DEF check_and_process_task, Stopped
  <2>7. ASSUME NEW due \in BOOLEAN, NEW opened \in BOOLEAN, NEW grown \in BOOLEAN,
               check_and_upload_task(due, opened, grown)
        PROVE  Confirms(f, tt')
    <3> DEFINE t == get_uploading_task
    <3> HIDE DEF t
    <3>1. t # NULL /\ check_and_request(t, opened, grown)
      BY <2>7 DEF check_and_upload_task, t
    <3>2. CASE f = Ok("UPLOAD_REQUEST", tt[t].id)
      BY <2>3, <3>2 DEF Ok, Frame
    <3>3. CASE f \in check_stop_task(tt')
      BY <2>2, <3>3, CheckStopIsTrue
    <3>4. f \in check_stop_task(tt') \/ f = Ok("UPLOAD_REQUEST", tt[t].id)
      BY <3>1 DEF check_and_request, del_task
    <3> QED BY <3>2, <3>3, <3>4
  <2>8. CASE StartPass \/ Tick \/ Restart
    BY <2>8 DEF StartPass, Tick, Restart
  <2> QED BY <2>5, <2>6, <2>7, <2>8 DEF Next, ProcessTaskQueue
<1> QED BY <1>1, <1>2, Invariance, PTL DEF Spec

-----------------------------------------------------------------------------
(* The confirmation of a start.                                            *)

\* What the protocol and the disk are trusted with: the ground confirms the
\* upload of tasks in their upload phase only, the trace file of a finished
\* task can be opened, and tasks are for Trio 0, so that their slots get an id.
\* Without any one of them a running task may be deleted.
Orderly == GroundOrdered /\ TraceFileKept /\ Trio0 = Tasks

\* Every used slot carries the id of its task, and the slot whose start is still
\* to be confirmed holds a running task.
Named      == \A i \in Slots : tt[i].id = tt[i].task
SyncIsTrue == sync_task # NULL => Used(tt, sync_task) /\ tt[sync_task].status = TESTING

SInv == IInv /\ Named /\ SyncIsTrue

\* The ways in which a step changes the queue: a new task with its id, one
\* phase of a task on to the next, or a task that leaves before it has run or
\* after its upload.
Books(i, k) ==
  /\ ~ Used(tt, i)
  /\ \A j \in Slots : Used(tt, j) => ~ Overlap(k, tt[j].task)
  /\ tt' = [tt EXCEPT ![i].task = k, ![i].id = k, ![i].status = QUEUE]
Moves(i, from, to) ==
  /\ Used(tt, i) /\ tt[i].status = from
  /\ tt' = [tt EXCEPT ![i].status = to]
Leaves(i) ==
  /\ Used(tt, i) /\ tt[i].status \in {QUEUE, UPLOADING}
  /\ tt' = [tt EXCEPT ![i] = Void]

Changes ==
  \/ UNCHANGED tt /\ (sync_task' = sync_task \/ sync_task' = NULL)
  \/ \E i \in Slots :
       \/ /\ \E k \in Tasks : Books(i, k)
          /\ UNCHANGED sync_task
       \/ Moves(i, QUEUE, TESTING) /\ sync_task' = i
       \/ (\E s \in Stopped : Moves(i, TESTING, s)) /\ sync_task' = NULL
       \/ (\E s \in Stopped : Moves(i, s, UPLOADING)) /\ UNCHANGED sync_task
       \/ Leaves(i) /\ UNCHANGED sync_task

\* start_task moves a queued task on.
LEMMA StartTaskChanges ==
  ASSUME NEW i \in Slots, start_task(i)
  PROVE  Changes
BY DEF start_task, update_task, Changes, Moves

\* stop_task moves a running task on or withdraws a queued one.
LEMMA StopTaskChanges ==
  ASSUME IInv, NEW i \in Slots, NEW how \in Stopped, stop_task(i, how)
  PROVE  Changes
<1>1. CASE Used(tt, i) /\ tt[i].status = TESTING /\ update_task(i, how) /\ sync_task' = NULL
  BY <1>1 DEF update_task, Changes, Moves
<1>2. CASE Used(tt, i) /\ tt[i].status = QUEUE /\ del_task(i) /\ UNCHANGED sync_task
  <2>1. i # NULL
    BY DEF Slots, NULL
  <2>2. Leaves(i)
    BY <1>2, <2>1 DEF del_task, Leaves
  <2> QED BY <1>2, <2>2 DEF Changes
<1>3. CASE UNCHANGED <<tt, sync_task>>
  BY <1>3 DEF Changes
<1> QED BY <1>1, <1>2, <1>3 DEF stop_task

\* A frame of the ground changes the queue in no other way.
LEMMA RemoteFrameChanges ==
  ASSUME SInv, Orderly, RemoteFrame
  PROVE  Changes
<1>1. QueueOK(tt) /\ tt \in [Slots -> task_t]
  BY DEF SInv, IInv, TypeOK
<1>2. ASSUME NEW id, get_task_by_id(tt, id) # NULL
      PROVE  /\ get_task_by_id(tt, id) \in Slots
             /\ tt[get_task_by_id(tt, id)].id = id
  BY <1>1, <1>2, LookUps
<1>3. CASE UNCHANGED <<tt, sync_task>>
  BY <1>3 DEF Changes
<1>4. ASSUME NEW k \in Tasks, recv_task(k) PROVE Changes
  <2> DEFINE i == get_void_task(tt)
  <2>1. CASE UNCHANGED tt
    BY <1>3, <1>4, <2>1 DEF recv_task
  <2>2. CASE /\ i # NULL /\ check_new_task(tt, k, now) = 0
             /\ tt' = [tt EXCEPT ![i].task = k,
                                 ![i].id = IF k \in Trio0 THEN k ELSE @,
                                 ![i].status = IF k \in Trio0 THEN QUEUE ELSE @]
    <3>1. i \in Slots /\ ~ Used(tt, i)
      BY <1>1, <2>2, LookUps
    <3>2. now \in Int
      BY DEF SInv, IInv, TypeOK
    <3>3. \A j \in Slots : Used(tt, j) => ~ Overlap(k, tt[j].task)
      BY <1>1, <2>2, <3>2, CheckedIsFree
    <3>4. Books(i, k)
      BY <2>2, <3>1, <3>3 DEF Books, Orderly
    <3> QED BY <1>4, <3>1, <3>4 DEF recv_task, Changes
  <2> QED BY <1>4, <2>1, <2>2 DEF recv_task
<1>5. ASSUME NEW id \in Ids, start_task_manual(id) PROVE Changes
  BY <1>2, <1>3, <1>5, StartTaskChanges DEF start_task_manual
<1>6. ASSUME NEW id \in Ids, stop_task_manual(id) PROVE Changes
  BY <1>2, <1>3, <1>6, StopTaskChanges DEF stop_task_manual, Stopped, SInv
<1>7. ASSUME NEW id \in Ids, cancel_task(id) PROVE Changes
  <2> DEFINE i == get_task_by_id(tt, id)
  <2>1. CASE UNCHANGED tt
    BY <1>3, <1>7, <2>1 DEF cancel_task
  <2>2. CASE i # NULL /\ tt[i].status = QUEUE /\ del_task(i)
    <3>1. i \in Slots
      BY <1>2, <2>2
    <3>2. tt' = [tt EXCEPT ![i] = Void]
      BY <2>2 DEF del_task
    <3>3. CASE Used(tt, i)
      BY <1>7, <2>2, <3>1, <3>2, <3>3 DEF cancel_task, Leaves, Changes
    <3>4. CASE ~ Used(tt, i)
      <4>1. tt' = tt
        BY <1>1, <3>1, <3>2, <3>4 DEF QueueOK
      <4> QED BY <1>3, <1>7, <4>1 DEF cancel_task
    <3> QED BY <3>3, <3>4
  <2> QED BY <1>7, <2>1, <2>2 DEF cancel_task
<1>8. ASSUME NEW id \in Ids, report_task_status(id) PROVE Changes
  BY <1>8 DEF report_task_status, Changes
<1>9. ASSUME NEW id \in Ids, report_stop_reason(id) PROVE Changes
  <2> DEFINE i == get_task_by_id(tt, id)
  <2>1. CASE tt' = tt
    BY <1>3, <1>9, <2>1 DEF report_stop_reason
  <2>2. CASE /\ i # NULL /\ Used(tt, i) /\ tt[i].status \in Stopped \cup {UPLOADING}
             /\ tt' = [tt EXCEPT ![i].status = UPLOADING]
    <3>1. i \in Slots
      BY <1>2, <2>2
    <3>2. CASE tt[i].status = UPLOADING
      <4>1. tt' = tt
        BY <1>1, <2>2, <3>1, <3>2 DEF task_t
      <4> QED BY <2>1, <4>1
    <3>3. CASE tt[i].status \in Stopped
      BY <1>9, <2>2, <3>1, <3>3 DEF report_stop_reason, Moves, Changes
    <3> QED BY <2>2, <3>2, <3>3
  <2> QED BY <1>9, <2>1, <2>2 DEF report_stop_reason
<1>10. ASSUME NEW id \in Ids, upload_success(id) PROVE Changes
  <2> DEFINE i == get_task_by_id(tt, id)
  <2>1. CASE i = NULL
    BY <1>3, <1>10, <2>1 DEF upload_success, del_task
  <2>2. CASE i # NULL
    <3>1. i \in Slots /\ tt[i].id = id
      BY <1>2, <2>2
    <3>2. PICK j \in Slots : tt[j].id = id /\ tt[j].status = UPLOADING
      BY <1>10 DEF upload_success, Orderly
    <3>3. Used(tt, j) /\ id # Zero
      BY <1>1, <3>2 DEF QueueOK, Void, Used, SInv, Named, QUEUE, UPLOADING
    <3>4. i = j
      BY <1>1, <3>1, <3>2, <3>3, OneSlotPerId
    <3>5. Leaves(i)
      BY <1>10, <2>2, <3>2, <3>3, <3>4 DEF upload_success, del_task, Leaves
    <3> QED BY <1>10, <3>1, <3>5 DEF upload_success, Changes
  <2> QED BY <2>1, <2>2
<1>11. ASSUME NEW t \in 0 .. MaxTime, set_system_datetime(t) PROVE Changes
  BY <1>11 DEF set_system_datetime, static, Changes
<1> QED
  BY <1>4, <1>5, <1>6, <1>7, <1>8, <1>9, <1>10, <1>11 DEF RemoteFrame

\* Neither does any other step.
LEMMA StepChanges ==
  ASSUME SInv, Orderly, [Next]_vars
  PROVE  Changes
<1>1. CASE RemoteFrame
  BY <1>1, RemoteFrameChanges
<1>2. CASE StartPass \/ Tick \/ Restart \/ UNCHANGED vars
  BY <1>2 DEF StartPass, Tick, Restart, static, vars, Changes
<1>3. CASE check_and_process_task
  BY <1>3, StartTaskChanges, StopTaskChanges
  DEF check_and_process_task, Stopped, Changes, SInv
<1>4. ASSUME NEW due \in BOOLEAN, NEW opened \in BOOLEAN, NEW grown \in BOOLEAN,
             check_and_upload_task(due, opened, grown)
      PROVE  Changes
  BY <1>4 DEF check_and_upload_task, check_and_request, Orderly, Changes
<1> QED BY <1>1, <1>2, <1>3, <1>4 DEF Next, ProcessTaskQueue

\* A slot that changes in one of these ways keeps its name, and the slot to be
\* confirmed keeps its running task.
LEMMA ChangesKeep ==
  ASSUME SInv, Changes
  PROVE  Named' /\ SyncIsTrue'
<1>1. tt \in [Slots -> task_t] /\ \A i \in Slots : ~ Used(tt, i) => tt[i] = Void
  BY DEF SInv, IInv, QueueOK
<1>2. Named /\ SyncIsTrue /\ sync_task \in Slots \cup {NULL}
  BY DEF SInv, IInv, TypeOK
<1>3. CASE UNCHANGED tt /\ (sync_task' = sync_task \/ sync_task' = NULL)
  BY <1>2, <1>3 DEF Named, SyncIsTrue, Used
<1>4. ASSUME NEW i \in Slots, NEW k \in Tasks, Books(i, k), UNCHANGED sync_task
      PROVE  Named' /\ SyncIsTrue'
  <2>1. tt'[i].id = k /\ tt'[i].task = k /\ \A j \in Slots : j # i => tt'[j] = tt[j]
    BY <1>1, <1>4 DEF Books, task_t
  <2>2. sync_task # NULL => sync_task # i
    BY <1>2, <1>4 DEF SyncIsTrue, Books
  <2> QED BY <1>2, <1>4, <2>1, <2>2 DEF Named, SyncIsTrue, Used
<1>5. ASSUME NEW i \in Slots, NEW from, NEW to, Moves(i, from, to)
      PROVE  /\ \A j \in Slots : j # i => tt'[j] = tt[j]
             /\ tt'[i].task = tt[i].task /\ tt'[i].id = tt[i].id /\ tt'[i].status = to
             /\ Named'
  <2>1. /\ \A j \in Slots : j # i => tt'[j] = tt[j]
        /\ tt'[i].task = tt[i].task /\ tt'[i].id = tt[i].id /\ tt'[i].status = to
    BY <1>1, <1>5 DEF Moves, task_t
  <2> QED BY <1>2, <2>1 DEF Named
<1>6. ASSUME NEW i \in Slots, Moves(i, QUEUE, TESTING), sync_task' = i
      PROVE  Named' /\ SyncIsTrue'
  <2>1. Named' /\ tt'[i].task = tt[i].task /\ tt'[i].status = TESTING
    BY <1>5, <1>6
  <2> QED BY <1>6, <2>1 DEF SyncIsTrue, Moves, Used
<1>7. ASSUME NEW i \in Slots, NEW s \in Stopped, Moves(i, TESTING, s), sync_task' = NULL
      PROVE  Named' /\ SyncIsTrue'
  BY <1>5, <1>7 DEF SyncIsTrue
<1>8. ASSUME NEW i \in Slots, NEW s \in Stopped, Moves(i, s, UPLOADING), UNCHANGED sync_task
      PROVE  Named' /\ SyncIsTrue'
  <2>1. Named' /\ \A j \in Slots : j # i => tt'[j] = tt[j]
    BY <1>5, <1>8
  <2>2. sync_task # NULL => sync_task # i
    BY <1>2, <1>8 DEF SyncIsTrue, Moves, Stopped, STOP_AUTO, STOP_MANU, TESTING
  <2> QED BY <1>2, <1>8, <2>1, <2>2 DEF SyncIsTrue, Used
<1>9. ASSUME NEW i \in Slots, Leaves(i), UNCHANGED sync_task
      PROVE  Named' /\ SyncIsTrue'
  <2>1. tt'[i] = Void /\ \A j \in Slots : j # i => tt'[j] = tt[j]
    BY <1>1, <1>9 DEF Leaves
  <2>2. sync_task # NULL => sync_task # i
    BY <1>2, <1>9 DEF SyncIsTrue, Leaves, QUEUE, UPLOADING, TESTING
  <2> QED BY <1>2, <1>9, <2>1, <2>2 DEF Named, SyncIsTrue, Used, Void
<1> QED BY <1>3, <1>4, <1>6, <1>7, <1>8, <1>9 DEF Changes

\* In an orderly system the slot whose start is confirmed again and again holds
\* a running task, whatever the ground, the clock and the monitor do.
THEOREM SyncInvariance == Orderly => (Spec => []SInv)
<1> SUFFICES ASSUME Orderly PROVE Spec => []SInv
  OBVIOUS
<1>1. Init => Named /\ SyncIsTrue
  BY DEF Init, Named, SyncIsTrue, Void
<1>2. IInv /\ IInv' /\ Named /\ SyncIsTrue /\ [Next]_vars => Named' /\ SyncIsTrue'
  BY StepChanges, ChangesKeep DEF SInv
<1>3. IInv /\ Named /\ SyncIsTrue <=> SInv
  BY DEF SInv
<1> QED BY <1>1, <1>2, <1>3, Invariance, PTL DEF Spec

Started(f, q) ==
  f.state = "START_TASK_SUCCESS" =>
    \E i \in Slots : q[i].id = f.id /\ Used(q, i) /\ q[i].status = TESTING

\* A start that start_task confirms has happened.
LEMMA StartTaskIsTrue ==
  ASSUME SInv, NEW i \in Slots, start_task(i), NEW f \in sent'
  PROVE  Started(f, tt')
<1>1. CASE Used(tt, i) /\ update_task(i, TESTING) /\ f = start_task_rsp(tt, i)
  <2>1. tt \in [Slots -> task_t] /\ i # NULL
    BY DEF SInv, IInv, TypeOK, Slots, NULL
  <2>2. tt'[i].id = tt[i].id /\ tt'[i].task = tt[i].task /\ tt'[i].status = TESTING
    BY <1>1, <2>1 DEF update_task, task_t
  <2>3. f.id = tt[i].id
    BY <1>1, <2>1 DEF start_task_rsp, Ok, Frame, IdOf
  <2> QED BY <1>1, <2>2, <2>3 DEF Started, Used
<1>2. CASE f.state = "START_TASK_FAILED"
  BY <1>2 DEF Started
<1> QED BY <1>1, <1>2 DEF start_task, start_task_refused, Frame

\* stop_task confirms no start.
LEMMA StopTaskStartsNothing ==
  ASSUME NEW i, NEW how, stop_task(i, how), NEW f \in sent'
  PROVE  Started(f, tt')
<1>1. f.state \in {"STOP_TASK_SUCCESS", "STOP_TASK_FAILED"}
  BY DEF stop_task, stop_task_rsp, stop_task_refused, Ok, Frame
<1> QED BY <1>1 DEF Started

\* The ground hears that a task has started only while that task runs, also
\* when the confirmation is repeated from sync_task long after the start.
THEOREM StartsAreTrue == Orderly => (Spec => []StartConfirmed)
<1> SUFFICES ASSUME Orderly PROVE Spec => []StartConfirmed
  OBVIOUS
<1>1. Init => StartConfirmed
  BY DEF Init, StartConfirmed
<1>2. SInv /\ StartConfirmed /\ [Next]_vars => StartConfirmed'
  <2> SUFFICES ASSUME SInv, StartConfirmed, [Next]_vars PROVE StartConfirmed'
    OBVIOUS
  <2>1. CASE UNCHANGED vars
    BY <2>1 DEF vars, StartConfirmed, Used
  <2> SUFFICES ASSUME Next, NEW f \in sent' PROVE Started(f, tt')
    BY <2>1 DEF Started, StartConfirmed, Used
  <2>2. tt \in [Slots -> task_t]
    BY DEF SInv, IInv, TypeOK
  <2>3. ASSUME f.state # "START_TASK_SUCCESS" PROVE Started(f, tt')
    BY <2>3 DEF Started
  <2>4. ASSUME NEW id, get_task_by_id(tt, id) # NULL
        PROVE  get_task_by_id(tt, id) \in Slots
    BY <2>2, <2>4, LookUps
  <2>5. CASE RemoteFrame
    <3>1. ASSUME NEW k \in Tasks, recv_task(k) PROVE Started(f, tt')
      BY <2>3, <3>1 DEF recv_task, Ok, Frame
    <3>2. ASSUME NEW id \in Ids, start_task_manual(id) PROVE Started(f, tt')
      <4>1. CASE f.state = "START_TASK_FAILED"
        BY <2>3, <4>1
      <4>2. CASE /\ get_task_by_id(tt, id) # NULL
                 /\ start_task(get_task_by_id(tt, id))
        BY <2>4, <4>2, StartTaskIsTrue
      <4> QED BY <3>2, <4>1, <4>2 DEF start_task_manual, start_task_refused, Frame
    <3>3. ASSUME NEW id \in Ids, stop_task_manual(id) PROVE Started(f, tt')
      BY <2>3, <3>3, StopTaskStartsNothing DEF stop_task_manual, Frame
    <3>4. ASSUME NEW id \in Ids, cancel_task(id) PROVE Started(f, tt')
      BY <2>3, <3>4 DEF cancel_task, Ok, Frame
    <3>5. ASSUME NEW id \in Ids, report_task_status(id) PROVE Started(f, tt')
      BY <2>3, <3>5 DEF report_task_status, Ok, Frame
    <3>6. ASSUME NEW id \in Ids, report_stop_reason(id) PROVE Started(f, tt')
      <4>1. f.state \in {"STOP_TASK_REASON", "STOP_TASK_SUCCESS_MANUAL",
                         "STOP_TASK_SUCCESS_AUTO", "STOP_TASK_SUCCESS"}
        BY <3>6 DEF report_stop_reason, StopReason, stop_task_rsp, Ok, Frame
      <4> QED BY <2>3, <4>1
    <3>7. ASSUME NEW id \in Ids, upload_success(id) PROVE Started(f, tt')
      BY <3>7 DEF upload_success
    <3>8. ASSUME NEW t \in 0 .. MaxTime, set_system_datetime(t) PROVE Started(f, tt')
      BY <3>8 DEF set_system_datetime
    <3> QED BY <2>5, <3>1, <3>2, <3>3, <3>4, <3>5, <3>6, <3>7, <3>8 DEF RemoteFrame
  <2>6. CASE check_and_process_task
    BY <2>6, StartTaskIsTrue, StopTaskStartsNothing DEF check_and_process_task
  <2>7. ASSUME NEW due \in BOOLEAN, NEW opened \in BOOLEAN, NEW grown \in BOOLEAN,
               check_and_upload_task(due, opened, grown)
        PROVE  Started(f, tt')
    <3> DEFINE t == get_uploading_task
    <3> HIDE DEF t
    <3>1. t # NULL /\ check_and_request(t, opened, grown) /\ opened
      BY <2>7 DEF check_and_upload_task, t, Orderly
    <3>2. tt' = tt /\ (f \in check_stop_task(tt) \/ f = Ok("UPLOAD_REQUEST", tt[t].id))
      BY <3>1 DEF check_and_request
    <3>3. CASE f = Ok("UPLOAD_REQUEST", tt[t].id)
      BY <2>3, <3>3 DEF Ok, Frame
    <3>4. CASE f = stop_task_rsp(tt, get_stop_task(tt))
      BY <2>3, <3>4 DEF stop_task_rsp, Ok, Frame
    <3>5. CASE sync_task # NULL /\ f = start_task_rsp(tt, sync_task)
      <4>1. /\ sync_task \in Slots /\ Used(tt, sync_task)
            /\ tt[sync_task].status = TESTING /\ f.id = tt[sync_task].id
        BY <3>5 DEF SInv, IInv, TypeOK, SyncIsTrue, start_task_rsp, Ok, Frame, IdOf
      <4> QED BY <3>2, <4>1 DEF Started
    <3> QED BY <3>2, <3>3, <3>4, <3>5 DEF check_stop_task
  <2>8. CASE StartPass \/ Tick \/ Restart
    BY <2>8 DEF StartPass, Tick, Restart
  <2> QED BY <2>5, <2>6, <2>7, <2>8 DEF Next, ProcessTaskQueue
<1> QED BY <1>1, <1>2, SyncInvariance, PTL DEF Spec

-----------------------------------------------------------------------------
(* The queue implements the lifecycle.                                     *)

HoldsIn(q, k, S) == \E i \in Slots : q[i].task = k /\ q[i].status \in S

PhaseIn(q, k) ==
  IF HoldsIn(q, k, {QUEUE}) THEN "queued"
  ELSE IF HoldsIn(q, k, {TESTING}) THEN "running"
  ELSE IF HoldsIn(q, k, Stopped) THEN "stopped"
  ELSE IF HoldsIn(q, k, {UPLOADING}) THEN "uploading"
  ELSE "absent"

PhaseOf(s) == CASE s = QUEUE     -> "queued"
                [] s = TESTING   -> "running"
                [] s \in Stopped -> "stopped"
                [] s = UPLOADING -> "uploading"

\* A stored task is in one slot, so its phase is that slot's status.
LEMMA PhaseOfStored ==
  ASSUME NEW q, QueueOK(q), NEW i \in Slots, Used(q, i)
  PROVE  PhaseIn(q, q[i].task) = PhaseOf(q[i].status)
<1>1. q[i].task \in Tasks /\ q[i].status \in task_status
  BY DEF QueueOK, task_t, Used, Ids
<1>2. Overlap(q[i].task, q[i].task)
  BY <1>1, QueueAssumption DEF Overlap
<1>3. \A j \in Slots : q[j].task = q[i].task => j = i
  BY <1>2 DEF QueueOK, Used
<1>4. \A S : HoldsIn(q, q[i].task, S) <=> q[i].status \in S
  BY <1>3 DEF HoldsIn
<1> QED
  BY <1>1, <1>4 DEF PhaseIn, PhaseOf, task_status, Stopped, QUEUE, TESTING, STOP_AUTO,
     STOP_MANU, UPLOADING

\* A task that no slot holds is absent.
LEMMA PhaseOfAbsent ==
  ASSUME NEW q, NEW k, \A i \in Slots : q[i].task # k
  PROVE  PhaseIn(q, k) = "absent"
BY DEF PhaseIn, HoldsIn

\* A task whose slot does not change stays in its phase.
LEMMA PhaseOfOthers ==
  ASSUME NEW q, NEW r, NEW k,
         \A i \in Slots : (q[i].task = k \/ r[i].task = k) => r[i] = q[i]
  PROVE  PhaseIn(r, k) = PhaseIn(q, k)
<1>1. \A S : HoldsIn(q, k, S) <=> HoldsIn(r, k, S)
  BY DEF HoldsIn
<1> QED BY <1>1 DEF PhaseIn

\* The phases of TaskLifecycle, read from the queue.
LEMMA PhaseIsRead ==
  /\ phase = [k \in Tasks |-> PhaseIn(tt, k)]
  /\ phase' = [k \in Tasks |-> PhaseIn(tt', k)]
<1>1. ASSUME NEW k
      PROVE  /\ \A S : Holds(k, S) <=> HoldsIn(tt, k, S)
             /\ \A S : Holds(k, S)' <=> HoldsIn(tt', k, S)
  BY DEF Holds, HoldsIn
<1>2. phase = [k \in Tasks |-> PhaseIn(tt, k)]
  BY <1>1 DEF phase, PhaseIn
<1>3. phase' = [k \in Tasks |-> PhaseIn(tt', k)]
  BY <1>1 DEF phase, PhaseIn
<1> QED BY <1>2, <1>3

\* A step that changes the slot of one task is a step of that task's phase.
LEMMA OneTaskMoves ==
  ASSUME NEW k \in Tasks, NEW from, NEW to,
         PhaseIn(tt, k) = from, PhaseIn(tt', k) = to,
         \A m \in Tasks : m # k => PhaseIn(tt', m) = PhaseIn(tt, m)
  PROVE  Lifecycle!Move(k, from, to)
BY PhaseIsRead DEF Lifecycle!Move

\* Each way in which the queue changes is a step of the lifecycle or none.
LEMMA ChangesRefine ==
  ASSUME SInv, QueueOK(tt'), Changes
  PROVE  [Lifecycle!Next]_phase
<1>1. tt \in [Slots -> task_t] /\ QueueOK(tt) /\ Named
  BY DEF SInv, IInv, QueueOK
<1> SUFFICES ASSUME tt' # tt PROVE Lifecycle!Next
  BY PhaseIsRead
<1>2. \A i \in Slots : Used(tt, i) => tt[i].task \in Tasks
  BY <1>1 DEF Used, task_t, Ids
<1>3. ASSUME NEW i \in Slots, NEW from \in task_status, NEW to \in task_status,
             Moves(i, from, to)
      PROVE  Lifecycle!Move(tt[i].task, PhaseOf(from), PhaseOf(to))
  <2> DEFINE k == tt[i].task
  <2>1. /\ \A j \in Slots : j # i => tt'[j] = tt[j]
        /\ tt'[i].task = k /\ tt'[i].status = to /\ k \in Tasks
    BY <1>1, <1>2, <1>3 DEF Moves, task_t
  <2>2. PhaseIn(tt, k) = PhaseOf(from)
    BY <1>1, <1>3, PhaseOfStored DEF Moves
  <2>3. PhaseIn(tt', k) = PhaseOf(to)
    <3>1. Used(tt', i)
      BY <1>3, <2>1 DEF Moves, Used
    <3> QED BY <2>1, <3>1, PhaseOfStored
  <2>4. ASSUME NEW m \in Tasks, m # k PROVE PhaseIn(tt', m) = PhaseIn(tt, m)
    BY <2>1, <2>4, PhaseOfOthers
  <2> QED BY <2>1, <2>2, <2>3, <2>4, OneTaskMoves
<1>4. ASSUME NEW i \in Slots, NEW k \in Tasks, Books(i, k) PROVE Lifecycle!Book(k)
  <2>1. /\ \A j \in Slots : j # i => tt'[j] = tt[j]
        /\ tt'[i].task = k /\ tt'[i].status = QUEUE /\ tt[i] = Void /\ k # Zero
    BY <1>1, <1>4, QueueAssumption DEF Books, task_t, QueueOK
  <2>2. ASSUME NEW m \in Tasks, PhaseIn(tt, m) # "absent" PROVE ~ Lifecycle!Clash(k, m)
    <3>1. PICK j \in Slots : tt[j].task = m
      BY <2>2, PhaseOfAbsent
    <3>2. Used(tt, j)
      BY <3>1, QueueAssumption DEF Used
    <3> QED BY <1>4, <3>1, <3>2 DEF Books, Overlap, Lifecycle!Clash
  <2>3. PhaseIn(tt, k) = "absent"
    <3>1. Lifecycle!Clash(k, k)
      BY QueueAssumption DEF Lifecycle!Clash
    <3> QED BY <2>2, <3>1
  <2>4. PhaseIn(tt', k) = "queued"
    <3>1. PhaseIn(tt', k) = PhaseOf(QUEUE)
      BY <2>1, PhaseOfStored DEF Used
    <3> QED
      BY <3>1 DEF PhaseOf, QUEUE, TESTING, Stopped, STOP_AUTO, STOP_MANU, UPLOADING
  <2>5. ASSUME NEW m \in Tasks, m # k PROVE PhaseIn(tt', m) = PhaseIn(tt, m)
    <3>1. m # Zero
      BY QueueAssumption
    <3> QED BY <2>1, <2>5, <3>1, PhaseOfOthers DEF Void
  <2>6. Lifecycle!Move(k, "absent", "queued")
    BY <2>3, <2>4, <2>5, OneTaskMoves
  <2>7. \A m \in Tasks : phase[m] = PhaseIn(tt, m)
    BY PhaseIsRead
  <2> QED BY <2>2, <2>6, <2>7 DEF Lifecycle!Book
<1>5. ASSUME NEW i \in Slots, Leaves(i)
      PROVE  Lifecycle!Finish(tt[i].task) \/ Lifecycle!Withdraw(tt[i].task)
  <2> DEFINE k == tt[i].task
  <2>1. /\ \A j \in Slots : j # i => tt'[j] = tt[j]
        /\ tt'[i] = Void /\ k \in Tasks /\ k # Zero
    BY <1>1, <1>2, <1>5, QueueAssumption DEF Leaves
  <2>2. PhaseIn(tt, k) = PhaseOf(tt[i].status)
    BY <1>1, <1>5, PhaseOfStored DEF Leaves
  <2>3. PhaseIn(tt', k) = "absent"
    <3>1. Overlap(k, k)
      BY <2>1, QueueAssumption DEF Overlap
    <3>2. \A j \in Slots : j # i => tt[j].task # k
      BY <1>1, <1>5, <3>1 DEF Leaves, QueueOK, Used
    <3> QED BY <2>1, <3>2, PhaseOfAbsent DEF Void
  <2>4. ASSUME NEW m \in Tasks, m # k PROVE PhaseIn(tt', m) = PhaseIn(tt, m)
    <3>1. m # Zero
      BY QueueAssumption
    <3> QED BY <2>1, <2>4, <3>1, PhaseOfOthers DEF Void
  <2>5. Lifecycle!Move(k, PhaseOf(tt[i].status), "absent")
    BY <2>1, <2>2, <2>3, <2>4, OneTaskMoves
  <2>6. tt[i].status \in {QUEUE, UPLOADING}
    BY <1>5 DEF Leaves
  <2>7. PhaseOf(QUEUE) = "queued" /\ PhaseOf(UPLOADING) = "uploading"
    BY DEF PhaseOf, QUEUE, TESTING, Stopped, STOP_AUTO, STOP_MANU, UPLOADING
  <2> QED BY <2>5, <2>6, <2>7 DEF Lifecycle!Finish, Lifecycle!Withdraw
<1>6. /\ PhaseOf(QUEUE) = "queued" /\ PhaseOf(TESTING) = "running"
      /\ \A s \in Stopped : PhaseOf(s) = "stopped"
      /\ PhaseOf(UPLOADING) = "uploading"
      /\ {QUEUE, TESTING, UPLOADING} \cup Stopped \subseteq task_status
  BY DEF PhaseOf, QUEUE, TESTING, Stopped, STOP_AUTO, STOP_MANU, UPLOADING, task_status
<1>7. PICK i \in Slots : \/ \E k \in Tasks : Books(i, k)
                         \/ Moves(i, QUEUE, TESTING)
                         \/ \E s \in Stopped : Moves(i, TESTING, s) \/ Moves(i, s, UPLOADING)
                         \/ Leaves(i)
  BY DEF Changes
<1>8. CASE \E k \in Tasks : Books(i, k)
  BY <1>4, <1>8 DEF Lifecycle!Next
<1>9. CASE Moves(i, QUEUE, TESTING)
  <2>1. Lifecycle!Begin(tt[i].task) /\ tt[i].task \in Tasks
    BY <1>2, <1>3, <1>6, <1>9 DEF Lifecycle!Begin, Moves
  <2> QED BY <2>1 DEF Lifecycle!Next
<1>10. ASSUME NEW s \in Stopped, Moves(i, TESTING, s) PROVE Lifecycle!Next
  <2>1. Lifecycle!End(tt[i].task) /\ tt[i].task \in Tasks
    BY <1>2, <1>3, <1>6, <1>10 DEF Lifecycle!End, Moves
  <2> QED BY <2>1 DEF Lifecycle!Next
<1>11. ASSUME NEW s \in Stopped, Moves(i, s, UPLOADING) PROVE Lifecycle!Next
  <2>1. Lifecycle!Explain(tt[i].task) /\ tt[i].task \in Tasks
    BY <1>2, <1>3, <1>6, <1>11 DEF Lifecycle!Explain, Moves
  <2> QED BY <2>1 DEF Lifecycle!Next
<1>12. CASE Leaves(i)
  <2>1. tt[i].task \in Tasks
    BY <1>2, <1>12 DEF Leaves
  <2> QED BY <1>5, <1>12, <2>1 DEF Lifecycle!Next
<1> QED BY <1>7, <1>8, <1>9, <1>10, <1>11, <1>12

\* In an orderly system no handler, timer or restart loses a test that was made
\* or runs it again: the queue implements the lifecycle the ground sees.
THEOREM QueueIsLifecycle == Orderly => (Spec => LifecycleSpec)
<1> SUFFICES ASSUME Orderly PROVE Spec => LifecycleSpec
  OBVIOUS
<1>1. Init => Lifecycle!Init
  <2> SUFFICES ASSUME Init PROVE Lifecycle!Init
    OBVIOUS
  <2>1. \A i \in Slots : tt[i].task = Zero
    BY DEF Init, Void
  <2>2. ASSUME NEW k \in Tasks PROVE PhaseIn(tt, k) = "absent"
    BY <2>1, PhaseOfAbsent, QueueAssumption
  <2> QED BY <2>2, PhaseIsRead DEF Lifecycle!Init
<1>2. SInv /\ SInv' /\ [Next]_vars => [Lifecycle!Next]_phase
  BY StepChanges, ChangesRefine DEF SInv, IInv
<1> QED BY <1>1, <1>2, SyncInvariance, PTL DEF Spec, LifecycleSpec, Lifecycle!Spec
=============================================================================
