------------------------- MODULE ClientTaskObsProofs -------------------------
(***************************************************************************)
(* Proofs about what the client says to the ground long after it happened, *)
(* for any set of tasks, any windows and any size of the queue, and        *)
(* without anything asked of the ground or of the disk.                    *)
(*                                                                         *)
(* The inductive invariant ties each history to the queue: a stopped task  *)
(* is remembered with the status its slot holds, a task in its upload      *)
(* phase has had its question answered, and the task last asked for is the *)
(* one the static cache of get_uploading_task names.                       *)
(***************************************************************************)
EXTENDS ClientTaskObs, ClientTaskProofs

Remembered ==
  \A i \in Slots : Used(tt, i) /\ tt[i].status \in Stopped =>
    stoppedBy[tt[i].task] = tt[i].status

Answered ==
  \A i \in Slots : Used(tt, i) /\ tt[i].id # Zero /\ tt[i].status = UPLOADING =>
    tt[i].id \in answered

CachedIsAsked ==
  requested # Zero =>
    requested \in Tasks /\ tt[idx].task = requested /\ startTime = Start[requested]

HInv == IInv /\ Remembered /\ Answered /\ CachedIsAsked

ClientStep == RemoteFrame \/ ProcessTaskQueue \/ Tick

-----------------------------------------------------------------------------
(* What a step of the client does to the slots.                            *)

\* The histories do not get in the way of the client.
LEMMA ObsIsClient == SpecObs => Spec
<1>1. InitObs => Init
  BY DEF InitObs
<1>2. [NextObs]_<<vars, history>> => [Next]_vars
  BY DEF NextObs, Next
<1> QED BY <1>1, <1>2, PTL DEF SpecObs, Spec

\* Every step leaves all slots but one alone.
OneSlot(i) == \A j \in Slots : j # i => tt'[j] = tt[j]

\* In the one it changes, a task stays, is stored, or leaves; only an answer to
\* 211 makes it a task in its upload phase.
SlotStep(i) ==
  /\ OneSlot(i)
  /\ \/ tt'[i] = tt[i]
     \/ tt'[i] = Void
     \/ /\ ~ Used(tt, i) /\ tt'[i].status = QUEUE
     \/ /\ tt'[i].task = tt[i].task /\ tt'[i].id = tt[i].id
        /\ tt'[i].status # UPLOADING
     \/ /\ tt'[i].task = tt[i].task /\ tt'[i].id = tt[i].id
        /\ \E f \in sent' : f.state \in Reasons /\ f.id = tt[i].id

\* Nothing changed is a step of any slot.
LEMMA NoStep ==
  ASSUME tt' = tt, NEW i \in Slots
  PROVE  SlotStep(i)
BY DEF SlotStep, OneSlot

\* update_task, for any other status than that of the upload phase.
LEMMA StatusStep ==
  ASSUME IInv, NEW i \in Slots, NEW s, s # UPLOADING, update_task(i, s)
  PROVE  SlotStep(i)
BY DEF IInv, TypeOK, task_t, update_task, SlotStep, OneSlot

\* del_task.
LEMMA DeleteStep ==
  ASSUME IInv, NEW i \in Slots, del_task(i)
  PROVE  SlotStep(i)
BY DEF IInv, TypeOK, del_task, SlotStep, OneSlot, NULL, Slots

\* start_task and stop_task.
LEMMA StartTaskStep ==
  ASSUME IInv, NEW i \in Slots, start_task(i)
  PROVE  SlotStep(i)
BY NoStep, StatusStep DEF start_task, TESTING, UPLOADING

\* Neither brings a task into its upload phase.
LEMMA StopTaskStep ==
  ASSUME IInv, NEW i \in Slots, NEW how \in Stopped, stop_task(i, how)
  PROVE  SlotStep(i)
<1>1. how # UPLOADING
  BY DEF Stopped, STOP_AUTO, STOP_MANU, UPLOADING
<1> QED BY <1>1, NoStep, StatusStep, DeleteStep DEF stop_task

\* Every step of the client changes one slot at most, in one of these ways.
LEMMA ClientSteps ==
  ASSUME IInv, ClientStep
  PROVE  \E i \in Slots : SlotStep(i)
<1>1. QueueOK(tt) /\ tt \in [Slots -> task_t] /\ 1 \in Slots
  BY QueueAssumption DEF IInv, TypeOK, Slots
<1>2. CASE tt' = tt
  BY <1>1, <1>2, NoStep
<1>3. ASSUME NEW id, get_task_by_id(tt, id) # NULL
      PROVE  /\ get_task_by_id(tt, id) \in Slots
             /\ tt[get_task_by_id(tt, id)].id = id
  BY <1>1, <1>3, LookUps
<1>4. ASSUME NEW k \in Tasks, recv_task(k) PROVE \E i \in Slots : SlotStep(i)
  <2> DEFINE i == get_void_task(tt)
  <2>1. CASE /\ i # NULL
             /\ tt' = [tt EXCEPT ![i].task = k,
                                 ![i].id = IF k \in Trio0 THEN k ELSE @,
                                 ![i].status = IF k \in Trio0 THEN QUEUE ELSE @]
    <3>1. i \in Slots /\ ~ Used(tt, i) /\ tt[i] = Void
      BY <1>1, <2>1, LookUps DEF QueueOK
    <3>2. tt'[i].status = QUEUE /\ OneSlot(i)
      BY <1>1, <2>1, <3>1 DEF OneSlot, Void, task_t
    <3> QED BY <3>1, <3>2 DEF SlotStep
  <2> QED BY <1>2, <1>4, <2>1 DEF recv_task
<1>5. ASSUME NEW id \in Ids, start_task_manual(id) PROVE \E i \in Slots : SlotStep(i)
  BY <1>2, <1>3, <1>5, StartTaskStep DEF start_task_manual
<1>6. ASSUME NEW id \in Ids, stop_task_manual(id) PROVE \E i \in Slots : SlotStep(i)
  BY <1>2, <1>3, <1>6, StopTaskStep DEF stop_task_manual, Stopped
<1>7. ASSUME NEW id \in Ids, cancel_task(id) PROVE \E i \in Slots : SlotStep(i)
  BY <1>2, <1>3, <1>7, DeleteStep DEF cancel_task
<1>8. ASSUME NEW id \in Ids, report_stop_reason(id) PROVE \E i \in Slots : SlotStep(i)
  <2> DEFINE i == get_task_by_id(tt, id)
  <2>1. CASE tt' = tt
    BY <1>2, <2>1
  <2>2. CASE /\ i # NULL
             /\ tt' = [tt EXCEPT ![i].status = UPLOADING]
             /\ StopReason(id, tt[i].status) \in sent'
    <3>1. i \in Slots /\ tt[i].id = id
      BY <1>3, <2>2
    <3>2. tt'[i].task = tt[i].task /\ tt'[i].id = tt[i].id /\ OneSlot(i)
      BY <1>1, <2>2, <3>1 DEF OneSlot, task_t
    <3>3. /\ StopReason(id, tt[i].status).state \in Reasons
          /\ StopReason(id, tt[i].status).id = id
      BY DEF StopReason, Reasons, Ok, Frame
    <3> QED BY <2>2, <3>1, <3>2, <3>3 DEF SlotStep
  <2> QED BY <1>8, <2>1, <2>2 DEF report_stop_reason
<1>9. ASSUME NEW id \in Ids, upload_success(id) PROVE \E i \in Slots : SlotStep(i)
  BY <1>2, <1>3, <1>9, DeleteStep DEF upload_success, del_task
<1>10. CASE RemoteFrame
  BY <1>2, <1>4, <1>5, <1>6, <1>7, <1>8, <1>9, <1>10
  DEF RemoteFrame, report_task_status, set_system_datetime
<1>11. CASE check_and_process_task
  BY <1>2, <1>11, StartTaskStep, StopTaskStep DEF check_and_process_task, Stopped
<1>12. ASSUME NEW due \in BOOLEAN, NEW opened \in BOOLEAN, NEW grown \in BOOLEAN,
              check_and_upload_task(due, opened, grown)
       PROVE  \E i \in Slots : SlotStep(i)
  <2> DEFINE t == get_uploading_task
  <2>1. t = NULL \/ t \in Slots
    BY <1>1, LookUps DEF get_uploading_task, IInv, TypeOK
  <2>2. tt' = tt \/ (t # NULL /\ del_task(t))
    BY <1>12 DEF check_and_upload_task, check_and_request
  <2> QED BY <1>2, <2>1, <2>2, DeleteStep
<1>13. CASE StartPass \/ Tick
  BY <1>2, <1>13 DEF StartPass, Tick
<1> QED BY <1>10, <1>11, <1>12, <1>13 DEF ClientStep, ProcessTaskQueue

-----------------------------------------------------------------------------
(* The histories.                                                          *)

\* A stored task is in one slot.
LEMMA OneSlotPerTask ==
  ASSUME NEW q, QueueOK(q), NEW i \in Slots, NEW j \in Slots,
         Used(q, i), q[j].task = q[i].task
  PROVE  j = i
<1>1. q[i].task \in Tasks
  BY DEF QueueOK, task_t, Used, Ids
<1>2. Overlap(q[i].task, q[i].task)
  BY <1>1, QueueAssumption DEF Overlap
<1> QED BY <1>2 DEF QueueOK, Used

\* Observe remembers how a task was stopped when its slot says so.
LEMMA StopIsRemembered ==
  ASSUME QueueOK(tt'), Observe
  PROVE  Remembered'
<1> SUFFICES ASSUME NEW i \in Slots, Used(tt', i), tt'[i].status \in Stopped
             PROVE  stoppedBy'[tt'[i].task] = tt'[i].status
  BY DEF Remembered
<1> DEFINE k == tt'[i].task
<1>1. k \in Tasks /\ k \in Stored(tt')
  BY QueueAssumption DEF QueueOK, task_t, Used, Ids, Stored
<1>2. (CHOOSE j \in Slots : tt'[j].task = k) = i
  <2>1. \A j \in Slots : tt'[j].task = k => j = i
    BY OneSlotPerTask
  <2> QED BY <2>1
<1>3. stoppedBy'[k] = IF k \notin Stored(tt') THEN QUEUE
                      ELSE LET j == CHOOSE j \in Slots : tt'[j].task = k
                           IN  IF tt'[j].status \in Stopped THEN tt'[j].status
                               ELSE stoppedBy[k]
  BY <1>1 DEF Observe
<1> QED BY <1>1, <1>2, <1>3

\* A task only gets into its upload phase when its question is answered.
LEMMA AnswerIsRemembered ==
  ASSUME HInv, QueueOK(tt'), ClientStep, Observe
  PROVE  Answered'
<1> SUFFICES ASSUME NEW i \in Slots, Used(tt', i), tt'[i].id # Zero,
                    tt'[i].status = UPLOADING
             PROVE  tt'[i].id \in answered'
  BY DEF Answered
<1> DEFINE k == tt'[i].id
<1>1. k = tt'[i].task /\ k \in Tasks /\ k \in Stored(tt')
  BY QueueAssumption DEF QueueOK, task_t, Used, Ids, Stored
<1>2. answered' = (answered \cup SentFor(Reasons)) \cap Stored(tt')
  BY DEF Observe
<1>3. PICK n \in Slots : SlotStep(n)
  BY ClientSteps DEF HInv
<1>4. CASE tt'[i] = tt[i]
  <2>1. Used(tt, i) /\ tt[i].id # Zero /\ tt[i].status = UPLOADING
    BY <1>4 DEF Used
  <2>2. tt[i].id \in answered
    BY <2>1 DEF HInv, Answered
  <2> QED BY <1>1, <1>2, <1>4, <2>2
<1>5. CASE n = i /\ \E f \in sent' : f.state \in Reasons /\ f.id = tt[i].id
           /\ tt'[i].id = tt[i].id
  <2>1. k \in SentFor(Reasons)
    BY <1>1, <1>5 DEF SentFor
  <2> QED BY <1>1, <1>2, <2>1
<1> QED
  BY <1>3, <1>4, <1>5 DEF SlotStep, OneSlot, Void, QUEUE, UPLOADING, Used

\* A stored task does not change its slot.
LEMMA TaskStays ==
  ASSUME IInv, QueueOK(tt'), ClientStep, NEW i \in Slots, Used(tt, i),
         tt[i].task \in Stored(tt')
  PROVE  tt'[i].task = tt[i].task
<1>1. PICK n \in Slots : SlotStep(n)
  BY ClientSteps
<1>2. PICK j \in Slots : tt'[j].task = tt[i].task
  BY DEF Stored
<1>3. CASE i # n
  BY <1>1, <1>3 DEF SlotStep, OneSlot
<1>4. CASE i = n /\ j # i
  <2>1. tt[j].task = tt[i].task
    BY <1>1, <1>2, <1>4 DEF SlotStep, OneSlot
  <2> QED BY <2>1, <1>4, OneSlotPerTask DEF IInv
<1> QED BY <1>2, <1>3, <1>4

\* Frames other than upload requests do not count.
LEMMA NothingAsked ==
  ASSUME \A f \in sent' : f.state # "UPLOAD_REQUEST"
  PROVE  SentFor({"UPLOAD_REQUEST"}) = {}
BY DEF SentFor

\* The frames of a remote frame's handler are no upload requests.
LEMMA RemoteFrameAsksNothing ==
  ASSUME RemoteFrame
  PROVE  SentFor({"UPLOAD_REQUEST"}) = {} /\ UNCHANGED <<idx, startTime>>
<1> SUFFICES /\ UNCHANGED <<idx, startTime>>
             /\ \A f \in sent' : f.state # "UPLOAD_REQUEST"
  BY NothingAsked
<1>1. ASSUME NEW k \in Tasks, recv_task(k)
      PROVE  Handling /\ \A f \in sent' : f.state # "UPLOAD_REQUEST"
  BY <1>1 DEF recv_task, Ok, Frame
<1>2. ASSUME NEW id \in Ids, start_task_manual(id)
      PROVE  Handling /\ \A f \in sent' : f.state # "UPLOAD_REQUEST"
  BY <1>2 DEF start_task_manual, start_task, start_task_rsp, start_task_refused, Ok, Frame
<1>3. ASSUME NEW id \in Ids, stop_task_manual(id)
      PROVE  Handling /\ \A f \in sent' : f.state # "UPLOAD_REQUEST"
  BY <1>3 DEF stop_task_manual, stop_task, stop_task_rsp, stop_task_refused, Ok, Frame
<1>4. ASSUME NEW id \in Ids, cancel_task(id)
      PROVE  Handling /\ \A f \in sent' : f.state # "UPLOAD_REQUEST"
  BY <1>4 DEF cancel_task, Ok, Frame
<1>5. ASSUME NEW id \in Ids, report_task_status(id)
      PROVE  Handling /\ \A f \in sent' : f.state # "UPLOAD_REQUEST"
  BY <1>5 DEF report_task_status, Ok, Frame
<1>6. ASSUME NEW id \in Ids, report_stop_reason(id)
      PROVE  Handling /\ \A f \in sent' : f.state # "UPLOAD_REQUEST"
  BY <1>6 DEF report_stop_reason, StopReason, stop_task_rsp, Ok, Frame
<1>7. ASSUME NEW id \in Ids, upload_success(id)
      PROVE  Handling /\ \A f \in sent' : f.state # "UPLOAD_REQUEST"
  BY <1>7 DEF upload_success
<1>8. ASSUME NEW t \in 0 .. MaxTime, set_system_datetime(t)
      PROVE  UNCHANGED <<idx, startTime>> /\ \A f \in sent' : f.state # "UPLOAD_REQUEST"
  BY <1>8 DEF set_system_datetime, static
<1> QED
  BY <1>1, <1>2, <1>3, <1>4, <1>5, <1>6, <1>7, <1>8 DEF RemoteFrame, Handling

\* The steps of the loop before the upload ask for none either.
LEMMA LoopAsksNothing ==
  ASSUME StartPass \/ check_and_process_task \/ Tick
  PROVE  SentFor({"UPLOAD_REQUEST"}) = {} /\ UNCHANGED <<idx, startTime>>
<1>1. \A f \in sent' : f.state # "UPLOAD_REQUEST"
  BY DEF StartPass, check_and_process_task, Tick, start_task, start_task_rsp,
     start_task_refused, stop_task, stop_task_rsp, stop_task_refused, Ok, Frame
<1>2. UNCHANGED <<idx, startTime>>
  BY DEF StartPass, check_and_process_task, Tick, static
<1> QED BY <1>1, <1>2, NothingAsked

\* What the check of the upload asks for is the task the cache names from then
\* on; a task that was asked for before keeps the cache.
LEMMA UploadAsksForCached ==
  ASSUME HInv, NEW due \in BOOLEAN, NEW opened \in BOOLEAN, NEW grown \in BOOLEAN,
         check_and_upload_task(due, opened, grown)
  PROVE  /\ requested # Zero => UNCHANGED <<idx, startTime>>
         /\ \A k \in SentFor({"UPLOAD_REQUEST"}) :
              /\ tt' = tt /\ idx' \in Slots /\ tt[idx'].task = k /\ startTime' = Start[k]
              /\ requested \in {k, Zero}
<1> DEFINE t == get_uploading_task
<1>1. QueueOK(tt) /\ tt \in [Slots -> task_t] /\ idx \in Slots
  BY DEF HInv, IInv, TypeOK
<1>2. t = NULL \/ t \in Slots
  BY <1>1, LookUps DEF get_uploading_task
<1>3. requested # Zero => /\ CacheHit /\ t = idx /\ startTime = start_time(tt, idx)
                          /\ requested \in Tasks /\ tt[idx].task = requested
  BY QueueAssumption DEF HInv, CachedIsAsked, CacheHit, start_time, Used, get_uploading_task
<1>4. requested # Zero => UNCHANGED <<idx, startTime>>
  <2>1. idx # NULL
    BY <1>1 DEF Slots, NULL
  <2> QED BY <1>3, <2>1 DEF check_and_upload_task
<1> HIDE DEF t
<1>5. ASSUME NEW k \in SentFor({"UPLOAD_REQUEST"})
      PROVE  /\ tt' = tt /\ idx' \in Slots /\ tt[idx'].task = k /\ startTime' = Start[k]
             /\ requested \in {k, Zero}
  <2>1. k \in Tasks /\ \E f \in sent' : f.state = "UPLOAD_REQUEST" /\ f.id = k
    BY DEF SentFor
  <2>2. due /\ t # NULL /\ check_and_request(t, opened, grown)
    BY <2>1 DEF check_and_upload_task, t
  <2>3. \A q : \A f \in check_stop_task(q) : f.state # "UPLOAD_REQUEST"
    BY DEF check_stop_task, stop_task_rsp, start_task_rsp, Ok, Frame
  <2>4. tt' = tt /\ k = tt[t].id
    BY <2>1, <2>2, <2>3 DEF check_and_request, Ok, Frame
  <2>5. t \in Slots /\ tt[t].task = k /\ Used(tt, t)
    BY <1>1, <1>2, <2>1, <2>2, <2>4, QueueAssumption DEF QueueOK, Used
  <2>6. idx' = t /\ startTime' = Start[k]
    <3>1. idx' = t
      BY <2>2 DEF check_and_upload_task, t, get_uploading_task
    <3>2. startTime' = start_time(tt, t)
      BY <2>2 DEF check_and_upload_task, t
    <3> QED BY <2>5, <3>1, <3>2 DEF start_time
  <2>7. requested \in {k, Zero}
    BY <1>3, <2>5
  <2> QED BY <2>4, <2>5, <2>6, <2>7
<1> QED BY <1>4, <1>5

\* The cache of get_uploading_task names the task asked for as long as that one
\* is stored.
LEMMA CacheIsKept ==
  ASSUME HInv, IInv', ClientStep, Observe
  PROVE  CachedIsAsked'
<1> DEFINE asked == SentFor({"UPLOAD_REQUEST"})
           named == IF asked = {} THEN requested ELSE CHOOSE k \in asked : TRUE
<1>1. requested' = IF named \in Stored(tt') THEN named ELSE Zero
  BY DEF Observe
<1>2. QueueOK(tt) /\ QueueOK(tt') /\ idx \in Slots
  BY DEF HInv, IInv, TypeOK, QueueOK
<1> SUFFICES ASSUME requested' # Zero
             PROVE  requested' \in Tasks /\ tt'[idx'].task = requested' /\ startTime' = Start[requested']
  BY DEF CachedIsAsked
<1>3. requested' = named /\ named \in Stored(tt')
  BY <1>1
<1>4. CASE asked = {} /\ UNCHANGED <<idx, startTime>>
  <2>1. requested' = requested /\ requested # Zero
    BY <1>3, <1>4
  <2>2. requested \in Tasks /\ tt[idx].task = requested /\ startTime = Start[requested]
    BY <2>1 DEF HInv, CachedIsAsked
  <2>3. tt'[idx].task = tt[idx].task
    BY <1>2, <1>3, <2>1, <2>2, TaskStays DEF HInv, Used
  <2> QED BY <1>4, <2>1, <2>2, <2>3
<1>5. ASSUME NEW due \in BOOLEAN, NEW opened \in BOOLEAN, NEW grown \in BOOLEAN,
             check_and_upload_task(due, opened, grown)
      PROVE  requested' \in Tasks /\ tt'[idx'].task = requested' /\ startTime' = Start[requested']
  <2>1. CASE asked = {}
    <3>1. requested # Zero
      BY <1>3, <2>1
    <3>2. UNCHANGED <<idx, startTime>>
      BY <1>5, <3>1, UploadAsksForCached
    <3> QED BY <1>4, <2>1, <3>2
  <2>2. CASE asked # {}
    <3>1. named \in asked
      BY <2>2
    <3>2. tt' = tt /\ tt[idx'].task = named /\ startTime' = Start[named]
      BY <1>5, <3>1, UploadAsksForCached
    <3>3. named \in Tasks
      BY <3>1 DEF SentFor
    <3> QED BY <1>3, <3>2, <3>3
  <2> QED BY <2>1, <2>2
<1>6. CASE RemoteFrame \/ StartPass \/ check_and_process_task \/ Tick
  BY <1>4, <1>6, RemoteFrameAsksNothing, LoopAsksNothing
<1> QED BY <1>5, <1>6 DEF ClientStep, ProcessTaskQueue

\* The histories and the queue agree, whatever the ground, the clock, the trace
\* file and the monitor do.
THEOREM HistoryInvariance == SpecObs => []HInv
<1>1. InitObs => Remembered /\ Answered /\ CachedIsAsked
  BY DEF InitObs, Init, Void, Used, Remembered, Answered, CachedIsAsked
<1>2. /\ IInv /\ IInv' /\ Remembered /\ Answered /\ CachedIsAsked
      /\ [NextObs]_<<vars, history>>
      => Remembered' /\ Answered' /\ CachedIsAsked'
  <2> SUFFICES ASSUME HInv, IInv', [NextObs]_<<vars, history>>
               PROVE  Remembered' /\ Answered' /\ CachedIsAsked'
    BY DEF HInv
  <2>1. QueueOK(tt')
    BY DEF IInv, QueueOK
  <2>2. CASE ClientStep /\ Observe
    BY <2>1, <2>2, StopIsRemembered, AnswerIsRemembered, CacheIsKept
  <2>3. CASE Restart /\ requested' = Zero /\ UNCHANGED <<stoppedBy, answered>>
    BY <2>3 DEF Restart, HInv, Remembered, Answered, CachedIsAsked, Used
  <2>4. CASE UNCHANGED <<vars, history>>
    BY <2>4 DEF vars, history, HInv, Remembered, Answered, CachedIsAsked, Used
  <2> QED BY <2>2, <2>3, <2>4 DEF NextObs, ClientStep
<1>3. IInv /\ Remembered /\ Answered /\ CachedIsAsked <=> HInv
  BY DEF HInv
<1> QED BY <1>1, <1>2, <1>3, ObsIsClient, Invariance, PTL DEF SpecObs

\* The first reason the ground hears of a stop is the true one.
THEOREM ReasonsAreTrue == SpecObs => FirstReasonTrue
<1>1. HInv /\ [NextObs]_<<vars, history>> =>
        [\A f \in sent' : f.state \in Reasons /\ f.id \notin answered => True(f)]_<<vars, history>>
  <2> SUFFICES ASSUME HInv, NextObs, NEW f \in sent', f.state \in Reasons, f.id \notin answered
               PROVE  True(f)
    OBVIOUS
  <2> SUFFICES ASSUME f.id \in Tasks
               PROVE  stoppedBy[f.id] = IF f.state = "STOP_TASK_SUCCESS_MANUAL"
                                        THEN STOP_MANU ELSE STOP_AUTO
    BY DEF True
  <2>1. PICK id \in Ids : report_stop_reason(id)
    <3>1. ASSUME NEW k \in Tasks, recv_task(k) PROVE FALSE
      BY <3>1 DEF recv_task, Ok, Frame, Reasons
    <3>2. ASSUME NEW id \in Ids, start_task_manual(id) PROVE FALSE
      BY <3>2 DEF start_task_manual, start_task, start_task_rsp, start_task_refused,
         Ok, Frame, Reasons
    <3>3. ASSUME NEW id \in Ids, stop_task_manual(id) PROVE FALSE
      BY <3>3 DEF stop_task_manual, stop_task, stop_task_rsp, stop_task_refused, Ok, Frame, Reasons
    <3>4. ASSUME NEW id \in Ids, cancel_task(id) PROVE FALSE
      BY <3>4 DEF cancel_task, Ok, Frame, Reasons
    <3>5. ASSUME NEW id \in Ids, report_task_status(id) PROVE FALSE
      BY <3>5 DEF report_task_status, Ok, Frame, Reasons
    <3>6. ASSUME NEW id \in Ids, upload_success(id) PROVE FALSE
      BY <3>6 DEF upload_success
    <3>7. ASSUME NEW t \in 0 .. MaxTime, set_system_datetime(t) PROVE FALSE
      BY <3>7 DEF set_system_datetime
    <3>8. ASSUME check_and_process_task PROVE FALSE
      BY <3>8 DEF check_and_process_task, start_task, start_task_rsp, start_task_refused,
         stop_task, stop_task_rsp, stop_task_refused, Ok, Frame, Reasons
    <3>9. ASSUME NEW due \in BOOLEAN, NEW opened \in BOOLEAN, NEW grown \in BOOLEAN,
                 check_and_upload_task(due, opened, grown)
          PROVE  FALSE
      BY <3>9 DEF check_and_upload_task, check_and_request, check_stop_task, stop_task_rsp,
         start_task_rsp, Ok, Frame, Reasons
    <3>10. ASSUME StartPass \/ Tick \/ Restart PROVE FALSE
      BY <3>10 DEF StartPass, Tick, Restart
    <3> QED
      BY <3>1, <3>2, <3>3, <3>4, <3>5, <3>6, <3>7, <3>8, <3>9, <3>10
      DEF NextObs, RemoteFrame, ProcessTaskQueue
  <2> DEFINE i == get_task_by_id(tt, id)
  <2>2. QueueOK(tt) /\ tt \in [Slots -> task_t]
    BY DEF HInv, IInv, TypeOK
  <2>3. /\ i # NULL /\ Used(tt, i) /\ tt[i].status \in Stopped \cup {UPLOADING}
        /\ f = StopReason(id, tt[i].status)
    BY <2>1 DEF report_stop_reason, stop_task_rsp, Ok, Frame, Reasons
  <2>4. i \in Slots /\ tt[i].id = id
    BY <2>2, <2>3, LookUps
  <2>5. f.id = id /\ (f.state = "STOP_TASK_SUCCESS_MANUAL" <=> tt[i].status = STOP_MANU)
    BY <2>3 DEF StopReason, Ok, Frame
  <2>6. tt[i].id = tt[i].task /\ tt[i].id # Zero
    BY <2>2, <2>4, <2>5, QueueAssumption DEF QueueOK
  <2>7. tt[i].status # UPLOADING
    BY <2>3, <2>4, <2>5, <2>6 DEF HInv, Answered
  <2>8. tt[i].status \in Stopped /\ stoppedBy[tt[i].task] = tt[i].status
    BY <2>3, <2>4, <2>7 DEF HInv, Remembered
  <2> QED BY <2>4, <2>5, <2>6, <2>8 DEF Stopped
<1> QED BY <1>1, HistoryInvariance, PTL DEF SpecObs, FirstReasonTrue

\* Between two restarts the client asks for another trace only when the one it
\* asked for before has left the queue.
THEOREM UploadsDoNotInterleave == SpecObs => UploadOneAtATime
<1>1. HInv /\ [NextObs]_<<vars, history>> =>
        [\A k \in SentFor({"UPLOAD_REQUEST"}) : requested \in {k, Zero}]_<<vars, history>>
  <2> SUFFICES ASSUME HInv, NextObs, NEW k \in SentFor({"UPLOAD_REQUEST"})
               PROVE  requested \in {k, Zero}
    OBVIOUS
  <2>1. CASE RemoteFrame \/ StartPass \/ check_and_process_task \/ Tick
    BY <2>1, RemoteFrameAsksNothing, LoopAsksNothing
  <2>2. CASE Restart
    BY <2>2 DEF Restart, SentFor
  <2>3. ASSUME NEW due \in BOOLEAN, NEW opened \in BOOLEAN, NEW grown \in BOOLEAN,
               check_and_upload_task(due, opened, grown)
        PROVE  requested \in {k, Zero}
    BY <2>3, UploadAsksForCached
  <2> QED BY <2>1, <2>2, <2>3 DEF NextObs, ProcessTaskQueue
<1> QED BY <1>1, HistoryInvariance, PTL DEF SpecObs, UploadOneAtATime
=============================================================================
