--------------------------- MODULE ClientTaskProps ---------------------------
(***************************************************************************)
(* What the client promises about its tasks, as invariants and action      *)
(* properties of ClientTask.                                               *)
(***************************************************************************)
EXTENDS ClientTask

TypeOK ==
  /\ tt \in [Slots -> task_t]
  /\ sync_task \in Slots \cup {NULL}
  /\ idx \in Slots
  /\ startTime \in Nat
  /\ no_file_check \in 0 .. NoFileLimit
  /\ scan \in Select .. UploadPos
  /\ now \in 0 .. MaxTime

\* Two stored tasks never have windows that overlap, whatever the ground sends
\* and however often the process restarts: the timed start could otherwise run
\* two tests on the one telephone.  (check_new_task against every slot.)
NoOverlap ==
  \A i, j \in Slots :
    i # j /\ Used(tt, i) /\ Used(tt, j) => ~ Overlap(tt[i].task, tt[j].task)

\* A task_id names at most one slot, although recv_task never compares ids: a
\* repeated 200 finds its own window taken.  Every handler that looks a task up
\* by id depends on it.
UniqueIds ==
  \A i, j \in Slots : tt[i].id = tt[j].id /\ tt[i].id # Zero => i = j

\* A void slot is all zeroes.  recv_task relies on it: without the flag of
\* Trio 0 the new task inherits the slot's id and status.
VoidIsZero == \A i \in Slots : ~ Used(tt, i) => tt[i] = Void

\* The ground is told that a task has stopped (207) only when the task is not
\* going to run: it is stopped, in its upload phase, or no longer stored.
StopConfirmed ==
  \A f \in sent : f.state = "STOP_TASK_SUCCESS" /\ f.id # Zero =>
    \A i \in Slots : tt[i].id = f.id => tt[i].status \in Stopped \cup {UPLOADING}

\* The ground is told that a task has started (204) only while that task runs,
\* also when the confirmation is repeated from sync_task long after the start.
StartConfirmed ==
  \A f \in sent : f.state = "START_TASK_SUCCESS" =>
    \E i \in Slots : tt[i].id = f.id /\ Used(tt, i) /\ tt[i].status = TESTING

-----------------------------------------------------------------------------
(* The queue implements the lifecycle the ground sees.                     *)

Holds(k, S) == \E i \in Slots : tt[i].task = k /\ tt[i].status \in S

phase == [k \in Tasks |->
  IF Holds(k, {QUEUE}) THEN "queued"
  ELSE IF Holds(k, {TESTING}) THEN "running"
  ELSE IF Holds(k, Stopped) THEN "stopped"
  ELSE IF Holds(k, {UPLOADING}) THEN "uploading"
  ELSE "absent"]

Lifecycle == INSTANCE TaskLifecycle WITH life <- phase

\* Every task goes through the phases in order, and a task that has run leaves
\* the queue only by the confirmation of its upload: no handler, timer or
\* restart, in any order, loses a test that was made or runs it again.
LifecycleSpec == Lifecycle!Spec
=============================================================================
