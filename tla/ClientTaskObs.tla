---------------------------- MODULE ClientTaskObs ----------------------------
(***************************************************************************)
(* ClientTask with history variables, for the properties that relate what  *)
(* the client says to what it did long before.                             *)
(***************************************************************************)
EXTENDS ClientTaskProps

VARIABLES
  stoppedBy,    \* how each task stored in the queue was stopped, or QUEUE
  answered,     \* the tasks whose 211 has been answered with a reason
  requested     \* the task last named in an upload request, while it is in
                \* the queue and the client has not restarted, else Zero

history == <<stoppedBy, answered, requested>>

\* The tasks that the step names in a frame with one of these states.  (The
\* slot of a task without Trio 0 has no id.)
SentFor(states) == {f.id : f \in {g \in sent' : g.state \in states}} \cap Tasks

Reasons == {"STOP_TASK_SUCCESS_MANUAL", "STOP_TASK_SUCCESS_AUTO"}

Stored(q) == {q[i].task : i \in Slots} \ {Zero}

\* How the steps of ClientTask change the histories.
Observe ==
  /\ stoppedBy' = [k \in Tasks |->
       IF k \notin Stored(tt') THEN QUEUE
       ELSE LET i == CHOOSE j \in Slots : tt'[j].task = k
            IN  IF tt'[i].status \in Stopped THEN tt'[i].status ELSE stoppedBy[k]]
  /\ answered' = (answered \cup SentFor(Reasons)) \cap Stored(tt')
  /\ LET asked == SentFor({"UPLOAD_REQUEST"})
         named == IF asked = {} THEN requested ELSE CHOOSE k \in asked : TRUE
     IN  requested' = IF named \in Stored(tt') THEN named ELSE Zero

InitObs == Init /\ stoppedBy = [k \in Tasks |-> QUEUE] /\ answered = {} /\ requested = Zero

NextObs ==
  \/ (RemoteFrame \/ ProcessTaskQueue \/ Tick) /\ Observe
  \/ Restart /\ requested' = Zero /\ UNCHANGED <<stoppedBy, answered>>

SpecObs == InitObs /\ [][NextObs]_<<vars, history>>

\* A reason that agrees with how the task was stopped.
True(f) ==
  f.id \in Tasks =>
    stoppedBy[f.id] = IF f.state = "STOP_TASK_SUCCESS_MANUAL" THEN STOP_MANU ELSE STOP_AUTO

-----------------------------------------------------------------------------
\* The first answer to the ground's question why a task has stopped (211) is
\* true, whatever happened between the stop and the question.
FirstReasonTrue ==
  [][\A f \in sent' : f.state \in Reasons /\ f.id \notin answered => True(f)]_<<vars, history>>

\* The client uploads one trace at a time: between two restarts it asks for
\* the upload of another task (300) only when the one it asked for before has
\* left the queue, although older tasks may become ready in the meantime.
UploadOneAtATime ==
  [][\A k \in SentFor({"UPLOAD_REQUEST"}) :
       requested \in {k, Zero}]_<<vars, history>>
=============================================================================
