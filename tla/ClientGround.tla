----------------------------- MODULE ClientGround -----------------------------
(***************************************************************************)
(* The client together with the ground station that drives it, for what    *)
(* must eventually happen.  The ground is outside the client: it books     *)
(* every task once, may start and stop tasks, and answers what it hears    *)
(* the way the test server of the repository and the protocol do: 212 to a *)
(* start (204), 211 to a stop (207), and 311 when the trace it was offered *)
(* (300) is complete.  A frame of the client is heard or lost; frames of   *)
(* the ground wait until the event loop is in select.                      *)
(***************************************************************************)
EXTENDS ClientTaskProps

CONSTANTS
  MaxLoss,      \* bound of the frames that are lost
  MaxRestarts   \* bound of the restarts of the client

ASSUME GroundAssumption == MaxLoss \in Nat /\ MaxRestarts \in Nat

VARIABLES
  heard,        \* frames of the client that the ground has not answered yet
  booked,       \* tasks the ground has sent
  losses, restarts

groundVars == <<heard, booked, losses, restarts>>
all        == <<vars, groundVars>>

\* The frames that the ground answers.
Answered == {f \in sent' : f.state \in {"START_TASK_SUCCESS", "STOP_TASK_SUCCESS", "UPLOAD_REQUEST"}}

\* What a step of the client writes arrives, or is lost with the connection.
Deliver(pending) ==
  /\ UNCHANGED restarts
  /\ \/ heard' = pending \cup Answered /\ UNCHANGED losses
     \/ /\ Answered # {}
        /\ losses < MaxLoss
        /\ losses' = losses + 1
        /\ heard' = pending

\* The client's own steps.
Loop   == (StartPass \/ check_and_process_task) /\ Deliver(heard) /\ UNCHANGED booked
Upload(due) ==
  /\ \E grown \in BOOLEAN : check_and_upload_task(due, TRUE, grown)
  /\ Deliver(heard)
  /\ UNCHANGED booked

\* The ground's commands: 200, 202 and 205.
Book(k) ==
  /\ k \notin booked
  /\ booked' = booked \cup {k}
  /\ recv_task(k)
  /\ Deliver(heard)

Command(k) ==
  /\ k \in booked
  /\ start_task_manual(k) \/ stop_task_manual(k)
  /\ Deliver(heard)
  /\ UNCHANGED booked

\* The ground's answer to a frame; a 300 of a task that still runs is answered
\* by reads that change nothing in the queue.
Answer(state, k) ==
  LET f == Ok(state, k) IN
  /\ f \in heard
  /\ CASE state = "START_TASK_SUCCESS" -> report_task_status(k)
       [] state = "STOP_TASK_SUCCESS"  -> report_stop_reason(k)
       [] state = "UPLOAD_REQUEST"     -> \/ upload_success(k)
                                          \/ ~ Holds(k, {UPLOADING}) /\ Handling
                                             /\ sent' = {} /\ UNCHANGED <<tt, sync_task>>
  /\ Deliver(heard \ {f})
  /\ UNCHANGED booked

Pass == Tick /\ UNCHANGED groundVars

Crash ==
  /\ restarts < MaxRestarts
  /\ restarts' = restarts + 1
  /\ Restart
  /\ UNCHANGED <<heard, booked, losses>>

Answerable == {"START_TASK_SUCCESS", "STOP_TASK_SUCCESS", "UPLOAD_REQUEST"}

InitGround == Init /\ heard = {} /\ booked = {} /\ losses = 0 /\ restarts = 0

NextGround ==
  \/ Loop
  \/ \E due \in BOOLEAN : Upload(due)
  \/ \E k \in Tasks : Book(k) \/ Command(k)
  \/ \E k \in Tasks, state \in Answerable : Answer(state, k)
  \/ Pass
  \/ Crash

\* The loop runs and time passes; an upload check is due again and again, and
\* a frame the ground answers is read in some visit of select.
FairGround ==
  /\ WF_all(Loop \/ Upload(FALSE))
  /\ WF_all(Pass)
  /\ SF_all(Upload(TRUE))
  /\ \A state \in Answerable : SF_all(\E k \in Tasks : Answer(state, k))

SpecGround == InitGround /\ [][NextGround]_all /\ FairGround

-----------------------------------------------------------------------------
\* Every task the client stores is eventually run, explained, uploaded and
\* deleted, so that the queue never fills up with finished tests.
EveryTaskLeaves ==
  \A k \in Tasks : Holds(k, task_status) ~> ~ Holds(k, task_status)

\* A stopped task is announced until the ground asks why it stopped ("when the
\* vehicle does not receive 211 it sends 207 to the ground repeatedly").
StopsAreExplained ==
  \A k \in Tasks : Holds(k, Stopped) ~> ~ Holds(k, Stopped)
=============================================================================
