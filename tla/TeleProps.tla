------------------------------ MODULE TeleProps ------------------------------
(***************************************************************************)
(* What the client and the telephone HAL promise about the test call.      *)
(***************************************************************************)
EXTENDS Tele

Request_t == {"DIAL", "HANGUP", "TRACE_START", "TRACE_STOP"}
Message_t == {"DIAL_OK", "DIAL_FAILED", "HANGUP", "TRACE_START", "TRACE_STOP", "NO_CARRIER"}
Line_t    == {"none", "dialing", "active"}

TypeOK ==
  /\ task \in Kinds \cup {NULL}
  /\ tasks \in 0 .. MaxTasks
  /\ pos \in {"queue", "interval", "select", "ground", "core"}
  /\ state \in {"IDLE", "WAIT", "ONLINE", "OFFLINE"}
  /\ hanup_latest \in BOOLEAN /\ dial_first \in BOOLEAN
  /\ dial_deadline \in {"off", "running", "passed"}
  /\ toHal \in Seq(Request_t) /\ toClient \in Seq(Message_t)
  /\ s_pendingDialing \in BOOLEAN /\ s_existCall \in BOOLEAN
  /\ s_pCurrentCall \in Line_t
  /\ dialing \in Nat /\ sending \in Nat /\ polling \in Nat
  /\ toRild \in Seq({"DIAL", "HANGUP", "GET_CURRENT_CALLS"}) /\ line \in Line_t
  /\ toTrace \in Seq({"TRACE_START", "TRACE_STOP"}) /\ trace \in BOOLEAN

\* No call is left up when the task is over: in whatever order the stop, the
\* dial timer, the dialing thread and the answers of rild come, the line is
\* free once everything on its way has arrived.
LineReleased ==
  task = NULL /\ Quiet /\ dial_deadline = "off" => line = "none"

\* The client believes in a call only as long as there is one: the end of a
\* call is never lost between the polls of the HAL.
OnlineIsTrue == Quiet /\ state = "ONLINE" => line = "active"

\* The state in which the client waits for an answer always ends, also when
\* the call is accepted before its first poll, of which the HAL reports nothing.
WaitEnds == state = "WAIT" ~> state # "WAIT"
=============================================================================
