-------------------------------- MODULE Tele --------------------------------
(***************************************************************************)
(* The test call of the running task.  The client switches the call and    *)
(* the trace on and off with requests to the telephone HAL (client/        *)
(* local_client_event.c); the HAL passes them to the radio daemon rild and *)
(* to the trace daemon and turns their answers into messages to the client *)
(* (Triorail_ril/HAL/Triorail/hal_triorail.cpp).                           *)
(*                                                                         *)
(* Requests and messages travel through core, each way in order.  rild and *)
(* the trace daemon each answer in order, but not in the order of both, so *)
(* a trace request may overtake a hangup.  The HAL dials and polls the     *)
(* state of the call from threads of its own, after a delay.               *)
(***************************************************************************)
EXTENDS Naturals, Sequences

CONSTANTS
  Kinds,      \* the kinds of tasks, see TaskKind
  NULL,       \* no task
  MaxTasks,   \* bound: tasks that are run
  MaxPolls,   \* bound: polling threads of the HAL at a time
  Settled,    \* TRUE: nothing is on its way when a call is dialled, that is,
              \* answers travel faster than offline_interval
  SameRound,  \* TRUE: select may report frames of the ground and of core at once
  DialRace    \* TRUE: s_pendingDialing may be tested or changed while another
              \* thread is about to dial

\* What the telephone part reads of a task: whether online_interval is 0 (one
\* long call), whether access_interval is 0, in 1 .. 300 or greater, and
\* whether phone_len is at most 15.
TaskKind == [long : BOOLEAN, access : {"zero", "ok", "over"}, phone : BOOLEAN]

ASSUME TeleAssumption ==
  /\ Kinds \subseteq TaskKind /\ NULL \notin Kinds
  /\ MaxTasks \in Nat /\ MaxPolls \in Nat
  /\ Settled \in BOOLEAN /\ SameRound \in BOOLEAN /\ DialRace \in BOOLEAN

VARIABLES
  task,           \* the running task, NULL without one
  tasks,          \* tasks started so far
  pos,            \* position of the client's event loop
  state,          \* tele.state
  hanup_latest,   \* TRUE: the answer to a hangup ends the task's telephone part
  dial_first,     \* TRUE: the first call of a task does not wait
  dial_deadline,  \* "off", "running", or "passed" (not noticed yet)
  toHal, toClient,  \* requests and messages on their way
  s_pendingDialing, s_existCall,  \* flags of the HAL
  s_pCurrentCall, \* the state of the call at the last poll, "none" without one
  dialing,        \* dialing threads that sleep
  sending,        \* dialing threads that have seen s_pendingDialing
  polling,        \* polling threads that sleep
  toRild, line,   \* requests to rild, and the call it has
  toTrace, trace  \* requests to the trace daemon, and whether it traces

client == <<task, tasks, pos, state, hanup_latest, dial_first, dial_deadline>>
flags  == <<s_pendingDialing, s_existCall, s_pCurrentCall>>
hal    == <<flags, dialing, sending, polling>>
world  == <<toRild, line, toTrace, trace>>
vars   == <<client, toHal, toClient, hal, world>>

Quiet ==
  /\ toHal = <<>> /\ toClient = <<>> /\ toRild = <<>> /\ toTrace = <<>>
  /\ dialing = 0 /\ sending = 0 /\ polling = 0

-----------------------------------------------------------------------------
(* The client.                                                             *)

\* Mutants: the seconds are stored for the deadline; the timer is not started.
set_dial_timer_raw(access, timer) == IF access = "over" THEN timer ELSE access
set_dial_timer_off(access, timer) == IF access = "over" THEN timer ELSE "off"

set_dial_timer(access, timer) ==
  CASE access = "ok" -> "running" [] access = "zero" -> "off" [] access = "over" -> timer

update_tele_state(s) == state' = s

Request(q, r) == Append(q, r)

\* dial_tele0: nothing is sent for a number that is too long.
dial_tele0(t) ==
  /\ toHal' = IF t.phone THEN Request(toHal, "DIAL") ELSE toHal
  /\ dial_deadline' = IF t.phone THEN set_dial_timer(t.access, dial_deadline) ELSE dial_deadline

\* stop_trace, called by stop_task: a call, or a dial the timer still waits
\* for, is hung up first.  (Mutant: only a call is.)
HangsUpToStop_online == state = "ONLINE"
HangsUpToStop == state = "ONLINE" \/ dial_deadline = "running"

stop_trace ==
  \/ /\ HangsUpToStop
     /\ hanup_latest' = TRUE
     /\ update_tele_state("WAIT")
     /\ dial_deadline' = "off"
     /\ toHal' = Request(Request(toHal, "HANGUP"), "TRACE_STOP")
  \/ /\ ~ HangsUpToStop
     /\ toHal' = Request(toHal, "TRACE_STOP")
     /\ UNCHANGED <<hanup_latest, state, dial_deadline>>

\* The frames of the ground are handled before those of core.
Ground == IF pos = "select" THEN "ground" ELSE pos

\* A task is started, by a frame or by time.
StartTask ==
  /\ pos \in {"queue", "select", "ground"}
  /\ task = NULL
  /\ tasks < MaxTasks
  /\ task' \in Kinds
  /\ tasks' = tasks + 1
  /\ pos' = Ground
  /\ UNCHANGED <<state, hanup_latest, dial_first, dial_deadline, toHal, toClient, hal, world>>

\* The task is stopped, by a frame or by time.
StopTask ==
  /\ pos \in {"queue", "select", "ground"}
  /\ task # NULL
  /\ stop_trace
  /\ task' = NULL
  /\ pos' = Ground
  /\ UNCHANGED <<tasks, dial_first, toClient, hal, world>>

\* check_and_process_local_task with a running task; due tells whether the
\* interval of the present state is over.
Act(t, due) ==
  \/ /\ state = "IDLE"
     /\ toHal' = Request(toHal, "TRACE_START")
     /\ update_tele_state("WAIT")
     /\ UNCHANGED <<dial_first, dial_deadline>>
  \/ /\ state = "OFFLINE" /\ t.long
     /\ Settled => Quiet
     /\ update_tele_state("WAIT")
     /\ dial_tele0(t)
     /\ UNCHANGED dial_first
  \/ /\ state = "OFFLINE" /\ ~ t.long /\ (due \/ dial_first)
     /\ dial_first' = FALSE
     /\ Settled => Quiet
     /\ update_tele_state("WAIT")
     /\ dial_tele0(t)
  \/ /\ state = "ONLINE" /\ ~ t.long /\ due
     /\ update_tele_state("WAIT")
     /\ toHal' = Request(toHal, "HANGUP")
     /\ UNCHANGED <<dial_first, dial_deadline>>

\* Nothing is done without a task, before the interval is over, or when the
\* clock has been set back behind tele.begin.
check_and_process_local_task ==
  /\ pos = "queue"
  /\ pos' = "interval"
  /\ \/ task # NULL /\ \E due \in BOOLEAN : Act(task, due)
     \/ UNCHANGED <<state, dial_first, dial_deadline, toHal>>
  /\ UNCHANGED <<task, tasks, hanup_latest, toClient, hal, world>>

\* get_local_hungup_timeout_interval: a dial that takes too long is hung up.
get_local_hungup_timeout_interval ==
  /\ pos = "interval"
  /\ pos' = "select"
  /\ \/ /\ dial_deadline = "passed"
        /\ dial_deadline' = "off"
        /\ toHal' = Request(toHal, "HANGUP")
     \/ /\ dial_deadline # "passed"
        /\ UNCHANGED <<dial_deadline, toHal>>
  /\ UNCHANGED <<task, tasks, state, hanup_latest, dial_first, toClient, hal, world>>

\* The state after the answer to a dial or a hangup.
After(s) ==
  /\ update_tele_state(IF hanup_latest THEN "IDLE" ELSE s)
  /\ hanup_latest' = FALSE

process_local_event ==
  /\ pos \in {"select", "core"} \cup (IF SameRound THEN {"ground"} ELSE {})
  /\ pos' = "core"
  /\ toClient # <<>>
  /\ toClient' = Tail(toClient)
  /\ \/ /\ Head(toClient) \in {"DIAL_OK", "DIAL_FAILED"}
        /\ dial_deadline' = "off"
        /\ After(IF Head(toClient) = "DIAL_OK" THEN "ONLINE" ELSE "OFFLINE")
        /\ UNCHANGED dial_first
     \/ /\ Head(toClient) = "HANGUP"
        /\ After("OFFLINE")
        /\ UNCHANGED <<dial_first, dial_deadline>>
     \/ /\ Head(toClient) = "TRACE_START"
        /\ dial_first' = TRUE
        /\ update_tele_state("OFFLINE")
        /\ UNCHANGED <<hanup_latest, dial_deadline>>
     \/ /\ Head(toClient) = "TRACE_STOP"
        /\ update_tele_state("IDLE")
        /\ UNCHANGED <<hanup_latest, dial_first, dial_deadline>>
     \/ /\ Head(toClient) = "NO_CARRIER"
        /\ update_tele_state("OFFLINE")
        /\ UNCHANGED <<hanup_latest, dial_first, dial_deadline>>
  /\ UNCHANGED <<task, tasks, toHal, hal, world>>

\* The loop begins its next round.
NextRound ==
  /\ pos \in {"select", "ground", "core"}
  /\ pos' = "queue"
  /\ UNCHANGED <<task, tasks, state, hanup_latest, dial_first, dial_deadline, toHal, toClient, hal, world>>

Client ==
  \/ check_and_process_local_task
  \/ get_local_hungup_timeout_interval
  \/ process_local_event
  \/ NextRound

\* time(NULL) reaches the deadline.
Timeout ==
  /\ dial_deadline = "running"
  /\ dial_deadline' = "passed"
  /\ UNCHANGED <<task, tasks, pos, state, hanup_latest, dial_first, toHal, toClient, hal, world>>

-----------------------------------------------------------------------------
(* The HAL.                                                                *)

sendHALResponse(m) == toClient' = Append(toClient, m)

processHALCmd ==
  /\ toHal # <<>>
  /\ DialRace \/ sending = 0
  /\ toHal' = Tail(toHal)
  /\ \/ /\ Head(toHal) = "DIAL"
        /\ s_pendingDialing' = TRUE
        /\ dialing' = dialing + 1
        /\ UNCHANGED <<s_existCall, toRild, toTrace>>
     \/ /\ Head(toHal) = "HANGUP"
        /\ toRild' = Append(toRild, "HANGUP")
        /\ s_pendingDialing' = FALSE
        /\ s_existCall' = FALSE
        /\ UNCHANGED <<dialing, toTrace>>
     \/ /\ Head(toHal) \in {"TRACE_START", "TRACE_STOP"}
        /\ toTrace' = Append(toTrace, Head(toHal))
        /\ UNCHANGED <<s_pendingDialing, s_existCall, dialing, toRild>>
  /\ UNCHANGED <<client, toClient, s_pCurrentCall, sending, polling, line, trace>>

\* dialThread after its sleep: it tests s_pendingDialing ...
dialThread ==
  /\ dialing > 0
  /\ DialRace \/ sending = 0
  /\ dialing' = dialing - 1
  /\ \/ /\ s_pendingDialing
        /\ sending' = sending + 1
        /\ UNCHANGED <<s_pendingDialing, s_existCall>>
     \/ /\ ~ s_pendingDialing
        /\ s_existCall' = TRUE
        /\ UNCHANGED <<s_pendingDialing, sending>>
  /\ UNCHANGED <<client, toHal, toClient, s_pCurrentCall, polling, world>>

\* ... and then dials.
dialThread_sends ==
  /\ sending > 0
  /\ sending' = sending - 1
  /\ toRild' = Append(toRild, "DIAL")
  /\ s_pendingDialing' = FALSE
  /\ s_existCall' = TRUE
  /\ UNCHANGED <<client, toHal, toClient, s_pCurrentCall, dialing, polling, line, toTrace, trace>>

\* pollCurrentCallThread after its sleep.
pollCurrentCallThread ==
  /\ polling > 0
  /\ polling' = polling - 1
  /\ toRild' = IF s_existCall THEN Append(toRild, "GET_CURRENT_CALLS") ELSE toRild
  /\ UNCHANGED <<client, toHal, toClient, flags, dialing, sending, line, toTrace, trace>>

\* Mutant: the end of an accepted call is not reported.
processCallStateChange_deaf(old, new) ==
  CASE new = "none" /\ old = "dialing"  -> <<"DIAL_FAILED">>
    [] new = "active" /\ old = "dialing" -> <<"DIAL_OK">>
    [] OTHER -> <<>>

\* What processCallStateChange reports when the call goes from state old to
\* state new: nothing at the first poll that finds a call.
processCallStateChange(old, new) ==
  CASE new = "none" /\ old = "active"   -> <<"NO_CARRIER">>
    [] new = "none" /\ old = "dialing"  -> <<"DIAL_FAILED">>
    [] new = "active" /\ old = "dialing" -> <<"DIAL_OK">>
    [] OTHER -> <<>>

\* rild takes a request and the HAL gets the answer (processSolicited); rild
\* refuses to dial while it has a call, and may fail to dial at any time.
RildAnswers ==
  /\ toRild # <<>>
  /\ toRild' = Tail(toRild)
  /\ \/ /\ Head(toRild) = "DIAL" /\ line = "none"
        /\ line' = "dialing"
        /\ polling' = polling + 1
        /\ UNCHANGED <<toClient, s_pCurrentCall>>
     \/ /\ Head(toRild) = "DIAL"
        /\ sendHALResponse("DIAL_FAILED")
        /\ UNCHANGED <<line, polling, s_pCurrentCall>>
     \/ /\ Head(toRild) = "GET_CURRENT_CALLS"
        /\ toClient' = toClient \o processCallStateChange(s_pCurrentCall, line)
        /\ s_pCurrentCall' = line
        /\ UNCHANGED <<line, polling>>
     \/ /\ Head(toRild) = "HANGUP"
        /\ line' = "none"
        /\ s_pCurrentCall' = "none"
        /\ sendHALResponse("HANGUP")
        /\ UNCHANGED polling
  /\ UNCHANGED <<client, toHal, s_pendingDialing, s_existCall, dialing, sending, toTrace, trace>>

\* The trace daemon takes a request and the HAL passes the answer on
\* (processReadTrace_0).
TraceAnswers ==
  /\ toTrace # <<>>
  /\ toTrace' = Tail(toTrace)
  /\ trace' = (Head(toTrace) = "TRACE_START")
  /\ sendHALResponse(Head(toTrace))
  /\ UNCHANGED <<client, toHal, hal, toRild, line>>

\* The network: the call is accepted, or it ends; rild tells the HAL, which
\* polls the state of the call (processUnsolicited).
LineChanges ==
  /\ polling < MaxPolls
  /\ \/ line = "dialing" /\ line' \in {"active", "none"}
     \/ line = "active" /\ line' = "none"
  /\ polling' = polling + 1
  /\ UNCHANGED <<client, toHal, toClient, flags, dialing, sending, toRild, toTrace, trace>>

Hal ==
  \/ processHALCmd
  \/ dialThread \/ dialThread_sends
  \/ pollCurrentCallThread
  \/ RildAnswers
  \/ TraceAnswers

Init ==
  /\ task = NULL /\ tasks = 0
  /\ pos = "queue"
  /\ state = "IDLE"
  /\ hanup_latest = FALSE /\ dial_first = FALSE
  /\ dial_deadline = "off"
  /\ toHal = <<>> /\ toClient = <<>>
  /\ s_pendingDialing = FALSE /\ s_existCall = FALSE
  /\ s_pCurrentCall = "none"
  /\ dialing = 0 /\ sending = 0 /\ polling = 0
  /\ toRild = <<>> /\ line = "none"
  /\ toTrace = <<>> /\ trace = FALSE

Next == StartTask \/ StopTask \/ Client \/ Timeout \/ Hal \/ LineChanges

Fairness ==
  /\ WF_vars(check_and_process_local_task)
  /\ WF_vars(get_local_hungup_timeout_interval)
  /\ SF_vars(process_local_event)
  /\ WF_vars(NextRound)
  /\ WF_vars(Timeout)
  /\ WF_vars(processHALCmd)
  /\ WF_vars(dialThread) /\ WF_vars(dialThread_sends)
  /\ WF_vars(pollCurrentCallThread)
  /\ WF_vars(RildAnswers)
  /\ WF_vars(TraceAnswers)

Spec == Init /\ [][Next]_vars /\ Fairness
=============================================================================
