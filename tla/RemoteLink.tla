------------------------------ MODULE RemoteLink ------------------------------
(***************************************************************************)
(* The client's connection to the ground station: the thread that connects,*)
(* the reassembly of frames and the writes (client/                        *)
(* remote_client_connection.c), the reports with their heart beat (client/ *)
(* remote_client_status_and_position.c), and the event loop that selects   *)
(* on the descriptor (client/client_connection.c).                         *)
(*                                                                         *)
(* A connection is a stream of units, a few bytes each, that arrives piece *)
(* by piece: the fixed part of a frame, FRAME_FMT_SIZE bytes, is H units,  *)
(* and a frame with data is longer.  The ground is outside the client: it  *)
(* accepts every connection, sends frames, answers reports (401) as long   *)
(* as it can tell the frames apart, and may close the connection or        *)
(* vanish without a word.                                                  *)
(***************************************************************************)
EXTENDS Integers, Sequences, FiniteSetsExt

CONSTANTS
  MaxWire,      \* bound: units on their way to the client
  CreateFails   \* TRUE: pthread_create may fail

ASSUME LinkAssumption == MaxWire \in Nat /\ CreateFails \in BOOLEAN

H     == 2                 \* FRAME_FMT_SIZE, in units
Kinds == {"ack", "cmd"}    \* the answer to a report (401), and other frames
Size(kind) == IF kind = "ack" THEN H ELSE 2 * H    \* the len field of the frame
Numbers == 0 .. 2          \* frames of a connection, counted modulo 3
After(n) == (n + 1) % 3
Beats == 3                 \* heart_beat after an answer
Down  == 0                 \* remote_fd while a thread connects; -1 before it starts
Up    == 3                 \* any open descriptor

\* A unit of frame n; len is the length it announces when it is taken for the
\* begin of a frame, which it is only for part 1.
Unit == [kind : Kinds, n : Numbers, part : 1 .. 2 * H, len : {H, 2 * H}]

VARIABLES
  pos,          \* position of the event loop
  remote_fd,
  threads,      \* threads that connect
  isset,        \* fd_sets holds the number remote_fd had when the round began
  ready,        \* select reported that number
  heart_beat,
  buffer,       \* recv_remote_server: the units of the frame so far (buffer, len)
  got,          \* the units of the frame processed in this step of the loop
  link,         \* what became of the connection: "none", "up", "closed" by the
                \* ground, or "dead" without a sign
  wire,         \* units the ground has sent that are not read
  arrived,      \* how many of them have arrived
  next, done,   \* numbers of the last frame sent and of the last one processed
  asked,        \* the ground has a report it has not answered
  torn,         \* a frame to the ground was cut or followed by garbage
  reports,      \* history: reports since the last answer in this connection,
                \* -1 before the first answer
  split,        \* history: the connection began with part of a frame in buffer
  failed        \* history: a thread could not be created

client  == <<pos, remote_fd, threads, isset, ready, heart_beat, buffer, got, failed>>
session == <<link, wire, arrived, next, done, asked, torn, reports, split>>
vars    == <<client, session>>

-----------------------------------------------------------------------------
(* The connection.                                                         *)

\* A connection without frames and reports; none is left of one when its
\* descriptor is closed.
Fresh(state, begun) ==
  /\ link' = state /\ wire' = <<>> /\ arrived' = 0
  /\ next' = 0 /\ done' = 0 /\ asked' = FALSE /\ torn' = FALSE
  /\ reports' = -1 /\ split' = begun

Hangup == Fresh("none", FALSE)

\* Mutant: the descriptor is closed but keeps its number.
attach_remote_server_closed ==
  /\ Hangup
  /\ remote_fd' = -1
  /\ threads' = threads + 1
  /\ UNCHANGED failed

\* While a thread connects there is nothing to do.
attach_remote_server ==
  IF remote_fd = Down THEN UNCHANGED <<remote_fd, threads, failed, session>>
  ELSE /\ Hangup
       /\ remote_fd' = Down
       /\ \/ threads' = threads + 1 /\ UNCHANGED failed
          \/ CreateFails /\ failed' = TRUE /\ UNCHANGED threads

\* Mutant: connect is tried only once.
attach_remote_server_thread_func_once ==
  /\ threads > 0
  /\ threads' = threads - 1
  /\ \/ remote_fd' = Up /\ Fresh("up", buffer # <<>>)
     \/ UNCHANGED <<remote_fd, session>>
  /\ got' = <<>>
  /\ UNCHANGED <<pos, isset, ready, heart_beat, buffer, failed>>

\* connect succeeds, after any number of failures.
attach_remote_server_thread_func ==
  /\ threads > 0
  /\ threads' = threads - 1
  /\ remote_fd' = Up
  /\ Fresh("up", buffer # <<>>)
  /\ got' = <<>>
  /\ UNCHANGED <<pos, isset, ready, heart_beat, buffer, failed>>

-----------------------------------------------------------------------------
(* The event loop.                                                         *)

\* main attaches, then enters the loop with its first fd set.
Start ==
  /\ pos = "start"
  /\ pos' = "queue"
  /\ attach_remote_server
  /\ isset' = FALSE
  /\ UNCHANGED <<ready, heart_beat, buffer, got>>

\* The client is killed (SIGPIPE) and started again by the monitor.
Restart ==
  /\ Hangup
  /\ pos' = "start" /\ remote_fd' = -1 /\ threads' = 0
  /\ isset' = FALSE /\ ready' = FALSE
  /\ heart_beat' = Beats
  /\ buffer' = <<>> /\ got' = <<>>
  /\ failed' = FALSE

NothingDue ==
  /\ pos = "queue"
  /\ pos' = "select"
  /\ got' = <<>>
  /\ UNCHANGED <<remote_fd, threads, isset, ready, heart_beat, buffer, failed, session>>

\* Mutant: the count begins anew with every report.
check_heart_beat_reset == heart_beat' = Beats /\ UNCHANGED <<remote_fd, threads, failed, session>>

\* Mutant: the count is not given back.
check_heart_beat_once ==
  /\ heart_beat' = heart_beat - 1
  /\ IF heart_beat <= 1 THEN attach_remote_server ELSE UNCHANGED <<remote_fd, threads, failed, session>>

check_heart_beat ==
  IF heart_beat <= 1
  THEN heart_beat' = Beats /\ attach_remote_server
  ELSE /\ heart_beat' = heart_beat - 1
       /\ UNCHANGED <<remote_fd, threads, failed, session>>

\* The heart beat gives the connection up.
GivesUp == heart_beat <= 1 /\ remote_fd = Up

\* write_remote_server: the frame arrives, or the socket takes part of it and
\* what follows is cut or has too much.
write_remote_server ==
  \/ link = "up" /\ asked' = ~ torn /\ UNCHANGED torn
  \/ link = "up" /\ torn' = TRUE /\ UNCHANGED asked
  \/ link # "up" /\ UNCHANGED <<asked, torn>>

\* The reports of the position and of the status: the heart beat is checked
\* first.  Writing to a connection that the ground has closed may kill the
\* client.
check_and_report_status_and_position_info ==
  /\ pos = "queue"
  /\ \/ /\ pos' = "select"
        /\ \/ /\ GivesUp \/ remote_fd # Up
              /\ check_heart_beat
           \/ /\ ~ GivesUp /\ remote_fd = Up
              /\ heart_beat' = heart_beat - 1
              /\ write_remote_server
              /\ UNCHANGED <<remote_fd, threads, failed, link, wire, arrived, next, done, split>>
              /\ reports' = IF reports = -1 THEN -1 ELSE Min({reports + 1, Beats})
        /\ got' = <<>>
        /\ UNCHANGED <<isset, ready, buffer>>
     \/ /\ ~ GivesUp /\ link = "closed"
        /\ Restart

\* The descriptor is readable when units have arrived or the ground has closed
\* it; a socket of the same number that is not connected yet is, too.
select ==
  /\ pos = "select"
  /\ pos' = "read"
  /\ ready' \in IF ~ isset THEN {FALSE}
                ELSE IF threads > 0 THEN BOOLEAN
                ELSE {arrived > 0 \/ link = "closed"}
  /\ UNCHANGED <<remote_fd, threads, isset, heart_beat, buffer, got, failed, session>>

\* Mutant: an answer does not give the count back.
process_remote_event_deaf(b) ==
  LET answer == b[1].part = 1 /\ b[1].kind = "ack" IN
  /\ UNCHANGED heart_beat
  /\ reports' = IF answer THEN 0 ELSE reports

\* The frame at the head of buffer: its type decides, whatever it is made of.
process_remote_event(b) ==
  LET answer == b[1].part = 1 /\ b[1].kind = "ack" IN
  /\ heart_beat' = IF answer THEN Beats ELSE heart_beat
  /\ reports' = IF answer THEN 0 ELSE reports

\* Mutant: every frame ends with its fixed part.
Wanted_head(head) == H

\* The length of the frame that begins with head.
Wanted(head) == head[1].len

\* recv on a descriptor that is ready, without waiting: first the rest of the
\* fixed part, and when that is complete, in the same call, the rest of the
\* frame.  A call that gets nothing gives the connection up.
recv_remote_server ==
  LET data  == buffer \o SubSeq(wire, 1, arrived)
      short == Len(buffer) < H
      head  == IF short THEN SubSeq(data, 1, Min({H, Len(data)})) ELSE buffer
      whole == SubSeq(data, 1, Min({Wanted(head), Len(data)}))
      Keep(b) == /\ wire' = SubSeq(wire, Len(b) - Len(buffer) + 1, Len(wire))
                 /\ arrived' = arrived - (Len(b) - Len(buffer))
      Stay == UNCHANGED <<remote_fd, threads, failed, link, next, asked, torn, split>>
  IN
  \/ /\ short /\ Len(data) = Len(buffer)                     \* error 1
     /\ attach_remote_server
     /\ UNCHANGED <<buffer, got, heart_beat>>
  \/ /\ short /\ Len(data) > Len(buffer) /\ Len(head) < H    \* part of the head
     /\ buffer' = head /\ Keep(head)
     /\ Stay /\ UNCHANGED <<got, heart_beat, reports, done>>
  \/ /\ Len(head) >= H /\ Wanted(head) > Len(head) /\ Len(data) = Len(head)  \* error 2
     /\ buffer' = head
     /\ attach_remote_server
     /\ UNCHANGED <<got, heart_beat>>
  \/ /\ Len(head) >= H /\ Len(data) > Len(head) /\ Wanted(head) > Len(data)  \* part of the data
     /\ buffer' = whole /\ Keep(whole)
     /\ Stay /\ UNCHANGED <<got, heart_beat, reports, done>>
  \/ /\ Len(head) >= H /\ Wanted(head) <= Len(data)           \* a frame
     /\ LET b == IF Wanted(head) <= Len(head) THEN head ELSE whole IN
        /\ got' = b /\ buffer' = <<>> /\ Keep(b)
        /\ done' = After(done)
        /\ process_remote_event(b)
     /\ Stay

\* The loop reads the descriptor that remote_fd names now, and begins its
\* next round with a new fd set.
clients_data_changed ==
  /\ pos = "read"
  /\ pos' = "queue"
  /\ ready' = FALSE
  /\ \/ /\ ready /\ remote_fd = Up
        /\ recv_remote_server
     \/ /\ ~ (ready /\ remote_fd = Up)
        /\ got' = <<>>
        /\ UNCHANGED <<remote_fd, threads, heart_beat, buffer, failed, session>>
  /\ isset' = (remote_fd' = Up)

-----------------------------------------------------------------------------
(* The ground and the network.                                             *)

\* Send a frame; an ill-timed reader may take any of its units for a head.
Send(kind) ==
  /\ link = "up"
  /\ Len(wire) + Size(kind) <= MaxWire
  /\ \E len \in {H, 2 * H} :
       wire' = wire \o [p \in 1 .. Size(kind) |->
                          [kind |-> kind, n |-> After(next), part |-> p,
                           len |-> IF p = 1 THEN Size(kind) ELSE len]]
  /\ next' = After(next)

Command == Send("cmd") /\ UNCHANGED <<client, link, arrived, done, asked, torn, reports, split>>
Answer ==
  /\ asked /\ asked' = FALSE
  /\ Send("ack")
  /\ UNCHANGED <<client, link, arrived, done, torn, reports, split>>

Arrive ==
  /\ link = "up" /\ arrived < Len(wire)
  /\ arrived' = arrived + 1
  /\ UNCHANGED <<client, link, wire, next, done, asked, torn, reports, split>>

\* Nothing more arrives: the ground closes the connection, or the network loses
\* it without a word, which the keep-alive probes may notice.
Ends(state) ==
  /\ link' = state
  /\ wire' = SubSeq(wire, 1, arrived)
  /\ asked' = FALSE
  /\ UNCHANGED <<client, arrived, next, done, torn, reports, split>>

GroundCloses == link \in {"up", "dead"} /\ Ends("closed")
Vanish       == link = "up" /\ Ends("dead")

-----------------------------------------------------------------------------
Init ==
  /\ pos = "start" /\ remote_fd = -1 /\ threads = 0
  /\ isset = FALSE /\ ready = FALSE
  /\ heart_beat = Beats
  /\ buffer = <<>> /\ got = <<>>
  /\ link = "none" /\ wire = <<>> /\ arrived = 0
  /\ next = 0 /\ done = 0 /\ asked = FALSE /\ torn = FALSE
  /\ reports = -1 /\ split = FALSE /\ failed = FALSE

Loop == Start \/ NothingDue \/ select \/ clients_data_changed

Next ==
  \/ Loop
  \/ check_and_report_status_and_position_info
  \/ attach_remote_server_thread_func
  \/ Command \/ Answer \/ Arrive \/ GroundCloses \/ Vanish

\* The loop runs, a report is due every minute, and the ground accepts
\* connections; nothing is assumed of what the ground sends.
Fairness ==
  /\ WF_vars(Loop)
  /\ SF_vars(check_and_report_status_and_position_info)
  /\ WF_vars(attach_remote_server_thread_func)

Spec == Init /\ [][Next]_vars /\ Fairness
=============================================================================
