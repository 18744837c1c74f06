--------------------------------- MODULE Core ----------------------------------
(***************************************************************************)
(* The message router core (core/core_connection.c, core/core_event.c) and *)
(* the modules' ends of their connections to it (recv_local_server and     *)
(* attach_local_server of the client, their copies in gps and monitor, and *)
(* the one attempt of the radio HAL).                                      *)
(*                                                                         *)
(* One life of core: the monitor replaces it together with all modules, so *)
(* a module connects at most once and a connection is named by its module. *)
(* The core's descriptors and its slots are both given lowest first and    *)
(* freed together, so a descriptor is the number of its slot.              *)
(*                                                                         *)
(* A stream is a sequence of units: a registration is a header, one unit;  *)
(* any other message has a second one, its data.                           *)
(***************************************************************************)
EXTENDS Integers, Sequences, FiniteSets, FiniteSetsExt

CONSTANTS
  Modules,      \* the modules that connect to core
  Talks,        \* the pairs <<host, target>> of the messages they send
  MaxSend,      \* bound: messages sent, of all modules together
  MaxEnds,      \* bound: connections that end while core lives
  MaxUnread,    \* bound: messages a module has not read yet
  RecvSize      \* SOCKET_BUFFER_SIZE, in units

ASSUME CoreAssumption ==
  /\ Modules \subseteq {"client", "gps", "trio", "monitor"}
  /\ Talks \subseteq Modules \X Modules
  /\ MaxSend \in Nat /\ MaxEnds \in Nat /\ MaxUnread \in Nat /\ RecvSize \in Nat \ {0}

NoFd  == 0
Fds   == 1 .. 9               \* IDX_CLIENTS_MAX slots
Nobody == "nobody"
Routable == Modules \ {"gps"} \* get_fd_by_module, where gps is commented out
Threads  == Modules \ {"trio"} \* the modules that connect in a thread

VARIABLES
  core,         \* "starting", "listens" or "dead"
  fd_clients,   \* the module at the other end of each descriptor
  handler,      \* trio_fd, client_fd, monitor_fd of core_event.c
  ready,        \* descriptors select has found readable, still to be read
  knocks,       \* select has found the server readable
  cur, buffer,  \* the descriptor recv_and_process is at; what it has not
                \* processed, which stays for the next call
  backlog,      \* connections not accepted yet
  link,         \* the module: "opened" (its descriptor is visible, but not
                \* connected), "connected", "registered", "lost" (closed for
                \* good), "dead"
  hup,          \* the module's select has found the unconnected descriptor
  toCore,       \* units on their way to core
  unread,       \* messages core has written to the module
  reset,        \* the module has closed with messages unread
  sent,         \* number of messages sent
  registered,   \* history: core has read the registration from the module's
                \* own connection, and that is open
  mixed,        \* history: a partial message was continued or dropped because
                \* of another module
  newest        \* history: the last message of each module that was passed on

server  == <<core, fd_clients, handler, ready, knocks, cur, buffer>>
modules == <<link, hup>>
wires   == <<backlog, toCore, unread, reset>>
history == <<registered, mixed, newest>>
vars    == <<server, modules, wires, sent, history>>

Unit(h, t, i, k) == [host |-> h, target |-> t, id |-> i, part |-> k]
Register(m)   == << Unit(m, "core", 0, 1) >>
Message(h, t, i) == << Unit(h, t, i, 1), Unit(h, t, i, 2) >>
IsRegister(u) == u.target = "core"
Gone(m)       == link[m] \in {"lost", "dead"}
Ending        == {m \in Modules : Gone(m) \/ hup[m]}
Open          == {f \in Fds : fd_clients[f] # Nobody}

-----------------------------------------------------------------------------
(* The modules.                                                            *)

\* The thread has opened the descriptor; it connects it, again and again, makes
\* it non-blocking and registers the module.  The HAL tries once.
Connects(m) ==
  /\ link[m] = "opened"
  /\ \/ /\ core = "listens"
        /\ link' = [link EXCEPT ![m] = "connected"]
        /\ backlog' = Append(backlog, m)
     \/ /\ core # "listens" /\ m \notin Threads
        /\ link' = [link EXCEPT ![m] = "lost"]
        /\ UNCHANGED backlog
  /\ UNCHANGED <<server, hup, toCore, unread, reset, sent, history>>

register_client_module(m) ==
  /\ link[m] = "connected" /\ core # "dead"
  /\ link' = [link EXCEPT ![m] = "registered"]
  /\ toCore' = [toCore EXCEPT ![m] = @ \o Register(m)]
  /\ UNCHANGED <<server, hup, backlog, unread, reset, sent, history>>

\* Messages are sent as soon as the descriptor is connected.
Sends(m) ==
  /\ core # "dead"
  /\ link[m] = "registered" \/ (link[m] = "connected" /\ m \in Threads)
  /\ sent < MaxSend
  /\ sent' = sent + 1
  /\ \E t \in Modules : /\ <<m, t>> \in Talks
                        /\ toCore' = [toCore EXCEPT ![m] = @ \o Message(m, t, sent')]
  /\ UNCHANGED <<server, modules, backlog, unread, reset, history>>

\* The module's end is closed: core will find the end of the stream, or an
\* error when messages are left unread.
Close(m, as) ==
  /\ link' = [link EXCEPT ![m] = as]
  /\ reset' = [reset EXCEPT ![m] = unread[m] > 0]
  /\ unread' = [unread EXCEPT ![m] = 0]
  /\ hup' = [hup EXCEPT ![m] = FALSE]

\* The main loop selects the descriptor the thread has not connected yet ...
Selects(m) ==
  /\ m \in Threads /\ link[m] = "opened" /\ ~ hup[m]
  /\ Cardinality(Ending) < MaxEnds
  /\ hup' = [hup EXCEPT ![m] = TRUE]
  /\ UNCHANGED <<server, link, wires, sent, history>>

\* ... and reads it, connected or not; without data recv fails, except that it
\* waits while the thread has not made the descriptor non-blocking.
recv_local_server(m) ==
  /\ link[m] \in {"opened", "connected", "registered"}
  /\ \/ /\ hup[m] /\ unread[m] = 0 /\ core # "dead"
        /\ Close(m, "lost")
     \/ /\ unread[m] > 0
        /\ unread' = [unread EXCEPT ![m] = 0]
        /\ hup' = [hup EXCEPT ![m] = FALSE]
        /\ UNCHANGED <<link, reset>>
     \/ /\ unread[m] = 0 /\ core = "dead"
        /\ Close(m, "lost")
  /\ UNCHANGED <<server, backlog, toCore, sent, history>>

\* The monitor replaces everything some time after the first death.
Dies(m) ==
  /\ link[m] \in {"connected", "registered"}
  /\ Cardinality(Ending \ {m}) < MaxEnds
  /\ Close(m, "dead")
  /\ UNCHANGED <<server, backlog, toCore, sent, history>>

-----------------------------------------------------------------------------
(* Core.                                                                   *)

setup_core_server ==
  /\ core = "starting"
  /\ core' = "listens"
  /\ UNCHANGED <<fd_clients, handler, ready, knocks, cur, buffer, modules, wires, sent, history>>

\* Mutant: the free slots are selected too.
Readable_any(f) == TRUE
Readable(f) == fd_clients[f] # Nobody /\ (toCore[fd_clients[f]] # <<>> \/ Gone(fd_clients[f]))

\* The next round: set_select_sets and select.  (Mutant: the server is not
\* watched once there is a connection.)
Knocking_first == backlog # <<>> /\ Open = {}
Knocking == backlog # <<>>
select ==
  /\ core = "listens" /\ cur = NoFd /\ ready = {} /\ ~ knocks
  /\ ready' = {f \in Fds : Readable(f)}
  /\ knocks' = Knocking
  /\ ready' # {} \/ knocks'
  /\ UNCHANGED <<core, fd_clients, handler, cur, buffer, modules, wires, sent, history>>

\* The process ends by a signal; its connections are closed.
CoreDies ==
  /\ core' = "dead"
  /\ fd_clients' = [f \in Fds |-> Nobody] /\ handler' = [m \in Routable |-> NoFd]
  /\ ready' = {} /\ knocks' = FALSE /\ cur' = NoFd /\ buffer' = <<>>
  /\ toCore' = [m \in Modules |-> <<>>] /\ backlog' = <<>>
  /\ registered' = [m \in Modules |-> FALSE]

\* Mutants: a message is passed on before its data is there; a message is
\* returned to its sender.
FrameSize_head(u) == 1
FrameSize(u) == IF IsRegister(u) THEN 1 ELSE 2
Receiver_host(u) == u.host
Receiver(u) == u.target

\* The buffer is b now: the loop goes on with a whole frame and stops without
\* one.  Data taken for a header is a short frame nobody knows, or one that is
\* longer than what is there.  (Mutant: the last frame stays in the buffer.)
Continues(b) == b # <<>> /\ (Head(b).part = 2 \/ Len(b) >= FrameSize(Head(b)))
Stops(b)     == b # <<>> => Head(b).part = 2 \/ Len(b) < FrameSize(Head(b))
Loop_kept(b, f) ==
  /\ buffer' = IF b = <<>> THEN buffer ELSE b
  /\ \/ Continues(b) /\ cur' = f
     \/ Stops(b) /\ cur' = NoFd
Loop(b, f) ==
  /\ buffer' = b
  /\ \/ Continues(b) /\ cur' = f
     \/ Stops(b) /\ cur' = NoFd
Consume(k) == Loop(SubSeq(buffer, k + 1, Len(buffer)), cur)

\* recv_and_process, for the slots in turn: what comes is put behind what is
\* left of the last call, of whichever module.  More than the buffer holds is
\* written behind it, where it is found again or does harm.
recv ==
  LET f == Min(ready)
      m == fd_clients[f]
      n == Min({RecvSize, Len(toCore[m])})
  IN
  /\ core = "listens" /\ cur = NoFd /\ ready # {}
  /\ \/ /\ toCore[m] # <<>>
        /\ mixed' = (mixed \/ (buffer # <<>> /\ buffer[Len(buffer)].host # m))
        /\ \/ /\ Loop(buffer \o SubSeq(toCore[m], 1, n), f)
              /\ toCore' = [toCore EXCEPT ![m] = SubSeq(@, n + 1, Len(@))]
              /\ ready' = ready \ {f}
              /\ UNCHANGED <<core, fd_clients, handler, knocks, backlog, registered>>
           \/ Len(buffer) + n > RecvSize /\ CoreDies
     \/ /\ toCore[m] = <<>> /\ ~ reset[m]                 \* recv returns 0
        /\ fd_clients' = [fd_clients EXCEPT ![f] = Nobody]
        /\ registered' = [registered EXCEPT ![m] = FALSE]
        /\ ready' = ready \ {f}
        /\ buffer' = <<>>
        /\ mixed' = (mixed \/ buffer # <<>>)
        /\ UNCHANGED <<core, handler, knocks, cur, backlog, toCore>>
     \/ /\ toCore[m] = <<>> /\ reset[m]                   \* recv returns -1:
        /\ CoreDies                                       \* the loop has no end
        /\ UNCHANGED mixed
  /\ UNCHANGED <<modules, unread, reset, sent, newest>>

\* core_event_process for the frame at the front of the buffer.
to_core_event ==
  /\ cur # NoFd /\ Head(buffer).part = 1 /\ IsRegister(Head(buffer))
  /\ LET m == Head(buffer).host IN
     IF m \in Routable
     THEN /\ handler' = [handler EXCEPT ![m] = cur]
          /\ registered' = [registered EXCEPT ![m] = @ \/ fd_clients[cur] = m]
     ELSE UNCHANGED <<handler, registered>>
  /\ Consume(1)
  /\ UNCHANGED <<core, fd_clients, ready, knocks, modules, wires, sent, mixed, newest>>

\* write_msg: to a module that is not routable, has not registered or whose
\* descriptor is closed nothing is written; a write to a peer that has closed
\* its end is fatal; what does not fit is lost.
to_others_event ==
  LET u == Head(buffer)
      t == Receiver(u)
      f == IF t \in Routable THEN handler[t] ELSE NoFd
      n == IF f = NoFd THEN Nobody ELSE fd_clients[f]
  IN
  /\ cur # NoFd /\ u.part = 1 /\ ~ IsRegister(u)
  /\ \/ /\ n # Nobody /\ Gone(n)
        /\ CoreDies
        /\ UNCHANGED <<unread, newest>>
     \/ /\ n # Nobody /\ ~ Gone(n) /\ unread[n] < MaxUnread
        /\ unread' = [unread EXCEPT ![n] = @ + 1]
        /\ newest' = [newest EXCEPT ![u.host] = u.id]
        /\ Consume(FrameSize(u))
        /\ UNCHANGED <<core, fd_clients, handler, ready, knocks, backlog, toCore, registered>>
     \/ /\ n # Nobody => ~ Gone(n) /\ unread[n] = MaxUnread
        /\ Consume(FrameSize(u))
        /\ UNCHANGED <<core, fd_clients, handler, ready, knocks, backlog, toCore, registered,
                       unread, newest>>
  /\ UNCHANGED <<modules, reset, sent, mixed>>

Misframed ==
  /\ cur # NoFd /\ Head(buffer).part = 2
  /\ Consume(1)
  /\ UNCHANGED <<core, fd_clients, handler, ready, knocks, modules, wires, sent, history>>

\* The end of the round: one connection is accepted.
clients_connection_changed ==
  LET f == Min(Fds \ Open) IN
  /\ core = "listens" /\ cur = NoFd /\ ready = {} /\ knocks
  /\ knocks' = FALSE
  /\ backlog' = Tail(backlog)
  /\ fd_clients' = IF Open # Fds THEN [fd_clients EXCEPT ![f] = Head(backlog)] ELSE fd_clients
  /\ UNCHANGED <<core, handler, ready, cur, buffer, modules, toCore, unread, reset, sent, history>>

-----------------------------------------------------------------------------
Init ==
  /\ core = "starting"
  /\ fd_clients = [f \in Fds |-> Nobody] /\ handler = [m \in Routable |-> NoFd]
  /\ ready = {} /\ knocks = FALSE /\ cur = NoFd /\ buffer = <<>>
  /\ backlog = <<>>
  /\ link = [m \in Modules |-> "opened"] /\ hup = [m \in Modules |-> FALSE]
  /\ toCore = [m \in Modules |-> <<>>] /\ unread = [m \in Modules |-> 0]
  /\ reset = [m \in Modules |-> FALSE]
  /\ sent = 0
  /\ registered = [m \in Modules |-> FALSE] /\ mixed = FALSE /\ newest = [m \in Modules |-> 0]

CoreStep == \/ setup_core_server \/ select \/ recv
            \/ to_core_event \/ to_others_event \/ Misframed
            \/ clients_connection_changed

Thread(m) == Connects(m) \/ register_client_module(m)

\* The loop of recv_and_process (cur # NoFd) runs between two steps of the
\* modules: it only works on what has been read.
Next ==
  \/ CoreStep
  \/ /\ cur = NoFd
     /\ \E m \in Modules : \/ Thread(m) \/ Sends(m) \/ Selects(m)
                           \/ recv_local_server(m) \/ Dies(m)

\* Core, the connecting threads and the main loops of the modules go on.
Fairness ==
  /\ WF_vars(CoreStep)
  /\ WF_vars(\E m \in Modules : Thread(m))
  /\ WF_vars(\E m \in Modules : recv_local_server(m))

Spec == Init /\ [][Next]_vars /\ Fairness
=============================================================================
