------------------------------ MODULE CoreProps -------------------------------
(***************************************************************************)
(* What core promises about the messages it routes.                        *)
(***************************************************************************)
EXTENDS Core

Units == [host : Modules, target : Modules \cup {"core"}, id : 0 .. MaxSend, part : 1 .. 2]

TypeOK ==
  /\ core \in {"starting", "listens", "dead"}
  /\ fd_clients \in [Fds -> Modules \cup {Nobody}]
  /\ handler \in [Routable -> Fds \cup {NoFd}]
  /\ ready \subseteq Open /\ knocks \in BOOLEAN /\ cur \in Fds \cup {NoFd}
  /\ buffer \in Seq(Units) /\ backlog \in Seq(Modules)
  /\ link \in [Modules -> {"opened", "connected", "registered", "lost", "dead"}]
  /\ hup \in [Modules -> BOOLEAN]
  /\ toCore \in [Modules -> Seq(Units)] /\ unread \in [Modules -> 0 .. MaxUnread]
  /\ reset \in [Modules -> BOOLEAN] /\ sent \in 0 .. MaxSend
  /\ registered \in [Modules -> BOOLEAN] /\ mixed \in BOOLEAN
  /\ newest \in [Modules -> 0 .. MaxSend]

\* Core writes the frame at the front of its buffer to module n.
Passes(n) == unread'[n] > unread[n]
Front     == Head(buffer)

\* A message only reaches another module than the one it is for while core
\* does not know that one: it has not registered yet, its connection is closed
\* and its descriptor was given to the other, or its registration was taken
\* for the other's.
RightReceiver ==
  [][ \A n \in Modules : Passes(n) /\ registered[Front.target] => n = Front.target ]_vars

\* What core passes on comes in the order it was sent by each module, and once,
\* however the stream is cut into pieces and whatever is lost.
InOrder == [][ \A n \in Modules : Passes(n) => Front.id > newest[Front.host] ]_vars

\* A message is put together from two different ones only after a partial
\* message was left in the buffer and another module's data or disconnection
\* came in between.
WholeFrames ==
  [][ \A n \in Modules :
        Passes(n) => mixed \/ (Len(buffer) >= 2 /\ buffer[2] = [Front EXCEPT !.part = 2]) ]_vars

\* A module that has connected becomes known to core in the end, unless its
\* connection ends, core dies, or a mixed up message swallows the registration.
RegistrationArrives ==
  <>[] (\A m \in Routable :
          link[m] \in {"connected", "registered"} => registered[m] \/ core = "dead" \/ mixed)

=============================================================================
