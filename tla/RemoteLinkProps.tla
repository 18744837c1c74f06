--------------------------- MODULE RemoteLinkProps ---------------------------
(***************************************************************************)
(* What the client promises about its connection to the ground.            *)
(***************************************************************************)
EXTENDS RemoteLink

TypeOK ==
  /\ pos \in {"start", "queue", "select", "read"}
  /\ remote_fd \in {-1, Down, Up} /\ threads \in Nat
  /\ isset \in BOOLEAN /\ ready \in BOOLEAN
  /\ heart_beat \in 1 .. Beats
  /\ buffer \in Seq(Unit) /\ got \in Seq(Unit)
  /\ Len(buffer) < 2 * H
  /\ link \in {"none", "up", "closed", "dead"}
  /\ wire \in Seq(Unit) /\ Len(wire) <= MaxWire /\ arrived \in 0 .. Len(wire)
  /\ next \in Numbers /\ done \in Numbers
  /\ asked \in BOOLEAN /\ torn \in BOOLEAN
  /\ reports \in -1 .. Beats
  /\ split \in BOOLEAN /\ failed \in BOOLEAN

\* The heart beat, a failed read and the start of the client never make two
\* threads connect: one thread connects exactly while remote_fd is 0, and
\* none does while a connection is open.
OneConnector ==
  /\ threads <= 1
  /\ threads = 1 => remote_fd = Down
  /\ remote_fd = Down => threads = 1 \/ failed

\* A connection that began with an empty buffer gives the handlers exactly the
\* frames the ground sent on it: whole, in order, none twice and none left out,
\* in whatever pieces they arrive.
FramesAreWhole ==
  got # <<>> /\ ~ split =>
    /\ Len(got) = Size(got[1].kind)
    /\ \A i \in 1 .. Len(got) :
         got[i].part = i /\ got[i].kind = got[1].kind /\ got[i].n = done

\* Once the ground has answered on a connection, the heart beat gives it up
\* only after two more reports without an answer: an answer that is on time is
\* never ignored, whatever the count was when the connection began.
AnsweredLinkIsKept ==
  [][ /\ check_and_report_status_and_position_info
      /\ remote_fd = Up /\ remote_fd' = Down
      => reports \in {-1, 2} ]_vars

\* Whatever the ground and the network do, there is a connection again and
\* again, unless a thread could not be created.
LinkComesBack == []<>(link = "up" \/ failed)

\* A connection that has died without a word, or whose frames the ground can
\* no longer tell apart, is given up in the end.
SilentLinkIsReplaced == (link = "dead" \/ torn) ~> (link # "dead" /\ ~ torn)

=============================================================================
