--------------------------- MODULE RemoteLinkProofs ---------------------------
(***************************************************************************)
(* Proofs about RemoteLink for any number of units on their way.           *)
(*                                                                         *)
(* Control is what the connecting thread, the loop and the heart beat keep *)
(* among themselves; the contents of the stream play no part in it.        *)
(* Frames is about these: what the client has read and what is on its way  *)
(* go on with the last frame, each unit following the one before it.       *)
(***************************************************************************)
EXTENDS RemoteLinkProps, SequenceTheorems, TLAPS

Domains ==
  /\ pos \in {"start", "queue", "select", "read"}
  /\ remote_fd \in {-1, Down, Up} /\ threads \in Nat
  /\ isset \in BOOLEAN /\ ready \in BOOLEAN /\ failed \in BOOLEAN
  /\ heart_beat \in 1 .. Beats
  /\ reports \in -1 .. Beats

\* A connection that is not open has no answers, and since its first answer
\* every connection counts its reports down from Beats.
Counts ==
  /\ remote_fd = Up <=> link # "none"
  /\ link = "none" => reports = -1
  /\ reports # -1 => heart_beat + reports = Beats

Control == Domains /\ OneConnector /\ Counts

\* A unit ends a frame, or the unit after it goes on with the frame.
Finishes(u) == u.part = Size(u.kind)
Follows(u, v) ==
  IF Finishes(u) THEN v.part = 1 /\ v.n = After(u.n)
  ELSE v.part = u.part + 1 /\ v.kind = u.kind /\ v.n = u.n

\* A sequence of units goes on with the frame after number d, and the last frame
\* in it is the last one sent.
Stream(q, d) ==
  /\ \A i \in 1 .. Len(q) : q[i].part = 1 => q[i].len = Size(q[i].kind)
  /\ \A i \in 1 .. Len(q) - 1 : Follows(q[i], q[i + 1])
  /\ q # <<>> => q[1].part = 1 /\ q[1].n = After(d)
EndsWith(q, d, n) ==
  IF q = <<>> THEN n = d ELSE Finishes(q[Len(q)]) /\ q[Len(q)].n = n

\* What is in buffer and on its way is what is left of the stream; buffer is
\* never a whole frame, and got is gone before the loop reads again.
Frames ==
  /\ buffer \in Seq(Unit) /\ got \in Seq(Unit) /\ wire \in Seq(Unit)
  /\ link \in {"none", "up", "closed", "dead"}
  /\ Len(wire) <= MaxWire /\ arrived \in 0 .. Len(wire)
  /\ next \in Numbers /\ done \in Numbers
  /\ asked \in BOOLEAN /\ torn \in BOOLEAN /\ split \in BOOLEAN
  /\ Len(buffer) >= H => Len(buffer) < Wanted(buffer)
  /\ link # "none" /\ ~ split => Stream(buffer \o wire, done)
  /\ link = "up" /\ ~ split => EndsWith(buffer \o wire, done, next)
  /\ got # <<>> => pos = "queue"
  /\ FramesAreWhole

IInv == Control /\ Frames

-----------------------------------------------------------------------------
(* Control.                                                                *)

\* The smaller of two numbers.
LEMMA MinOfTwo ==
  ASSUME NEW i \in Int, NEW j \in Int
  PROVE  Min({i, j}) = IF i <= j THEN i ELSE j
  BY DEF Min

\* Attaching leaves a thread that connects and a connection that is not open.
LEMMA AttachKeeps ==
  ASSUME Control, attach_remote_server
  PROVE  /\ remote_fd' = Down /\ threads' \in Nat /\ failed' \in BOOLEAN
         /\ link' = "none" /\ reports' = -1
         /\ OneConnector'
<1> USE DEF Down, Up
<1>1. CASE remote_fd = Down
  <2>1. UNCHANGED <<remote_fd, threads, failed, link, reports>>
    BY <1>1 DEF attach_remote_server, session
  <2>2. OneConnector'
    BY <2>1 DEF Control, OneConnector
  <2>3. threads \in Nat /\ failed \in BOOLEAN
    BY DEF Control, Domains
  <2>4. link = "none" /\ reports = -1
    BY <1>1 DEF Control, Counts
  <2> QED BY <1>1, <2>1, <2>2, <2>3, <2>4
<1>2. CASE remote_fd # Down
  <2>1. /\ remote_fd' = Down /\ link' = "none" /\ reports' = -1
        /\ \/ threads' = threads + 1 /\ failed' = failed
           \/ threads' = threads /\ failed' = TRUE
    BY <1>2 DEF attach_remote_server, Hangup, Fresh
  <2>2. threads = 0
    BY <1>2 DEF Control, Domains, OneConnector
  <2>3. OneConnector'
    BY <2>1, <2>2 DEF OneConnector
  <2>4. threads' \in Nat
    BY <2>1, <2>2
  <2>5. failed' \in BOOLEAN
    BY <2>1 DEF Control, Domains
  <2> QED BY <2>1, <2>3, <2>4, <2>5
<1> QED BY <1>1, <1>2

\* A step that leaves the descriptor, the connecting threads and whether there
\* is a connection alone keeps Control when it keeps the count of reports.
LEMMA OthersKeep ==
  ASSUME Control, UNCHANGED <<remote_fd, threads, failed, link>>,
         pos' \in {"start", "queue", "select", "read"},
         isset' \in BOOLEAN, ready' \in BOOLEAN,
         \/ UNCHANGED <<heart_beat, reports>>
         \/ /\ link # "none"
            /\ \/ heart_beat' = Beats /\ reports' = 0
               \/ /\ heart_beat > 1 /\ heart_beat' = heart_beat - 1
                  /\ reports' = IF reports = -1 THEN -1 ELSE reports + 1
         \/ /\ link = "none"
            /\ heart_beat' \in 1 .. Beats /\ UNCHANGED reports
  PROVE  Control'
<1> USE DEF Beats
<1>1. OneConnector'
  BY DEF Control, OneConnector
<1>2. Domains'
  <2>1. heart_beat' \in 1 .. Beats /\ reports' \in -1 .. Beats
    BY DEF Control, Domains, Counts
  <2> QED BY <2>1 DEF Control, Domains
<1>3. Counts'
  BY DEF Control, Domains, Counts
<1> QED BY <1>1, <1>2, <1>3 DEF Control

\* A step that attaches keeps Control.
LEMMA AttachingKeeps ==
  ASSUME Control, attach_remote_server,
         pos' \in {"start", "queue", "select", "read"},
         isset' \in BOOLEAN, ready' \in BOOLEAN, heart_beat' \in 1 .. Beats
  PROVE  Control'
<1>1. Domains'
  BY AttachKeeps DEF Domains, Beats
<1>2. Counts'
  BY AttachKeeps DEF Counts, Down, Up
<1> QED BY <1>1, <1>2, AttachKeeps DEF Control

\* Every step of the loop, of the connecting thread, of the ground and of the
\* network keeps Control.
LEMMA ControlStep ==
  ASSUME Control, [Next]_vars
  PROVE  Control'
<1>0. /\ pos \in {"start", "queue", "select", "read"}
      /\ isset \in BOOLEAN /\ ready \in BOOLEAN /\ heart_beat \in 1 .. Beats
  BY DEF Control, Domains
<1>1. CASE Start
  BY <1>0, <1>1, AttachingKeeps DEF Start
<1>2. CASE NothingDue
  BY <1>0, <1>2, OthersKeep DEF NothingDue, session
<1>3. CASE select
  <2>1. ready' \in BOOLEAN
    BY <1>3 DEF select
  <2> QED BY <1>0, <1>3, <2>1, OthersKeep DEF select, session
<1>4. CASE attach_remote_server_thread_func
  <2>1. /\ remote_fd' = Up /\ link' = "up" /\ reports' = -1
        /\ threads > 0 /\ threads' = threads - 1
        /\ UNCHANGED <<pos, isset, ready, heart_beat, failed>>
    BY <1>4 DEF attach_remote_server_thread_func, Fresh
  <2>2. threads = 1
    BY <2>1 DEF Control, Domains, OneConnector
  <2>3. OneConnector'
    BY <2>1, <2>2 DEF OneConnector, Up, Down
  <2>4. Domains'
    BY <2>1, <2>2 DEF Control, Domains, Beats
  <2>5. Counts'
    BY <2>1 DEF Counts
  <2> QED BY <2>3, <2>4, <2>5 DEF Control
<1>5. CASE check_and_report_status_and_position_info
  <2>1. CASE check_heart_beat /\ pos' = "select" /\ UNCHANGED <<isset, ready>>
             /\ (GivesUp \/ remote_fd # Up)
    <3>1. CASE heart_beat <= 1
      BY <1>0, <2>1, <3>1, AttachingKeeps DEF check_heart_beat, Beats
    <3>2. CASE ~ (heart_beat <= 1)
      <4>1. link = "none"
        BY <2>1, <3>2 DEF GivesUp, Control, Counts
      <4>2. heart_beat' \in 1 .. Beats /\ UNCHANGED <<remote_fd, threads, failed, link, reports>>
        BY <1>0, <2>1, <3>2 DEF check_heart_beat, session, Beats
      <4> QED BY <1>0, <2>1, <4>1, <4>2, OthersKeep
    <3> QED BY <3>1, <3>2
  <2>2. CASE /\ ~ GivesUp /\ remote_fd = Up
             /\ heart_beat' = heart_beat - 1 /\ pos' = "select"
             /\ reports' = IF reports = -1 THEN -1 ELSE Min({reports + 1, Beats})
             /\ UNCHANGED <<remote_fd, threads, failed, link, isset, ready>>
    <3>1. link # "none"
      BY <2>2 DEF Control, Counts
    <3>2. heart_beat > 1
      BY <1>0, <2>2 DEF GivesUp, Beats
    <3>3. ASSUME reports # -1 PROVE Min({reports + 1, Beats}) = reports + 1
      <4>1. heart_beat + reports = Beats /\ reports \in Int
        BY <3>3 DEF Control, Domains, Counts
      <4>2. Min({reports + 1, Beats}) = IF reports + 1 <= Beats THEN reports + 1 ELSE Beats
        BY <4>1, MinOfTwo DEF Beats
      <4> QED BY <1>0, <3>2, <4>1, <4>2 DEF Beats
    <3>4. reports' = IF reports = -1 THEN -1 ELSE reports + 1
      BY <2>2, <3>3
    <3> QED BY <1>0, <2>2, <3>1, <3>2, <3>4, OthersKeep
  <2>3. CASE Restart
    <3>1. /\ pos' = "start" /\ remote_fd' = -1 /\ threads' = 0 /\ isset' = FALSE /\ ready' = FALSE
          /\ heart_beat' = Beats /\ failed' = FALSE /\ link' = "none" /\ reports' = -1
      BY <2>3 DEF Restart, Hangup, Fresh
    <3>2. OneConnector' /\ Counts'
      BY <3>1 DEF OneConnector, Counts, Up, Down
    <3>3. Domains'
      <4>1. remote_fd' \in {-1, Down, Up} /\ threads' \in Nat
        BY <3>1
      <4>2. heart_beat' \in 1 .. Beats /\ reports' \in -1 .. Beats
        BY <3>1 DEF Beats
      <4> QED BY <3>1, <4>1, <4>2 DEF Domains
    <3> QED BY <3>2, <3>3 DEF Control
  <2> QED BY <1>5, <2>1, <2>2, <2>3 DEF check_and_report_status_and_position_info
<1>6. CASE clients_data_changed
  <2>1. pos' = "queue" /\ ready' = FALSE /\ isset' \in BOOLEAN
    BY <1>6 DEF clients_data_changed
  <2>2. CASE UNCHANGED <<remote_fd, threads, heart_beat, failed, session>>
    BY <2>1, <2>2, OthersKeep DEF session
  <2>3. CASE remote_fd = Up /\ recv_remote_server
    <3>1. \/ attach_remote_server /\ UNCHANGED heart_beat
          \/ /\ UNCHANGED <<remote_fd, threads, failed, link>>
             /\ \/ UNCHANGED <<heart_beat, reports>>
                \/ heart_beat' = Beats /\ reports' = 0
      <4> DEFINE data == buffer \o SubSeq(wire, 1, arrived)
                 head == IF Len(buffer) < H THEN SubSeq(data, 1, Min({H, Len(data)})) ELSE buffer
                 whole == SubSeq(data, 1, Min({Wanted(head), Len(data)}))
                 b == IF Wanted(head) <= Len(head) THEN head ELSE whole
      <4>1. \/ attach_remote_server /\ UNCHANGED heart_beat
            \/ /\ UNCHANGED <<remote_fd, threads, failed, link>>
               /\ \/ UNCHANGED <<heart_beat, reports>>
                  \/ process_remote_event(b)
        BY <2>3 DEF recv_remote_server
      <4> QED BY <4>1 DEF process_remote_event
    <3>2. link # "none"
      BY <2>3 DEF Control, Counts
    <3> QED BY <1>0, <2>1, <3>1, <3>2, AttachingKeeps, OthersKeep
  <2> QED BY <1>6, <2>2, <2>3 DEF clients_data_changed
<1>7. CASE Command \/ Answer
  BY <1>0, <1>7, OthersKeep DEF Command, Answer, Send, client
<1>8. CASE Arrive
  BY <1>0, <1>8, OthersKeep DEF Arrive, client
<1>9. CASE GroundCloses \/ Vanish
  <2>1. link # "none" /\ link' # "none" /\ UNCHANGED <<client, reports>>
    BY <1>9 DEF GroundCloses, Vanish, Ends
  <2>2. OneConnector'
    BY <2>1 DEF Control, OneConnector, client
  <2>3. Domains' /\ Counts'
    BY <2>1 DEF Control, Domains, Counts, client
  <2> QED BY <2>2, <2>3 DEF Control
<1>10. CASE UNCHANGED vars
  BY <1>0, <1>10, OthersKeep DEF vars, client, session
<1> QED
  BY <1>1, <1>2, <1>3, <1>4, <1>5, <1>6, <1>7, <1>8, <1>9, <1>10 DEF Next, Loop

\* It holds when the client starts.
LEMMA ControlInit == Init => Control
<1>1. Init => OneConnector
  BY DEF Init, OneConnector, Down
<1>2. Init => Domains
  <2>1. Init => remote_fd \in {-1, Down, Up} /\ threads \in Nat
    BY DEF Init
  <2>2. Init => heart_beat \in 1 .. Beats /\ reports \in -1 .. Beats
    BY DEF Init, Beats
  <2> QED BY <2>1, <2>2 DEF Init, Domains
<1>3. Init => Counts
  BY DEF Init, Counts, Up
<1> QED BY <1>1, <1>2, <1>3 DEF Control

\* Control is an invariant of the connecting thread, the loop and the heart beat.
THEOREM ControlInvariance == Spec => []Control
BY ControlInit, ControlStep, PTL DEF Spec

\* Never do two threads connect, and one that connects finds remote_fd 0.
THEOREM NoSecondConnector == Spec => []OneConnector
<1>1. Control => OneConnector
  BY DEF Control
<1> QED BY <1>1, ControlInvariance, PTL

\* A connection on which the ground has answered is given up by the heart beat
\* only after two more reports without an answer.
THEOREM TimelyAnswersCount == Spec => AnsweredLinkIsKept
<1> DEFINE Step == check_and_report_status_and_position_info /\ remote_fd = Up /\ remote_fd' = Down
                     => reports \in {-1, 2}
<1>1. ASSUME Control, [Next]_vars PROVE [Step]_vars
  <2> SUFFICES ASSUME check_and_report_status_and_position_info,
                      remote_fd = Up, remote_fd' = Down
               PROVE  reports \in {-1, 2}
    OBVIOUS
  <2>1. GivesUp
    BY DEF check_and_report_status_and_position_info, Restart, Up, Down
  <2>2. heart_beat \in 1 .. 3 /\ heart_beat <= 1
    BY <1>1, <2>1 DEF GivesUp, Control, Domains, Beats
  <2>3. reports # -1 => heart_beat + reports = 3
    BY <1>1 DEF Control, Counts, Beats
  <2>4. reports \in Int
    BY <1>1 DEF Control, Domains
  <2> QED BY <2>2, <2>3, <2>4
<1>2. Control /\ [Next]_vars => [Step]_vars
  BY <1>1
<1> QED BY <1>2, ControlInvariance, PTL DEF Spec, AnsweredLinkIsKept

-----------------------------------------------------------------------------
(* The stream of units.                                                    *)

\* What has arrived, cut after k units, is the begin of the stream, and what is
\* left on its way is the rest.
IsCut(b, w, a, k) ==
  LET data == b \o SubSeq(w, 1, a)
      head == SubSeq(data, 1, k)
      rest == SubSeq(w, k - Len(b) + 1, Len(w))
  IN  /\ data \in Seq(Unit) /\ Len(data) = Len(b) + a
      /\ head \in Seq(Unit) /\ Len(head) = k
      /\ \A i \in 1 .. k : head[i] = (b \o w)[i]
      /\ rest \in Seq(Unit) /\ Len(rest) = Len(w) - (k - Len(b))
      /\ \A i \in 1 .. Len(rest) : rest[i] = (b \o w)[k + i]
      /\ head \o rest = b \o w
      /\ k = Len(b) => head = b

\* It is so at any place after what buffer holds.
LEMMA Cut ==
  ASSUME NEW b \in Seq(Unit), NEW w \in Seq(Unit), NEW a \in 0 .. Len(w),
         NEW k \in Len(b) .. Len(b) + a
  PROVE  IsCut(b, w, a, k)
<1> DEFINE data == b \o SubSeq(w, 1, a)
           head == SubSeq(data, 1, k)
           rest == SubSeq(w, k - Len(b) + 1, Len(w))
           q    == b \o w
<1>0. Len(b) \in Nat /\ Len(w) \in Nat /\ a \in Nat /\ k \in Nat
  BY LenProperties
<1>1. /\ q \in Seq(Unit) /\ Len(q) = Len(b) + Len(w)
      /\ \A i \in 1 .. Len(b) + Len(w) : q[i] = IF i <= Len(b) THEN b[i] ELSE w[i - Len(b)]
  BY ConcatProperties
<1>2. /\ SubSeq(w, 1, a) \in Seq(Unit) /\ Len(SubSeq(w, 1, a)) = a
      /\ \A i \in 1 .. a : SubSeq(w, 1, a)[i] = w[i]
  <2>1. \A i \in 1 .. a : w[i] \in Unit
    BY <1>0, ElementOfSeq
  <2> QED BY <1>0, <2>1, SubSeqProperties
<1>3. /\ data \in Seq(Unit) /\ Len(data) = Len(b) + a
      /\ \A i \in 1 .. Len(b) + a : data[i] = q[i]
  <2>1. /\ data \in Seq(Unit) /\ Len(data) = Len(b) + a
        /\ \A i \in 1 .. Len(b) + a :
             data[i] = IF i <= Len(b) THEN b[i] ELSE SubSeq(w, 1, a)[i - Len(b)]
    BY <1>2, ConcatProperties
  <2> QED BY <1>0, <1>1, <1>2, <2>1
<1>4. /\ head \in Seq(Unit) /\ Len(head) = k /\ \A i \in 1 .. k : head[i] = q[i]
  <2>1. \A i \in 1 .. k : i \in 1 .. Len(data) /\ i \in 1 .. Len(b) + a
    BY <1>0, <1>3
  <2>2. \A i \in 1 .. k : data[i] \in Unit
    BY <1>3, <2>1, ElementOfSeq
  <2> HIDE DEF data, q
  <2>3. /\ head \in Seq(Unit) /\ Len(head) = (IF 1 <= k THEN k - 1 + 1 ELSE 0)
        /\ \A i \in 1 .. k - 1 + 1 : head[i] = data[1 + i - 1]
    BY <1>0, <2>2, SubSeqProperties
  <2> QED BY <1>0, <1>3, <2>1, <2>3
<1>5. /\ rest \in Seq(Unit) /\ Len(rest) = Len(w) - (k - Len(b))
      /\ \A i \in 1 .. Len(rest) : rest[i] = q[k + i]
  <2> DEFINE m == k - Len(b) + 1
  <2>1. m \in 1 .. a + 1
    BY <1>0
  <2>2. \A i \in m .. Len(w) : w[i] \in Unit
    BY <1>0, <2>1, ElementOfSeq
  <2>3. /\ rest \in Seq(Unit) /\ Len(rest) = (IF m <= Len(w) THEN Len(w) - m + 1 ELSE 0)
        /\ \A i \in 1 .. Len(w) - m + 1 : rest[i] = w[m + i - 1]
    BY <1>0, <2>1, <2>2, SubSeqProperties
  <2>4. Len(rest) = Len(w) - (k - Len(b))
    BY SMTT(30), <1>0, <2>1, <2>3
  <2>5. ASSUME NEW i \in 1 .. Len(rest) PROVE rest[i] = q[k + i]
    <3>1. /\ i \in 1 .. Len(w) - m + 1 /\ k + i \in 1 .. Len(b) + Len(w)
          /\ ~ (k + i <= Len(b)) /\ m + i - 1 = k + i - Len(b)
      BY <1>0, <2>1, <2>4
    <3> QED BY <1>1, <2>3, <3>1
  <2> QED BY <2>3, <2>4, <2>5
<1>6. head \o rest = q
  <2> HIDE DEF head, rest, q
  <2>1. /\ head \o rest \in Seq(Unit) /\ Len(head \o rest) = Len(q)
        /\ \A i \in 1 .. Len(q) :
             (head \o rest)[i] = IF i <= k THEN head[i] ELSE rest[i - k]
    <3>1. Len(head) + Len(rest) = Len(q)
      BY <1>0, <1>1, <1>4, <1>5
    <3> QED BY <1>4, <1>5, <3>1, ConcatProperties
  <2>2. ASSUME NEW i \in 1 .. Len(q) PROVE (head \o rest)[i] = q[i]
    <3>1. CASE i <= k
      BY <1>4, <2>1, <3>1
    <3>2. CASE ~ (i <= k)
      <4>1. i - k \in 1 .. Len(rest) /\ k + (i - k) = i
        BY <1>0, <1>1, <1>5, <3>2
      <4> QED BY <1>5, <2>1, <3>2, <4>1
    <3> QED BY <3>1, <3>2
  <2> QED BY <1>1, <2>1, <2>2, SeqEqual
<1>7. ASSUME k = Len(b) PROVE head = b
  <2> HIDE DEF head, q
  <2>1. \A i \in 1 .. Len(b) : head[i] = b[i]
    BY <1>0, <1>1, <1>4, <1>7
  <2> QED BY <1>4, <1>7, <2>1, SeqEqual
<1> QED BY <1>3, <1>4, <1>5, <1>6, <1>7 DEF IsCut

\* A frame of k units is the one after d, and what follows goes on after it.
IsFirst(q, d, n, k, r) ==
  /\ k = Size(q[1].kind)
  /\ \A i \in 1 .. k : q[i].part = i /\ q[i].kind = q[1].kind /\ q[i].n = After(d)
  /\ Stream(r, After(d))
  /\ EndsWith(q, d, n) => EndsWith(r, After(d), n)

\* The first frame of a stream is as long as its first unit announces.
LEMMA FirstFrame ==
  ASSUME NEW q \in Seq(Unit), NEW d \in Numbers, NEW n \in Numbers, q # <<>>, Stream(q, d),
         NEW k \in Nat, k = Wanted(q), k <= Len(q),
         NEW r \in Seq(Unit), Len(r) = Len(q) - k, \A i \in 1 .. Len(r) : r[i] = q[k + i]
  PROVE  IsFirst(q, d, n, k, r)
<1> USE DEF H
<1>0. Len(q) \in Nat /\ Len(q) >= 1 /\ Len(r) \in Nat
  BY EmptySeq, LenProperties
<1>1. k = Size(q[1].kind) /\ k \in {2, 4} /\ q[1].part = 1 /\ q[1].n = After(d)
  <2>1. q[1].part = 1 /\ q[1].n = After(d) /\ q[1].len = Size(q[1].kind)
    BY <1>0 DEF Stream
  <2> QED BY <2>1 DEF Wanted, Size
<1>2. \A i \in 1 .. Len(q) - 1 : Follows(q[i], q[i + 1])
  BY DEF Stream
<1>3. ASSUME NEW i \in 1 .. Len(q) - 1, i < k,
             q[i].part = i, q[i].kind = q[1].kind, q[i].n = After(d)
      PROVE  q[i + 1].part = i + 1 /\ q[i + 1].kind = q[1].kind /\ q[i + 1].n = After(d)
  BY <1>1, <1>2, <1>3 DEF Follows, Finishes
<1>4. \A i \in 1 .. k : q[i].part = i /\ q[i].kind = q[1].kind /\ q[i].n = After(d)
  <2> DEFINE P(i) == q[i].part = i /\ q[i].kind = q[1].kind /\ q[i].n = After(d)
  <2>1. P(1)
    BY <1>1
  <2>2. P(2)
    BY <1>0, <1>1, <1>3, <2>1
  <2>3. k = 4 => P(3)
    BY <1>0, <1>1, <1>3, <2>2
  <2>4. k = 4 => P(4)
    BY <1>0, <1>1, <1>3, <2>3
  <2>5. \A i \in 1 .. k : i = 1 \/ i = 2 \/ (k = 4 /\ (i = 3 \/ i = 4))
    BY <1>1
  <2> QED BY <2>1, <2>2, <2>3, <2>4, <2>5
<1>5. Finishes(q[k]) /\ q[k].n = After(d)
  BY <1>1, <1>4 DEF Finishes
<1>6. Stream(r, After(d))
  <2>1. ASSUME NEW i \in 1 .. Len(r), r[i].part = 1 PROVE r[i].len = Size(r[i].kind)
    <3>1. k + i \in 1 .. Len(q)
      BY <1>0
    <3> QED BY <2>1, <3>1 DEF Stream
  <2>2. ASSUME NEW i \in 1 .. Len(r) - 1 PROVE Follows(r[i], r[i + 1])
    <3>1. k + i \in 1 .. Len(q) - 1 /\ k + i + 1 = k + (i + 1)
          /\ i \in 1 .. Len(r) /\ i + 1 \in 1 .. Len(r)
      BY <1>0
    <3> QED BY <1>2, <3>1
  <2>3. ASSUME r # <<>> PROVE r[1].part = 1 /\ r[1].n = After(After(d))
    <3>1. 1 \in 1 .. Len(r) /\ k \in 1 .. Len(q) - 1
      BY <1>0, <1>1, <2>3, EmptySeq
    <3>2. Follows(q[k], q[k + 1]) /\ r[1] = q[k + 1]
      BY <1>2, <3>1
    <3> QED BY <1>5, <3>2 DEF Follows
  <2> QED BY <2>1, <2>2, <2>3 DEF Stream
<1>7. ASSUME EndsWith(q, d, n) PROVE EndsWith(r, After(d), n)
  <2>1. CASE r = <<>>
    <3>1. Len(q) = k
      BY <1>0, <2>1, EmptySeq
    <3> QED BY <1>5, <1>7, <2>1, <3>1 DEF EndsWith
  <2>2. CASE r # <<>>
    <3>1. Len(r) \in 1 .. Len(r) /\ k + Len(r) = Len(q)
      BY <1>0, <2>2, EmptySeq
    <3>2. r[Len(r)] = q[Len(q)]
      BY <3>1
    <3> QED BY <1>7, <2>2, <3>2 DEF EndsWith
  <2> QED BY <2>1, <2>2
<1> QED BY <1>1, <1>4, <1>6, <1>7 DEF IsFirst

\* The ground goes on with a stream it has ended with a frame.
LEMMA NextFrame ==
  ASSUME NEW q \in Seq(Unit), NEW d \in Numbers, NEW n \in Numbers, Stream(q, d), EndsWith(q, d, n),
         NEW kind \in Kinds, NEW f \in Seq(Unit), Len(f) = Size(kind),
         \A i \in 1 .. Len(f) : /\ f[i].part = i /\ f[i].kind = kind /\ f[i].n = After(n)
                                /\ i = 1 => f[i].len = Size(kind)
  PROVE  Stream(q \o f, d) /\ EndsWith(q \o f, d, After(n))
<1> DEFINE s == q \o f
<1>0. Len(q) \in Nat /\ Len(f) \in {2, 4}
  BY LenProperties DEF Size, H
<1>1. /\ s \in Seq(Unit) /\ Len(s) = Len(q) + Len(f)
      /\ \A i \in 1 .. Len(q) + Len(f) : s[i] = IF i <= Len(q) THEN q[i] ELSE f[i - Len(q)]
  BY ConcatProperties
<1>2. /\ \A i \in 1 .. Len(q) : s[i] = q[i]
      /\ \A i \in 1 .. Len(f) : s[Len(q) + i] = f[i]
  <2>1. ASSUME NEW i \in 1 .. Len(f) PROVE s[Len(q) + i] = f[i]
    <3>1. /\ Len(q) + i \in 1 .. Len(q) + Len(f) /\ ~ (Len(q) + i <= Len(q))
          /\ Len(q) + i - Len(q) = i
      BY <1>0
    <3> QED BY <1>1, <3>1
  <2> QED BY <1>0, <1>1, <2>1
<1>3. \A i \in 1 .. Len(s) : i \in 1 .. Len(q) \/ \E j \in 1 .. Len(f) : i = Len(q) + j
  <2> SUFFICES ASSUME NEW i \in 1 .. Len(s), i \notin 1 .. Len(q)
               PROVE  i - Len(q) \in 1 .. Len(f) /\ i = Len(q) + (i - Len(q))
    OBVIOUS
  <2> QED BY <1>0, <1>1
<1> HIDE DEF s
<1>4. ASSUME NEW i \in 1 .. Len(s), s[i].part = 1 PROVE s[i].len = Size(s[i].kind)
  <2>1. CASE i \in 1 .. Len(q)
    BY <1>2, <1>4, <2>1 DEF Stream
  <2>2. ASSUME NEW j \in 1 .. Len(f), i = Len(q) + j PROVE s[i].len = Size(s[i].kind)
    BY <1>2, <1>4, <2>2
  <2> QED BY <1>3, <2>1, <2>2
<1>5. ASSUME NEW i \in 1 .. Len(s) - 1 PROVE Follows(s[i], s[i + 1])
  <2>1. CASE i \in 1 .. Len(q) - 1
    <3>1. i \in 1 .. Len(q) /\ i + 1 \in 1 .. Len(q)
      BY <1>0, <2>1
    <3> QED BY <1>2, <2>1, <3>1 DEF Stream
  <2>2. CASE i = Len(q)
    <3>1. q # <<>> /\ 1 \in 1 .. Len(f) /\ i \in 1 .. Len(q)
      BY <1>0, <2>2, EmptySeq
    <3>2. s[i] = q[Len(q)] /\ s[i + 1] = f[1]
      BY <1>2, <2>2, <3>1
    <3> QED BY <3>1, <3>2 DEF Follows, EndsWith
  <2>3. CASE i > Len(q)
    <3>1. PICK j \in 1 .. Len(f) : i = Len(q) + j
      BY <1>0, <1>3, <2>3
    <3>2. j + 1 \in 1 .. Len(f) /\ i + 1 = Len(q) + (j + 1) /\ j # Size(kind)
      BY <1>0, <1>1, <3>1
    <3>3. s[i] = f[j] /\ s[i + 1] = f[j + 1]
      BY <1>2, <3>1, <3>2
    <3> QED BY <3>2, <3>3 DEF Follows, Finishes
  <2> QED BY <1>0, <2>1, <2>2, <2>3
<1>6. s[1].part = 1 /\ s[1].n = After(d)
  <2>1. CASE q = <<>>
    <3>1. s[1] = f[1] /\ 1 \in 1 .. Len(f)
      BY <1>0, <1>2, <2>1, EmptySeq
    <3> QED BY <2>1, <3>1 DEF EndsWith
  <2>2. CASE q # <<>>
    <3>1. s[1] = q[1]
      BY <1>0, <1>2, <2>2, EmptySeq
    <3> QED BY <2>2, <3>1 DEF Stream
  <2> QED BY <2>1, <2>2
<1>7. s # <<>> /\ s[Len(s)] = f[Len(f)] /\ Len(f) \in 1 .. Len(f)
  <2>1. Len(f) \in 1 .. Len(f) /\ Len(s) # 0
    BY <1>0, <1>1
  <2> QED BY <1>1, <1>2, <2>1, EmptySeq
<1>8. EndsWith(s, d, After(n))
  BY <1>7 DEF EndsWith, Finishes
<1> QED BY <1>4, <1>5, <1>6, <1>8 DEF Stream, s

\* A stream that is cut is one.
LEMMA CutStream ==
  ASSUME NEW q \in Seq(Unit), NEW d, Stream(q, d), NEW r \in Seq(Unit), Len(r) <= Len(q),
         \A i \in 1 .. Len(r) : r[i] = q[i]
  PROVE  Stream(r, d)
<1>0. Len(q) \in Nat /\ Len(r) \in Nat
  BY LenProperties
<1>1. \A i \in 1 .. Len(r) : r[i].part = 1 => r[i].len = Size(r[i].kind)
  BY <1>0 DEF Stream
<1>2. ASSUME NEW i \in 1 .. Len(r) - 1 PROVE Follows(r[i], r[i + 1])
  <2>1. i \in 1 .. Len(q) - 1 /\ i \in 1 .. Len(r) /\ i + 1 \in 1 .. Len(r)
    BY <1>0
  <2> QED BY <2>1 DEF Stream
<1>3. r # <<>> => r[1].part = 1 /\ r[1].n = After(d)
  <2>1. r # <<>> => q # <<>> /\ 1 \in 1 .. Len(r)
    BY <1>0, EmptySeq
  <2> QED BY <2>1 DEF Stream
<1> QED BY <1>1, <1>2, <1>3 DEF Stream

-----------------------------------------------------------------------------
(* Frames.                                                                 *)

\* A step that leaves the stream alone and what was processed, or forgets that.
LEMMA QuietKeeps ==
  ASSUME Frames, UNCHANGED <<buffer, link, wire, next, done, split>>,
         arrived' \in 0 .. Len(wire), asked' \in BOOLEAN, torn' \in BOOLEAN,
         got' = <<>> \/ (UNCHANGED got /\ (got # <<>> => pos' = "queue"))
  PROVE  Frames'
<1>1. got' \in Seq(Unit)
  BY EmptySeq DEF Frames
<1>2. FramesAreWhole'
  BY DEF Frames, FramesAreWhole
<1>3. got' # <<>> => pos' = "queue"
  OBVIOUS
<1> QED BY <1>1, <1>2, <1>3 DEF Frames, Wanted

\* A connection ends, or one begins, with what buffer still has.
LEMMA FreshKeeps ==
  ASSUME buffer' \in Seq(Unit), Len(buffer') >= H => Len(buffer') < Wanted(buffer'), got' = <<>>,
         Hangup \/ Fresh("up", buffer' # <<>>)
  PROVE  Frames'
<1>1. /\ wire' = <<>> /\ arrived' = 0 /\ next' = 0 /\ done' = 0
      /\ asked' = FALSE /\ torn' = FALSE /\ split' \in BOOLEAN
      /\ link' = "none" \/ (link' = "up" /\ split' = (buffer' # <<>>))
  BY DEF Hangup, Fresh
<1>2. /\ <<>> \in Seq(Unit) /\ Len(<<>>) = 0 /\ <<>> \o <<>> = <<>>
      /\ Stream(<<>>, 0) /\ EndsWith(<<>>, 0, 0)
  <2>1. <<>> \in Seq(Unit) /\ Len(<<>>) = 0
    BY EmptySeq
  <2>2. <<>> \o <<>> = <<>>
    BY <2>1, ConcatEmptySeq
  <2> QED BY <2>1, <2>2 DEF Stream, EndsWith
<1>3. /\ wire' \in Seq(Unit) /\ arrived' \in 0 .. Len(wire') /\ Len(wire') <= MaxWire
  BY <1>1, <1>2, LinkAssumption
<1>4. next' \in Numbers /\ done' \in Numbers
  BY <1>1 DEF Numbers
<1>5. link' # "none" /\ ~ split' =>
        Stream(buffer' \o wire', done') /\ EndsWith(buffer' \o wire', done', next')
  BY <1>1, <1>2
<1> QED BY <1>1, <1>2, <1>3, <1>4, <1>5 DEF Frames, FramesAreWhole, Wanted

\* Attaching anew leaves the connection or ends it.
LEMMA AttachKeepsFrames ==
  ASSUME Frames, attach_remote_server, got' = <<>>,
         buffer' \in Seq(Unit), Len(buffer') >= H => Len(buffer') < Wanted(buffer'),
         remote_fd = Down => UNCHANGED buffer
  PROVE  Frames'
<1>1. CASE remote_fd = Down
  <2>1. UNCHANGED <<buffer, session>> /\ arrived \in 0 .. Len(wire)
        /\ asked \in BOOLEAN /\ torn \in BOOLEAN
    BY <1>1 DEF attach_remote_server, Frames
  <2> QED BY <2>1, QuietKeeps DEF session
<1>2. CASE remote_fd # Down
  BY <1>2, FreshKeeps DEF attach_remote_server
<1> QED BY <1>1, <1>2

\* What a read makes of the units that have arrived: it takes all or some of
\* them up to a number k of units in buffer, and gives the connection up, keeps
\* them, or has a frame.
Reads(k) ==
  LET b == SubSeq(buffer \o SubSeq(wire, 1, arrived), 1, k)
      Keep == /\ wire' = SubSeq(wire, k - Len(buffer) + 1, Len(wire))
              /\ arrived' = arrived - (k - Len(buffer))
              /\ UNCHANGED <<link, next, asked, torn, split>>
  IN
  \/ /\ attach_remote_server /\ buffer' = b /\ UNCHANGED got
     /\ k >= H => k < Wanted(b)
  \/ /\ buffer' = b /\ Keep /\ UNCHANGED <<got, done>>
     /\ k >= H => k < Wanted(b)
  \/ /\ got' = b /\ buffer' = <<>> /\ Keep /\ done' = After(done)
     /\ k >= H /\ k = Wanted(b)

\* recv_remote_server does one of these with what it has read.
LEMMA ReadOutcome ==
  ASSUME Frames, recv_remote_server
  PROVE  \E k \in Len(buffer) .. Len(buffer) + arrived : Reads(k)
<1> DEFINE data == buffer \o SubSeq(wire, 1, arrived)
           n == Len(buffer) + arrived
           short == Len(buffer) < H
           h == IF short THEN IF H <= n THEN H ELSE n ELSE Len(buffer)
           head == SubSeq(data, 1, h)
           w == Wanted(head)
           m == IF w <= n THEN w ELSE n
           whole == SubSeq(data, 1, m)
<1>0. /\ buffer \in Seq(Unit) /\ wire \in Seq(Unit) /\ arrived \in 0 .. Len(wire)
      /\ Len(buffer) \in Nat /\ arrived \in Nat /\ n \in Nat
      /\ ~ short => Len(buffer) < Wanted(buffer)
  <2>1. /\ buffer \in Seq(Unit) /\ wire \in Seq(Unit) /\ arrived \in 0 .. Len(wire)
        /\ Len(buffer) >= H => Len(buffer) < Wanted(buffer)
    BY DEF Frames
  <2>2. Len(buffer) \in Nat /\ Len(wire) \in Nat
    BY <2>1, LenProperties
  <2> QED BY <2>1, <2>2 DEF H
<1>1. \A k \in Len(buffer) .. n :
        /\ Len(data) = n /\ SubSeq(data, 1, k) \in Seq(Unit) /\ Len(SubSeq(data, 1, k)) = k
        /\ \A i \in 1 .. k : SubSeq(data, 1, k)[i] = (buffer \o wire)[i]
        /\ k = Len(buffer) => SubSeq(data, 1, k) = buffer
  <2> SUFFICES ASSUME NEW k \in Len(buffer) .. n
               PROVE  /\ Len(data) = n /\ SubSeq(data, 1, k) \in Seq(Unit)
                      /\ Len(SubSeq(data, 1, k)) = k
                      /\ \A i \in 1 .. k : SubSeq(data, 1, k)[i] = (buffer \o wire)[i]
                      /\ k = Len(buffer) => SubSeq(data, 1, k) = buffer
    OBVIOUS
  <2>1. IsCut(buffer, wire, arrived, k)
    BY <1>0, Cut
  <2> QED BY <2>1 DEF IsCut
<1>2. h \in Len(buffer) .. n /\ Len(data) = n /\ Len(head) = h
      /\ (~ short => head = buffer)
      /\ head = IF short THEN SubSeq(data, 1, Min({H, Len(data)})) ELSE buffer
  <2>1. h \in Len(buffer) .. n /\ Len(buffer) \in Len(buffer) .. n
    BY <1>0 DEF H
  <2>2. Len(data) = n /\ Len(head) = h
    BY <1>1, <2>1
  <2>3. Min({H, Len(data)}) = IF H <= n THEN H ELSE n
    BY <1>0, <2>2, MinOfTwo DEF H
  <2>4. ~ short => head = buffer
    BY <1>1, <2>1
  <2> HIDE DEF head, data
  <2> QED BY <2>1, <2>2, <2>3, <2>4 DEF head
<1>3. h >= H => w \in {2, 4}
  <2>1. ASSUME h >= H PROVE head[1] \in Unit
    <3>1. h \in Len(buffer) .. n /\ 1 \in 1 .. h
      BY <1>0, <1>2, <2>1 DEF H
    <3> HIDE DEF h, n, data
    <3>2. 1 \in 1 .. Len(head) /\ head \in Seq(Unit)
      BY <1>1, <1>2, <3>1
    <3> HIDE DEF head
    <3> QED BY <3>2, ElementOfSeq
  <2> HIDE DEF head, h
  <2> QED BY <2>1 DEF Wanted, Unit, H
<1>4. h >= H => /\ whole = SubSeq(data, 1, Min({Wanted(head), Len(data)}))
                /\ h <= w => m \in h .. n
  <2>1. ASSUME h >= H PROVE Min({w, n}) = m
    BY <1>0, <1>3, <2>1, MinOfTwo
  <2>2. h >= H /\ h <= w => m \in h .. n
    BY <1>0, <1>2, <1>3
  <2> QED BY <1>2, <2>1, <2>2
<1>5. h >= H => h <= w
  <2> HIDE DEF head
  <2>1. ~ short => h = Len(buffer) /\ w = Wanted(buffer)
    BY <1>2
  <2> HIDE DEF w
  <2>2. CASE ~ short
    BY <1>0, <1>3, <2>1, <2>2 DEF H
  <2>3. CASE short
    BY <1>0, <1>3, <2>3 DEF H
  <2> QED BY <2>2, <2>3
<1>6. ASSUME h >= H, m \in h .. n PROVE Wanted(whole) = w /\ Len(whole) = m
  <2>1. m \in Len(buffer) .. n /\ 1 \in 1 .. h /\ 1 \in 1 .. m
    BY <1>0, <1>2, <1>6 DEF H
  <2>2. whole[1] = (buffer \o wire)[1] /\ head[1] = (buffer \o wire)[1] /\ Len(whole) = m
    BY <1>1, <1>2, <2>1
  <2> QED BY <2>2 DEF Wanted
<1> DEFINE Keep(b) == /\ wire' = SubSeq(wire, Len(b) - Len(buffer) + 1, Len(wire))
                      /\ arrived' = arrived - (Len(b) - Len(buffer))
           Stay == UNCHANGED <<link, next, asked, torn, split>>
<1>7. \/ short /\ attach_remote_server /\ UNCHANGED <<buffer, got>>
      \/ h < H /\ buffer' = head /\ Keep(head) /\ Stay /\ UNCHANGED <<got, done>>
      \/ h >= H /\ w > h /\ buffer' = head /\ attach_remote_server /\ UNCHANGED got
      \/ h >= H /\ n > h /\ w > n /\ buffer' = whole /\ Keep(whole) /\ Stay /\ UNCHANGED <<got, done>>
      \/ /\ h >= H /\ w <= n /\ buffer' = <<>> /\ done' = After(done) /\ Stay
         /\ LET b == IF w <= h THEN head ELSE whole IN got' = b /\ Keep(b)
  <2> HIDE DEF data, h, w, m
  <2>1. recv_remote_server /\ Len(data) = n /\ Len(head) = h
    BY <1>2
  <2>2. /\ head = IF short THEN SubSeq(data, 1, Min({H, Len(data)})) ELSE buffer
        /\ h >= H => whole = SubSeq(data, 1, Min({Wanted(head), Len(data)}))
    BY <1>2, <1>4
  <2> QED BY <1>0, <2>1, <2>2 DEF recv_remote_server, data, w
<1>8. CASE short /\ attach_remote_server /\ UNCHANGED <<buffer, got>>
  <2>1. Len(buffer) \in Len(buffer) .. n /\ ~ (Len(buffer) >= H)
    BY <1>0, <1>8 DEF H
  <2>2. buffer' = SubSeq(data, 1, Len(buffer))
    BY <1>1, <1>8, <2>1
  <2> HIDE DEF short
  <2>3. Reads(Len(buffer))
    BY <1>8, <2>1, <2>2 DEF Reads
  <2> QED BY <2>1, <2>3
<1>9. CASE h < H /\ buffer' = head /\ Keep(head) /\ Stay /\ UNCHANGED <<got, done>>
  <2>1. ~ (h >= H) /\ Keep(head) /\ Len(head) = h /\ h \in Len(buffer) .. n
    BY <1>0, <1>2, <1>9 DEF H
  <2> HIDE DEF h
  <2>2. Reads(h)
    BY <1>9, <2>1 DEF Reads
  <2> QED BY <2>1, <2>2
<1>10. CASE h >= H /\ w > h /\ buffer' = head /\ attach_remote_server /\ UNCHANGED got
  <2>1. h < w /\ h \in Len(buffer) .. n
    BY <1>0, <1>2, <1>3, <1>10 DEF H
  <2> HIDE DEF h
  <2>2. Reads(h)
    BY <1>10, <2>1 DEF Reads
  <2> QED BY <2>1, <2>2
<1>11. CASE h >= H /\ n > h /\ w > n /\ buffer' = whole /\ Keep(whole) /\ Stay /\ UNCHANGED <<got, done>>
  <2>1. m = n /\ m \in h .. n /\ m \in Len(buffer) .. n /\ m < w
    BY <1>0, <1>2, <1>3, <1>11 DEF H
  <2>2. Wanted(whole) = w /\ Len(whole) = m
    BY <1>6, <1>11, <2>1
  <2> HIDE DEF h, m, w
  <2>3. Reads(m)
    BY <1>11, <2>1, <2>2 DEF Reads
  <2> QED BY <2>1, <2>3
<1>12. CASE /\ h >= H /\ w <= n /\ buffer' = <<>> /\ done' = After(done) /\ Stay
            /\ LET b == IF w <= h THEN head ELSE whole IN got' = b /\ Keep(b)
  <2>1. m = w /\ m \in h .. n /\ m \in Len(buffer) .. n /\ m >= H
    BY <1>0, <1>2, <1>3, <1>5, <1>12 DEF H
  <2>2. Wanted(whole) = w /\ Len(whole) = m
    BY <1>6, <1>12, <2>1
  <2>3. w <= h => head = whole
    <3>1. w <= h => m = h
      BY <1>0, <1>2, <1>3, <1>5, <1>12, <2>1 DEF H
    <3> HIDE DEF m, h
    <3> QED BY <3>1
  <2>4. got' = whole /\ Keep(whole)
    BY <1>12, <2>3
  <2> HIDE DEF h, m, w
  <2>5. Reads(m)
    BY <1>12, <2>1, <2>2, <2>4 DEF Reads
  <2> QED BY <2>1, <2>5
<1> QED BY <1>7, <1>8, <1>9, <1>10, <1>11, <1>12

\* A read keeps the rest of the stream and hands over its first frame, whole.
LEMMA ReadKeeps ==
  ASSUME Frames, recv_remote_server, remote_fd = Up, link # "none",
         pos = "read", pos' = "queue"
  PROVE  Frames'
<1>1. PICK k \in Len(buffer) .. Len(buffer) + arrived : Reads(k)
  BY ReadOutcome
<1> DEFINE q == buffer \o wire
           b == SubSeq(buffer \o SubSeq(wire, 1, arrived), 1, k)
           w == SubSeq(wire, k - Len(buffer) + 1, Len(wire))
<1>3. /\ buffer \in Seq(Unit) /\ wire \in Seq(Unit) /\ arrived \in 0 .. Len(wire)
      /\ Len(buffer) \in Nat /\ Len(wire) \in Nat /\ k \in Nat /\ arrived \in Nat
  BY LenProperties DEF Frames
<1>4. /\ b \in Seq(Unit) /\ Len(b) = k /\ \A i \in 1 .. k : b[i] = q[i]
      /\ w \in Seq(Unit) /\ Len(w) = Len(wire) - (k - Len(buffer))
      /\ \A i \in 1 .. Len(w) : w[i] = q[k + i]
      /\ b \o w = q
  <2>1. IsCut(buffer, wire, arrived, k)
    BY <1>3, Cut
  <2> QED BY <2>1 DEF IsCut
<1>5. q \in Seq(Unit) /\ Len(q) = k + Len(w)
  BY <1>3, <1>4, ConcatProperties
<1>6. got = <<>>
  BY DEF Frames
<1>7. \/ /\ attach_remote_server /\ buffer' = b /\ UNCHANGED got
         /\ k >= H => k < Wanted(b)
      \/ /\ buffer' = b /\ wire' = w /\ arrived' = arrived - (k - Len(buffer))
         /\ UNCHANGED <<link, next, asked, torn, split>> /\ UNCHANGED <<got, done>>
         /\ k >= H => k < Wanted(b)
      \/ /\ got' = b /\ buffer' = <<>> /\ wire' = w /\ arrived' = arrived - (k - Len(buffer))
         /\ UNCHANGED <<link, next, asked, torn, split>> /\ done' = After(done)
         /\ k >= H /\ k = Wanted(b)
  BY <1>1 DEF Reads
<1> HIDE DEF b, w
<1>8. CASE /\ attach_remote_server /\ buffer' = b /\ UNCHANGED got
           /\ k >= H => k < Wanted(b)
  <2>1. buffer' \in Seq(Unit) /\ (Len(buffer') >= H => Len(buffer') < Wanted(buffer'))
        /\ got' = <<>>
    BY <1>4, <1>6, <1>8
  <2> QED BY <1>8, <2>1, AttachKeepsFrames DEF Up, Down
<1>9. ASSUME wire' = w, arrived' = arrived - (k - Len(buffer))
      PROVE  wire' \in Seq(Unit) /\ Len(wire') <= MaxWire /\ arrived' \in 0 .. Len(wire')
  <2>1. Len(wire) <= MaxWire
    BY DEF Frames
  <2> QED BY <1>3, <1>4, <1>9, <2>1, LinkAssumption
<1>10. CASE /\ buffer' = b /\ wire' = w /\ arrived' = arrived - (k - Len(buffer))
            /\ UNCHANGED <<link, next, asked, torn, split>> /\ UNCHANGED <<got, done>>
            /\ k >= H => k < Wanted(b)
  <2>1. wire' \in Seq(Unit) /\ Len(wire') <= MaxWire /\ arrived' \in 0 .. Len(wire')
    BY <1>9, <1>10
  <2>2. buffer' \in Seq(Unit) /\ (Len(buffer') >= H => Len(buffer') < Wanted(buffer)')
    BY <1>4, <1>10 DEF Wanted
  <2>3. buffer' \o wire' = buffer \o wire
    BY <1>4, <1>10
  <2>4. FramesAreWhole'
    BY <1>6, <1>10 DEF FramesAreWhole
  <2> QED BY <1>6, <1>10, <2>1, <2>2, <2>3, <2>4 DEF Frames
<1>11. CASE /\ got' = b /\ buffer' = <<>> /\ wire' = w /\ arrived' = arrived - (k - Len(buffer))
            /\ UNCHANGED <<link, next, asked, torn, split>> /\ done' = After(done)
            /\ k >= H /\ k = Wanted(b)
  <2>1. wire' \in Seq(Unit) /\ Len(wire') <= MaxWire /\ arrived' \in 0 .. Len(wire')
    BY <1>9, <1>11
  <2>2. <<>> \in Seq(Unit) /\ Len(<<>>) = 0 /\ buffer' \o wire' = w
    BY <1>4, <1>11, EmptySeq, ConcatEmptySeq
  <2>3. done \in Numbers /\ next \in Numbers /\ done' \in Numbers
    BY <1>11 DEF Frames, Numbers, After
  <2>4. ASSUME ~ split
        PROVE  IsFirst(q, done, next, k, w) /\ (link = "up" => EndsWith(q, done, next))
    <3>1. Stream(q, done) /\ (link = "up" => EndsWith(q, done, next))
      BY <2>4 DEF Frames
    <3>2. 1 \in 1 .. k /\ k <= Len(q) /\ Len(w) = Len(q) - k /\ Len(q) # 0
      <4>1. k \in Nat /\ k >= 2
        BY <1>3, <1>11 DEF H
      <4>2. k <= Len(q) /\ Len(w) = Len(q) - k /\ Len(q) \in Nat
        BY <1>3, <1>4, <1>5, LenProperties
      <4> QED BY <4>1, <4>2
    <3>3. q # <<>> /\ k = Wanted(q)
      BY <1>4, <1>11, <2>2, <3>2 DEF Wanted
    <3>4. /\ q \in Seq(Unit) /\ w \in Seq(Unit) /\ k \in Nat /\ k <= Len(q)
          /\ Len(w) = Len(q) - k /\ \A i \in 1 .. Len(w) : w[i] = q[k + i]
      BY <1>3, <1>4, <1>5, <3>2
    <3> HIDE DEF q
    <3> QED BY <2>3, <3>1, <3>3, <3>4, FirstFrame
  <2>5. FramesAreWhole'
    <3> SUFFICES ASSUME ~ split
                 PROVE  /\ Len(b) = Size(b[1].kind)
                        /\ \A i \in 1 .. Len(b) :
                             b[i].part = i /\ b[i].kind = b[1].kind /\ b[i].n = After(done)
      BY <1>11 DEF FramesAreWhole
    <3>1. 1 \in 1 .. k
      BY <1>3, <1>11 DEF H
    <3> HIDE DEF q
    <3> QED BY <1>4, <2>4, <3>1 DEF IsFirst
  <2>6. Len(buffer') >= H => Len(buffer') < Wanted(buffer)'
    BY <1>11, <2>2 DEF H
  <2>7. link' # "none" /\ ~ split' => Stream(buffer' \o wire', done')
    BY <1>11, <2>2, <2>4 DEF IsFirst
  <2>8. link' = "up" /\ ~ split' => EndsWith(buffer' \o wire', done', next')
    BY <1>11, <2>2, <2>4 DEF IsFirst
  <2> QED BY <1>4, <1>11, <2>1, <2>2, <2>3, <2>5, <2>6, <2>7, <2>8 DEF Frames
<1> QED BY <1>7, <1>8, <1>10, <1>11

\* A frame the ground sends goes on with the stream.
LEMMA SendKeeps ==
  ASSUME Frames, NEW kind \in Kinds, Send(kind), UNCHANGED <<client, link, arrived, done, torn, split>>,
         asked' \in BOOLEAN
  PROVE  Frames'
<1>0. PICK len \in {H, 2 * H} :
        wire' = wire \o [p \in 1 .. Size(kind) |->
                           [kind |-> kind, n |-> After(next), part |-> p,
                            len |-> IF p = 1 THEN Size(kind) ELSE len]]
  BY DEF Send
<1> DEFINE f == [p \in 1 .. Size(kind) |-> [kind |-> kind, n |-> After(next), part |-> p,
                                            len |-> IF p = 1 THEN Size(kind) ELSE len]]
<1>1. /\ f = [p \in 1 .. Size(kind) |-> [kind |-> kind, n |-> After(next), part |-> p,
                                           len |-> IF p = 1 THEN Size(kind) ELSE len]]
      /\ wire' = wire \o f /\ next' = After(next) /\ link = "up"
      /\ Len(wire) + Size(kind) <= MaxWire
  BY <1>0 DEF Send
<1> HIDE DEF f
<1>2. Size(kind) \in {2, 4}
  BY DEF Size, H
<1>3. /\ f \in Seq(Unit) /\ Len(f) = Size(kind)
      /\ \A i \in 1 .. Len(f) : /\ f[i].part = i /\ f[i].kind = kind /\ f[i].n = After(next)
                                /\ i = 1 => f[i].len = Size(kind)
  <2>1. next \in Numbers /\ After(next) \in Numbers
    BY DEF Frames, Numbers, After
  <2>2. f \in [1 .. Size(kind) -> Unit]
    BY <1>1, <1>2, <2>1 DEF Unit, H
  <2>3. f \in Seq(Unit) /\ Len(f) = Size(kind)
    BY <1>2, <2>2
  <2>4. \A i \in 1 .. Size(kind) : f[i] = [kind |-> kind, n |-> After(next), part |-> i,
                                           len |-> IF i = 1 THEN Size(kind) ELSE len]
    BY <1>1
  <2> QED BY <2>3, <2>4
<1>4. /\ buffer \in Seq(Unit) /\ wire \in Seq(Unit) /\ arrived \in 0 .. Len(wire)
      /\ done \in Numbers /\ next \in Numbers /\ Len(wire) \in Nat
  <2>1. /\ buffer \in Seq(Unit) /\ wire \in Seq(Unit) /\ arrived \in 0 .. Len(wire)
        /\ done \in Numbers /\ next \in Numbers
    BY DEF Frames
  <2> QED BY <2>1, LenProperties
<1>5. wire' \in Seq(Unit) /\ Len(wire') = Len(wire) + Size(kind)
  <2>1. wire \o f \in Seq(Unit) /\ Len(wire \o f) = Len(wire) + Len(f)
    BY <1>3, <1>4, ConcatProperties
  <2> QED BY <1>1, <1>3, <2>1
<1>6. Len(wire') <= MaxWire /\ arrived \in 0 .. Len(wire')
  BY <1>1, <1>2, <1>4, <1>5
<1>7. buffer \o wire' = (buffer \o wire) \o f /\ buffer \o wire \in Seq(Unit)
  <2>1. (buffer \o wire) \o f = buffer \o (wire \o f)
    BY SMTT(30), <1>3, <1>4, ConcatAssociative
  <2>2. buffer \o wire \in Seq(Unit)
    BY <1>4, ConcatProperties
  <2> QED BY <1>1, <2>1, <2>2
<1>8. ~ split => Stream(buffer \o wire', done) /\ EndsWith(buffer \o wire', done, After(next))
  <2> SUFFICES ASSUME ~ split
               PROVE  Stream(buffer \o wire', done) /\ EndsWith(buffer \o wire', done, After(next))
    OBVIOUS
  <2>1. PICK q \in Seq(Unit) : q = buffer \o wire
    BY <1>7
  <2>2. Stream(q, done) /\ EndsWith(q, done, next) /\ buffer \o wire' = q \o f
    BY <1>1, <1>7, <2>1 DEF Frames
  <2>3. Stream(q \o f, done) /\ EndsWith(q \o f, done, After(next))
    BY <1>3, <1>4, <2>2, NextFrame
  <2> QED BY <2>2, <2>3
<1>9. next' \in Numbers
  BY <1>1, <1>4 DEF Numbers, After
<1>10. FramesAreWhole'
  BY DEF client, Frames, FramesAreWhole
<1> QED BY <1>1, <1>5, <1>6, <1>8, <1>9, <1>10 DEF Frames, client, Wanted

\* When the ground closes the connection or the network loses it, what has
\* arrived is left of the stream.
LEMMA EndKeeps ==
  ASSUME Frames, link # "none", NEW state \in {"closed", "dead"}, Ends(state)
  PROVE  Frames'
<1>1. /\ link' = state /\ wire' = SubSeq(wire, 1, arrived) /\ asked' = FALSE
      /\ UNCHANGED <<client, arrived, next, done, torn, split>>
  BY DEF Ends
<1>2. /\ buffer \in Seq(Unit) /\ wire \in Seq(Unit) /\ arrived \in 0 .. Len(wire)
      /\ Len(wire) \in Nat /\ Len(buffer) \in Nat /\ Len(wire) <= MaxWire
  BY LenProperties DEF Frames
<1>3. /\ wire' \in Seq(Unit) /\ Len(wire') = arrived
      /\ \A i \in 1 .. arrived : wire'[i] = wire[i]
  <2>1. \A i \in 1 .. arrived : wire[i] \in Unit
    BY <1>2, ElementOfSeq
  <2>2. /\ SubSeq(wire, 1, arrived) \in Seq(Unit)
        /\ Len(SubSeq(wire, 1, arrived)) = (IF 1 <= arrived THEN arrived - 1 + 1 ELSE 0)
        /\ \A i \in 1 .. arrived - 1 + 1 : SubSeq(wire, 1, arrived)[i] = wire[1 + i - 1]
    BY <1>2, <2>1, SubSeqProperties
  <2> QED BY <1>1, <1>2, <2>2
<1>4. PICK q, r : q = buffer \o wire /\ r = buffer \o wire'
  OBVIOUS
<1>5. /\ q \in Seq(Unit) /\ r \in Seq(Unit) /\ Len(r) <= Len(q)
      /\ \A i \in 1 .. Len(r) : r[i] = q[i]
  <2>1. /\ q \in Seq(Unit) /\ Len(q) = Len(buffer) + Len(wire)
        /\ \A i \in 1 .. Len(buffer) + Len(wire) :
             q[i] = IF i <= Len(buffer) THEN buffer[i] ELSE wire[i - Len(buffer)]
    BY <1>2, <1>4, ConcatProperties
  <2>2. /\ r \in Seq(Unit) /\ Len(r) = Len(buffer) + arrived
        /\ \A i \in 1 .. Len(buffer) + arrived :
             r[i] = IF i <= Len(buffer) THEN buffer[i] ELSE wire'[i - Len(buffer)]
    BY <1>2, <1>3, <1>4, ConcatProperties
  <2>3. \A i \in 1 .. Len(buffer) + arrived :
          /\ i \in 1 .. Len(buffer) + Len(wire)
          /\ ~ (i <= Len(buffer)) => i - Len(buffer) \in 1 .. arrived
    BY <1>2
  <2>4. ASSUME NEW i \in 1 .. Len(r) PROVE r[i] = q[i]
    <3>1. i \in 1 .. Len(buffer) + arrived /\ i \in 1 .. Len(buffer) + Len(wire)
      BY <2>2, <2>3
    <3>2. CASE i <= Len(buffer)
      BY <2>1, <2>2, <3>1, <3>2
    <3>3. CASE ~ (i <= Len(buffer))
      <4>1. wire'[i - Len(buffer)] = wire[i - Len(buffer)]
        BY <1>2, <1>3, <2>3, <3>1, <3>3
      <4> QED BY <2>1, <2>2, <3>1, <3>3, <4>1
    <3> QED BY <3>2, <3>3
  <2>5. Len(r) <= Len(q)
    BY <1>2, <2>1, <2>2
  <2> QED BY <2>1, <2>2, <2>4, <2>5
<1>6. ~ split => Stream(r, done)
  BY <1>4, <1>5, CutStream DEF Frames
<1>7. arrived \in 0 .. Len(wire') /\ Len(wire') <= MaxWire
  BY <1>2, <1>3, LinkAssumption
<1>8. FramesAreWhole'
  BY <1>1 DEF client, Frames, FramesAreWhole
<1> QED BY <1>1, <1>3, <1>4, <1>6, <1>7, <1>8 DEF Frames, client, Wanted

\* Every step keeps the stream.
LEMMA FramesStep ==
  ASSUME IInv, [Next]_vars
  PROVE  Frames'
<1>0. /\ Control /\ Frames /\ arrived \in 0 .. Len(wire)
      /\ asked \in BOOLEAN /\ torn \in BOOLEAN /\ buffer \in Seq(Unit)
      /\ Len(buffer) >= H => Len(buffer) < Wanted(buffer)
  BY DEF IInv, Frames
<1>1. CASE Start
  <2>1. UNCHANGED <<buffer, got>> /\ got = <<>> /\ attach_remote_server
    BY <1>0, <1>1 DEF Start, Frames
  <2> QED BY <1>0, <2>1, AttachKeepsFrames
<1>2. CASE NothingDue
  BY <1>0, <1>2, QuietKeeps DEF NothingDue, session
<1>3. CASE select
  BY <1>0, <1>3, QuietKeeps DEF select, session, Frames
<1>4. CASE attach_remote_server_thread_func
  BY <1>0, <1>4, FreshKeeps DEF attach_remote_server_thread_func
<1>5. CASE check_and_report_status_and_position_info
  <2>1. CASE check_heart_beat /\ got' = <<>> /\ UNCHANGED buffer
    <3>1. CASE attach_remote_server
      BY <1>0, <2>1, <3>1, AttachKeepsFrames
    <3>2. CASE UNCHANGED session
      BY <1>0, <2>1, <3>2, QuietKeeps DEF session
    <3> QED BY <2>1, <3>1, <3>2 DEF check_heart_beat
  <2>2. CASE /\ write_remote_server /\ got' = <<>>
             /\ UNCHANGED <<buffer, link, wire, arrived, next, done, split>>
    <3>1. asked' \in BOOLEAN /\ torn' \in BOOLEAN
      BY <1>0, <2>2 DEF write_remote_server
    <3> QED BY <1>0, <2>2, <3>1, QuietKeeps
  <2>3. CASE Restart
    <3>1. buffer' = <<>> /\ got' = <<>> /\ Hangup
      BY <2>3 DEF Restart
    <3>2. buffer' \in Seq(Unit) /\ ~ (Len(buffer') >= H)
      BY <3>1, EmptySeq DEF H
    <3> QED BY <3>1, <3>2, FreshKeeps
  <2> QED BY <1>5, <2>1, <2>2, <2>3 DEF check_and_report_status_and_position_info
<1>6. CASE clients_data_changed
  <2>1. pos = "read" /\ pos' = "queue"
    BY <1>6 DEF clients_data_changed
  <2>2. CASE got' = <<>> /\ UNCHANGED <<buffer, session>>
    BY <1>0, <2>2, QuietKeeps DEF session
  <2>3. CASE remote_fd = Up /\ recv_remote_server
    <3>1. link # "none"
      BY <1>0, <2>3 DEF Control, Counts
    <3> QED BY <1>0, <2>1, <2>3, <3>1, ReadKeeps
  <2> QED BY <1>6, <2>2, <2>3 DEF clients_data_changed
<1>7. CASE Command
  BY <1>0, <1>7, SendKeeps DEF Command, Kinds
<1>8. CASE Answer
  BY <1>0, <1>8, SendKeeps DEF Answer, Kinds
<1>9. CASE Arrive
  <2>1. arrived' \in 0 .. Len(wire)
    <3>1. Len(wire) \in Nat
      BY LenProperties DEF IInv, Frames
    <3> QED BY <1>0, <1>9, <3>1 DEF Arrive
  <2> QED BY <1>0, <1>9, <2>1, QuietKeeps DEF Arrive, client, Frames
<1>10. CASE GroundCloses \/ Vanish
  BY <1>0, <1>10, EndKeeps DEF GroundCloses, Vanish
<1>11. CASE UNCHANGED vars
  BY <1>0, <1>11, QuietKeeps DEF vars, client, session, Frames
<1> QED
  BY <1>1, <1>2, <1>3, <1>4, <1>5, <1>6, <1>7, <1>8, <1>9, <1>10, <1>11 DEF Next, Loop

\* Control and the stream are an invariant, whatever the ground sends, in
\* whatever pieces it arrives and whenever the connection is lost.
THEOREM Invariance == Spec => []IInv
<1>1. Init => Frames
  <2>1. <<>> \in Seq(Unit) /\ Len(<<>>) = 0 /\ 0 \in 0 .. 0 /\ 0 \in Numbers /\ 0 <= MaxWire
    BY EmptySeq, LinkAssumption DEF Numbers
  <2> SUFFICES ASSUME Init PROVE Frames
    OBVIOUS
  <2>2. ~ (Len(buffer) >= H)
    BY <2>1 DEF Init, H
  <2>3. wire \in Seq(Unit) /\ Len(wire) <= MaxWire /\ arrived \in 0 .. Len(wire)
    BY <2>1 DEF Init
  <2>4. buffer \in Seq(Unit) /\ got \in Seq(Unit) /\ next \in Numbers /\ done \in Numbers
    BY <2>1 DEF Init
  <2>5. FramesAreWhole
    BY DEF Init, FramesAreWhole
  <2> QED BY <2>2, <2>3, <2>4, <2>5 DEF Init, Frames
<1>2. Init => Control
  BY ControlInit
<1>3. IInv /\ [Next]_vars => IInv'
  BY FramesStep, ControlStep DEF IInv
<1> QED BY <1>1, <1>2, <1>3, PTL DEF Spec, IInv

\* The descriptor, the buffer, the units on their way and the counters stay in
\* their domains; the buffer is never as long as the longest frame.
THEOREM TypeCorrect == Spec => []TypeOK
<1>1. ASSUME IInv PROVE Len(buffer) < 2 * H
  <2>1. CASE Len(buffer) >= H
    <3>1. buffer \in Seq(Unit) /\ Len(buffer) < Wanted(buffer)
      BY <1>1, <2>1 DEF IInv, Frames
    <3>2. Len(buffer) \in Nat /\ 1 \in 1 .. Len(buffer)
      BY <2>1, <3>1, LenProperties DEF H
    <3>3. buffer[1] \in Unit
      BY <3>1, <3>2, ElementOfSeq
    <3>4. Wanted(buffer) \in {2, 4}
      BY <3>3 DEF Wanted, Unit, H
    <3> QED BY <3>1, <3>2, <3>4 DEF H
  <2>2. CASE ~ (Len(buffer) >= H)
    <3>1. Len(buffer) \in Nat
      BY <1>1, LenProperties DEF IInv, Frames
    <3> QED BY <2>2, <3>1 DEF H
  <2> QED BY <2>1, <2>2
<1>2. IInv => TypeOK
  BY <1>1 DEF IInv, Control, Domains, Frames, TypeOK
<1> QED BY <1>2, Invariance, PTL

\* A connection that began with an empty buffer hands over exactly the frames
\* the ground has sent, whole and in order, in whatever pieces they arrive.
THEOREM FramesArriveWhole == Spec => []FramesAreWhole
<1>1. IInv => FramesAreWhole
  BY DEF IInv, Frames
<1> QED BY <1>1, Invariance, PTL
=============================================================================
