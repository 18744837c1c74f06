------------------------------ MODULE TeleProofs ------------------------------
(***************************************************************************)
(* Proofs about Tele for any number of tasks and of polling threads.       *)
(*                                                                         *)
(* The types need no assumption.  What is promised of the line needs one,  *)
(* Punctual: answers travel faster than the intervals of the client, the   *)
(* ground and core are not reported in one round, the HAL is not           *)
(* interrupted between its test and its dial, and every task has a timer   *)
(* and a number that fits.  Then there is one dial on its way at a time,   *)
(* and Stage says how far it has come.                                     *)
(***************************************************************************)
EXTENDS TeleProps, SequenceTheorems, TLAPS

Punctual ==
  /\ Settled /\ ~ SameRound /\ ~ DialRace
  /\ \A k \in Kinds : k.access = "ok" /\ k.phone

-----------------------------------------------------------------------------
(* What is in a queue.                                                     *)

In(s, x)   == \E i \in 1 .. Len(s) : s[i] = x
Only(s, T) == \A i \in 1 .. Len(s) : s[i] \in T
Once(s, T) == \A i, j \in 1 .. Len(s) : s[i] \in T /\ s[j] \in T => i = j

\* Behind some x in s there is no y.
LastOf(s, x, y) == \E i \in 1 .. Len(s) : s[i] = x /\ \A j \in i + 1 .. Len(s) : s[j] # y

\* Every accepted call in s is followed by its end.
Ends        == {"HANGUP", "NO_CARRIER"}
Followed(s) ==
  \A i \in 1 .. Len(s) : s[i] = "DIAL_OK" => \E j \in i + 1 .. Len(s) : s[j] \in Ends

\* The empty queue.
LEMMA EmptyQueue ==
  /\ \A x : ~ In(<<>>, x)
  /\ \A T : Only(<<>>, T) /\ Once(<<>>, T)
  /\ \A x, y : ~ LastOf(<<>>, x, y)
  /\ Followed(<<>>)
BY DEF In, Only, Once, LastOf, Followed

\* A queue with something in it is not empty.
LEMMA InSome ==
  ASSUME NEW S, NEW s \in Seq(S), NEW x, In(s, x)
  PROVE  s # <<>> /\ x \in S
BY DEF In

\* What is in a queue that something has been put into.
LEMMA AppendIn ==
  ASSUME NEW S, NEW s \in Seq(S), NEW z \in S
  PROVE  /\ \A x : In(Append(s, z), x) <=> In(s, x) \/ z = x
         /\ \A T : Only(s, T) /\ z \in T => Only(Append(s, z), T)
<1> DEFINE r == Append(s, z)
<1>1. r \in Seq(S) /\ Len(r) = Len(s) + 1 /\ r[Len(s) + 1] = z
      /\ \A i \in 1 .. Len(s) : r[i] = s[i]
  OBVIOUS
<1>2. Len(s) \in Nat
  OBVIOUS
<1> HIDE DEF r
<1>3. \A i \in 1 .. Len(r) : i \in 1 .. Len(s) \/ i = Len(s) + 1
  BY <1>1, <1>2
<1>4. \A i \in 1 .. Len(s) : i \in 1 .. Len(r)
  BY <1>1, <1>2
<1>5. Len(s) + 1 \in 1 .. Len(r)
  BY <1>1, <1>2
<1>6. \A x : In(r, x) <=> In(s, x) \/ z = x
  BY <1>1, <1>3, <1>4, <1>5 DEF In
<1>7. \A T : Only(s, T) /\ z \in T => Only(r, T)
  BY <1>1, <1>3 DEF Only
<1> QED BY <1>6, <1>7 DEF r

\* The order in a queue that something has been put into.
LEMMA AppendOrder ==
  ASSUME NEW S, NEW s \in Seq(S), NEW z \in S
  PROVE  /\ \A T : Once(s, T) /\ (z \in T => \A x \in T : ~ In(s, x)) => Once(Append(s, z), T)
         /\ \A y : LastOf(Append(s, z), z, y)
         /\ \A x, y : LastOf(s, x, y) /\ z # y => LastOf(Append(s, z), x, y)
         /\ Followed(s) /\ z # "DIAL_OK" => Followed(Append(s, z))
         /\ z \in Ends => Followed(Append(s, z))
<1> DEFINE r == Append(s, z)
<1>1. r \in Seq(S) /\ Len(r) = Len(s) + 1 /\ r[Len(s) + 1] = z
      /\ \A i \in 1 .. Len(s) : r[i] = s[i]
  OBVIOUS
<1>2. Len(s) \in Nat
  OBVIOUS
<1> HIDE DEF r
<1>3. \A i \in 1 .. Len(r) : i \in 1 .. Len(s) \/ i = Len(s) + 1
  BY <1>1, <1>2
<1>4. Len(s) + 1 \in 1 .. Len(r) /\ \A i \in 1 .. Len(s) : i \in 1 .. Len(r)
  BY <1>1, <1>2
<1>5. \A i \in 1 .. Len(s) : \A j \in i + 1 .. Len(r) : j \in i + 1 .. Len(s) \/ j = Len(s) + 1
  BY <1>1, <1>2
<1>6. \A i \in 1 .. Len(s) : \A j \in i + 1 .. Len(s) : j \in 1 .. Len(s) /\ j \in i + 1 .. Len(r)
  BY <1>1, <1>2
<1>7. \A i \in 1 .. Len(s) : Len(s) + 1 \in i + 1 .. Len(r)
  BY <1>1, <1>2
<1>8. ASSUME NEW T, Once(s, T), z \in T => \A x \in T : ~ In(s, x) PROVE Once(r, T)
  <2>1. \A i \in 1 .. Len(s) : z \in T => s[i] \notin T
    BY <1>8 DEF In
  <2> QED BY <1>1, <1>3, <1>8, <2>1 DEF Once
<1>9. ASSUME NEW y PROVE LastOf(r, z, y)
  <2>1. \A j \in Len(s) + 1 + 1 .. Len(r) : FALSE
    BY <1>1, <1>2
  <2> QED BY <1>1, <1>4, <2>1 DEF LastOf
<1>10. ASSUME NEW x, NEW y, LastOf(s, x, y), z # y PROVE LastOf(r, x, y)
  <2>1. PICK i \in 1 .. Len(s) : s[i] = x /\ \A j \in i + 1 .. Len(s) : s[j] # y
    BY <1>10 DEF LastOf
  <2>2. \A j \in i + 1 .. Len(r) : r[j] # y
    BY <1>1, <1>5, <1>6, <1>10, <2>1
  <2> QED BY <1>1, <1>4, <2>1, <2>2 DEF LastOf
<1>11. ASSUME Followed(s), z # "DIAL_OK" PROVE Followed(r)
  <2> SUFFICES ASSUME NEW i \in 1 .. Len(r), r[i] = "DIAL_OK"
               PROVE  \E j \in i + 1 .. Len(r) : r[j] \in Ends
    BY DEF Followed
  <2>1. i \in 1 .. Len(s) /\ s[i] = "DIAL_OK"
    BY <1>1, <1>3, <1>11
  <2>2. PICK j \in i + 1 .. Len(s) : s[j] \in Ends
    BY <1>11, <2>1 DEF Followed
  <2> QED BY <1>1, <1>6, <2>1, <2>2
<1>12. ASSUME z \in Ends PROVE Followed(r)
  <2>1. z # "DIAL_OK"
    BY <1>12 DEF Ends
  <2> QED BY <1>1, <1>3, <1>7, <1>12, <2>1 DEF Followed
<1> QED BY <1>8, <1>9, <1>10, <1>11, <1>12 DEF r

\* What is in a queue whose head has been taken.
LEMMA TailIn ==
  ASSUME NEW S, NEW s \in Seq(S), s # <<>>
  PROVE  /\ Tail(s) \in Seq(S) /\ Head(s) \in S
         /\ \A x : In(s, x) <=> Head(s) = x \/ In(Tail(s), x)
         /\ \A T : Only(s, T) => Head(s) \in T /\ Only(Tail(s), T)
<1> DEFINE r == Tail(s)
<1>1. r \in Seq(S) /\ Len(r) = Len(s) - 1 /\ Head(s) = s[1] /\ Head(s) \in S
      /\ \A i \in 1 .. Len(r) : r[i] = s[i + 1]
  OBVIOUS
<1>2. Len(s) \in Nat /\ Len(s) >= 1
  OBVIOUS
<1> HIDE DEF r
<1>3. 1 \in 1 .. Len(s) /\ \A i \in 1 .. Len(r) : i + 1 \in 1 .. Len(s)
  BY <1>1, <1>2
<1>4. \A i \in 1 .. Len(s) : i # 1 => i - 1 \in 1 .. Len(r) /\ i = i - 1 + 1
  BY <1>1, <1>2
<1>5. \A i \in 1 .. Len(s) : i # 1 => r[i - 1] = s[i]
  BY <1>1, <1>4
<1>6. ASSUME NEW x PROVE In(s, x) <=> Head(s) = x \/ In(r, x)
  <2>1. In(s, x) => Head(s) = x \/ In(r, x)
    BY <1>1, <1>4, <1>5 DEF In
  <2>2. Head(s) = x \/ In(r, x) => In(s, x)
    BY <1>1, <1>3 DEF In
  <2> QED BY <2>1, <2>2
<1>7. ASSUME NEW T, Only(s, T) PROVE Head(s) \in T /\ Only(r, T)
  BY <1>1, <1>3, <1>7 DEF Only
<1> QED BY <1>1, <1>6, <1>7 DEF r

\* The order in a queue whose head has been taken.
LEMMA TailOrder ==
  ASSUME NEW S, NEW s \in Seq(S), s # <<>>
  PROVE  /\ \A T : Once(s, T) => Once(Tail(s), T)
         /\ \A T : Once(s, T) /\ Head(s) \in T => \A x \in T : ~ In(Tail(s), x)
         /\ \A x, y : LastOf(s, x, y) =>
              LastOf(Tail(s), x, y) \/ (Head(s) = x /\ ~ In(Tail(s), y))
         /\ Followed(s) => Followed(Tail(s))
         /\ Followed(s) /\ Head(s) = "DIAL_OK" => \E x \in Ends : In(Tail(s), x)
<1> DEFINE r == Tail(s)
<1>1. r \in Seq(S) /\ Len(r) = Len(s) - 1 /\ Head(s) = s[1]
      /\ \A i \in 1 .. Len(r) : r[i] = s[i + 1]
  OBVIOUS
<1>2. Len(s) \in Nat /\ Len(s) >= 1
  OBVIOUS
<1> HIDE DEF r
<1>3. 1 \in 1 .. Len(s) /\ \A i \in 1 .. Len(r) : i + 1 \in 1 .. Len(s) /\ i + 1 # 1
  BY <1>1, <1>2
<1>4. \A i \in 1 .. Len(s) : \A j \in i + 1 .. Len(s) :
        j - 1 \in 1 .. Len(r) /\ (i # 1 => j - 1 \in (i - 1) + 1 .. Len(r)) /\ r[j - 1] = s[j]
  BY <1>1, <1>2
<1>5. \A i \in 1 .. Len(s) : i # 1 => i - 1 \in 1 .. Len(r) /\ r[i - 1] = s[i]
  BY <1>1, <1>2
<1>6. \A i \in 1 .. Len(r) : \A j \in i + 1 .. Len(r) : j + 1 \in (i + 1) + 1 .. Len(s) /\ s[j + 1] = r[j]
  BY <1>1, <1>2
<1>7. \A i, j \in 1 .. Len(r) : i + 1 = j + 1 => i = j
  BY <1>1, <1>2
<1>8. \A i \in 1 .. Len(s) : \A j \in (i - 1) + 1 .. Len(r) :
        i # 1 => j + 1 \in i + 1 .. Len(s) /\ r[j] = s[j + 1]
  BY <1>1, <1>2
<1>9. \A j \in 1 .. Len(r) : j + 1 \in 1 + 1 .. Len(s) /\ r[j] = s[j + 1]
  BY <1>1, <1>2
<1>10. ASSUME NEW T, Once(s, T)
       PROVE  Once(r, T) /\ (Head(s) \in T => \A x \in T : ~ In(r, x))
  <2>1. Once(r, T)
    BY <1>1, <1>3, <1>7, <1>10 DEF Once
  <2>2. ASSUME Head(s) \in T, NEW x \in T, In(r, x) PROVE FALSE
    BY <1>1, <1>3, <1>10, <2>2 DEF Once, In
  <2> QED BY <2>1, <2>2
<1>11. ASSUME NEW x, NEW y, LastOf(s, x, y)
       PROVE  LastOf(r, x, y) \/ (Head(s) = x /\ ~ In(r, y))
  <2>1. PICK i \in 1 .. Len(s) : s[i] = x /\ \A j \in i + 1 .. Len(s) : s[j] # y
    BY <1>11 DEF LastOf
  <2>2. CASE i = 1
    BY <1>1, <1>9, <2>1, <2>2 DEF In
  <2>3. CASE i # 1
    <3>1. i - 1 \in 1 .. Len(r) /\ r[i - 1] = x
      BY <1>5, <2>1, <2>3
    <3>2. \A j \in (i - 1) + 1 .. Len(r) : r[j] # y
      BY <1>8, <2>1, <2>3
    <3> QED BY <3>1, <3>2 DEF LastOf
  <2> QED BY <2>2, <2>3
<1>12. ASSUME Followed(s) PROVE Followed(r)
  <2> SUFFICES ASSUME NEW i \in 1 .. Len(r), r[i] = "DIAL_OK"
               PROVE  \E j \in i + 1 .. Len(r) : r[j] \in Ends
    BY DEF Followed
  <2>1. i + 1 \in 1 .. Len(s) /\ s[i + 1] = "DIAL_OK" /\ i + 1 # 1 /\ (i + 1) - 1 = i
    BY <1>1, <1>3
  <2>2. PICK j \in (i + 1) + 1 .. Len(s) : s[j] \in Ends
    BY <1>12, <2>1 DEF Followed
  <2>3. j - 1 \in i + 1 .. Len(r) /\ r[j - 1] = s[j]
    BY <1>4, <2>1
  <2> QED BY <2>2, <2>3
<1>13. ASSUME Followed(s), Head(s) = "DIAL_OK" PROVE \E x \in Ends : In(r, x)
  <2>1. PICK j \in 1 + 1 .. Len(s) : s[j] \in Ends
    BY <1>1, <1>3, <1>13 DEF Followed
  <2>2. j - 1 \in 1 .. Len(r) /\ r[j - 1] = s[j]
    BY <1>3, <1>4
  <2> QED BY <2>1, <2>2 DEF In
<1> QED BY <1>10, <1>11, <1>12, <1>13 DEF r

\* A queue of what it has none of is empty.
LEMMA NothingIn ==
  ASSUME NEW S, NEW s \in Seq(S), NEW T, Only(s, T), \A x \in T : ~ In(s, x)
  PROVE  s = <<>>
<1>1. \A i \in 1 .. Len(s) : FALSE
  BY DEF Only, In
<1>2. Len(s) \in Nat /\ (Len(s) = 0 => s = <<>>)
  OBVIOUS
<1>3. Len(s) # 0 => 1 \in 1 .. Len(s)
  BY <1>2
<1>4. Len(s) = 0
  BY <1>1, <1>3
<1> QED BY <1>2, <1>4

\* What a poll of the HAL tells the client.
LEMMA PollReports ==
  ASSUME NEW S, NEW s \in Seq(S), NEW old, NEW new,
         {"NO_CARRIER", "DIAL_FAILED", "DIAL_OK"} \subseteq S
  PROVE  \/ /\ s \o processCallStateChange(old, new) = Append(s, "NO_CARRIER")
            /\ old = "active" /\ new = "none"
         \/ /\ s \o processCallStateChange(old, new) = Append(s, "DIAL_FAILED")
            /\ old = "dialing" /\ new = "none"
         \/ /\ s \o processCallStateChange(old, new) = Append(s, "DIAL_OK")
            /\ old = "dialing" /\ new = "active"
         \/ /\ s \o processCallStateChange(old, new) = s
            /\ ~ (new = "none" /\ old \in {"active", "dialing"})
            /\ ~ (new = "active" /\ old = "dialing")
<1>1. \A x \in S : s \o <<x>> = Append(s, x)
  OBVIOUS
<1>2. s \o <<>> = s
  OBVIOUS
<1>3. CASE old = "active" /\ new = "none"
  BY <1>1, <1>3 DEF processCallStateChange
<1>4. CASE old = "dialing" /\ new = "none"
  BY <1>1, <1>4 DEF processCallStateChange
<1>5. CASE old = "dialing" /\ new = "active"
  BY <1>1, <1>5 DEF processCallStateChange
<1>6. CASE ~ (new = "none" /\ old \in {"active", "dialing"}) /\ ~ (new = "active" /\ old = "dialing")
  <2>1. processCallStateChange(old, new) = <<>>
    BY <1>6 DEF processCallStateChange
  <2> QED BY <1>2, <1>6, <2>1
<1> QED BY <1>3, <1>4, <1>5, <1>6

-----------------------------------------------------------------------------
(* The types.                                                              *)

\* What the client's steps leave alone.
ClientTypes ==
  /\ task \in Kinds \cup {NULL} /\ tasks \in 0 .. MaxTasks
  /\ pos \in {"queue", "interval", "select", "ground", "core"}
  /\ state \in {"IDLE", "WAIT", "ONLINE", "OFFLINE"}
  /\ hanup_latest \in BOOLEAN /\ dial_first \in BOOLEAN
  /\ dial_deadline \in {"off", "running", "passed"}
  /\ toHal \in Seq(Request_t) /\ toClient \in Seq(Message_t)

WorldTypes ==
  /\ s_pendingDialing \in BOOLEAN /\ s_existCall \in BOOLEAN
  /\ s_pCurrentCall \in Line_t
  /\ dialing \in Nat /\ sending \in Nat /\ polling \in Nat
  /\ toRild \in Seq({"DIAL", "HANGUP", "GET_CURRENT_CALLS"}) /\ line \in Line_t
  /\ toTrace \in Seq({"TRACE_START", "TRACE_STOP"}) /\ trace \in BOOLEAN

\* The steps of the client keep the types of both.
LEMMA ClientTypesKept ==
  ASSUME TypeOK, StartTask \/ StopTask \/ Client \/ Timeout
  PROVE  TypeOK'
<1>1. TypeOK <=> ClientTypes /\ WorldTypes
  BY DEF TypeOK, ClientTypes, WorldTypes
<1>2. TypeOK' <=> ClientTypes' /\ WorldTypes'
  BY DEF TypeOK, ClientTypes, WorldTypes
<1>3. WorldTypes'
  <2>1. UNCHANGED <<hal, world>>
    BY DEF StartTask, StopTask, Client, check_and_process_local_task,
       get_local_hungup_timeout_interval, process_local_event, NextRound, Timeout
  <2> QED BY <1>1, <2>1 DEF WorldTypes, hal, flags, world
<1>4. /\ ClientTypes /\ MaxTasks \in Nat
      /\ \A s \in Seq(Request_t) : \A r \in Request_t : Append(s, r) \in Seq(Request_t)
  BY <1>1, TeleAssumption
<1>5. {"DIAL", "HANGUP", "TRACE_START", "TRACE_STOP"} \subseteq Request_t
  BY DEF Request_t
<1>6. CASE StartTask
  BY <1>1, <1>2, <1>3, <1>4, <1>6 DEF StartTask, ClientTypes, Ground
<1>7. CASE StopTask
  BY <1>1, <1>2, <1>3, <1>4, <1>5, <1>7
  DEF StopTask, stop_trace, update_tele_state, Request, ClientTypes, Ground
<1>8. CASE check_and_process_local_task
  <2>1. UNCHANGED <<task, tasks, hanup_latest, toClient>> /\ pos' = "interval"
    BY <1>8 DEF check_and_process_local_task
  <2>2. ASSUME NEW t \in Kinds
        PROVE  set_dial_timer(t.access, dial_deadline) \in {"off", "running", "passed"}
    <3>1. t.access \in {"zero", "ok", "over"}
      BY TeleAssumption DEF TaskKind
    <3> QED BY <1>4, <3>1 DEF set_dial_timer, ClientTypes
  <2>3. ASSUME NEW t \in Kinds, dial_tele0(t)
        PROVE  toHal' \in Seq(Request_t) /\ dial_deadline' \in {"off", "running", "passed"}
    BY <1>4, <1>5, <2>2, <2>3 DEF dial_tele0, Request, ClientTypes
  <2>4. ASSUME NEW t \in Kinds, NEW due \in BOOLEAN, Act(t, due)
        PROVE  /\ toHal' \in Seq(Request_t) /\ dial_deadline' \in {"off", "running", "passed"}
               /\ state' = "WAIT" /\ dial_first' \in BOOLEAN
    BY <1>4, <1>5, <2>3, <2>4 DEF Act, update_tele_state, Request, ClientTypes
  <2>5. /\ toHal' \in Seq(Request_t) /\ dial_deadline' \in {"off", "running", "passed"}
        /\ state' \in {"IDLE", "WAIT", "ONLINE", "OFFLINE"} /\ dial_first' \in BOOLEAN
    BY <1>4, <1>8, <2>4 DEF check_and_process_local_task, ClientTypes
  <2> QED BY <1>2, <1>3, <1>4, <2>1, <2>5 DEF ClientTypes
<1>9. CASE get_local_hungup_timeout_interval
  BY <1>1, <1>2, <1>3, <1>4, <1>5, <1>9
  DEF get_local_hungup_timeout_interval, Request, ClientTypes
<1>10. CASE process_local_event
  <2>1. toClient' \in Seq(Message_t)
    BY <1>4, <1>10 DEF process_local_event, ClientTypes
  <2> QED BY <1>1, <1>2, <1>3, <1>4, <1>10, <2>1
    DEF process_local_event, After, update_tele_state, ClientTypes
<1>11. CASE NextRound
  BY <1>1, <1>2, <1>3, <1>4, <1>11 DEF NextRound, ClientTypes
<1>12. CASE Timeout
  BY <1>1, <1>2, <1>3, <1>4, <1>12 DEF Timeout, ClientTypes
<1> QED BY <1>6, <1>7, <1>8, <1>9, <1>10, <1>11, <1>12 DEF Client

\* So do those of the HAL, the daemons and the network.
LEMMA HalTypesKept ==
  ASSUME TypeOK, Hal \/ LineChanges
  PROVE  TypeOK'
<1>1. TypeOK <=> ClientTypes /\ WorldTypes
  BY DEF TypeOK, ClientTypes, WorldTypes
<1>2. TypeOK' <=> ClientTypes' /\ WorldTypes'
  BY DEF TypeOK, ClientTypes, WorldTypes
<1>3. UNCHANGED client
  BY DEF Hal, processHALCmd, dialThread, dialThread_sends, pollCurrentCallThread,
     RildAnswers, TraceAnswers, LineChanges
<1>4. ASSUME toHal' \in Seq(Request_t), toClient' \in Seq(Message_t) PROVE ClientTypes'
  BY <1>1, <1>3, <1>4 DEF client, ClientTypes
<1>5. ClientTypes /\ WorldTypes
  BY <1>1
<1>6. /\ toHal \in Seq(Request_t) /\ toClient \in Seq(Message_t)
      /\ toRild \in Seq({"DIAL", "HANGUP", "GET_CURRENT_CALLS"})
      /\ toTrace \in Seq({"TRACE_START", "TRACE_STOP"})
  BY <1>5 DEF ClientTypes, WorldTypes
<1>7. /\ \A m \in Message_t : Append(toClient, m) \in Seq(Message_t)
      /\ \A m \in {"DIAL", "HANGUP", "GET_CURRENT_CALLS"} :
           Append(toRild, m) \in Seq({"DIAL", "HANGUP", "GET_CURRENT_CALLS"})
      /\ \A m \in {"TRACE_START", "TRACE_STOP"} :
           Append(toTrace, m) \in Seq({"TRACE_START", "TRACE_STOP"})
  BY <1>6
<1>8. CASE processHALCmd
  <2>1. toHal' \in Seq(Request_t) /\ toClient' = toClient
    BY <1>6, <1>8 DEF processHALCmd
  <2>2. /\ UNCHANGED <<s_pCurrentCall, sending, polling, line, trace>>
        /\ s_pendingDialing' \in BOOLEAN /\ s_existCall' \in BOOLEAN
    BY <1>5, <1>8 DEF processHALCmd, WorldTypes
  <2>3. /\ dialing' \in Nat
        /\ toRild' \in Seq({"DIAL", "HANGUP", "GET_CURRENT_CALLS"})
        /\ toTrace' \in Seq({"TRACE_START", "TRACE_STOP"})
    <3>1. CASE Head(toHal) = "DIAL"
      BY <1>5, <1>8, <3>1 DEF processHALCmd, WorldTypes
    <3>2. CASE Head(toHal) = "HANGUP"
      BY <1>5, <1>7, <1>8, <3>2 DEF processHALCmd, WorldTypes
    <3>3. CASE Head(toHal) \in {"TRACE_START", "TRACE_STOP"}
      BY <1>5, <1>7, <1>8, <3>3 DEF processHALCmd, WorldTypes
    <3> QED BY <1>8, <3>1, <3>2, <3>3 DEF processHALCmd
  <2> QED BY <1>2, <1>4, <1>5, <1>6, <2>1, <2>2, <2>3 DEF WorldTypes
<1>9. CASE dialThread
  <2>1. /\ UNCHANGED <<toHal, toClient, s_pCurrentCall, polling, toRild, line, toTrace, trace>>
        /\ s_pendingDialing' \in BOOLEAN /\ s_existCall' \in BOOLEAN
    BY <1>5, <1>9 DEF dialThread, world, WorldTypes
  <2>2. dialing' \in Nat /\ sending' \in Nat
    BY <1>5, <1>9 DEF dialThread, WorldTypes
  <2> QED BY <1>2, <1>4, <1>5, <1>6, <2>1, <2>2 DEF WorldTypes
<1>10. CASE dialThread_sends
  <2>1. /\ UNCHANGED <<toHal, toClient, s_pCurrentCall, dialing, polling, line, toTrace, trace>>
        /\ s_pendingDialing' \in BOOLEAN /\ s_existCall' \in BOOLEAN
        /\ toRild' \in Seq({"DIAL", "HANGUP", "GET_CURRENT_CALLS"})
    BY <1>5, <1>7, <1>10 DEF dialThread_sends
  <2>2. sending' \in Nat
    BY <1>5, <1>10 DEF dialThread_sends, WorldTypes
  <2> QED BY <1>2, <1>4, <1>5, <1>6, <2>1, <2>2 DEF WorldTypes
<1>11. CASE pollCurrentCallThread
  <2>1. /\ UNCHANGED <<toHal, toClient, s_pendingDialing, s_existCall, s_pCurrentCall,
                       dialing, sending, line, toTrace, trace>>
        /\ toRild' \in Seq({"DIAL", "HANGUP", "GET_CURRENT_CALLS"})
    BY <1>6, <1>7, <1>11 DEF pollCurrentCallThread, flags
  <2>2. polling' \in Nat
    BY <1>5, <1>11 DEF pollCurrentCallThread, WorldTypes
  <2> QED BY <1>2, <1>4, <1>5, <1>6, <2>1, <2>2 DEF WorldTypes
<1>12. CASE RildAnswers
  <2>1. /\ UNCHANGED <<toHal, s_pendingDialing, s_existCall, dialing, sending, toTrace, trace>>
        /\ toRild' \in Seq({"DIAL", "HANGUP", "GET_CURRENT_CALLS"})
    BY <1>6, <1>12 DEF RildAnswers
  <2>2. s_pCurrentCall' \in Line_t /\ line' \in Line_t
    BY <1>5, <1>12 DEF RildAnswers, WorldTypes, Line_t
  <2>3. polling' \in Nat
    BY <1>5, <1>12 DEF RildAnswers, WorldTypes
  <2>4. toClient \o processCallStateChange(s_pCurrentCall, line) \in Seq(Message_t)
    <3>1. {"NO_CARRIER", "DIAL_FAILED", "DIAL_OK"} \subseteq Message_t
      BY DEF Message_t
    <3> DEFINE r == toClient \o processCallStateChange(s_pCurrentCall, line)
    <3>2. \/ r = Append(toClient, "NO_CARRIER") \/ r = Append(toClient, "DIAL_FAILED")
          \/ r = Append(toClient, "DIAL_OK") \/ r = toClient
      BY <1>6, <3>1, PollReports
    <3> QED BY <1>6, <1>7, <3>1, <3>2
  <2>5. toClient' \in Seq(Message_t)
    BY <1>6, <1>7, <1>12, <2>4 DEF RildAnswers, sendHALResponse, Message_t
  <2> QED BY <1>2, <1>4, <1>5, <1>6, <2>1, <2>2, <2>3, <2>5 DEF WorldTypes
<1>13. CASE TraceAnswers
  <2>1. /\ UNCHANGED <<toHal, toRild, line>> /\ UNCHANGED hal
        /\ toTrace' \in Seq({"TRACE_START", "TRACE_STOP"}) /\ trace' \in BOOLEAN
    BY <1>6, <1>13 DEF TraceAnswers
  <2>2. Head(toTrace) \in Message_t
    BY <1>6, <1>13 DEF TraceAnswers, Message_t
  <2>3. toClient' \in Seq(Message_t)
    BY <1>7, <1>13, <2>2 DEF TraceAnswers, sendHALResponse
  <2> QED BY <1>2, <1>4, <1>5, <1>6, <2>1, <2>3 DEF WorldTypes, hal, flags
<1>14. CASE LineChanges
  <2>1. /\ UNCHANGED <<toHal, toClient, s_pendingDialing, s_existCall, s_pCurrentCall, dialing,
                       sending, toRild, toTrace, trace>>
        /\ line' \in Line_t
    BY <1>14 DEF LineChanges, flags, Line_t
  <2>2. polling' \in Nat
    BY <1>5, <1>14 DEF LineChanges, WorldTypes
  <2> QED BY <1>2, <1>4, <1>5, <1>6, <2>1, <2>2 DEF WorldTypes
<1> QED BY <1>8, <1>9, <1>10, <1>11, <1>12, <1>13, <1>14 DEF Hal

\* The queues between the processes, the flags and the threads stay in their
\* domains, for any kinds of tasks and whatever is on its way.
THEOREM TypeCorrect == Spec => []TypeOK
<1>1. Init => TypeOK
  <2> SUFFICES ASSUME Init PROVE TypeOK
    OBVIOUS
  <2>1. task \in Kinds \cup {NULL} /\ tasks \in 0 .. MaxTasks
    BY TeleAssumption DEF Init
  <2>2. \A T : <<>> \in Seq(T)
    OBVIOUS
  <2>3. /\ toHal \in Seq(Request_t) /\ toClient \in Seq(Message_t)
        /\ toRild \in Seq({"DIAL", "HANGUP", "GET_CURRENT_CALLS"})
        /\ toTrace \in Seq({"TRACE_START", "TRACE_STOP"})
    BY <2>2 DEF Init
  <2>4. dialing \in Nat /\ sending \in Nat /\ polling \in Nat
    BY DEF Init
  <2>5. s_pCurrentCall \in Line_t /\ line \in Line_t
    BY DEF Init, Line_t
  <2> QED BY <2>1, <2>3, <2>4, <2>5 DEF Init, TypeOK
<1>2. TypeOK /\ [Next]_vars => TypeOK'
  <2> SUFFICES ASSUME TypeOK, [Next]_vars PROVE TypeOK'
    OBVIOUS
  <2>1. CASE UNCHANGED vars
    BY <2>1 DEF vars, client, hal, flags, world, TypeOK
  <2> QED BY <2>1, ClientTypesKept, HalTypesKept DEF Next
<1> QED BY <1>1, <1>2, PTL DEF Spec

-----------------------------------------------------------------------------
(* The line.                                                               *)

Answers == {"DIAL_OK", "DIAL_FAILED"}
Rild_t  == {"DIAL", "HANGUP", "GET_CURRENT_CALLS"}

\* The HAL polls as long as there is, or will be, a call.
Existing ==
  \/ s_existCall
  \/ LastOf(toRild, "HANGUP", "DIAL")
  \/ ~ In(toRild, "DIAL") /\ line = "none" /\ s_pCurrentCall = "none"

\* A change of the call that the HAL does not know of will be polled.
Polled ==
  \/ s_pCurrentCall = line
  \/ polling # 0 \/ In(toRild, "GET_CURRENT_CALLS") \/ In(toRild, "HANGUP")

\* The one dial on its way, and the answer to it.
Stage(st) ==
  /\ In(toHal, "DIAL") => st = "hal"
  /\ dialing # 0 => st = "sleep" /\ dialing = 1
  /\ sending # 0 => st = "send" /\ sending = 1
  /\ In(toRild, "DIAL") => st = "rild"
  /\ line = "dialing" => st = "line" /\ s_pCurrentCall # "active"
  /\ s_pCurrentCall = "dialing" => st = "line"
  /\ In(toClient, "DIAL_OK") => st = "ok"
  /\ In(toClient, "DIAL_FAILED") => st = "failed"
  /\ Once(toHal, {"DIAL"}) /\ Once(toRild, {"DIAL"}) /\ Once(toClient, Answers)
  /\ st \in {"hal", "sleep", "send", "rild", "failed"} => line = "none" /\ s_pCurrentCall = "none"

Staged == \E st : Stage(st)

\* A hangup that ends the telephone part of a task has not been answered.
Latest == hanup_latest => In(toHal, "HANGUP") \/ In(toRild, "HANGUP") \/ In(toClient, "HANGUP")

\* A thread of the HAL will dial.
Dialing == dialing # 0 /\ s_pendingDialing

\* There is a call, or there will be one ...
Up == line # "none" \/ In(toHal, "DIAL") \/ Dialing \/ sending # 0 \/ In(toRild, "DIAL")

\* ... and a hangup behind it,
Covered ==
  \/ LastOf(toHal, "HANGUP", "DIAL")
  \/ /\ LastOf(toRild, "HANGUP", "DIAL")
     /\ ~ In(toHal, "DIAL") /\ ~ Dialing /\ sending = 0

\* ... or the client waits for the answer, and its timer runs,
Waiting ==
  /\ state = "WAIT" /\ dial_deadline # "off" /\ ~ hanup_latest /\ task # NULL
  /\ Only(toHal, {"DIAL"}) /\ ~ In(toRild, "HANGUP") /\ toTrace = <<>>
  /\ Only(toClient, Answers)

\* ... or the timer has passed, and the client comes to it next,
Late == state = "WAIT" /\ dial_deadline = "passed" /\ pos \in {"queue", "interval", "ground"}

\* ... or the client knows of the call.
Believes ==
  /\ state = "ONLINE" /\ dial_deadline = "off" /\ ~ hanup_latest /\ task # NULL
  /\ toHal = <<>> /\ toTrace = <<>> /\ toClient = <<>>

Released == Up => Covered \/ Waiting \/ Late \/ Believes

\* The client believes in a call that is there, or is about to hear of its end.
Online ==
  /\ state = "ONLINE" =>
       s_pCurrentCall = "active" \/ In(toClient, "HANGUP") \/ In(toClient, "NO_CARRIER")
  /\ s_pCurrentCall = "active" \/ Followed(toClient)

LInv ==
  /\ TypeOK
  /\ Existing /\ Polled /\ Staged /\ Latest /\ Released /\ Online

\* A request put into a queue.
LEMMA Put ==
  ASSUME NEW S, NEW s \in Seq(S), NEW z \in S
  PROVE  /\ Append(s, z) \in Seq(S)
         /\ In(Append(s, z), "DIAL") <=> In(s, "DIAL") \/ z = "DIAL"
         /\ In(Append(s, z), "HANGUP") <=> In(s, "HANGUP") \/ z = "HANGUP"
         /\ In(Append(s, z), "GET_CURRENT_CALLS") <=> In(s, "GET_CURRENT_CALLS") \/ z = "GET_CURRENT_CALLS"
         /\ Once(s, {"DIAL"}) /\ (z = "DIAL" => ~ In(s, "DIAL")) => Once(Append(s, z), {"DIAL"})
         /\ z # "DIAL" /\ LastOf(s, "HANGUP", "DIAL") => LastOf(Append(s, z), "HANGUP", "DIAL")
         /\ z = "HANGUP" => LastOf(Append(s, z), "HANGUP", "DIAL")
         /\ z = "DIAL" /\ Only(s, {"DIAL"}) => Only(Append(s, z), {"DIAL"})
<1>1. Append(s, z) \in Seq(S)
  OBVIOUS
<1>2. \A x : In(Append(s, z), x) <=> In(s, x) \/ z = x
  BY AppendIn
<1>3. z = "DIAL" /\ Only(s, {"DIAL"}) => Only(Append(s, z), {"DIAL"})
  BY AppendIn
<1>4. \A T : Once(s, T) /\ (z \in T => \A x \in T : ~ In(s, x)) => Once(Append(s, z), T)
  BY AppendOrder
<1>5. Once(s, {"DIAL"}) /\ (z = "DIAL" => ~ In(s, "DIAL")) => Once(Append(s, z), {"DIAL"})
  <2>1. z \in {"DIAL"} <=> z = "DIAL"
    OBVIOUS
  <2>2. (\A x \in {"DIAL"} : ~ In(s, x)) <=> ~ In(s, "DIAL")
    OBVIOUS
  <2> QED BY <1>4, <2>1, <2>2
<1>6. z # "DIAL" /\ LastOf(s, "HANGUP", "DIAL") => LastOf(Append(s, z), "HANGUP", "DIAL")
  BY AppendOrder
<1>7. z = "HANGUP" => LastOf(Append(s, z), "HANGUP", "DIAL")
  BY AppendOrder
<1> QED BY <1>1, <1>2, <1>3, <1>5, <1>6, <1>7

\* A request taken from a queue.
LEMMA Take ==
  ASSUME NEW S, NEW s \in Seq(S), s # <<>>
  PROVE  /\ Tail(s) \in Seq(S) /\ Head(s) \in S
         /\ In(s, "DIAL") <=> Head(s) = "DIAL" \/ In(Tail(s), "DIAL")
         /\ In(s, "HANGUP") <=> Head(s) = "HANGUP" \/ In(Tail(s), "HANGUP")
         /\ In(s, "GET_CURRENT_CALLS") <=>
              Head(s) = "GET_CURRENT_CALLS" \/ In(Tail(s), "GET_CURRENT_CALLS")
         /\ Once(s, {"DIAL"}) => Once(Tail(s), {"DIAL"}) /\ (Head(s) = "DIAL" => ~ In(Tail(s), "DIAL"))
         /\ LastOf(s, "HANGUP", "DIAL") =>
              LastOf(Tail(s), "HANGUP", "DIAL") \/ (Head(s) = "HANGUP" /\ ~ In(Tail(s), "DIAL"))
         /\ Only(s, {"DIAL"}) => Head(s) = "DIAL" /\ Only(Tail(s), {"DIAL"})
<1>1. /\ Tail(s) \in Seq(S) /\ Head(s) \in S
      /\ \A x : In(s, x) <=> Head(s) = x \/ In(Tail(s), x)
  BY TailIn
<1>2. Only(s, {"DIAL"}) => Head(s) \in {"DIAL"} /\ Only(Tail(s), {"DIAL"})
  BY TailIn
<1>3. Once(s, {"DIAL"}) => Once(Tail(s), {"DIAL"})
  BY TailOrder
<1>4. Once(s, {"DIAL"}) /\ Head(s) \in {"DIAL"} => \A x \in {"DIAL"} : ~ In(Tail(s), x)
  BY TailOrder
<1>5. LastOf(s, "HANGUP", "DIAL") =>
        LastOf(Tail(s), "HANGUP", "DIAL") \/ (Head(s) = "HANGUP" /\ ~ In(Tail(s), "DIAL"))
  BY TailOrder
<1> QED BY <1>1, <1>2, <1>3, <1>4, <1>5

\* A message put into the queue of the client.
LEMMA Tell ==
  ASSUME NEW s \in Seq(Message_t), NEW z \in Message_t
  PROVE  /\ In(Append(s, z), "DIAL_OK") <=> In(s, "DIAL_OK") \/ z = "DIAL_OK"
         /\ In(Append(s, z), "DIAL_FAILED") <=> In(s, "DIAL_FAILED") \/ z = "DIAL_FAILED"
         /\ In(Append(s, z), "HANGUP") <=> In(s, "HANGUP") \/ z = "HANGUP"
         /\ In(Append(s, z), "NO_CARRIER") <=> In(s, "NO_CARRIER") \/ z = "NO_CARRIER"
         /\ Once(s, Answers) /\ (z \in Answers => ~ In(s, "DIAL_OK") /\ ~ In(s, "DIAL_FAILED"))
              => Once(Append(s, z), Answers)
         /\ z \in Answers /\ Only(s, Answers) => Only(Append(s, z), Answers)
         /\ z # "DIAL_OK" /\ Followed(s) => Followed(Append(s, z))
         /\ z \in Ends => Followed(Append(s, z))
<1>1. \A x : In(Append(s, z), x) <=> In(s, x) \/ z = x
  BY AppendIn
<1>2. z \in Answers /\ Only(s, Answers) => Only(Append(s, z), Answers)
  BY AppendIn
<1>3. Once(s, Answers) /\ (z \in Answers => \A x \in Answers : ~ In(s, x)) => Once(Append(s, z), Answers)
  BY AppendOrder
<1>4. (\A x \in Answers : ~ In(s, x)) <=> ~ In(s, "DIAL_OK") /\ ~ In(s, "DIAL_FAILED")
  BY DEF Answers
<1>5. z # "DIAL_OK" /\ Followed(s) => Followed(Append(s, z))
  BY AppendOrder
<1>6. z \in Ends => Followed(Append(s, z))
  BY AppendOrder
<1> QED BY <1>1, <1>2, <1>3, <1>4, <1>5, <1>6

\* A message taken from the queue of the client.
LEMMA Heard ==
  ASSUME NEW s \in Seq(Message_t), s # <<>>
  PROVE  /\ Tail(s) \in Seq(Message_t) /\ Head(s) \in Message_t
         /\ In(s, "DIAL_OK") <=> Head(s) = "DIAL_OK" \/ In(Tail(s), "DIAL_OK")
         /\ In(s, "DIAL_FAILED") <=> Head(s) = "DIAL_FAILED" \/ In(Tail(s), "DIAL_FAILED")
         /\ In(s, "HANGUP") <=> Head(s) = "HANGUP" \/ In(Tail(s), "HANGUP")
         /\ In(s, "NO_CARRIER") <=> Head(s) = "NO_CARRIER" \/ In(Tail(s), "NO_CARRIER")
         /\ Once(s, Answers) => Once(Tail(s), Answers)
         /\ Once(s, Answers) /\ Only(s, Answers) => Tail(s) = <<>>
         /\ Only(s, Answers) => Head(s) \in Answers /\ Only(Tail(s), Answers)
         /\ Followed(s) => Followed(Tail(s))
         /\ Followed(s) /\ Head(s) = "DIAL_OK" => In(Tail(s), "HANGUP") \/ In(Tail(s), "NO_CARRIER")
<1>1. /\ Tail(s) \in Seq(Message_t) /\ Head(s) \in Message_t
      /\ \A x : In(s, x) <=> Head(s) = x \/ In(Tail(s), x)
  BY TailIn
<1>2. Only(s, Answers) => Head(s) \in Answers /\ Only(Tail(s), Answers)
  BY TailIn
<1>3. Once(s, Answers) => Once(Tail(s), Answers)
  BY TailOrder
<1>4. Once(s, Answers) /\ Head(s) \in Answers => \A x \in Answers : ~ In(Tail(s), x)
  BY TailOrder
<1>5. Followed(s) => Followed(Tail(s))
  BY TailOrder
<1>6. Followed(s) /\ Head(s) = "DIAL_OK" => \E x \in Ends : In(Tail(s), x)
  BY TailOrder
<1>7. ASSUME Once(s, Answers), Only(s, Answers) PROVE Tail(s) = <<>>
  BY <1>1, <1>2, <1>4, <1>7, NothingIn
<1>8. Followed(s) /\ Head(s) = "DIAL_OK" => In(Tail(s), "HANGUP") \/ In(Tail(s), "NO_CARRIER")
  BY <1>6 DEF Ends
<1> QED BY <1>1, <1>2, <1>3, <1>5, <1>7, <1>8

\* A queue in which something is the last has it, and is not empty.
LEMMA LastIsIn ==
  ASSUME NEW s, NEW x, NEW y, LastOf(s, x, y)
  PROVE  In(s, x)
BY DEF LastOf, In

\* The types the proofs below use.
LEMMA LineTypes ==
  ASSUME TypeOK
  PROVE  /\ toHal \in Seq(Request_t) /\ toClient \in Seq(Message_t) /\ toRild \in Seq(Rild_t)
         /\ toTrace \in Seq({"TRACE_START", "TRACE_STOP"})
         /\ dialing \in Nat /\ sending \in Nat /\ polling \in Nat
         /\ s_pCurrentCall \in {"none", "dialing", "active"} /\ line \in {"none", "dialing", "active"}
         /\ {"DIAL", "HANGUP", "TRACE_START", "TRACE_STOP"} \subseteq Request_t
         /\ {"DIAL_OK", "DIAL_FAILED", "HANGUP", "NO_CARRIER", "TRACE_START", "TRACE_STOP"} \subseteq Message_t
         /\ {"DIAL", "HANGUP", "GET_CURRENT_CALLS"} \subseteq Rild_t
BY DEF TypeOK, Rild_t, Line_t, Request_t, Message_t

\* The HAL, rild and the network keep polling what may change.
LEMMA PolledKept ==
  ASSUME TypeOK, Existing, Polled, Hal \/ LineChanges
  PROVE  (Existing /\ Polled)'
<1>1. /\ toRild \in Seq(Rild_t) /\ {"DIAL", "HANGUP", "GET_CURRENT_CALLS"} \subseteq Rild_t
      /\ polling \in Nat
  BY LineTypes
<1>2. LastOf(toRild, "HANGUP", "DIAL") => In(toRild, "HANGUP")
  BY LastIsIn
<1>3. CASE processHALCmd
  <2>1. UNCHANGED <<s_pCurrentCall, line, polling>>
    BY <1>3 DEF processHALCmd
  <2>2. CASE Head(toHal) = "HANGUP"
    <3>1. toRild' = Append(toRild, "HANGUP")
      BY <1>3, <2>2 DEF processHALCmd
    <3>2. LastOf(toRild', "HANGUP", "DIAL") /\ In(toRild', "HANGUP")
      BY <1>1, <3>1, Put
    <3> QED BY <3>2 DEF Existing, Polled
  <2>3. CASE Head(toHal) # "HANGUP"
    <3>1. UNCHANGED <<s_existCall, toRild>>
      BY <1>3, <2>3 DEF processHALCmd
    <3> QED BY <2>1, <3>1 DEF Existing, Polled
  <2> QED BY <2>2, <2>3
<1>4. CASE dialThread
  <2>1. UNCHANGED <<s_pCurrentCall, line, polling, toRild>> /\ (s_existCall => s_existCall')
    BY <1>4 DEF dialThread, world
  <2> QED BY <2>1 DEF Existing, Polled
<1>5. CASE dialThread_sends
  <2>1. UNCHANGED <<s_pCurrentCall, line, polling>> /\ s_existCall'
    BY <1>5 DEF dialThread_sends
  <2>2. toRild' = Append(toRild, "DIAL")
    BY <1>5 DEF dialThread_sends
  <2>3. In(toRild, "HANGUP") => In(toRild', "HANGUP")
    BY <1>1, <2>2, Put
  <2>4. In(toRild, "GET_CURRENT_CALLS") => In(toRild', "GET_CURRENT_CALLS")
    BY <1>1, <2>2, Put
  <2> QED BY <2>1, <2>3, <2>4 DEF Existing, Polled
<1>6. CASE pollCurrentCallThread
  <2>1. UNCHANGED <<s_pCurrentCall, line, s_existCall>>
    BY <1>6 DEF pollCurrentCallThread, flags
  <2>2. CASE s_existCall
    <3>1. toRild' = Append(toRild, "GET_CURRENT_CALLS")
      BY <1>6, <2>2 DEF pollCurrentCallThread
    <3>2. In(toRild', "GET_CURRENT_CALLS")
      BY <1>1, <3>1, Put
    <3> QED BY <2>1, <2>2, <3>2 DEF Existing, Polled
  <2>3. CASE ~ s_existCall
    <3>1. toRild' = toRild
      BY <1>6, <2>3 DEF pollCurrentCallThread
    <3> QED BY <1>2, <2>1, <2>3, <3>1 DEF Existing, Polled
  <2> QED BY <2>2, <2>3
<1>7. CASE RildAnswers
  <2>1. toRild # <<>> /\ toRild' = Tail(toRild) /\ UNCHANGED s_existCall
    BY <1>7 DEF RildAnswers
  <2>2. /\ In(toRild, "DIAL") <=> Head(toRild) = "DIAL" \/ In(toRild', "DIAL")
        /\ In(toRild, "HANGUP") <=> Head(toRild) = "HANGUP" \/ In(toRild', "HANGUP")
        /\ In(toRild, "GET_CURRENT_CALLS") <=>
             Head(toRild) = "GET_CURRENT_CALLS" \/ In(toRild', "GET_CURRENT_CALLS")
        /\ LastOf(toRild, "HANGUP", "DIAL") =>
             LastOf(toRild', "HANGUP", "DIAL") \/ (Head(toRild) = "HANGUP" /\ ~ In(toRild', "DIAL"))
    BY <1>1, <2>1, Take
  <2>3. CASE Head(toRild) = "DIAL" /\ line' = "dialing" /\ polling' = polling + 1
    <3>1. polling' # 0
      BY <1>1, <2>3
    <3> QED BY <2>1, <2>2, <2>3, <3>1 DEF Existing, Polled
  <2>4. CASE Head(toRild) = "DIAL" /\ UNCHANGED <<line, polling, s_pCurrentCall>>
    BY <2>1, <2>2, <2>4 DEF Existing, Polled
  <2>5. CASE Head(toRild) = "GET_CURRENT_CALLS" /\ s_pCurrentCall' = line /\ line' = line
    BY <2>1, <2>2, <2>5 DEF Existing, Polled
  <2>6. CASE Head(toRild) = "HANGUP" /\ line' = "none" /\ s_pCurrentCall' = "none"
    BY <2>1, <2>2, <2>6 DEF Existing, Polled
  <2> QED BY <1>7, <2>3, <2>4, <2>5, <2>6 DEF RildAnswers
<1>8. CASE TraceAnswers
  <2>1. UNCHANGED <<toRild, line, s_existCall, s_pCurrentCall, polling>>
    BY <1>8 DEF TraceAnswers, hal, flags
  <2> QED BY <2>1 DEF Existing, Polled
<1>9. CASE LineChanges
  <2>1. UNCHANGED <<toRild, s_existCall, s_pCurrentCall>> /\ line # "none" /\ polling' = polling + 1
    BY <1>9 DEF LineChanges, flags
  <2>2. polling' # 0
    BY <1>1, <2>1
  <2> QED BY <2>1, <2>2 DEF Existing, Polled
<1> QED BY <1>3, <1>4, <1>5, <1>6, <1>7, <1>8, <1>9 DEF Hal

\* In the HAL, in rild and in the network the dial moves on by one stage.
LEMMA StagedKept ==
  ASSUME TypeOK, Staged, Hal \/ LineChanges
  PROVE  Staged'
<1>1. /\ toHal \in Seq(Request_t) /\ toClient \in Seq(Message_t) /\ toRild \in Seq(Rild_t)
      /\ dialing \in Nat /\ sending \in Nat
      /\ s_pCurrentCall \in {"none", "dialing", "active"} /\ line \in {"none", "dialing", "active"}
      /\ {"DIAL_OK", "DIAL_FAILED", "HANGUP", "NO_CARRIER", "TRACE_START", "TRACE_STOP"} \subseteq Message_t
      /\ {"DIAL", "HANGUP", "GET_CURRENT_CALLS"} \subseteq Rild_t
  BY LineTypes
<1>2. PICK st : Stage(st)
  BY DEF Staged
<1>3. CASE processHALCmd
  <2>1. /\ toHal # <<>> /\ toHal' = Tail(toHal)
        /\ UNCHANGED <<toClient, s_pCurrentCall, sending, line>>
    BY <1>3 DEF processHALCmd
  <2>2. /\ In(toHal, "DIAL") <=> Head(toHal) = "DIAL" \/ In(toHal', "DIAL")
        /\ Once(toHal, {"DIAL"}) => Once(toHal', {"DIAL"}) /\ (Head(toHal) = "DIAL" => ~ In(toHal', "DIAL"))
    BY <1>1, <2>1, Take
  <2>3. CASE Head(toHal) = "DIAL"
    <3>1. dialing' = dialing + 1 /\ toRild' = toRild
      BY <1>3, <2>3 DEF processHALCmd
    <3>2. st = "hal" /\ dialing' = 1
      BY <1>2, <2>2, <2>3, <3>1 DEF Stage
    <3>3. Stage("sleep")'
      BY <1>2, <2>1, <2>2, <2>3, <3>1, <3>2 DEF Stage
    <3> QED BY <3>3 DEF Staged
  <2>4. CASE Head(toHal) # "DIAL"
    <3>1. dialing' = dialing /\ (toRild' = toRild \/ toRild' = Append(toRild, "HANGUP"))
      BY <1>3, <2>4 DEF processHALCmd
    <3>2. (In(toRild', "DIAL") <=> In(toRild, "DIAL")) /\ (Once(toRild, {"DIAL"}) => Once(toRild', {"DIAL"}))
      <4>1. "HANGUP" \in Rild_t /\ "HANGUP" # "DIAL"
        BY <1>1
      <4>2. In(Append(toRild, "HANGUP"), "DIAL") <=> In(toRild, "DIAL")
        BY <1>1, <4>1, Put
      <4>3. Once(toRild, {"DIAL"}) => Once(Append(toRild, "HANGUP"), {"DIAL"})
        BY <1>1, <4>1, Put
      <4>4. CASE toRild' = toRild
        BY <4>4
      <4>5. CASE toRild' = Append(toRild, "HANGUP")
        BY <4>2, <4>3, <4>5
      <4> QED BY <3>1, <4>4, <4>5
    <3>3. Stage(st)'
      BY <1>2, <2>1, <2>2, <2>4, <3>1, <3>2 DEF Stage
    <3> QED BY <3>3 DEF Staged
  <2> QED BY <2>3, <2>4
<1>4. CASE dialThread
  <2>1. /\ UNCHANGED <<toHal, toClient, toRild, s_pCurrentCall, line>>
        /\ dialing > 0 /\ dialing' = dialing - 1
        /\ sending' = sending + 1 \/ sending' = sending
    BY <1>4 DEF dialThread, world
  <2>2. st = "sleep" /\ dialing' = 0 /\ sending = 0
    BY <1>1, <1>2, <2>1 DEF Stage
  <2>3. sending' = 1 \/ sending' = 0
    BY <2>1, <2>2
  <2>4. Stage("send")'
    BY <1>2, <2>1, <2>2, <2>3 DEF Stage
  <2> QED BY <2>4 DEF Staged
<1>5. CASE dialThread_sends
  <2>1. /\ UNCHANGED <<toHal, toClient, s_pCurrentCall, dialing, line>>
        /\ sending > 0 /\ sending' = sending - 1 /\ toRild' = Append(toRild, "DIAL")
    BY <1>5 DEF dialThread_sends
  <2>2. st = "send" /\ sending' = 0
    BY <1>1, <1>2, <2>1 DEF Stage
  <2>3. ~ In(toRild, "DIAL") /\ Once(toRild, {"DIAL"})
    BY <1>2, <2>2 DEF Stage
  <2>4. Once(toRild', {"DIAL"})
    BY <1>1, <2>1, <2>3, Put
  <2>5. Stage("rild")'
    BY <1>2, <2>1, <2>2, <2>4 DEF Stage
  <2> QED BY <2>5 DEF Staged
<1>6. CASE pollCurrentCallThread
  <2>1. /\ UNCHANGED <<toHal, toClient, s_pCurrentCall, dialing, sending, line>>
        /\ toRild' = toRild \/ toRild' = Append(toRild, "GET_CURRENT_CALLS")
    BY <1>6 DEF pollCurrentCallThread, flags
  <2>2. (In(toRild', "DIAL") <=> In(toRild, "DIAL")) /\ (Once(toRild, {"DIAL"}) => Once(toRild', {"DIAL"}))
    <3>1. "GET_CURRENT_CALLS" \in Rild_t /\ "GET_CURRENT_CALLS" # "DIAL"
      BY <1>1
    <3>2. In(Append(toRild, "GET_CURRENT_CALLS"), "DIAL") <=> In(toRild, "DIAL")
      BY <1>1, <3>1, Put
    <3>3. Once(toRild, {"DIAL"}) => Once(Append(toRild, "GET_CURRENT_CALLS"), {"DIAL"})
      BY <1>1, <3>1, Put
    <3>4. CASE toRild' = toRild
      BY <3>4
    <3>5. CASE toRild' = Append(toRild, "GET_CURRENT_CALLS")
      BY <3>2, <3>3, <3>5
    <3> QED BY <2>1, <3>4, <3>5
  <2>3. Stage(st)'
    BY <1>2, <2>1, <2>2 DEF Stage
  <2> QED BY <2>3 DEF Staged
<1>7. CASE RildAnswers
  <2>1. /\ toRild # <<>> /\ toRild' = Tail(toRild)
        /\ UNCHANGED <<toHal, dialing, sending>>
    BY <1>7 DEF RildAnswers
  <2>2. /\ In(toRild, "DIAL") <=> Head(toRild) = "DIAL" \/ In(toRild', "DIAL")
        /\ Once(toRild, {"DIAL"}) => Once(toRild', {"DIAL"}) /\ (Head(toRild) = "DIAL" => ~ In(toRild', "DIAL"))
    BY <1>1, <2>1, Take
  <2>3. CASE Head(toRild) = "DIAL" /\ line' = "dialing" /\ UNCHANGED <<toClient, s_pCurrentCall>>
    <3>1. st = "rild"
      BY <1>2, <2>2, <2>3 DEF Stage
    <3>2. Stage("line")'
      BY <1>2, <2>1, <2>2, <2>3, <3>1 DEF Stage
    <3> QED BY <3>2 DEF Staged
  <2>4. CASE Head(toRild) = "DIAL" /\ sendHALResponse("DIAL_FAILED") /\ UNCHANGED <<line, s_pCurrentCall>>
    <3>1. st = "rild"
      BY <1>2, <2>2, <2>4 DEF Stage
    <3>2. toClient' = Append(toClient, "DIAL_FAILED")
      BY <2>4 DEF sendHALResponse
    <3>3. ~ In(toClient, "DIAL_OK") /\ ~ In(toClient, "DIAL_FAILED") /\ Once(toClient, Answers)
      BY <1>2, <3>1 DEF Stage
    <3>4. ~ In(toClient', "DIAL_OK") /\ Once(toClient', Answers)
      BY <1>1, <3>2, <3>3, Tell
    <3>5. Stage("failed")'
      BY <1>2, <2>1, <2>2, <2>4, <3>1, <3>4 DEF Stage
    <3> QED BY <3>5 DEF Staged
  <2>5. CASE /\ Head(toRild) = "GET_CURRENT_CALLS" /\ s_pCurrentCall' = line /\ line' = line
             /\ toClient' = toClient \o processCallStateChange(s_pCurrentCall, line)
    <3>1. (In(toRild', "DIAL") => In(toRild, "DIAL")) /\ (Once(toRild, {"DIAL"}) => Once(toRild', {"DIAL"}))
      BY <2>2
    <3>2. \/ /\ toClient' = Append(toClient, "NO_CARRIER") /\ line = "none"
          \/ /\ toClient' = Append(toClient, "DIAL_FAILED")
             /\ s_pCurrentCall = "dialing" /\ line = "none"
          \/ /\ toClient' = Append(toClient, "DIAL_OK")
             /\ s_pCurrentCall = "dialing" /\ line = "active"
          \/ toClient' = toClient
      <4>1. {"NO_CARRIER", "DIAL_FAILED", "DIAL_OK"} \subseteq Message_t
        BY <1>1
      <4> QED BY <1>1, <2>5, <4>1, PollReports
    <3>3. CASE toClient' = Append(toClient, "NO_CARRIER") /\ line = "none"
      <4>1. "NO_CARRIER" \notin Answers
        BY DEF Answers
      <4>2. /\ In(toClient', "DIAL_OK") <=> In(toClient, "DIAL_OK")
            /\ In(toClient', "DIAL_FAILED") <=> In(toClient, "DIAL_FAILED")
            /\ Once(toClient, Answers) => Once(toClient', Answers)
        BY <1>1, <3>3, <4>1, Tell
      <4>3. Stage(st)'
        BY <1>2, <2>1, <2>5, <3>1, <3>3, <4>2 DEF Stage
      <4> QED BY <4>3 DEF Staged
    <3>4. CASE toClient' = Append(toClient, "DIAL_FAILED") /\ s_pCurrentCall = "dialing" /\ line = "none"
      <4>1. st = "line"
        BY <1>2, <3>4 DEF Stage
      <4>2. ~ In(toClient, "DIAL_OK") /\ ~ In(toClient, "DIAL_FAILED") /\ Once(toClient, Answers)
        BY <1>2, <4>1 DEF Stage
      <4>3. ~ In(toClient', "DIAL_OK") /\ Once(toClient', Answers)
        BY <1>1, <3>4, <4>2, Tell
      <4>4. Stage("failed")'
        BY <1>2, <2>1, <2>5, <3>1, <3>4, <4>1, <4>3 DEF Stage
      <4> QED BY <4>4 DEF Staged
    <3>5. CASE toClient' = Append(toClient, "DIAL_OK") /\ s_pCurrentCall = "dialing" /\ line = "active"
      <4>1. st = "line"
        BY <1>2, <3>5 DEF Stage
      <4>2. ~ In(toClient, "DIAL_OK") /\ ~ In(toClient, "DIAL_FAILED") /\ Once(toClient, Answers)
        BY <1>2, <4>1 DEF Stage
      <4>3. ~ In(toClient', "DIAL_FAILED") /\ Once(toClient', Answers)
        BY <1>1, <3>5, <4>2, Tell
      <4>4. Stage("ok")'
        BY <1>2, <2>1, <2>5, <3>1, <3>5, <4>1, <4>3 DEF Stage
      <4> QED BY <4>4 DEF Staged
    <3>6. CASE toClient' = toClient
      <4>1. ~ (line = "dialing" /\ s_pCurrentCall = "active")
        BY <1>2 DEF Stage
      <4>2. Stage(st)'
        BY <1>2, <2>1, <2>5, <3>1, <3>6, <4>1 DEF Stage
      <4> QED BY <4>2 DEF Staged
    <3> QED BY <3>2, <3>3, <3>4, <3>5, <3>6
  <2>6. CASE /\ Head(toRild) = "HANGUP" /\ line' = "none" /\ s_pCurrentCall' = "none"
             /\ sendHALResponse("HANGUP")
    <3>1. (In(toRild', "DIAL") => In(toRild, "DIAL")) /\ (Once(toRild, {"DIAL"}) => Once(toRild', {"DIAL"}))
      BY <2>2
    <3>2. toClient' = Append(toClient, "HANGUP") /\ "HANGUP" \notin Answers
      BY <2>6 DEF sendHALResponse, Answers
    <3>3. /\ In(toClient', "DIAL_OK") <=> In(toClient, "DIAL_OK")
          /\ In(toClient', "DIAL_FAILED") <=> In(toClient, "DIAL_FAILED")
          /\ Once(toClient, Answers) => Once(toClient', Answers)
      BY <1>1, <3>2, Tell
    <3>4. Stage(st)'
      BY <1>2, <2>1, <2>6, <3>1, <3>3 DEF Stage
    <3> QED BY <3>4 DEF Staged
  <2> QED BY <1>7, <2>3, <2>4, <2>5, <2>6 DEF RildAnswers
<1>8. CASE TraceAnswers
  <2>1. UNCHANGED <<toHal, toRild, line, s_pCurrentCall, dialing, sending>>
    BY <1>8 DEF TraceAnswers, hal, flags
  <2>2. PICK r \in {"TRACE_START", "TRACE_STOP"} : toClient' = Append(toClient, r)
    <3>1. Head(toTrace) \in {"TRACE_START", "TRACE_STOP"}
      BY <1>8, LineTypes DEF TraceAnswers
    <3> QED BY <1>8, <3>1 DEF TraceAnswers, sendHALResponse
  <2>3. r \notin Answers /\ r # "DIAL_OK" /\ r # "DIAL_FAILED"
    BY <2>2 DEF Answers
  <2>4. /\ In(toClient', "DIAL_OK") <=> In(toClient, "DIAL_OK")
        /\ In(toClient', "DIAL_FAILED") <=> In(toClient, "DIAL_FAILED")
        /\ Once(toClient, Answers) => Once(toClient', Answers)
    BY <1>1, <2>2, <2>3, Tell
  <2>5. Stage(st)'
    BY <1>2, <2>1, <2>4 DEF Stage
  <2> QED BY <2>5 DEF Staged
<1>9. CASE LineChanges
  <2>1. /\ UNCHANGED <<toHal, toClient, toRild, s_pCurrentCall, dialing, sending>>
        /\ line # "none" /\ line' # "dialing"
    BY <1>9 DEF LineChanges, flags
  <2>2. Stage(st)'
    BY <1>2, <2>1 DEF Stage
  <2> QED BY <2>2 DEF Staged
<1> QED BY <1>3, <1>4, <1>5, <1>6, <1>7, <1>8, <1>9 DEF Hal

\* What rild's answer to a request does to the call and tells the client.
LEMMA RildOutcomes ==
  ASSUME TypeOK, RildAnswers
  PROVE  \/ /\ Head(toRild) = "DIAL" /\ line = "none" /\ line' = "dialing"
            /\ UNCHANGED <<toClient, s_pCurrentCall>>
         \/ /\ Head(toRild) = "DIAL" /\ toClient' = Append(toClient, "DIAL_FAILED")
            /\ UNCHANGED <<line, s_pCurrentCall>>
         \/ /\ Head(toRild) = "HANGUP" /\ toClient' = Append(toClient, "HANGUP")
            /\ line' = "none" /\ s_pCurrentCall' = "none"
         \/ /\ Head(toRild) = "GET_CURRENT_CALLS" /\ line' = line /\ s_pCurrentCall' = line
            /\ \/ /\ toClient' = Append(toClient, "NO_CARRIER")
                  /\ s_pCurrentCall = "active" /\ line = "none"
               \/ /\ toClient' = Append(toClient, "DIAL_FAILED")
                  /\ s_pCurrentCall = "dialing" /\ line = "none"
               \/ /\ toClient' = Append(toClient, "DIAL_OK")
                  /\ s_pCurrentCall = "dialing" /\ line = "active"
               \/ /\ toClient' = toClient
                  /\ s_pCurrentCall = "active" => line # "none"
<1>1. toClient \in Seq(Message_t) /\ {"NO_CARRIER", "DIAL_FAILED", "DIAL_OK"} \subseteq Message_t
  BY LineTypes
<1>2. ASSUME Head(toRild) = "GET_CURRENT_CALLS", s_pCurrentCall' = line, line' = line,
             toClient' = toClient \o processCallStateChange(s_pCurrentCall, line)
      PROVE  \/ /\ toClient' = Append(toClient, "NO_CARRIER")
                /\ s_pCurrentCall = "active" /\ line = "none"
             \/ /\ toClient' = Append(toClient, "DIAL_FAILED")
                /\ s_pCurrentCall = "dialing" /\ line = "none"
             \/ /\ toClient' = Append(toClient, "DIAL_OK")
                /\ s_pCurrentCall = "dialing" /\ line = "active"
             \/ /\ toClient' = toClient
                /\ s_pCurrentCall = "active" => line # "none"
  BY <1>1, <1>2, PollReports
<1> QED BY <1>2 DEF RildAnswers, sendHALResponse

\* The HAL does not lose the hangup that ends the telephone part of a task.
LEMMA LatestKept ==
  ASSUME TypeOK, Latest, Hal \/ LineChanges
  PROVE  Latest'
<1>1. /\ toHal \in Seq(Request_t) /\ toClient \in Seq(Message_t) /\ toRild \in Seq(Rild_t)
      /\ {"DIAL_OK", "DIAL_FAILED", "HANGUP", "NO_CARRIER", "TRACE_START", "TRACE_STOP"} \subseteq Message_t
      /\ {"DIAL", "HANGUP", "GET_CURRENT_CALLS"} \subseteq Rild_t
  BY LineTypes
<1>2. UNCHANGED hanup_latest
  BY DEF Hal, processHALCmd, dialThread, dialThread_sends, pollCurrentCallThread,
     RildAnswers, TraceAnswers, LineChanges, client
<1>3. SUFFICES ASSUME In(toHal, "HANGUP") \/ In(toRild, "HANGUP") \/ In(toClient, "HANGUP")
               PROVE  In(toHal', "HANGUP") \/ In(toRild', "HANGUP") \/ In(toClient', "HANGUP")
  BY <1>2 DEF Latest
<1>4. \A z \in Message_t : In(toClient, "HANGUP") => In(Append(toClient, z), "HANGUP")
  BY <1>1, Tell
<1>5. \A z \in Rild_t : In(toRild, "HANGUP") => In(Append(toRild, z), "HANGUP")
  BY <1>1, Put
<1>6. CASE processHALCmd
  <2>1. toHal # <<>> /\ toHal' = Tail(toHal) /\ toClient' = toClient
    BY <1>6 DEF processHALCmd
  <2>2. In(toHal, "HANGUP") <=> Head(toHal) = "HANGUP" \/ In(toHal', "HANGUP")
    BY <1>1, <2>1, Take
  <2>3. CASE Head(toHal) = "HANGUP"
    <3>1. toRild' = Append(toRild, "HANGUP")
      BY <1>6, <2>3 DEF processHALCmd
    <3> QED BY <1>1, <3>1, Put
  <2>4. CASE Head(toHal) # "HANGUP"
    <3>1. toRild' = toRild
      BY <1>6, <2>4 DEF processHALCmd
    <3> QED BY <1>3, <2>1, <2>2, <2>4, <3>1
  <2> QED BY <2>3, <2>4
<1>7. CASE dialThread \/ dialThread_sends \/ pollCurrentCallThread
  <2>1. UNCHANGED <<toHal, toClient>>
    BY <1>7 DEF dialThread, dialThread_sends, pollCurrentCallThread
  <2>2. toRild' = toRild \/ toRild' = Append(toRild, "DIAL") \/ toRild' = Append(toRild, "GET_CURRENT_CALLS")
    BY <1>7 DEF dialThread, dialThread_sends, pollCurrentCallThread, world
  <2>3. In(toRild, "HANGUP") => In(toRild', "HANGUP")
    BY <1>1, <1>5, <2>2
  <2> QED BY <1>3, <2>1, <2>3
<1>8. CASE RildAnswers
  <2>1. toRild # <<>> /\ toRild' = Tail(toRild) /\ toHal' = toHal
    BY <1>8 DEF RildAnswers
  <2>2. In(toRild, "HANGUP") <=> Head(toRild) = "HANGUP" \/ In(toRild', "HANGUP")
    BY <1>1, <2>1, Take
  <2>3. CASE Head(toRild) = "HANGUP"
    <3>1. toClient' = Append(toClient, "HANGUP")
      BY <1>8, <2>3 DEF RildAnswers, sendHALResponse
    <3> QED BY <1>1, <3>1, Tell
  <2>4. CASE Head(toRild) # "HANGUP"
    <3>1. \/ toClient' = toClient \/ toClient' = Append(toClient, "DIAL_FAILED")
          \/ toClient' = Append(toClient, "NO_CARRIER") \/ toClient' = Append(toClient, "DIAL_OK")
      BY <1>8, <2>4, RildOutcomes
    <3>2. In(toClient, "HANGUP") => In(toClient', "HANGUP")
      BY <1>1, <1>4, <3>1
    <3> QED BY <1>3, <2>1, <2>2, <2>4, <3>2
  <2> QED BY <2>3, <2>4
<1>9. CASE TraceAnswers
  <2>1. UNCHANGED <<toHal, toRild>> /\ toClient' = Append(toClient, Head(toTrace))
    BY <1>9 DEF TraceAnswers, hal, sendHALResponse
  <2>2. Head(toTrace) \in {"TRACE_START", "TRACE_STOP"}
    BY <1>9, LineTypes DEF TraceAnswers
  <2>3. In(toClient, "HANGUP") => In(toClient', "HANGUP")
    BY <1>1, <1>4, <2>1, <2>2
  <2> QED BY <1>3, <2>1, <2>3
<1>10. CASE LineChanges
  <2>1. UNCHANGED <<toHal, toRild, toClient>>
    BY <1>10 DEF LineChanges
  <2> QED BY <1>3, <2>1
<1> QED BY <1>6, <1>7, <1>8, <1>9, <1>10 DEF Hal

\* The HAL tells the client of the end of every call it has told of.
LEMMA OnlineKept ==
  ASSUME TypeOK, Staged, Online, Hal \/ LineChanges
  PROVE  Online'
<1>1. /\ toClient \in Seq(Message_t)
      /\ {"DIAL_OK", "DIAL_FAILED", "HANGUP", "NO_CARRIER", "TRACE_START", "TRACE_STOP"} \subseteq Message_t
  BY LineTypes
<1>2. UNCHANGED state
  BY DEF Hal, processHALCmd, dialThread, dialThread_sends, pollCurrentCallThread,
     RildAnswers, TraceAnswers, LineChanges, client
<1>3. /\ ~ (line = "dialing" /\ s_pCurrentCall = "active")
      /\ s_pCurrentCall \in {"none", "dialing", "active"} /\ line \in {"none", "dialing", "active"}
  BY LineTypes DEF Staged, Stage
<1>4. CASE UNCHANGED <<toClient, s_pCurrentCall>>
  BY <1>2, <1>4 DEF Online
<1>5. ASSUME NEW z \in Message_t, toClient' = Append(toClient, z), z # "DIAL_OK",
             UNCHANGED s_pCurrentCall \/ s_pCurrentCall # "active"
      PROVE  Online'
  <2>1. /\ In(toClient, "HANGUP") => In(toClient', "HANGUP")
        /\ In(toClient, "NO_CARRIER") => In(toClient', "NO_CARRIER")
        /\ Followed(toClient) => Followed(toClient')
    BY <1>1, <1>5, Tell
  <2> QED BY <1>2, <1>5, <2>1 DEF Online
<1>6. ASSUME NEW z \in Message_t, toClient' = Append(toClient, z), z \in {"HANGUP", "NO_CARRIER"}
      PROVE  Online'
  <2>1. (In(toClient', "HANGUP") \/ In(toClient', "NO_CARRIER")) /\ Followed(toClient')
    BY <1>1, <1>6, Tell DEF Ends
  <2> QED BY <2>1 DEF Online
<1>7. CASE processHALCmd \/ dialThread \/ dialThread_sends \/ pollCurrentCallThread \/ LineChanges
  <2>1. UNCHANGED <<toClient, s_pCurrentCall>>
    BY <1>7 DEF processHALCmd, dialThread, dialThread_sends, pollCurrentCallThread, LineChanges, flags
  <2> QED BY <1>4, <2>1
<1>8. CASE RildAnswers
  <2>1. CASE Head(toRild) = "DIAL" /\ UNCHANGED <<toClient, s_pCurrentCall>>
    BY <1>4, <2>1
  <2>2. CASE toClient' = Append(toClient, "DIAL_FAILED") /\ UNCHANGED s_pCurrentCall
    BY <1>1, <1>5, <2>2
  <2>3. CASE toClient' = Append(toClient, "HANGUP")
    BY <1>1, <1>6, <2>3
  <2>4. CASE toClient' = Append(toClient, "NO_CARRIER")
    BY <1>1, <1>6, <2>4
  <2>5. CASE toClient' = Append(toClient, "DIAL_FAILED") /\ s_pCurrentCall = "dialing"
    BY <1>1, <1>5, <2>5
  <2>6. CASE s_pCurrentCall' = line /\ line = "active"
    BY <2>6 DEF Online
  <2>7. CASE s_pCurrentCall' = line /\ toClient' = toClient /\ (s_pCurrentCall = "active" => line # "none")
    <3>1. s_pCurrentCall = "active" => s_pCurrentCall' = "active"
      BY <1>3, <2>7
    <3> QED BY <1>2, <2>7, <3>1 DEF Online
  <2> QED BY <1>8, <2>1, <2>2, <2>3, <2>4, <2>5, <2>6, <2>7, RildOutcomes
<1>9. CASE TraceAnswers
  <2>1. UNCHANGED s_pCurrentCall /\ toClient' = Append(toClient, Head(toTrace))
    BY <1>9 DEF TraceAnswers, hal, flags, sendHALResponse
  <2>2. Head(toTrace) \in {"TRACE_START", "TRACE_STOP"}
    BY <1>9, LineTypes DEF TraceAnswers
  <2> QED BY <1>1, <1>5, <2>1, <2>2
<1> QED BY <1>7, <1>8, <1>9 DEF Hal

\* In the HAL, in rild and in the network every call stays covered, waited for
\* or believed in.
LEMMA ReleasedKept ==
  ASSUME TypeOK, Staged, Released, Online, ~ DialRace, Hal \/ LineChanges
  PROVE  Released'
<1>1. /\ toHal \in Seq(Request_t) /\ toClient \in Seq(Message_t) /\ toRild \in Seq(Rild_t)
      /\ dialing \in Nat /\ sending \in Nat
      /\ s_pCurrentCall \in {"none", "dialing", "active"} /\ line \in {"none", "dialing", "active"}
      /\ {"DIAL_OK", "DIAL_FAILED", "HANGUP", "NO_CARRIER", "TRACE_START", "TRACE_STOP"} \subseteq Message_t
      /\ {"DIAL", "HANGUP", "GET_CURRENT_CALLS"} \subseteq Rild_t
  BY LineTypes
<1>2. UNCHANGED <<state, dial_deadline, hanup_latest, task, pos>>
  BY DEF Hal, processHALCmd, dialThread, dialThread_sends, pollCurrentCallThread,
     RildAnswers, TraceAnswers, LineChanges, client
<1>3. Late => Late'
  BY <1>2 DEF Late
<1>4. ASSUME Believes, UNCHANGED <<toHal, toTrace, toClient>> PROVE Believes'
  BY <1>2, <1>4 DEF Believes
<1>5. ASSUME Waiting, UNCHANGED <<toHal, toTrace>>, Only(toClient', Answers),
             ~ In(toRild', "HANGUP")
      PROVE  Waiting'
  BY <1>2, <1>5 DEF Waiting
<1>6. s_pCurrentCall = "active" =>
        ~ In(toHal, "DIAL") /\ ~ Dialing /\ sending = 0 /\ ~ In(toRild, "DIAL")
  BY DEF Staged, Stage, Dialing
<1>7. Believes => s_pCurrentCall = "active"
  BY EmptyQueue DEF Believes, Online
<1>8. CASE processHALCmd
  <2>1. /\ toHal # <<>> /\ toHal' = Tail(toHal) /\ sending = 0
        /\ UNCHANGED <<toClient, s_pCurrentCall, sending, line>>
    BY <1>8 DEF processHALCmd
  <2>2. /\ In(toHal, "DIAL") <=> Head(toHal) = "DIAL" \/ In(toHal', "DIAL")
        /\ LastOf(toHal, "HANGUP", "DIAL") =>
             LastOf(toHal', "HANGUP", "DIAL") \/ (Head(toHal) = "HANGUP" /\ ~ In(toHal', "DIAL"))
        /\ Only(toHal, {"DIAL"}) => Head(toHal) = "DIAL" /\ Only(toHal', {"DIAL"})
    BY <1>1, <2>1, Take
  <2>3. ~ Believes
    BY <2>1 DEF Believes
  <2>4. CASE Head(toHal) = "DIAL"
    <3>1. UNCHANGED <<toRild, toTrace>>
      BY <1>8, <2>4 DEF processHALCmd
    <3>2. Waiting => Waiting'
      BY <1>2, <2>1, <2>2, <3>1 DEF Waiting
    <3>3. Covered => Covered'
      BY <2>2, <2>4 DEF Covered
    <3>4. Up
      BY <2>2, <2>4 DEF Up
    <3> QED BY <1>3, <2>3, <3>2, <3>3, <3>4 DEF Released
  <2>5. CASE Head(toHal) = "HANGUP"
    <3>1. toRild' = Append(toRild, "HANGUP") /\ ~ Dialing'
      BY <1>8, <2>5 DEF processHALCmd, Dialing
    <3>2. LastOf(toRild', "HANGUP", "DIAL")
      BY <1>1, <3>1, Put
    <3>3. CASE ~ In(toHal', "DIAL")
      BY <2>1, <3>1, <3>2, <3>3 DEF Covered, Released
    <3>4. CASE In(toHal', "DIAL")
      <4>1. Up /\ ~ Waiting
        BY <2>2, <2>5, <3>4 DEF Up, Waiting
      <4>2. Covered => Covered'
        BY <2>2, <3>4 DEF Covered
      <4> QED BY <1>3, <2>3, <4>1, <4>2 DEF Released
    <3> QED BY <3>3, <3>4
  <2>6. CASE Head(toHal) \notin {"DIAL", "HANGUP"}
    <3>1. UNCHANGED <<toRild, s_pendingDialing, dialing>>
      BY <1>8, <2>6 DEF processHALCmd
    <3>2. Dialing' = Dialing
      BY <3>1 DEF Dialing
    <3>3. (Up' => Up) /\ ~ Waiting
      BY <2>1, <2>2, <2>6, <3>1, <3>2 DEF Up, Waiting
    <3>4. Covered => Covered'
      BY <2>1, <2>2, <2>6, <3>1, <3>2 DEF Covered
    <3> QED BY <1>3, <2>3, <3>3, <3>4 DEF Released
  <2> QED BY <2>4, <2>5, <2>6
<1>9. CASE dialThread
  <2>1. UNCHANGED <<toHal, toClient, toRild, toTrace, line>> /\ dialing > 0
    BY <1>9 DEF dialThread, world
  <2>2. CASE s_pendingDialing
    <3>1. Dialing
      BY <1>1, <2>1, <2>2 DEF Dialing
    <3>2. Up /\ (Covered => Covered')
      BY <2>1, <3>1 DEF Up, Covered
    <3>3. Waiting => Waiting'
      BY <1>5, <2>1 DEF Waiting
    <3> QED BY <1>3, <1>4, <2>1, <3>2, <3>3 DEF Released
  <2>3. CASE ~ s_pendingDialing
    <3>1. ~ Dialing /\ ~ Dialing' /\ sending' = sending
      BY <1>9, <2>3 DEF dialThread, Dialing
    <3>2. (Up' => Up) /\ (Covered => Covered')
      BY <2>1, <3>1 DEF Up, Covered
    <3>3. Waiting => Waiting'
      BY <1>5, <2>1 DEF Waiting
    <3> QED BY <1>3, <1>4, <2>1, <3>2, <3>3 DEF Released
  <2> QED BY <2>2, <2>3
<1>10. CASE dialThread_sends
  <2>1. UNCHANGED <<toHal, toClient, toTrace, line>> /\ toRild' = Append(toRild, "DIAL")
    BY <1>10 DEF dialThread_sends
  <2>2. sending # 0
    BY <1>10 DEF dialThread_sends
  <2>3. Up /\ (Covered => Covered')
    BY <2>1, <2>2 DEF Up, Covered
  <2>4. ~ In(toRild, "HANGUP") => ~ In(toRild', "HANGUP")
    BY <1>1, <2>1, Put
  <2>5. Waiting => Waiting'
    BY <1>5, <2>1, <2>4 DEF Waiting
  <2> QED BY <1>3, <1>4, <2>1, <2>3, <2>5 DEF Released
<1>11. CASE pollCurrentCallThread
  <2>1. /\ UNCHANGED <<toHal, toClient, toTrace, line, sending, dialing, s_pendingDialing>>
        /\ toRild' = toRild \/ toRild' = Append(toRild, "GET_CURRENT_CALLS")
    BY <1>11 DEF pollCurrentCallThread, flags
  <2>2. Dialing' = Dialing
    BY <2>1 DEF Dialing
  <2>3. "GET_CURRENT_CALLS" \in Rild_t /\ "GET_CURRENT_CALLS" # "DIAL" /\ "GET_CURRENT_CALLS" # "HANGUP"
    BY <1>1
  <2> DEFINE r == Append(toRild, "GET_CURRENT_CALLS")
  <2>4. (In(r, "DIAL") <=> In(toRild, "DIAL")) /\ (In(r, "HANGUP") <=> In(toRild, "HANGUP"))
    BY <1>1, <2>3, Put
  <2>5. LastOf(toRild, "HANGUP", "DIAL") => LastOf(r, "HANGUP", "DIAL")
    BY <1>1, <2>3, Put
  <2> HIDE DEF r
  <2>6. toRild' = toRild \/ toRild' = r
    BY <2>1 DEF r
  <2>7. /\ In(toRild', "DIAL") <=> In(toRild, "DIAL")
        /\ In(toRild', "HANGUP") <=> In(toRild, "HANGUP")
        /\ LastOf(toRild, "HANGUP", "DIAL") => LastOf(toRild', "HANGUP", "DIAL")
    BY <2>4, <2>5, <2>6
  <2>8. (Up' => Up) /\ (Covered => Covered')
    BY <2>1, <2>2, <2>7 DEF Up, Covered
  <2>9. Waiting => Waiting'
    BY <1>5, <2>1, <2>7 DEF Waiting
  <2> QED BY <1>3, <1>4, <2>1, <2>8, <2>9 DEF Released
<1>12. CASE RildAnswers
  <2>1. /\ toRild # <<>> /\ toRild' = Tail(toRild)
        /\ UNCHANGED <<toHal, toTrace, sending, dialing, s_pendingDialing>>
    BY <1>12 DEF RildAnswers
  <2>2. Dialing' = Dialing
    BY <2>1 DEF Dialing
  <2>3. /\ In(toRild, "DIAL") <=> Head(toRild) = "DIAL" \/ In(toRild', "DIAL")
        /\ In(toRild, "HANGUP") <=> Head(toRild) = "HANGUP" \/ In(toRild', "HANGUP")
        /\ LastOf(toRild, "HANGUP", "DIAL") =>
             LastOf(toRild', "HANGUP", "DIAL") \/ (Head(toRild) = "HANGUP" /\ ~ In(toRild', "DIAL"))
    BY <1>1, <2>1, Take
  <2>4. Head(toRild) # "HANGUP" => (Covered => Covered')
    BY <2>1, <2>2, <2>3 DEF Covered
  <2>5. Head(toRild) # "HANGUP" /\ (line' # "none" => Up) => (Up' => Up)
    BY <2>1, <2>2, <2>3 DEF Up
  <2>6. ASSUME s_pCurrentCall = "active", line' = "none" PROVE ~ Up'
    BY <1>6, <2>1, <2>2, <2>3, <2>6 DEF Up
  <2>7. CASE Head(toRild) = "DIAL" /\ line' = "dialing" /\ toClient' = toClient
    <3>1. Up
      BY <2>3, <2>7 DEF Up
    <3>2. Waiting => Waiting'
      BY <1>5, <2>1, <2>3, <2>7 DEF Waiting
    <3> QED BY <1>3, <1>4, <2>1, <2>4, <2>7, <3>1, <3>2 DEF Released
  <2>8. CASE /\ toClient' = Append(toClient, "DIAL_FAILED") /\ line' = line
             /\ Head(toRild) # "HANGUP" /\ s_pCurrentCall # "active"
    <3>1. Up' => Up
      BY <2>5, <2>8 DEF Up
    <3>2. ASSUME Waiting PROVE Waiting'
      <4>1. Only(toClient', Answers)
        BY <1>1, <2>8, <3>2, Tell DEF Waiting, Answers
      <4> QED BY <1>5, <2>1, <2>3, <3>2, <4>1 DEF Waiting
    <3> QED BY <1>3, <1>7, <2>4, <2>8, <3>1, <3>2 DEF Released
  <2>9. CASE Head(toRild) = "HANGUP" /\ line' = "none"
    <3>1. ~ Waiting
      BY <2>3, <2>9 DEF Waiting
    <3>2. ASSUME Covered, Up' PROVE Covered'
      <4>1. CASE LastOf(toHal, "HANGUP", "DIAL")
        BY <2>1, <4>1 DEF Covered
      <4>2. CASE /\ LastOf(toRild, "HANGUP", "DIAL")
                 /\ ~ In(toHal, "DIAL") /\ ~ Dialing /\ sending = 0
        BY <2>1, <2>2, <2>3, <2>9, <3>2, <4>2 DEF Covered, Up
      <4> QED BY <3>2, <4>1, <4>2 DEF Covered
    <3>3. Up' => Up
      BY <2>1, <2>2, <2>3, <2>9 DEF Up
    <3>4. Believes => ~ Up'
      BY <1>7, <2>6, <2>9
    <3> QED BY <1>3, <3>1, <3>2, <3>3, <3>4 DEF Released
  <2>10. CASE s_pCurrentCall = "active" /\ line' = "none"
    BY <2>6, <2>10 DEF Released
  <2>11. CASE /\ Head(toRild) # "HANGUP" /\ toClient' = Append(toClient, "DIAL_OK")
              /\ s_pCurrentCall = "dialing" /\ line' = line
    <3>1. Up' => Up
      BY <2>5, <2>11 DEF Up
    <3>2. ASSUME Waiting PROVE Waiting'
      <4>1. Only(toClient', Answers)
        BY <1>1, <2>11, <3>2, Tell DEF Waiting, Answers
      <4> QED BY <1>5, <2>1, <2>3, <3>2, <4>1 DEF Waiting
    <3> QED BY <1>3, <1>7, <2>4, <2>11, <3>1, <3>2 DEF Released
  <2>12. CASE Head(toRild) # "HANGUP" /\ toClient' = toClient /\ line' = line
    <3>1. Up' => Up
      BY <2>5, <2>12 DEF Up
    <3>2. Waiting => Waiting'
      BY <1>5, <2>1, <2>3, <2>12 DEF Waiting
    <3> QED BY <1>3, <1>4, <2>1, <2>4, <2>12, <3>1, <3>2 DEF Released
  <2>13. Head(toRild) = "DIAL" => s_pCurrentCall # "active"
    BY <1>6, <2>3
  <2> QED BY <1>12, <2>7, <2>8, <2>9, <2>10, <2>11, <2>12, <2>13, RildOutcomes
<1>13. CASE TraceAnswers
  <2>1. /\ UNCHANGED <<toHal, toRild, line, dialing, sending, s_pendingDialing>>
        /\ toTrace # <<>>
    BY <1>13 DEF TraceAnswers, hal, flags
  <2>2. Dialing' = Dialing
    BY <2>1 DEF Dialing
  <2>3. (Up' => Up) /\ (Covered => Covered') /\ ~ Waiting /\ ~ Believes
    BY <2>1, <2>2 DEF Up, Covered, Waiting, Believes
  <2> QED BY <1>3, <2>3 DEF Released
<1>14. CASE LineChanges
  <2>1. /\ UNCHANGED <<toHal, toClient, toRild, toTrace, dialing, sending, s_pendingDialing>>
        /\ line # "none"
    BY <1>14 DEF LineChanges, flags
  <2>2. Dialing' = Dialing
    BY <2>1 DEF Dialing
  <2>3. Up /\ (Covered => Covered')
    BY <2>1, <2>2 DEF Up, Covered
  <2>4. Waiting => Waiting'
    BY <1>5, <2>1 DEF Waiting
  <2> QED BY <1>3, <1>4, <2>1, <2>3, <2>4 DEF Released
<1> QED BY <1>8, <1>9, <1>10, <1>11, <1>12, <1>13, <1>14 DEF Hal

\* What the client does with its two queues when it does not dial does not
\* touch the dial on its way.
LEMMA WorldStands ==
  ASSUME Existing, Polled, Staged, UNCHANGED <<hal, world>>,
         In(toHal', "DIAL") <=> In(toHal, "DIAL"),
         Once(toHal, {"DIAL"}) => Once(toHal', {"DIAL"}),
         In(toClient', "DIAL_OK") => In(toClient, "DIAL_OK"),
         In(toClient', "DIAL_FAILED") => In(toClient, "DIAL_FAILED"),
         Once(toClient, Answers) => Once(toClient', Answers)
  PROVE  /\ Existing' /\ Polled' /\ Staged'
         /\ Up' <=> Up
         /\ Dialing' <=> Dialing
         /\ Covered /\ (LastOf(toHal, "HANGUP", "DIAL") => LastOf(toHal', "HANGUP", "DIAL")) => Covered'
<1>1. UNCHANGED <<s_pendingDialing, s_existCall, s_pCurrentCall, dialing, sending, polling, toRild, line, toTrace>>
  BY DEF hal, flags, world
<1>2. Dialing' <=> Dialing
  BY <1>1 DEF Dialing
<1>3. Existing' /\ Polled'
  BY <1>1 DEF Existing, Polled
<1>4. PICK st : Stage(st)
  BY DEF Staged
<1>5. Stage(st)'
  BY <1>1, <1>4 DEF Stage
<1>6. Staged'
  BY <1>5 DEF Staged
<1>7. Up' <=> Up
  BY <1>1, <1>2 DEF Up
<1>8. Covered /\ (LastOf(toHal, "HANGUP", "DIAL") => LastOf(toHal', "HANGUP", "DIAL")) => Covered'
  BY <1>1, <1>2 DEF Covered
<1> QED BY <1>2, <1>3, <1>6, <1>7, <1>8

\* A request that is not a dial.
LEMMA RequestStands ==
  ASSUME TypeOK, Existing, Polled, Staged, Latest, UNCHANGED <<hal, world, toClient>>,
         NEW z \in Request_t, z # "DIAL", toHal' = Append(toHal, z)
  PROVE  /\ Existing' /\ Polled' /\ Staged'
         /\ Up' <=> Up
         /\ Covered => Covered'
         /\ z = "HANGUP" => Covered'
         /\ UNCHANGED hanup_latest => Latest'
<1>1. /\ In(toHal', "DIAL") <=> In(toHal, "DIAL")
      /\ Once(toHal, {"DIAL"}) => Once(toHal', {"DIAL"})
      /\ LastOf(toHal, "HANGUP", "DIAL") => LastOf(toHal', "HANGUP", "DIAL")
      /\ z = "HANGUP" => LastOf(toHal', "HANGUP", "DIAL")
      /\ In(toHal, "HANGUP") => In(toHal', "HANGUP")
  <2>1. toHal \in Seq(Request_t)
    BY LineTypes
  <2> QED BY <2>1, Put
<1>2. Existing' /\ Polled' /\ Staged' /\ (Up' <=> Up) /\ (Covered => Covered')
  BY <1>1, WorldStands
<1>3. z = "HANGUP" => Covered'
  BY <1>1 DEF Covered
<1>4. UNCHANGED hanup_latest => Latest'
  BY <1>1 DEF Latest, world
<1> QED BY <1>2, <1>3, <1>4

\* Stopping a task covers its call, unless the timer has passed: then the
\* client comes to it before it reads the answers of core.
LEMMA StopKept ==
  ASSUME LInv, StopTask
  PROVE  (Existing /\ Polled /\ Staged /\ Latest /\ Released /\ Online)'
<1>1. /\ toHal \in Seq(Request_t)
      /\ {"DIAL", "HANGUP", "TRACE_START", "TRACE_STOP"} \subseteq Request_t
  BY LineTypes DEF LInv
<1>2. /\ UNCHANGED <<toClient, hal, world>> /\ pos \in {"queue", "select", "ground"}
      /\ pos' = Ground /\ stop_trace
  BY DEF StopTask
<1>3. TypeOK /\ Existing /\ Polled /\ Staged /\ Latest /\ Released /\ Online
  BY DEF LInv
<1>4. CASE HangsUpToStop
  <2>1. hanup_latest' = TRUE /\ state' = "WAIT"
    BY <1>2, <1>4 DEF stop_trace, update_tele_state
  <2> DEFINE h == Append(toHal, "HANGUP")
             s == Append(h, "TRACE_STOP")
  <2>2. toHal' = s
    BY <1>2, <1>4 DEF stop_trace, Request
  <2>3. "HANGUP" \in Request_t /\ "TRACE_STOP" \in Request_t /\ "TRACE_STOP" # "DIAL" /\ "HANGUP" # "DIAL"
    BY <1>1
  <2>4. /\ h \in Seq(Request_t)
        /\ In(h, "DIAL") <=> In(toHal, "DIAL")
        /\ Once(toHal, {"DIAL"}) => Once(h, {"DIAL"})
        /\ LastOf(h, "HANGUP", "DIAL") /\ In(h, "HANGUP")
    BY <1>1, <2>3, Put
  <2> HIDE DEF h
  <2>5. /\ In(s, "DIAL") <=> In(h, "DIAL")
        /\ Once(h, {"DIAL"}) => Once(s, {"DIAL"})
        /\ LastOf(h, "HANGUP", "DIAL") => LastOf(s, "HANGUP", "DIAL")
        /\ In(h, "HANGUP") => In(s, "HANGUP")
    BY <2>3, <2>4, Put
  <2> HIDE DEF s
  <2>6. Existing' /\ Polled' /\ Staged'
    BY <1>2, <1>3, <2>2, <2>4, <2>5, WorldStands
  <2>7. Covered'
    BY <2>2, <2>4, <2>5 DEF Covered
  <2>8. Latest' /\ Released'
    BY <2>2, <2>4, <2>5, <2>7 DEF Latest, Released
  <2>9. Online'
    BY <1>2, <1>3, <2>1 DEF Online, hal, flags
  <2> QED BY <2>6, <2>8, <2>9
<1>5. CASE ~ HangsUpToStop
  <2>1. /\ UNCHANGED <<hanup_latest, state, dial_deadline>>
        /\ toHal' = Append(toHal, "TRACE_STOP")
    BY <1>2, <1>5 DEF stop_trace, Request
  <2>2. "TRACE_STOP" \in Request_t /\ "TRACE_STOP" # "DIAL"
    BY <1>1
  <2>3. Existing' /\ Polled' /\ Staged' /\ Latest' /\ (Up' <=> Up) /\ (Covered => Covered')
    BY <1>2, <1>3, <2>1, <2>2, RequestStands
  <2>4. ~ Believes
    BY <1>5 DEF HangsUpToStop, Believes
  <2>5. pos' \in {"queue", "ground"} /\ (pos \in {"queue", "interval", "ground"} => pos' = pos)
    BY <1>2 DEF Ground
  <2>6. Waiting => Late'
    <3>1. dial_deadline \in {"off", "running", "passed"}
      BY <1>3 DEF TypeOK
    <3> QED BY <1>5, <2>1, <2>5, <3>1 DEF Waiting, Late, HangsUpToStop
  <2>7. Late => Late'
    BY <2>1, <2>5 DEF Late
  <2>8. Released'
    BY <1>3, <2>3, <2>4, <2>6, <2>7 DEF Released
  <2>9. Online'
    BY <1>2, <1>3, <2>1 DEF Online, hal, flags
  <2> QED BY <2>3, <2>8, <2>9
<1> QED BY <1>4, <1>5

\* A call is dialled only when nothing is on its way and there is no call, and
\* a call that has lasted long enough is covered.
LEMMA CheckKept ==
  ASSUME Punctual, LInv, check_and_process_local_task
  PROVE  (Existing /\ Polled /\ Staged /\ Latest /\ Released /\ Online)'
<1>1. /\ toHal \in Seq(Request_t)
      /\ {"DIAL", "HANGUP", "TRACE_START", "TRACE_STOP"} \subseteq Request_t
  BY LineTypes DEF LInv
<1>2. UNCHANGED <<toClient, hal, world, hanup_latest, task>> /\ pos = "queue" /\ pos' = "interval"
  BY DEF check_and_process_local_task
<1>3. TypeOK /\ Existing /\ Polled /\ Staged /\ Latest /\ Released /\ Online
  BY DEF LInv
<1>4. UNCHANGED <<toRild, line, toTrace, s_pCurrentCall>>
  BY <1>2 DEF hal, flags, world
<1>5. CASE UNCHANGED <<state, dial_first, dial_deadline, toHal>>
  <2>1. Existing' /\ Polled' /\ Staged' /\ (Up' <=> Up) /\ (Covered => Covered')
    BY <1>2, <1>3, <1>5, WorldStands
  <2>2. (Waiting => Waiting') /\ (Late => Late') /\ (Believes => Believes')
    BY <1>2, <1>4, <1>5 DEF Waiting, Late, Believes
  <2>3. Latest' /\ Online'
    BY <1>2, <1>3, <1>4, <1>5 DEF Latest, Online
  <2> QED BY <1>3, <2>1, <2>2, <2>3 DEF Released
<1>6. ASSUME state = "IDLE", state' = "WAIT", toHal' = Append(toHal, "TRACE_START")
      PROVE  (Existing /\ Polled /\ Staged /\ Latest /\ Released /\ Online)'
  <2>1. "TRACE_START" \in Request_t /\ "TRACE_START" # "DIAL"
    BY <1>1
  <2>2. Existing' /\ Polled' /\ Staged' /\ Latest' /\ (Up' <=> Up) /\ (Covered => Covered')
    BY <1>2, <1>3, <1>6, <2>1, RequestStands
  <2>3. ~ Waiting /\ ~ Late /\ ~ Believes
    BY <1>6 DEF Waiting, Late, Believes
  <2>4. Online'
    BY <1>2, <1>3, <1>4, <1>6 DEF Online
  <2> QED BY <1>3, <2>2, <2>3, <2>4 DEF Released
<1>7. ASSUME state' = "WAIT", toHal' = Append(toHal, "HANGUP")
      PROVE  (Existing /\ Polled /\ Staged /\ Latest /\ Released /\ Online)'
  <2>1. "HANGUP" \in Request_t /\ "HANGUP" # "DIAL"
    BY <1>1
  <2>2. Existing' /\ Polled' /\ Staged' /\ Latest' /\ Covered'
    BY <1>2, <1>3, <1>7, <2>1, RequestStands
  <2>3. Online'
    BY <1>2, <1>3, <1>4, <1>7 DEF Online
  <2> QED BY <2>2, <2>3 DEF Released
<1>8. ASSUME NEW t \in Kinds, task # NULL, state = "OFFLINE", Settled => Quiet,
             state' = "WAIT", dial_tele0(t)
      PROVE  (Existing /\ Polled /\ Staged /\ Latest /\ Released /\ Online)'
  <2>1. /\ toHal = <<>> /\ toClient = <<>> /\ toRild = <<>> /\ toTrace = <<>>
        /\ dialing = 0 /\ sending = 0 /\ polling = 0
    BY <1>8 DEF Punctual, Quiet
  <2>2. /\ \A x : ~ In(<<>>, x)
        /\ ~ LastOf(<<>>, "HANGUP", "DIAL")
        /\ Only(<<>>, {"DIAL"}) /\ Once(<<>>, {"DIAL"})
        /\ Only(<<>>, Answers) /\ Once(<<>>, Answers)
    BY EmptyQueue
  <2>3. ~ Covered /\ ~ Waiting /\ ~ Late /\ ~ Believes
    BY <1>8, <2>1, <2>2 DEF Covered, Waiting, Late, Believes
  <2>4. line = "none" /\ s_pCurrentCall = "none"
    BY <1>3, <2>1, <2>2, <2>3 DEF Released, Up, Polled
  <2>5. ~ hanup_latest
    BY <1>3, <2>1, <2>2 DEF Latest
  <2>6. toHal' = Append(toHal, "DIAL") /\ dial_deadline' = "running"
    BY <1>8 DEF dial_tele0, Request, set_dial_timer, Punctual
  <2>7. Once(toHal', {"DIAL"}) /\ Only(toHal', {"DIAL"})
    <3>1. "DIAL" \in Request_t /\ ~ In(toHal, "DIAL") /\ Once(toHal, {"DIAL"}) /\ Only(toHal, {"DIAL"})
      BY <1>1, <2>1, <2>2
    <3> QED BY <1>1, <2>6, <3>1, Put
  <2>8. UNCHANGED <<dialing, sending, polling, s_existCall>>
    BY <1>2 DEF hal, flags
  <2>9. Stage("hal")'
    BY <1>2, <1>4, <2>1, <2>2, <2>4, <2>7, <2>8 DEF Stage
  <2>10. Existing' /\ Polled' /\ Latest'
    BY <1>2, <1>3, <1>4, <2>4, <2>5, <2>8 DEF Existing, Polled, Latest
  <2>11. Waiting'
    BY <1>2, <1>4, <1>8, <2>1, <2>2, <2>5, <2>6, <2>7 DEF Waiting
  <2>12. Online'
    BY <1>2, <1>3, <1>4, <1>8 DEF Online
  <2> QED BY <2>9, <2>10, <2>11, <2>12 DEF Released, Staged
<1>9. ASSUME task # NULL, NEW due \in BOOLEAN, Act(task, due)
      PROVE  (Existing /\ Polled /\ Staged /\ Latest /\ Released /\ Online)'
  <2>1. task \in Kinds
    BY <1>3, <1>9 DEF TypeOK
  <2>2. \/ state = "IDLE" /\ state' = "WAIT" /\ toHal' = Append(toHal, "TRACE_START")
        \/ state = "OFFLINE" /\ (Settled => Quiet) /\ state' = "WAIT" /\ dial_tele0(task)
        \/ state' = "WAIT" /\ toHal' = Append(toHal, "HANGUP")
    BY <1>9 DEF Act, update_tele_state, Request
  <2> QED BY <1>6, <1>7, <1>8, <1>9, <2>1, <2>2
<1> QED BY <1>5, <1>9 DEF check_and_process_local_task

\* A dial that has taken too long is covered.
LEMMA TimerKept ==
  ASSUME LInv, get_local_hungup_timeout_interval
  PROVE  (Existing /\ Polled /\ Staged /\ Latest /\ Released /\ Online)'
<1>1. "HANGUP" \in Request_t /\ "HANGUP" # "DIAL"
  BY LineTypes DEF LInv
<1>2. UNCHANGED <<toClient, hal, world, hanup_latest, task, state>> /\ pos' = "select"
  BY DEF get_local_hungup_timeout_interval
<1>3. TypeOK /\ Existing /\ Polled /\ Staged /\ Latest /\ Released /\ Online
  BY DEF LInv
<1>4. UNCHANGED <<toRild, line, toTrace, s_pCurrentCall>>
  BY <1>2 DEF hal, flags, world
<1>5. Online'
  BY <1>2, <1>3, <1>4 DEF Online
<1>6. CASE toHal' = Append(toHal, "HANGUP")
  <2>1. Existing' /\ Polled' /\ Staged' /\ Latest' /\ Covered'
    BY <1>1, <1>2, <1>3, <1>6, RequestStands
  <2> QED BY <1>5, <2>1 DEF Released
<1>7. CASE dial_deadline # "passed" /\ UNCHANGED <<dial_deadline, toHal>>
  <2>1. Existing' /\ Polled' /\ Staged' /\ (Up' <=> Up) /\ (Covered => Covered')
    BY <1>2, <1>3, <1>7, WorldStands
  <2>2. (Waiting => Waiting') /\ ~ Late /\ (Believes => Believes')
    BY <1>2, <1>4, <1>7 DEF Waiting, Late, Believes
  <2>3. Latest'
    BY <1>2, <1>3, <1>4, <1>7 DEF Latest
  <2> QED BY <1>3, <1>5, <2>1, <2>2, <2>3 DEF Released
<1> QED BY <1>6, <1>7 DEF get_local_hungup_timeout_interval, Request

\* When the client hears that the call is accepted it is the only news of it,
\* and the client believes in the call; of every other answer there is no call
\* left to wait for.
LEMMA EventKept ==
  ASSUME Punctual, LInv, process_local_event
  PROVE  (Existing /\ Polled /\ Staged /\ Latest /\ Released /\ Online)'
<1> DEFINE m == Head(toClient)
<1>1. TypeOK /\ Existing /\ Polled /\ Staged /\ Latest /\ Released /\ Online
  BY DEF LInv
<1>2. /\ pos \notin {"queue", "interval", "ground"} /\ toClient # <<>> /\ toClient' = Tail(toClient)
      /\ UNCHANGED <<task, toHal, hal, world>>
  BY DEF process_local_event, Punctual
<1>3. UNCHANGED <<toRild, line, toTrace, s_pCurrentCall>>
  BY <1>2 DEF hal, flags, world
<1>4. toClient \in Seq(Message_t)
  BY <1>1, LineTypes
<1>5. /\ In(toClient, "DIAL_OK") <=> m = "DIAL_OK" \/ In(toClient', "DIAL_OK")
      /\ In(toClient, "DIAL_FAILED") <=> m = "DIAL_FAILED" \/ In(toClient', "DIAL_FAILED")
      /\ In(toClient, "HANGUP") <=> m = "HANGUP" \/ In(toClient', "HANGUP")
      /\ In(toClient, "NO_CARRIER") <=> m = "NO_CARRIER" \/ In(toClient', "NO_CARRIER")
      /\ Once(toClient, Answers) => Once(toClient', Answers)
      /\ Once(toClient, Answers) /\ Only(toClient, Answers) => toClient' = <<>>
      /\ Only(toClient, Answers) => m \in Answers
      /\ Followed(toClient) => Followed(toClient')
      /\ Followed(toClient) /\ m = "DIAL_OK" => In(toClient', "HANGUP") \/ In(toClient', "NO_CARRIER")
  BY <1>2, <1>4, Heard
<1>6. Existing' /\ Polled' /\ Staged' /\ (Up' <=> Up) /\ (Covered => Covered')
  BY <1>1, <1>2, <1>5, WorldStands
<1>7. ~ Late /\ ~ Believes
  BY <1>2 DEF Late, Believes
<1>8. PICK st : Stage(st)
  BY <1>1 DEF Staged
<1>9. CASE m = "DIAL_OK"
  <2>1. /\ state' = IF hanup_latest THEN "IDLE" ELSE "ONLINE"
        /\ hanup_latest' = FALSE /\ dial_deadline' = "off"
    BY <1>9 DEF process_local_event, After, update_tele_state
  <2>2. Latest'
    BY <2>1 DEF Latest
  <2>3. Online'
    BY <1>1, <1>3, <1>5, <1>9 DEF Online
  <2>4. ASSUME Waiting PROVE Believes'
    <3>1. ~ hanup_latest /\ task # NULL /\ Only(toHal, {"DIAL"}) /\ toTrace = <<>> /\ Only(toClient, Answers)
      BY <2>4 DEF Waiting
    <3>2. st = "ok" /\ Once(toClient, Answers)
      BY <1>5, <1>8, <1>9 DEF Stage
    <3>3. ~ In(toHal, "DIAL")
      BY <1>8, <3>2 DEF Stage
    <3>4. toHal = <<>>
      <4>1. toHal \in Seq(Request_t) /\ \A x \in {"DIAL"} : ~ In(toHal, x)
        BY <1>1, <3>3, LineTypes
      <4> QED BY <3>1, <4>1, NothingIn
    <3>5. toClient' = <<>>
      BY <1>5, <3>1, <3>2
    <3> QED BY <1>2, <1>3, <2>1, <3>1, <3>4, <3>5 DEF Believes
  <2> QED BY <1>1, <1>6, <1>7, <2>2, <2>3, <2>4 DEF Released
<1>10. CASE m = "DIAL_FAILED"
  <2>1. state' \in {"IDLE", "OFFLINE"} /\ hanup_latest' = FALSE
    BY <1>10 DEF process_local_event, After, update_tele_state
  <2>2. Latest' /\ Online'
    BY <1>1, <1>3, <1>5, <2>1 DEF Latest, Online
  <2>3. st = "failed"
    BY <1>5, <1>8, <1>10 DEF Stage
  <2>4. ~ Up
    BY <1>8, <2>3 DEF Stage, Up, Dialing
  <2> QED BY <1>6, <2>2, <2>4 DEF Released
<1>11. CASE m \notin Answers
  <2>1. ~ Waiting
    BY <1>5, <1>11 DEF Waiting
  <2>2. /\ state' # "ONLINE"
        /\ hanup_latest' => hanup_latest /\ m # "HANGUP"
    <3>1. CASE m = "HANGUP"
      BY <3>1 DEF process_local_event, After, update_tele_state
    <3>2. CASE m # "HANGUP"
      BY <1>11, <3>2 DEF process_local_event, update_tele_state, Answers
    <3> QED BY <3>1, <3>2
  <2>3. Latest'
    BY <1>1, <1>2, <1>3, <1>5, <2>2 DEF Latest
  <2>4. Online'
    BY <1>1, <1>3, <1>5, <2>2 DEF Online
  <2> QED BY <1>1, <1>6, <1>7, <2>1, <2>3, <2>4 DEF Released
<1> QED BY <1>9, <1>10, <1>11 DEF Answers

\* A task that is started, a new round of the loop and the time change nothing
\* of the line.
LEMMA OtherKept ==
  ASSUME LInv, StartTask \/ NextRound \/ Timeout
  PROVE  (Existing /\ Polled /\ Staged /\ Latest /\ Released /\ Online)'
<1>1. TypeOK /\ Existing /\ Polled /\ Staged /\ Latest /\ Released /\ Online
  BY DEF LInv
<1>2. UNCHANGED <<toHal, toClient, hal, world, state, hanup_latest>>
  BY DEF StartTask, NextRound, Timeout
<1>3. UNCHANGED <<toRild, line, toTrace, s_pCurrentCall>>
  BY <1>2 DEF hal, flags, world
<1>4. Existing' /\ Polled' /\ Staged' /\ (Up' <=> Up) /\ (Covered => Covered')
  BY <1>1, <1>2, WorldStands
<1>5. Latest' /\ Online'
  BY <1>1, <1>2, <1>3 DEF Latest, Online
<1>6. CASE StartTask
  <2>1. ~ Waiting /\ ~ Believes
    BY <1>6 DEF StartTask, Waiting, Believes
  <2>2. Late => Late'
    BY <1>6 DEF StartTask, Late, Ground
  <2> QED BY <1>1, <1>4, <1>5, <2>1, <2>2 DEF Released
<1>7. CASE NextRound
  <2>1. UNCHANGED <<task, dial_deadline>> /\ pos' = "queue"
    BY <1>7 DEF NextRound
  <2>2. (Waiting => Waiting') /\ (Late => Late') /\ (Believes => Believes')
    BY <1>2, <1>3, <2>1 DEF Waiting, Late, Believes
  <2> QED BY <1>1, <1>4, <1>5, <2>2 DEF Released
<1>8. CASE Timeout
  <2>1. UNCHANGED task /\ dial_deadline = "running" /\ dial_deadline' = "passed"
    BY <1>8 DEF Timeout
  <2>2. (Waiting => Waiting') /\ ~ Late /\ ~ Believes
    BY <1>2, <1>3, <2>1 DEF Waiting, Late, Believes
  <2> QED BY <1>1, <1>4, <1>5, <2>2 DEF Released
<1> QED BY <1>6, <1>7, <1>8

\* Every call has a hangup behind it, or a client that waits or knows of it,
\* and the client knows of no call that is not there: LInv holds.
THEOREM LineInvariance == Punctual => (Spec => []LInv)
<1> SUFFICES ASSUME Punctual PROVE Spec => []LInv
  OBVIOUS
<1>1. ASSUME Init PROVE Existing /\ Polled /\ Staged /\ Latest /\ Released /\ Online
  <2>1. /\ \A x : ~ In(<<>>, x)
        /\ Once(<<>>, {"DIAL"}) /\ Once(<<>>, Answers) /\ Followed(<<>>)
    BY EmptyQueue
  <2>2. /\ toHal = <<>> /\ toClient = <<>> /\ toRild = <<>> /\ line = "none" /\ s_pCurrentCall = "none"
        /\ dialing = 0 /\ sending = 0 /\ state = "IDLE" /\ ~ hanup_latest
    BY <1>1 DEF Init
  <2>3. Stage("none")
    BY <2>1, <2>2 DEF Stage
  <2>4. ~ Up
    BY <2>1, <2>2 DEF Up, Dialing
  <2> QED BY <2>1, <2>2, <2>3, <2>4 DEF Existing, Polled, Staged, Latest, Released, Online
<1>2. TypeOK /\ LInv /\ [Next]_vars /\ TypeOK' => LInv'
  <2> SUFFICES ASSUME LInv, [Next]_vars, TypeOK' PROVE LInv'
    OBVIOUS
  <2>1. SUFFICES (Existing /\ Polled /\ Staged /\ Latest /\ Released /\ Online)'
    BY DEF LInv
  <2>2. TypeOK /\ Existing /\ Polled /\ Staged /\ Latest /\ Released /\ Online
    BY DEF LInv
  <2>3. CASE StartTask \/ NextRound \/ Timeout
    BY <2>3, OtherKept
  <2>4. CASE StopTask
    BY <2>4, StopKept
  <2>5. CASE check_and_process_local_task
    BY <2>5, CheckKept
  <2>6. CASE get_local_hungup_timeout_interval
    BY <2>6, TimerKept
  <2>7. CASE process_local_event
    BY <2>7, EventKept
  <2>8. CASE Hal \/ LineChanges
    <3>1. ~ DialRace
      BY DEF Punctual
    <3> QED BY <2>2, <2>8, <3>1, PolledKept, StagedKept, LatestKept, ReleasedKept, OnlineKept
  <2>9. CASE UNCHANGED vars
    <3>1. UNCHANGED <<client, toHal, toClient, hal, world>>
      BY <2>9 DEF vars
    <3>2. Existing' /\ Polled' /\ Staged' /\ (Up' <=> Up) /\ (Covered => Covered')
      BY <2>2, <3>1, WorldStands
    <3>3. /\ Latest' /\ Online'
          /\ (Waiting => Waiting') /\ (Late => Late') /\ (Believes => Believes')
      BY <2>2, <3>1 DEF client, hal, flags, world, Latest, Online, Waiting, Late, Believes
    <3> QED BY <2>2, <3>2, <3>3 DEF Released
  <2> QED BY <2>3, <2>4, <2>5, <2>6, <2>7, <2>8, <2>9 DEF Next, Client
<1>3. Init /\ TypeOK => LInv
  BY <1>1 DEF LInv
<1> QED BY <1>2, <1>3, TypeCorrect, PTL DEF Spec

\* LineReleased: when the task is over, the timer is off and nothing is on its
\* way, the line is free.
THEOREM LineIsReleased == Punctual => (Spec => []LineReleased)
<1>1. LInv => LineReleased
  <2> SUFFICES ASSUME LInv, task = NULL, Quiet, dial_deadline = "off" PROVE line = "none"
    BY DEF LineReleased
  <2>1. toHal = <<>> /\ toRild = <<>>
    BY DEF Quiet
  <2>2. ~ LastOf(<<>>, "HANGUP", "DIAL")
    BY EmptyQueue
  <2>3. ~ Covered /\ ~ Waiting /\ ~ Late /\ ~ Believes
    BY <2>1, <2>2 DEF Covered, Waiting, Late, Believes
  <2> QED BY <2>3 DEF LInv, Released, Up
<1> QED BY <1>1, LineInvariance, PTL

\* OnlineIsTrue: when nothing is on its way the client believes in a call only
\* if there is one.
THEOREM OnlineIsTrueOfLine == Punctual => (Spec => []OnlineIsTrue)
<1>1. LInv => OnlineIsTrue
  <2> SUFFICES ASSUME LInv, Quiet, state = "ONLINE" PROVE line = "active"
    BY DEF OnlineIsTrue
  <2>1. toClient = <<>> /\ toRild = <<>> /\ polling = 0
    BY DEF Quiet
  <2>2. \A x : ~ In(<<>>, x)
    BY EmptyQueue
  <2>3. s_pCurrentCall = "active"
    BY <2>1, <2>2 DEF LInv, Online
  <2>4. s_pCurrentCall = line
    BY <2>1, <2>2 DEF LInv, Polled
  <2> QED BY <2>3, <2>4
<1> QED BY <1>1, LineInvariance, PTL
=============================================================================
