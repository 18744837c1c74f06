---------------------------- MODULE UploadProofs ----------------------------
(***************************************************************************)
(* Proofs about Upload for any number of tasks, any length of the files,   *)
(* any number of losses and any limit of failed opens.                     *)
(*                                                                         *)
(* CopyIsComplete is not inductive: the confirmation that deletes a task   *)
(* was on its way, the last fragment before it, and before that the        *)
(* question for it.  The invariant says of every frame on its way what it  *)
(* still has in common with the file and with the ground's copy of it.     *)
(***************************************************************************)
EXTENDS UploadProps, FiniteSetTheorems, SequenceTheorems, TLAPS

\* The frames of a queue.
Elems(q) == {q[i] : i \in 1 .. Len(q)}

\* The file has n whole fragments, which for none does not need a file.
Covers(t, n) == n = 0 \/ Fragment * n <= len[t]

\* The task is over and has a file: it is not opened again.
Over(t) == status[t] \in {"uploading", "gone"} /\ len[t] # Missing

\* The client took the trace for finished, and it was.
Final(t) == ~ early[t] => ~ recording[t]

\* What is on its way to the ground: a whole fragment is one, a last fragment
\* is the rest of a file that is not written any more.
TrueOfFile(f) ==
  /\ f.state = "UPLOADING" => f.id >= 1 /\ f.len = Fragment /\ Covers(f.task, f.id)
  /\ f.state = "LATEST" =>
       /\ f.id >= 1 /\ Over(f.task) /\ Final(f.task)
       /\ ~ early[f.task] => Fragment * (f.id - 1) + f.len = len[f.task]

\* What is on its way to the client: a question for the fragment after those
\* the file has, a confirmation of a copy that has its last fragment.
TrueOfCopy(f) ==
  /\ f.state = "SUCCESS" => whole[f.task]
  /\ f.state # "SUCCESS" => f.id >= 1 /\ Covers(f.task, f.id - 1)

\* The ground's copy of a file.
CopyOK(t) ==
  /\ ~ whole[t] => units[t] = Fragment * pieces[t] /\ Covers(t, pieces[t])
  /\ whole[t] => Over(t) /\ Final(t)
  /\ whole[t] /\ ~ early[t] => units[t] = len[t]
  /\ status[t] = "gone" /\ len[t] # Missing => whole[t]
  /\ recording[t] => len[t] # Missing

\* All frames are of the task that is uploaded, or of one that is deleted; so
\* are the lengths of the last two checks.
Current(t) == t = cached \/ status[t] = "gone"
OneUpload ==
  /\ \A f \in Elems(toGround) \cup Elems(toClient) : Current(f.task)
  /\ sized # NoTask => Current(sized)
  /\ judged # NoTask => Current(judged)
  /\ sized = NoTask => old_file_len = 0
  /\ trace_stop /\ judged = NoTask => toGround = <<>> /\ toClient = <<>>

IInv ==
  /\ TypeOK
  /\ \A f \in Elems(toGround) : TrueOfFile(f)
  /\ \A f \in Elems(toClient) : TrueOfCopy(f)
  /\ \A t \in Tasks : CopyOK(t)
  /\ OneUpload

-----------------------------------------------------------------------------
(* Queues, the bound of the fragments, and the search.                     *)

\* What is in a queue that has lost its first frame or may have got a new one.
LEMMA Queues ==
  ASSUME NEW S, NEW q \in Seq(S)
  PROVE  /\ Elems(q) \subseteq S
         /\ q # <<>> => /\ Head(q) \in Elems(q) /\ Tail(q) \in Seq(S)
                        /\ Elems(Tail(q)) \subseteq Elems(q)
         /\ \A f \in S : /\ Write(q, f) \in Seq(S)
                         /\ Elems(Write(q, f)) \subseteq Elems(q) \cup {f}
                         /\ f \in Elems(q) => q # <<>>
<1>1. Elems(q) \subseteq S
  BY DEF Elems
<1>2. ASSUME q # <<>>
      PROVE  /\ Head(q) \in Elems(q) /\ Tail(q) \in Seq(S)
             /\ Elems(Tail(q)) \subseteq Elems(q)
  <2>1. Len(q) \in Nat \ {0} /\ Head(q) = q[1] /\ Tail(q) \in Seq(S)
    BY <1>2
  <2>2. Len(Tail(q)) = Len(q) - 1 /\ \A i \in 1 .. Len(Tail(q)) : Tail(q)[i] = q[i + 1]
    BY <1>2, HeadTailProperties
  <2>3. \A i \in 1 .. Len(Tail(q)) : i + 1 \in 1 .. Len(q)
    BY <2>1, <2>2
  <2> QED BY <2>1, <2>2, <2>3 DEF Elems
<1>3. ASSUME NEW f \in S
      PROVE  /\ Write(q, f) \in Seq(S)
             /\ Elems(Write(q, f)) \subseteq Elems(q) \cup {f}
             /\ f \in Elems(q) => q # <<>>
  <2>1. /\ Append(q, f) \in Seq(S) /\ Len(Append(q, f)) = Len(q) + 1
        /\ \A i \in 1 .. Len(q) : Append(q, f)[i] = q[i]
        /\ Append(q, f)[Len(q) + 1] = f
    BY AppendProperties
  <2>2. Elems(Append(q, f)) \subseteq Elems(q) \cup {f}
    <3> SUFFICES ASSUME NEW i \in 1 .. Len(q) + 1
                 PROVE  Append(q, f)[i] \in Elems(q) \cup {f}
      BY <2>1 DEF Elems
    <3>1. CASE i = Len(q) + 1
      BY <2>1, <3>1
    <3>2. CASE i # Len(q) + 1
      <4>1. i \in 1 .. Len(q)
        BY <3>2
      <4> QED BY <2>1, <4>1 DEF Elems
    <3> QED BY <3>1, <3>2
  <2>3. f \in Elems(q) => q # <<>>
    BY DEF Elems
  <2> QED BY <2>1, <2>2, <2>3 DEF Write
<1> QED BY <1>1, <1>2, <1>3

\* A file of at most MaxLen units has fewer than MaxId whole fragments.
LEMMA FragmentsFit ==
  ASSUME NEW n \in Nat, n = 0 \/ Fragment * n <= MaxLen
  PROVE  n + 1 \in 0 .. MaxId
  BY UploadAssumption DEF Fragment, MaxId

\* A set of numbers that is not empty has a smallest one.
LEMMA SmallestExists ==
  ASSUME NEW C, C \subseteq Nat, C # {}
  PROVE  \E t \in C : \A u \in C : t <= u
<1> DEFINE T == {1 .. i : i \in C}
<1>1. T \subseteq FiniteSubsetsOf(Nat) /\ T # {}
  <2>1. ASSUME NEW i \in C PROVE 1 .. i \in FiniteSubsetsOf(Nat)
    BY FS_Interval DEF FiniteSubsetsOf
  <2> QED BY <2>1
<1>2. PICK x \in T : \A y \in T : ~ (<<y, x>> \in StrictSubsetOrdering(Nat))
  BY <1>1, FS_StrictSubsetOrderingWellFounded, WFMin
<1>3. PICK t \in C : x = 1 .. t
  OBVIOUS
<1>4. ASSUME NEW u \in C PROVE t <= u
  <2>1. ~ (<<1 .. u, 1 .. t>> \in StrictSubsetOrdering(Nat))
    BY <1>2, <1>3
  <2>2. t \in Nat /\ u \in Nat
    OBVIOUS
  <2>3. ~ (1 .. u \subseteq 1 .. t /\ 1 .. u # 1 .. t)
    BY <2>1, <2>2 DEF StrictSubsetOrdering
  <2> QED BY <2>2, <2>3
<1> QED BY <1>4

\* The search for the earliest task finds a task that is uploaded.
LEMMA SearchFinds ==
  ASSUME TypeOK, get_uploading_task # NoTask
  PROVE  /\ get_uploading_task \in Tasks
         /\ status[get_uploading_task] # "gone"
         /\ cached = get_uploading_task \/ cached = NoTask \/ status[cached] = "gone"
<1> DEFINE C == {t \in Tasks : status[t] \in Uploads}
<1>1. CASE cached # NoTask /\ status[cached] # "gone"
  BY <1>1 DEF get_uploading_task, TypeOK
<1>2. CASE ~ (cached # NoTask /\ status[cached] # "gone")
  <2>1. C # {}
    BY <1>2 DEF get_uploading_task
  <2>2. C \subseteq Nat
    BY UploadAssumption DEF Tasks
  <2>3. \E t \in C : \A u \in C : t <= u
    BY <2>1, <2>2, SmallestExists
  <2>4. get_uploading_task \in C
    BY <1>2, <2>1, <2>3 DEF get_uploading_task
  <2> QED BY <1>2, <2>4 DEF Uploads
<1> QED BY <1>1, <1>2

-----------------------------------------------------------------------------
(* The steps.                                                              *)

ToGround == Frames({"REQUEST", "UPLOADING", "LATEST"})
ToClient == Frames({"AGREE", "GOON", "SUCCESS"})

\* The steps of the task and of its file keep the domains.
LEMMA TaskTypes ==
  ASSUME TypeOK, NEW t \in Tasks, Starts(t) \/ Opens(t) \/ Grows(t) \/ Ends(t)
  PROVE  TypeOK'
<1>1. CASE Starts(t)
  BY <1>1 DEF Starts, TypeOK, static, way, ground, history
<1>2. CASE Opens(t)
  <2>1. 0 \in Missing .. MaxLen
    BY UploadAssumption DEF Missing
  <2>2. len' \in [Tasks -> Missing .. MaxLen]
    BY <1>2, <2>1 DEF Opens, TypeOK
  <2> QED BY <1>2, <2>2 DEF Opens, TypeOK, static, way, ground, history
<1>3. CASE Grows(t)
  <2>1. len[t] \in Missing .. MaxLen /\ len[t] < MaxLen
    BY <1>3 DEF Grows, TypeOK
  <2>2. len[t] + 1 \in Missing .. MaxLen
    BY <2>1, UploadAssumption DEF Missing
  <2>3. len' \in [Tasks -> Missing .. MaxLen]
    BY <1>3, <2>2 DEF Grows, TypeOK
  <2> QED BY <1>3, <2>3 DEF Grows, TypeOK, static, way, ground, history
<1>4. CASE Stops(t) \/ report_stop_reason(t) \/ Closes(t)
  BY <1>4 DEF Stops, report_stop_reason, Closes, TypeOK, static, way, ground, history
<1> QED BY <1>1, <1>2, <1>3, <1>4 DEF Ends

\* Losing the connection or restarting keeps them.
LEMMA LossTypes ==
  ASSUME TypeOK, Disconnects \/ Restarts
  PROVE  TypeOK'
<1>1. losses' \in 0 .. MaxLoss
  BY SMTT(30), UploadAssumption DEF Disconnects, Restarts, TypeOK
<1>2. 0 \in 0 .. MaxId /\ 0 \in 0 .. MaxLen /\ 0 \in 0 .. NoFileLimit
  BY UploadAssumption, FragmentsFit DEF MaxId, Fragment
<1>3. CASE Disconnects
  BY <1>1, <1>3, EmptySeq DEF Disconnects, TypeOK, static, ground, history
<1>4. CASE Restarts
  BY <1>1, <1>2, <1>4, EmptySeq DEF Restarts, TypeOK, ground
<1> QED BY <1>3, <1>4

\* The check of the task being uploaded keeps them.
LEMMA CheckTypes ==
  ASSUME TypeOK, check_and_upload_task
  PROVE  TypeOK'
<1> DEFINE t == get_uploading_task
<1>1. t \in Tasks
  BY SearchFinds DEF check_and_upload_task
<1>2. check_and_request(t) /\ cached' = t
  BY DEF check_and_upload_task
<1> HIDE DEF t
<1>3. UNCHANGED <<len, recording, fragment_id, toClient, ground, losses, early>>
  BY DEF check_and_upload_task
<1>4. CASE len[t] = Missing
  <2>1. UNCHANGED <<trace_stop, old_file_len, toGround, sized, judged>>
    BY <1>2, <1>4 DEF check_and_request
  <2>2. \/ status' = [status EXCEPT ![t] = "gone"] /\ no_file_check' = 0
        \/ /\ no_file_check < NoFileLimit /\ no_file_check' = no_file_check + 1
           /\ UNCHANGED status
    BY <1>2, <1>4, UploadAssumption DEF check_and_request, TooMany, TypeOK
  <2>3. no_file_check' \in 0 .. NoFileLimit
    BY SMTT(30), <2>2, UploadAssumption DEF TypeOK
  <2>4. status' \in [Tasks -> {"waiting", "running", "stopped", "uploading", "gone"}]
    BY <1>1, <2>2 DEF TypeOK
  <2> QED BY <1>1, <1>2, <1>3, <2>1, <2>3, <2>4 DEF TypeOK, ground
<1>5. CASE len[t] # Missing
  <2>1. len[t] \in 0 .. MaxLen
    BY <1>1, <1>5 DEF TypeOK, Missing
  <2>2. /\ UNCHANGED status /\ no_file_check' = 0 /\ trace_stop' = Stopped(len[t])
        /\ old_file_len' = len[t] /\ sized' = t /\ judged' \in {sized, NoTask}
        /\ toGround' \in {toGround, Write(toGround, Frame("REQUEST", t, 0, 0))}
    BY <1>2, <1>5 DEF check_and_request
  <2>3. Frame("REQUEST", t, 0, 0) \in ToGround
    BY <1>1, UploadAssumption DEF Frame, ToGround, Frames, MaxId, Fragment
  <2>4. toGround' \in Seq(ToGround)
    BY <2>2, <2>3, Queues DEF TypeOK, ToGround
  <2>5. trace_stop' \in BOOLEAN
    BY <2>2 DEF Stopped
  <2>6. 0 \in 0 .. NoFileLimit
    BY UploadAssumption
  <2> QED BY <1>1, <1>2, <1>3, <2>1, <2>2, <2>4, <2>5, <2>6 DEF TypeOK, ground, ToGround
<1> QED BY <1>4, <1>5

\* A frame at the head of the way to the client.
LEMMA FrameForClient ==
  ASSUME TypeOK, toClient # <<>>
  PROVE  /\ Head(toClient) \in ToClient /\ Head(toClient) \in Elems(toClient)
         /\ Tail(toClient) \in Seq(ToClient)
         /\ Elems(Tail(toClient)) \subseteq Elems(toClient)
         /\ Head(toClient).task \in Tasks /\ Head(toClient).id \in 0 .. MaxId
<1>1. toClient \in Seq(ToClient)
  BY DEF TypeOK, ToClient
<1>2. /\ Head(toClient) \in Elems(toClient) /\ Elems(toClient) \subseteq ToClient
      /\ Tail(toClient) \in Seq(ToClient)
      /\ Elems(Tail(toClient)) \subseteq Elems(toClient)
  BY <1>1, Queues
<1> QED BY <1>2 DEF ToClient, Frames

\* A frame at the head of the way to the ground.
LEMMA FrameForGround ==
  ASSUME TypeOK, toGround # <<>>
  PROVE  /\ Head(toGround) \in ToGround /\ Head(toGround) \in Elems(toGround)
         /\ Tail(toGround) \in Seq(ToGround)
         /\ Elems(Tail(toGround)) \subseteq Elems(toGround)
         /\ Head(toGround).task \in Tasks /\ Head(toGround).id \in 0 .. MaxId
         /\ Head(toGround).len \in 0 .. Fragment
<1>1. toGround \in Seq(ToGround)
  BY DEF TypeOK, ToGround
<1>2. /\ Head(toGround) \in Elems(toGround) /\ Elems(toGround) \subseteq ToGround
      /\ Tail(toGround) \in Seq(ToGround)
      /\ Elems(Tail(toGround)) \subseteq Elems(toGround)
  BY <1>1, Queues
<1> QED BY <1>2 DEF ToGround, Frames

\* What the client sends for a question f it can answer.
Reply(f) ==
  LET rest == len[f.task] - Fragment * (f.id - 1) IN
  IF IsWhole(f) THEN Frame("UPLOADING", f.task, f.id, Fragment)
  ELSE Frame("LATEST", f.task, f.id, IF rest > 0 THEN rest ELSE 0)

\* The answers to the ground keep the domains.
LEMMA HandleTypes ==
  ASSUME IInv, Handles
  PROVE  TypeOK'
<1> DEFINE f == Head(toClient)
<1>1. toClient # <<>> /\ toClient' = Tail(toClient) /\ TypeOK
  BY DEF Handles, upload_file, upload_success, Taken, IInv
<1>2. f \in ToClient /\ f \in Elems(toClient) /\ toClient' \in Seq(ToClient)
      /\ f.task \in Tasks /\ f.id \in 0 .. MaxId
  BY <1>1, FrameForClient
<1>3. CASE upload_success
  <2>1. fragment_id' = 0 /\ 0 \in 0 .. MaxId
    BY <1>3, FragmentsFit, UploadAssumption DEF upload_success, MaxId, Fragment
  <2>2. status' \in [Tasks -> {"waiting", "running", "stopped", "uploading", "gone"}]
    BY <1>1, <1>2, <1>3 DEF upload_success, TypeOK
  <2> QED BY <1>1, <1>2, <1>3, <2>1, <2>2 DEF upload_success, TypeOK, ground, history, ToClient
<1>4. CASE upload_file /\ UNCHANGED <<fragment_id, toGround, history>>
  BY <1>1, <1>2, <1>4 DEF upload_file, TypeOK, ground, history, ToClient
<1>5. CASE upload_file /\ len[f.task] # Missing
           /\ fragment_id' = f.id /\ toGround' \in {toGround, Write(toGround, Reply(f))}
           /\ early' \in [Tasks -> BOOLEAN] /\ UNCHANGED <<sized, judged>>
  <2>1. Reply(f) \in ToGround
    <3>1. len[f.task] \in Int /\ f.id >= 1
      BY <1>1, <1>2, <1>5 DEF TypeOK, IInv, TrueOfCopy, upload_file, Missing
    <3>2. CASE IsWhole(f)
      BY <1>2, <3>2 DEF Reply, Frame, ToGround, Frames, Fragment
    <3>3. CASE ~ IsWhole(f)
      <4> DEFINE rest == len[f.task] - Fragment * (f.id - 1)
                 n == IF rest > 0 THEN rest ELSE 0
      <4>1. n \in 0 .. Fragment
        BY <1>2, <3>1, <3>3 DEF IsWhole, Fragment
      <4>2. Reply(f) = Frame("LATEST", f.task, f.id, n)
        BY <3>3 DEF Reply
      <4> HIDE DEF n
      <4> QED BY <1>2, <4>1, <4>2 DEF Frame, ToGround, Frames
    <3> QED BY <3>2, <3>3
  <2>2. toGround' \in Seq(ToGround)
    <3>1. toGround \in Seq(ToGround)
      BY <1>1 DEF TypeOK, ToGround
    <3>2. Write(toGround, Reply(f)) \in Seq(ToGround)
      BY <2>1, <3>1, Queues
    <3> QED BY <1>5, <3>1, <3>2
  <2> QED BY <1>1, <1>2, <1>5, <2>2 DEF upload_file, TypeOK, ground, ToClient, ToGround
<1>6. ASSUME upload_file, ~ UNCHANGED <<fragment_id, toGround, history>>
      PROVE  /\ len[f.task] # Missing
             /\ fragment_id' = f.id /\ toGround' \in {toGround, Write(toGround, Reply(f))}
             /\ early' \in [Tasks -> BOOLEAN] /\ UNCHANGED <<sized, judged>>
  <2>1. /\ len[f.task] # Missing /\ fragment_id' = f.id /\ UNCHANGED <<sized, judged>>
        /\ toGround' \in {toGround, Write(toGround, Reply(f))}
    BY <1>6 DEF upload_file, Reply
  <2>2. \E b \in BOOLEAN : early' = [early EXCEPT ![f.task] = b]
    BY <1>1, <1>2, <1>6 DEF upload_file, TypeOK
  <2>3. early' \in [Tasks -> BOOLEAN]
    BY <1>1, <1>2, <2>2 DEF TypeOK
  <2> QED BY <2>1, <2>3
<1> QED BY <1>3, <1>4, <1>5, <1>6 DEF Handles

\* The ground keeps the domains and a true copy, and what it writes is true.
LEMMA GroundKeeps ==
  ASSUME IInv, Ground
  PROVE  /\ TypeOK'
         /\ \A t \in Tasks : CopyOK(t)'
         /\ \A g \in Elems(toClient') :
              g \in Elems(toClient) \/ (TrueOfCopy(g)' /\ g.task = Head(toGround).task)
<1>1. TypeOK /\ toGround # <<>> /\ toGround' = Tail(toGround)
      /\ UNCHANGED <<status, len, recording, static, losses, history>>
  BY DEF IInv, Ground
<1>2. PICK f \in Elems(toGround), t \in Tasks :
      f = Head(toGround) /\ t = f.task /\ toGround' \in Seq(ToGround)
      /\ f.id \in 0 .. MaxId /\ f.len \in 0 .. Fragment
      /\ f.state \in {"REQUEST", "UPLOADING", "LATEST"}
  BY <1>1, FrameForGround DEF ToGround, Frames
<1>3. TrueOfFile(f) /\ CopyOK(t)
  BY <1>2 DEF IInv
<1>4. pieces[t] \in 0 .. MaxId /\ units[t] \in Nat /\ whole[t] \in BOOLEAN /\ len[t] \in Missing .. MaxLen
  BY <1>1, <1>2 DEF TypeOK
<1>5. /\ \A u \in Tasks : u # t => /\ pieces'[u] = pieces[u] /\ units'[u] = units[u]
                                   /\ whole'[u] = whole[u]
      /\ pieces' \in [Tasks -> 0 .. MaxId] /\ units' \in [Tasks -> Nat]
      /\ whole' \in [Tasks -> BOOLEAN]
      /\ \/ pieces'[t] = pieces[t] /\ units'[t] = units[t] /\ whole'[t] = whole[t]
         \/ /\ f.state # "REQUEST" /\ f.id = pieces[t] + 1 /\ ~ whole[t]
            /\ pieces'[t] = f.id /\ units'[t] = units[t] + f.len
            /\ whole'[t] = (f.state = "LATEST")
  <2>1. CASE UNCHANGED ground
    BY <1>1, <2>1 DEF ground, TypeOK
  <2>2. CASE /\ f.state # "REQUEST" /\ f.id = pieces[t] + 1 /\ ~ whole[t]
             /\ pieces' = [pieces EXCEPT ![t] = f.id]
             /\ units' = [units EXCEPT ![t] = @ + f.len]
             /\ whole' = [whole EXCEPT ![t] = f.state = "LATEST"]
    <3>1. pieces' \in [Tasks -> 0 .. MaxId] /\ pieces'[t] = f.id
          /\ \A u \in Tasks : u # t => pieces'[u] = pieces[u]
      BY <1>1, <1>2, <2>2 DEF TypeOK
    <3>2. units[t] + f.len \in Nat
      BY <1>2, <1>4 DEF Fragment
    <3>3. units' \in [Tasks -> Nat] /\ units'[t] = units[t] + f.len
          /\ \A u \in Tasks : u # t => units'[u] = units[u]
      BY <1>1, <1>2, <2>2, <3>2 DEF TypeOK
    <3>4. whole' \in [Tasks -> BOOLEAN] /\ whole'[t] = (f.state = "LATEST")
          /\ \A u \in Tasks : u # t => whole'[u] = whole[u]
      BY <1>1, <1>2, <2>2 DEF TypeOK
    <3> QED BY <2>2, <3>1, <3>3, <3>4
  <2> QED BY <1>2, <2>1, <2>2 DEF Ground, Stores
<1>6. CopyOK(t)'
  <2>1. CASE pieces'[t] = pieces[t] /\ units'[t] = units[t] /\ whole'[t] = whole[t]
    BY <1>1, <1>3, <2>1 DEF CopyOK, Covers, Over, Final, history
  <2>2. CASE f.state = "UPLOADING" /\ f.id = pieces[t] + 1 /\ ~ whole[t]
             /\ pieces'[t] = f.id /\ units'[t] = units[t] + f.len /\ ~ whole'[t]
    <3>1. units'[t] = Fragment * pieces'[t] /\ Covers(t, f.id)
      BY <1>2, <1>3, <1>4, <2>2 DEF CopyOK, TrueOfFile, Fragment
    <3> QED BY <1>1, <1>3, <2>2, <3>1 DEF CopyOK, Covers, Over, Final, history
  <2>3. CASE f.state = "LATEST" /\ f.id = pieces[t] + 1 /\ ~ whole[t]
             /\ pieces'[t] = f.id /\ units'[t] = units[t] + f.len /\ whole'[t]
    <3>1. ~ early[t] => units'[t] = len[t]
      BY SMTT(30), <1>3, <1>4, <1>2, <2>3 DEF CopyOK, TrueOfFile, Fragment
    <3>2. Over(t) /\ Final(t) /\ (recording[t] => len[t] # Missing)
      BY <1>2, <1>3, <2>3 DEF TrueOfFile, CopyOK
    <3> QED BY <1>1, <2>3, <3>1, <3>2 DEF CopyOK, Over, Final, history
  <2> QED BY <1>2, <1>5, <2>1, <2>2, <2>3
<1>7. \A u \in Tasks : CopyOK(u)'
  <2> SUFFICES ASSUME NEW u \in Tasks, u # t PROVE CopyOK(u)'
    BY <1>6
  <2> QED BY <1>1, <1>5 DEF IInv, CopyOK, Covers, Over, Final, history
<1>8. PICK g \in ToClient : /\ toClient' = Write(toClient, g)
                            /\ TrueOfCopy(g)' /\ g.task = t
  <2>1. CASE whole'[t]
    <3>1. Frame("SUCCESS", t, 0, 0) \in ToClient
      BY <1>2, UploadAssumption, FragmentsFit DEF Frame, ToClient, Frames, MaxId, Fragment
    <3>2. toClient' = Write(toClient, Frame("SUCCESS", t, 0, 0))
      BY <1>2, <2>1 DEF Ground, Confirms
    <3> QED BY <2>1, <3>1, <3>2 DEF TrueOfCopy, Frame
  <2>2. CASE ~ whole'[t]
    <3>1. PICK n \in 0 .. MaxId : n = pieces'[t]
      BY <1>5
    <3>2. Covers(t, n)'
      BY <1>2, <1>5, <1>6, <2>2, <3>1 DEF CopyOK
    <3>3. n + 1 \in 0 .. MaxId
      BY <1>1, <1>4, <3>2, FragmentsFit, UploadAssumption DEF Covers, Fragment
    <3>4. PICK state \in {"AGREE", "GOON"} :
            toClient' = Write(toClient, Frame(state, t, n + 1, 0))
      BY <1>2, <2>2, <3>1 DEF Ground, Asks
    <3>5. Frame(state, t, n + 1, 0) \in ToClient
      BY <1>2, <3>3 DEF Frame, ToClient, Frames, Fragment
    <3>6. TrueOfCopy(Frame(state, t, n + 1, 0))'
      BY <3>2 DEF TrueOfCopy, Frame, Covers
    <3> QED BY <3>4, <3>5, <3>6 DEF Frame
  <2> QED BY <2>1, <2>2
<1>9. toClient \in Seq(ToClient)
  BY <1>1 DEF TypeOK, ToClient
<1>10. toClient' \in Seq(ToClient) /\ Elems(toClient') \subseteq Elems(toClient) \cup {g}
  BY <1>8, <1>9, Queues
<1>11. TypeOK'
  BY <1>1, <1>2, <1>5, <1>10 DEF TypeOK, static, history, ToGround, ToClient
<1> QED BY <1>2, <1>7, <1>8, <1>10, <1>11

\* The domains are an invariant.
LEMMA TypeStep ==
  ASSUME IInv, [Next]_vars
  PROVE  TypeOK'
<1>1. TypeOK
  BY DEF IInv
<1>2. CASE UNCHANGED vars
  BY <1>1, <1>2 DEF vars, static, way, ground, history, TypeOK
<1> QED
  BY <1>1, <1>2, TaskTypes, CheckTypes, HandleTypes, GroundKeeps, LossTypes DEF Next

\* What no step takes back: a file only grows, and not any more once it is
\* closed and its task is over.
Later(t) ==
  /\ len[t] <= len'[t]
  /\ Over(t) => status'[t] \in {"uploading", "gone"}
  /\ Over(t) /\ ~ recording[t] => len'[t] = len[t]
  /\ recording'[t] => len'[t] # Missing /\ (recording[t] \/ ~ Over(t))
  /\ early[t] => early'[t]
  /\ whole[t] => whole'[t]
  /\ status[t] = "gone" => status'[t] = "gone" /\ len'[t] = len[t]

\* Every step moves each task on, or leaves it where it is.
LEMMA EveryStep ==
  ASSUME IInv, [Next]_vars, NEW t \in Tasks
  PROVE  Later(t)
<1>1. /\ TypeOK /\ CopyOK(t) /\ len[t] \in Missing .. MaxLen
      /\ recording[t] \in BOOLEAN /\ early[t] \in BOOLEAN /\ whole[t] \in BOOLEAN
  BY DEF IInv, TypeOK
<1>2. ASSUME status'[t] = status[t], len'[t] = len[t], recording'[t] = recording[t],
             early'[t] = early[t], whole'[t] = whole[t]
      PROVE  Later(t)
  BY <1>1, <1>2 DEF Later, Over, CopyOK
<1>3. ASSUME NEW u \in Tasks, Starts(u) \/ Stops(u) \/ report_stop_reason(u) PROVE Later(t)
  <2>1. /\ status[u] \in {"waiting", "running", "stopped"}
        /\ \E s \in {"running", "stopped", "uploading"} : status' = [status EXCEPT ![u] = s]
        /\ UNCHANGED <<len, recording, early, whole>>
    BY <1>3 DEF Starts, Stops, report_stop_reason, ground, history
  <2>2. t # u => status'[t] = status[t]
    BY <1>1, <2>1 DEF TypeOK
  <2> QED BY <1>1, <2>1, <2>2 DEF Later, Over, CopyOK
<1>4. ASSUME NEW u \in Tasks, Opens(u) PROVE Later(t)
  <2>1. CASE t = u
    <3>1. len'[t] = 0 /\ len[t] = Missing /\ status'[t] = status[t] /\ status[t] = "running"
      BY <1>1, <1>4, <2>1 DEF Opens, TypeOK
    <3>2. early'[t] = early[t] /\ whole'[t] = whole[t]
      BY <1>4 DEF Opens, history, ground
    <3> QED BY <1>1, <3>1, <3>2 DEF Later, Over, Missing
  <2>2. CASE t # u
    BY <1>1, <1>2, <1>4, <2>2 DEF Opens, ground, history, TypeOK
  <2> QED BY <2>1, <2>2
<1>5. ASSUME NEW u \in Tasks, Grows(u) PROVE Later(t)
  <2>1. CASE t = u
    <3>1. /\ len'[t] = len[t] + 1 /\ recording[t] /\ UNCHANGED recording
          /\ status'[t] = status[t] /\ status[t] # "gone"
      BY <1>1, <1>5, <2>1 DEF Grows, TypeOK
    <3>2. early'[t] = early[t] /\ whole'[t] = whole[t]
      BY <1>5 DEF Grows, history, ground
    <3> QED BY <1>1, <3>1, <3>2 DEF Later, Over, Missing, CopyOK
  <2>2. CASE t # u
    BY <1>1, <1>2, <1>5, <2>2 DEF Grows, ground, history, TypeOK
  <2> QED BY <2>1, <2>2
<1>6. ASSUME NEW u \in Tasks, Closes(u) PROVE Later(t)
  BY SMTT(30), <1>1, <1>6 DEF Closes, ground, history, Later, Over, CopyOK, TypeOK
<1>7. CASE check_and_upload_task
  <2>1. PICK u \in Tasks : status' \in {status, [status EXCEPT ![u] = "gone"]}
    <3>1. get_uploading_task \in Tasks
      BY <1>1, <1>7, SearchFinds DEF check_and_upload_task
    <3>2. status' \in {status, [status EXCEPT ![get_uploading_task] = "gone"]}
      BY <1>7 DEF check_and_upload_task, check_and_request
    <3> QED BY <3>1, <3>2
  <2>2. status'[t] \in {status[t], "gone"}
    BY <1>1, <2>1 DEF TypeOK
  <2>3. /\ len'[t] = len[t] /\ recording'[t] = recording[t]
        /\ early'[t] = early[t] /\ whole'[t] = whole[t]
    BY <1>7 DEF check_and_upload_task, ground
  <2> QED BY <1>1, <2>2, <2>3 DEF Later, Over, CopyOK
<1>8. CASE upload_file
  <2> DEFINE u == Head(toClient).task
  <2>1. early[t] => early'[t]
    <3>1. CASE UNCHANGED early
      BY <3>1
    <3>2. ASSUME NEW b, early' = [early EXCEPT ![u] = @ \/ b], early[t] PROVE early'[t]
      <4>1. early'[t] = IF t = u THEN early[t] \/ b ELSE early[t]
        BY <1>1, <3>2 DEF TypeOK
      <4> QED BY <3>2, <4>1
    <3> DEFINE f == Head(toClient)
               answer == IF IsWhole(f) THEN Frame("UPLOADING", f.task, f.id, Fragment)
                         ELSE LET rest == len[f.task] - Fragment * (f.id - 1)
                              IN  Frame("LATEST", f.task, f.id, IF rest > 0 THEN rest ELSE 0)
               last == /\ IsWhole(f) \/ IsLast(f)
                       /\ answer.state = "LATEST" /\ recording[f.task]
    <3>3. UNCHANGED early \/ early' = [early EXCEPT ![u] = @ \/ last]
      BY <1>8 DEF upload_file, history
    <3> QED BY <3>1, <3>2, <3>3
  <2>2. UNCHANGED <<status, len, recording, ground>>
    BY <1>8 DEF upload_file
  <2> QED BY <1>1, <2>1, <2>2 DEF ground, Later, Over, CopyOK
<1>9. CASE upload_success
  BY <1>1, <1>9 DEF upload_success, ground, history, Later, Over, CopyOK, TypeOK
<1>10. CASE Ground
  <2>1. whole[t] => whole'[t]
    BY <1>1, <1>10, Zenon DEF Ground, Stores, ground, TypeOK
  <2> QED BY <1>1, <1>10, <2>1 DEF Ground, history, Later, Over, CopyOK
<1>11. CASE Disconnects \/ Restarts
  BY <1>2, <1>11 DEF Disconnects, Restarts, ground, history
<1>12. CASE UNCHANGED vars
  BY <1>2, <1>12 DEF vars, ground, history
<1> QED
  BY <1>3, <1>4, <1>5, <1>6, <1>7, <1>8, <1>9, <1>10, <1>11, <1>12 DEF Next, Ends, Handles

\* A task is deleted because it has no file, or with a copy that is whole.
LEMMA Deletes ==
  ASSUME IInv, [Next]_vars, NEW t \in Tasks, status[t] # "gone", status'[t] = "gone"
  PROVE  whole[t] \/ (len[t] = Missing /\ len'[t] = Missing)
<1>1. TypeOK
  BY DEF IInv
<1>2. CASE upload_success
  <2>1. PICK f \in Elems(toClient) : f = Head(toClient) /\ f.task \in Tasks
    BY <1>1, <1>2, FrameForClient DEF upload_success
  <2>2. whole[f.task]
    BY <1>2, <2>1 DEF upload_success, IInv, TrueOfCopy
  <2>3. f.task = t
    BY <1>1, <1>2, <2>1 DEF upload_success, TypeOK
  <2> QED BY <2>2, <2>3
<1>3. CASE check_and_upload_task
  <2>1. PICK u \in Tasks : u = get_uploading_task
    BY <1>1, <1>3, SearchFinds DEF check_and_upload_task
  <2>2. check_and_request(u) /\ UNCHANGED len
    BY <1>3, <2>1 DEF check_and_upload_task
  <2>3. len[u] = Missing /\ status' = [status EXCEPT ![u] = "gone"]
    BY <2>2 DEF check_and_request
  <2>4. u = t
    BY <1>1, <2>3 DEF TypeOK
  <2> QED BY <2>2, <2>3, <2>4
<1>4. ASSUME NEW u \in Tasks, Starts(u) \/ Opens(u) \/ Grows(u) \/ Ends(u)
      PROVE  FALSE
  BY <1>1, <1>4 DEF Starts, Opens, Grows, Ends, Stops, report_stop_reason, Closes, TypeOK
<1> QED
  BY <1>2, <1>3, <1>4 DEF Next, Handles, upload_file, Ground, Disconnects, Restarts, vars

\* What a frame says stays true.
LEMMA Persist ==
  ASSUME IInv, [Next]_vars, NEW f, f.task \in Tasks, f.id \in Nat, f.len \in Nat
  PROVE  /\ TrueOfFile(f) => TrueOfFile(f)'
         /\ TrueOfCopy(f) => TrueOfCopy(f)'
<1>1. PICK t \in Tasks : t = f.task
  OBVIOUS
<1>2. Later(t) /\ TypeOK /\ TypeOK'
  BY EveryStep, TypeStep DEF IInv
<1>3. len[t] \in Missing .. MaxLen /\ len'[t] \in Missing .. MaxLen
      /\ early[t] \in BOOLEAN /\ recording[t] \in BOOLEAN
  BY <1>2 DEF TypeOK
<1>4. ASSUME NEW n \in Nat, Covers(t, n) PROVE Covers(t, n)'
  BY <1>2, <1>3, <1>4, UploadAssumption DEF Covers, Later, Fragment, Missing
<1>5. Over(t) => Over(t)'
  BY <1>2, <1>3 DEF Over, Later, Missing
<1>6. Over(t) /\ Final(t) => Final(t)'
  BY <1>2 DEF Final, Later
<1>7. Over(t) /\ Final(t) /\ ~ early'[t] => ~ early[t] /\ len'[t] = len[t]
  BY <1>2 DEF Final, Later
<1>8. TrueOfFile(f) => TrueOfFile(f)'
  BY <1>1, <1>4, <1>5, <1>6, <1>7 DEF TrueOfFile
<1>9. TrueOfCopy(f) => TrueOfCopy(f)'
  <2>1. f.id >= 1 => f.id - 1 \in Nat
    OBVIOUS
  <2>2. whole[t] => whole'[t]
    BY <1>2 DEF Later
  <2> QED BY <1>1, <1>4, <2>1, <2>2 DEF TrueOfCopy
<1> QED BY <1>8, <1>9

\* A step keeps the copy of every file true.
LEMMA CopyStep ==
  ASSUME IInv, [Next]_vars, NEW t \in Tasks
  PROVE  CopyOK(t)'
<1>1. Later(t) /\ TypeOK /\ TypeOK' /\ CopyOK(t)
  BY EveryStep, TypeStep DEF IInv
<1>2. CASE Ground
  BY <1>2, GroundKeeps
<1>3. CASE UNCHANGED ground
  <2>1. len[t] \in Missing .. MaxLen /\ len'[t] \in Missing .. MaxLen
        /\ early[t] \in BOOLEAN /\ recording[t] \in BOOLEAN /\ pieces[t] \in Nat
    BY <1>1, FragmentsFit, UploadAssumption DEF TypeOK, MaxId, Fragment
  <2>2. pieces'[t] = pieces[t] /\ units'[t] = units[t] /\ whole'[t] = whole[t]
    BY <1>3 DEF ground
  <2>3. Covers(t, pieces[t]) => Covers(t, pieces[t])'
    BY <1>1, <2>1, <2>2, UploadAssumption DEF Covers, Later, Fragment, Missing
  <2>4. Over(t) => Over(t)'
    BY <1>1, <2>1 DEF Over, Later, Missing
  <2>5. Over(t) /\ Final(t) => Final(t)'
    BY <1>1 DEF Final, Later
  <2>6. Over(t) /\ Final(t) /\ ~ early'[t] => ~ early[t] /\ len'[t] = len[t]
    BY <1>1 DEF Final, Later
  <2>7. status'[t] = "gone" /\ len'[t] # Missing => whole[t]
    BY <1>1, Deletes DEF Later, CopyOK
  <2> QED BY <1>1, <2>2, <2>3, <2>4, <2>5, <2>6, <2>7 DEF CopyOK, Later
<1> QED
  BY <1>2, <1>3 DEF Next, Starts, Opens, Grows, Ends, Stops, report_stop_reason, Closes,
       check_and_upload_task, Handles, upload_file, upload_success, Disconnects, Restarts, vars

\* The upload goes from one task to another when that is deleted.
LEMMA CurrentStays ==
  ASSUME IInv, [Next]_vars, ~ Restarts, NEW t \in Tasks, Current(t)
  PROVE  Current(t)'
<1>1. TypeOK /\ (status[t] = "gone" => status'[t] = "gone")
  BY EveryStep DEF IInv, Later
<1>2. CASE check_and_upload_task
  <2>1. /\ cached' = get_uploading_task /\ t # NoTask
        /\ cached = get_uploading_task \/ cached = NoTask \/ status[cached] = "gone"
    BY <1>1, <1>2, SearchFinds DEF check_and_upload_task, Tasks, NoTask
  <2> QED BY <1>1, <2>1 DEF Current
<1>3. CASE UNCHANGED cached
  BY <1>1, <1>3 DEF Current
<1> QED
  BY <1>2, <1>3 DEF Next, Starts, Opens, Grows, Ends, Stops, report_stop_reason, Closes,
       Handles, upload_file, upload_success, Ground, Disconnects, vars, static

\* A frame that gets on its way to the ground is true, and of the current task.
LEMMA SentToGround ==
  ASSUME IInv, [Next]_vars, ~ Restarts
  PROVE  \A g \in Elems(toGround') :
           \/ g \in Elems(toGround)
           \/ g \in ToGround /\ TrueOfFile(g)' /\ Current(g.task)'
<1>1. TypeOK /\ TypeOK' /\ toGround \in Seq(ToGround)
  BY TypeStep DEF IInv, TypeOK, ToGround
<1>2. CASE UNCHANGED toGround \/ toGround' = <<>>
  BY <1>2 DEF Elems
<1>3. CASE Ground
  BY <1>1, <1>3, FrameForGround DEF Ground
<1>4. CASE check_and_upload_task /\ ~ UNCHANGED toGround
  <2>1. PICK t \in Tasks : t = get_uploading_task
    BY <1>1, <1>4, SearchFinds DEF check_and_upload_task
  <2>2. /\ cached' = t
        /\ toGround' = Write(toGround, Frame("REQUEST", t, 0, 0))
    BY <1>4, <2>1 DEF check_and_upload_task, check_and_request
  <2>3. Frame("REQUEST", t, 0, 0) \in ToGround
    BY UploadAssumption DEF Frame, ToGround, Frames, MaxId, Fragment
  <2>4. TrueOfFile(Frame("REQUEST", t, 0, 0))'
    BY DEF TrueOfFile, Frame
  <2>5. Current(t)'
    BY <2>2 DEF Current
  <2> QED BY <1>1, <2>2, <2>3, <2>4, <2>5, Queues DEF Frame
<1>5. CASE upload_file /\ ~ UNCHANGED toGround
  <2>1. PICK f \in Elems(toClient), t \in Tasks :
          f = Head(toClient) /\ t = f.task /\ f.id \in 0 .. MaxId /\ f.id >= 1
    BY <1>1, <1>5, FrameForClient DEF upload_file, IInv, TrueOfCopy
  <2>2. /\ TrueOfCopy(f) /\ f.state # "SUCCESS" /\ Current(t)
    BY <1>5, <2>1 DEF upload_file, IInv, OneUpload
  <2>3. /\ len[t] # Missing /\ status[t] # "gone" /\ (IsWhole(f) \/ IsLast(f))
        /\ toGround' = Write(toGround, Reply(f))
        /\ UNCHANGED <<status, len, recording>>
        /\ early' = [early EXCEPT ![t] = @ \/ (/\ IsWhole(f) \/ IsLast(f)
                                            /\ Reply(f).state = "LATEST" /\ recording[t])]
    BY <1>5, <2>1 DEF upload_file, Reply
  <2>4. Current(t)'
    BY <1>5, <2>2, CurrentStays
  <2>5. len[t] \in 0 .. MaxLen /\ Covers(t, f.id - 1)
    <3>1. len[t] \in 0 .. MaxLen
      BY SMTT(30), <1>1, <2>3 DEF TypeOK, Missing
    <3> QED BY <2>1, <2>2, <3>1 DEF TrueOfCopy
  <2>6. PICK g : g = Reply(f)
    OBVIOUS
  <2>7. g.task = t /\ g \in ToGround /\ TrueOfFile(g)'
    <3>1. CASE IsWhole(f)
      <4>1. g = Frame("UPLOADING", t, f.id, Fragment)
        BY <2>1, <2>6, <3>1 DEF Reply
      <4>2. Covers(t, f.id)'
        BY <2>1, <2>3, <3>1 DEF Covers, IsWhole
      <4> QED BY <2>1, <4>1, <4>2 DEF Frame, ToGround, Frames, TrueOfFile, Fragment
    <3>2. CASE ~ IsWhole(f)
      <4>1. PICK n \in 0 .. Fragment : n = len[t] - Fragment * (f.id - 1)
        BY <2>1, <2>5, <3>2 DEF IsWhole, Covers, Fragment
      <4>2. g = Frame("LATEST", t, f.id, n)
        BY <2>1, <2>6, <3>2, <4>1 DEF Reply
      <4>3. Over(t)'
        BY <2>1, <2>3, <3>2 DEF IsLast, Over
      <4>4. Reply(f).state = "LATEST"
        BY <4>2, <2>6 DEF Frame
      <4>5. early'[t] = (early[t] \/ (/\ IsWhole(f) \/ IsLast(f)
                                      /\ Reply(f).state = "LATEST" /\ recording[t]))
        BY <1>1, <2>3 DEF TypeOK
      <4>6. Final(t)'
        BY <2>3, <4>4, <4>5 DEF Final
      <4>7. Fragment * (f.id - 1) + n = len'[t]
        BY <2>1, <2>3, <2>5, <4>1 DEF Fragment
      <4> QED BY <2>1, <4>1, <4>2, <4>3, <4>6, <4>7 DEF Frame, ToGround, Frames, TrueOfFile
    <3> QED BY <3>1, <3>2
  <2>8. Elems(toGround') \subseteq Elems(toGround) \cup {g}
    BY <1>1, <2>3, <2>6, <2>7, Queues
  <2> QED BY <2>4, <2>7, <2>8
<1> QED
  BY <1>2, <1>3, <1>4, <1>5 DEF Next, Starts, Opens, Grows, Ends, Stops, report_stop_reason,
       Closes, Handles, upload_success, Disconnects, vars, way

\* So is one that gets on its way to the client.
LEMMA SentToClient ==
  ASSUME IInv, [Next]_vars, ~ Restarts
  PROVE  \A g \in Elems(toClient') :
           \/ g \in Elems(toClient)
           \/ TrueOfCopy(g)' /\ Current(g.task)'
<1>1. TypeOK
  BY DEF IInv
<1>2. CASE UNCHANGED toClient \/ toClient' = <<>>
  BY <1>2 DEF Elems
<1>3. CASE Handles
  BY <1>1, <1>3, FrameForClient DEF Handles, upload_file, upload_success, Taken
<1>4. CASE Ground
  <2>1. PICK f \in Elems(toGround), t \in Tasks : f = Head(toGround) /\ t = f.task
    BY <1>1, <1>4, FrameForGround DEF Ground
  <2>2. Current(t)
    BY <2>1 DEF IInv, OneUpload
  <2>3. Current(t)'
    BY <2>2, CurrentStays
  <2> QED BY <1>4, <2>1, <2>3, GroundKeeps
<1> QED
  BY <1>2, <1>3, <1>4 DEF Next, Starts, Opens, Grows, Ends, Stops, report_stop_reason,
       Closes, check_and_upload_task, Disconnects, vars, way

\* The frames of a step are of one upload, and so are the lengths it keeps.
LEMMA OneUploadStep ==
  ASSUME IInv, [Next]_vars
  PROVE  OneUpload'
<1>1. TypeOK /\ TypeOK' /\ OneUpload
  BY TypeStep DEF IInv
<1>2. CASE Restarts
  BY <1>2 DEF Restarts, OneUpload, Elems
<1>3. CASE ~ Restarts
  <2>1. Elems(toGround) \subseteq ToGround /\ Elems(toClient) \subseteq ToClient
    BY <1>1, Queues DEF TypeOK, ToGround, ToClient
  <2>2. \A t \in Tasks : Current(t) => Current(t)'
    BY <1>3, CurrentStays
  <2>3. ASSUME NEW f \in Elems(toGround') \cup Elems(toClient') PROVE Current(f.task)'
    <3>1. CASE f \in Elems(toGround) \cup Elems(toClient)
      <4>1. PICK t \in Tasks : t = f.task
        BY <2>1, <3>1 DEF ToGround, ToClient, Frames
      <4>2. Current(t)'
        BY <1>1, <2>2, <3>1, <4>1 DEF OneUpload
      <4> QED BY <4>1, <4>2
    <3>2. CASE f \notin Elems(toGround) \cup Elems(toClient)
      BY <1>3, <2>3, <3>2, SentToGround, SentToClient
    <3> QED BY <3>1, <3>2
  <2>4. PICK s, j : /\ s = sized /\ (s # NoTask => Current(s)')
                    /\ j = judged /\ (j # NoTask => Current(j)')
    BY <1>1, <2>2 DEF OneUpload, TypeOK
  <2>5. CASE check_and_upload_task
    <3>1. PICK t \in Tasks : t = get_uploading_task
      BY <1>1, <2>5, SearchFinds DEF check_and_upload_task
    <3>2. t # NoTask /\ cached' = t /\ check_and_request(t) /\ UNCHANGED toClient
      BY <2>5, <3>1 DEF check_and_upload_task
    <3>3. CASE UNCHANGED <<trace_stop, old_file_len, toGround, sized, judged>>
      BY <1>1, <2>3, <2>4, <3>2, <3>3 DEF OneUpload, Current
    <3>4. CASE /\ trace_stop' = Stopped(len[t]) /\ sized' = t
               /\ judged' = IF old_file_len = len[t] THEN sized ELSE NoTask
      <4>1. trace_stop' => judged' # NoTask
        <5>1. Stopped(len[t]) => judged' # NoTask
          BY <1>1, <3>4 DEF Stopped, OneUpload, TypeOK
        <5> QED BY <3>4, <5>1
      <4>2. judged' # NoTask => Current(judged)'
        BY <2>4, <3>4 DEF Current
      <4> QED BY <2>3, <3>2, <3>4, <4>1, <4>2 DEF OneUpload, Current
    <3> QED BY <3>2, <3>3, <3>4 DEF check_and_request
  <2>6. CASE /\ UNCHANGED <<sized, judged, trace_stop, old_file_len>>
             /\ toGround = <<>> /\ toClient = <<>> => toGround' = <<>> /\ toClient' = <<>>
    BY <1>1, <2>3, <2>4, <2>6 DEF OneUpload, Current
  <2> QED
    BY <1>3, <2>5, <2>6 DEF Next, Starts, Opens, Grows, Ends, Stops, report_stop_reason, Closes,
         Handles, upload_file, upload_success, Ground, Disconnects, vars, static, way, history
<1> QED BY <1>2, <1>3

-----------------------------------------------------------------------------
(* The theorems.                                                           *)

\* Whatever is on its way between client and ground is true of the file and of
\* its copy, in every reachable state.
THEOREM Invariance == Spec => []IInv
<1>1. Init => IInv
  <2> SUFFICES ASSUME Init PROVE IInv
    OBVIOUS
  <2>1. 0 \in 0 .. MaxId /\ 0 \in 0 .. MaxLen /\ 0 \in 0 .. NoFileLimit
        /\ 0 \in 0 .. MaxLoss /\ Missing \in Missing .. MaxLen
    BY UploadAssumption, FragmentsFit DEF MaxId, Fragment, Missing
  <2>2. TypeOK
    BY <2>1, EmptySeq DEF Init, TypeOK
  <2>3. \A t \in Tasks : CopyOK(t)
    BY DEF Init, CopyOK, Covers, Over, Final, Fragment, Missing
  <2>4. OneUpload
    BY DEF Init, OneUpload, Elems
  <2> QED BY <2>2, <2>3, <2>4 DEF Init, IInv, Elems
<1>2. IInv /\ [Next]_vars => IInv'
  <2> SUFFICES ASSUME IInv, [Next]_vars PROVE IInv'
    OBVIOUS
  <2>1. Elems(toGround) \subseteq ToGround /\ Elems(toClient) \subseteq ToClient
    BY Queues DEF IInv, TypeOK, ToGround, ToClient
  <2>2. \A f \in ToGround \cup ToClient :
          f.task \in Tasks /\ f.id \in Nat /\ f.len \in Nat
    BY UploadAssumption, FragmentsFit DEF ToGround, ToClient, Frames, MaxId, Fragment
  <2>3. ASSUME NEW f \in Elems(toGround') PROVE TrueOfFile(f)'
    <3>1. CASE Restarts
      BY <2>3, <3>1 DEF Restarts, Elems
    <3>2. CASE f \in Elems(toGround)
      BY <2>1, <2>2, <3>2, Persist DEF IInv
    <3> QED BY <2>3, <3>1, <3>2, SentToGround
  <2>4. ASSUME NEW f \in Elems(toClient') PROVE TrueOfCopy(f)'
    <3>1. CASE Restarts
      BY <2>4, <3>1 DEF Restarts, Elems
    <3>2. CASE f \in Elems(toClient)
      BY <2>1, <2>2, <3>2, Persist DEF IInv
    <3> QED BY <2>4, <3>1, <3>2, SentToClient
  <2> QED BY <2>3, <2>4, TypeStep, CopyStep, OneUploadStep DEF IInv
<1> QED BY <1>1, <1>2, PTL DEF Spec

\* The variables of the client, the files, the copies and the frames on their
\* way stay in their domains; the counters do not pass their bounds.
THEOREM TypeCorrect == Spec => []TypeOK
<1>1. IInv => TypeOK
  BY DEF IInv
<1> QED BY <1>1, Invariance, PTL

\* A task that the confirmation of its upload has deleted has arrived to its
\* last unit, unless the client took the trace for finished while it was
\* being written.
THEOREM ConfirmedIsComplete == Spec => []CopyIsComplete
<1>1. IInv => CopyIsComplete
  BY DEF IInv, CopyOK, Final, CopyIsComplete
<1> QED BY <1>1, Invariance, PTL

\* A test that runs, or whose end the ground has not asked about, is not
\* deleted by the confirmation of an upload.
THEOREM RunningSurvives == Spec => RunningIsKept
<1>1. ASSUME IInv, [Next]_vars, NEW t \in Tasks,
             status[t] # "uploading", status[t] # "gone", status'[t] = "gone"
      PROVE  len[t] = Missing
  <2>1. whole[t] => status[t] \in {"uploading", "gone"}
    BY <1>1 DEF IInv, CopyOK, Over
  <2> QED BY <1>1, <2>1, Deletes
<1>2. IInv /\ [Next]_vars =>
        [ \A t \in Tasks :
            status[t] # "uploading" /\ status[t] # "gone" /\ status'[t] = "gone"
              => len[t] = Missing ]_vars
  BY <1>1
<1> QED BY <1>2, Invariance, PTL DEF Spec, RunningIsKept

\* The last fragment of a file that is still written is sent only after two
\* checks of this file, or one of a deleted task and one of this file.
THEOREM EarlyIsJudged == Spec => LastIsJudged
<1>1. ASSUME IInv, [Next]_vars, NEW t \in Tasks, early'[t], ~ early[t]
      PROVE  judged = t \/ (judged # NoTask /\ status[judged] = "gone")
  <2>1. TypeOK /\ OneUpload
    BY <1>1 DEF IInv
  <2>2. upload_file /\ ~ UNCHANGED early
    BY <1>1 DEF Next, Starts, Opens, Grows, Ends, Stops, report_stop_reason, Closes,
         check_and_upload_task, Handles, upload_success, Ground, Disconnects, Restarts,
         vars, history
  <2>3. PICK f \in Elems(toClient), u \in Tasks :
          f = Head(toClient) /\ u = f.task /\ toClient # <<>>
    BY <2>1, <2>2, FrameForClient DEF upload_file
  <2>4. early' = [early EXCEPT ![u] = @ \/ (/\ IsWhole(f) \/ IsLast(f)
                                         /\ Reply(f).state = "LATEST" /\ recording[u])]
    BY <2>2, <2>3 DEF upload_file, Reply, history
  <2>5. u = t
    BY <1>1, <2>1, <2>4 DEF TypeOK
  <2>6. (IsWhole(f) \/ IsLast(f)) /\ Reply(f).state = "LATEST"
    <3>1. early'[t] = (early[t] \/ (/\ IsWhole(f) \/ IsLast(f)
                                    /\ Reply(f).state = "LATEST" /\ recording[u]))
      BY <2>1, <2>4, <2>5 DEF TypeOK
    <3> QED BY <1>1, <3>1
  <2>7. IsLast(f)
    BY <2>6 DEF Reply, Frame
  <2>8. trace_stop /\ status[t] = "uploading"
    BY <2>3, <2>5, <2>7 DEF IsLast
  <2>9. judged # NoTask /\ Current(judged) /\ Current(t)
    BY <2>1, <2>3, <2>5, <2>8 DEF OneUpload
  <2> QED BY <2>8, <2>9 DEF Current
<1>2. IInv /\ [Next]_vars =>
        [ \A t \in Tasks :
            early'[t] /\ ~ early[t] =>
              judged = t \/ (judged # NoTask /\ status[judged] = "gone") ]_vars
  BY <1>1
<1> QED BY <1>2, Invariance, PTL DEF Spec, LastIsJudged
=============================================================================
