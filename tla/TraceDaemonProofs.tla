-------------------------- MODULE TraceDaemonProofs --------------------------
(***************************************************************************)
(* Proofs about TraceDaemon for any number of traces and frames.           *)
(*                                                                         *)
(* The list is described by its numbers: the frames up to d have left it,  *)
(* those from d + 1 to the last one read are in it, in this order.         *)
(***************************************************************************)
EXTENDS TraceDaemonProps, SequenceTheorems, TLAPS

\* Only a frame that has been freed has lost its neighbours, and a processor
\* only works on frames: then no step follows a null pointer.
Linked ==
  /\ \A n \in Nodes : n \notin freed => next[n] # NULL /\ prev[n] # NULL
  /\ \A t \in Traces : processor[t] \in {"frame", "remove"} => traFrame[t] # List

Named ==
  /\ hal = "init" => NextTrace \in Traces
  /\ hal \in {"head", "start"} => s_openFileName \in Traces

\* The trace whose threads may run: its successor is named before they are seen
\* to be done.
Current == IF hal = "head" THEN s_openFileName - 1 ELSE s_openFileName

Listed(d) ==
  /\ next[List] = IF d = read THEN List ELSE d + 1
  /\ prev[List] = IF d = read THEN List ELSE read
  /\ \A f \in d + 1 .. read : /\ next[f] = IF f = read THEN List ELSE f + 1
                              /\ prev[f] = IF f = d + 1 THEN List ELSE f - 1
  /\ freed \subseteq 1 .. d

\* A processor is at the first frame of the list, and knows the second one, if
\* that had come when it looked.
Works(t, d) ==
  /\ processor[t] \in {"frame", "remove"} => d < read /\ traFrame[t] = d + 1
  /\ processor[t] = "remove" => nextFrame[t] = List \/ (d + 1 < read /\ nextFrame[t] = d + 2)

\* The last frame that has been written or has left the list.
Done(t, d) == IF processor[t] = "remove" THEN d + 1 ELSE d

\* A file is its head and the frames up to the last one done.
Recorded(t, d) ==
  /\ file[t] # <<>> => file[t][1] = HEAD
  /\ \A i \in 2 .. Len(file[t]) : file[t][i] <= Done(t, d)
  /\ \A i \in 2 .. Len(file[t]) - 1 : file[t][i + 1] = file[t][i] + 1
  /\ t > Current => file[t] = <<>>
  /\ t = Current /\ hal = "start" => file[t] = <<HEAD>>
  /\ ~ Ended(processor[t]) => /\ t = Current /\ hal # "start" /\ s_fpTraceFile = t /\ file[t] # <<>>
                              /\ Len(file[t]) >= 2 => file[t][Len(file[t])] = Done(t, d)

Apart ==
  \A t \in Traces, u \in Traces : u < t =>
    \A i \in 2 .. Len(file[t]), j \in 2 .. Len(file[u]) : file[u][j] < file[t][i]

\* The file is open while its processor runs, and the flag is set only then.
Opened ==
  /\ hal = "start" => s_fpTraceFile = s_openFileName
  /\ hal # "start" /\ s_fpTraceFile # NoFile =>
       s_fpTraceFile \in Traces /\ ~ Ended(processor[s_fpTraceFile])
  /\ s_trace_open => /\ hal = "idle" /\ s_openFileName \in Traces
                     /\ ~ Ended(processor[s_openFileName]) /\ processor[s_openFileName] # "close"

Progress(d) == Listed(d) /\ \A t \in Traces : Works(t, d) /\ Recorded(t, d)

Tidy ==
  /\ ~ crashed /\ Opened /\ Apart
  /\ \E d \in 0 .. read : Progress(d)

IInv == TypeOK /\ Linked /\ Named /\ (~ overlap /\ ~ unopened => Tidy)

-----------------------------------------------------------------------------
(* The domains and the links, whatever overlaps.                           *)

\* A record is put behind the others.
LEMMA Behind ==
  ASSUME NEW s \in Seq(1 .. MaxFrames + 1), NEW r \in 1 .. MaxFrames + 1
  PROVE  /\ Append(s, r) \in Seq(1 .. MaxFrames + 1)
         /\ Len(Append(s, r)) = Len(s) + 1 /\ Len(s) \in Nat /\ Append(s, r) # <<>>
         /\ \A i \in 1 .. Len(s) : Append(s, r)[i] = s[i]
         /\ Append(s, r)[Len(s) + 1] = r
  BY AppendProperties, LenProperties

\* The names that are no trace and no frame.
LEMMA Names ==
  /\ MaxTraces \in Nat /\ MaxFrames \in Nat /\ HEAD = MaxFrames + 1 /\ HEAD \notin Nodes
  /\ NULL \notin Nodes /\ Nodes = Frames \cup {List} /\ List \notin Frames /\ NoFile \notin Traces
  /\ Traces \subseteq Nat /\ Frames \subseteq Nat
  BY TraceAssumption DEF HEAD, Nodes, Frames, List, NoFile, Traces

\* Writing a record keeps the types of the files.
LEMMA WriteTypes ==
  ASSUME TypeOK, NEW r \in 1 .. MaxFrames + 1, writeFrame(r)
  PROVE  /\ file' \in [Traces -> Seq(1 .. MaxFrames + 1)] /\ s_fpTraceFile' \in 0 .. MaxTraces
         /\ unopened' \in BOOLEAN
<1>1. s_fpTraceFile' \in 0 .. MaxTraces
  BY Names DEF writeFrame, toOpenFile, openTraceFile, TypeOK, NoFile
<1>2. unopened' \in BOOLEAN
  BY DEF writeFrame, toOpenFile
<1>3. file' \in [Traces -> Seq(1 .. MaxFrames + 1)]
  <2>1. CASE s_fpTraceFile' = NoFile
    BY <2>1 DEF writeFrame, TypeOK
  <2>2. CASE s_fpTraceFile' # NoFile
    <3>1. s_fpTraceFile' \in Traces
      BY <1>1, <2>2 DEF NoFile, Traces
    <3>2. PICK t \in Traces : t = s_fpTraceFile'
      BY <3>1
    <3>3. Append(file[t], r) \in Seq(1 .. MaxFrames + 1)
      BY Behind DEF TypeOK
    <3>4. file' = [file EXCEPT ![t] = Append(file[t], r)]
      BY <2>2, <3>2 DEF writeFrame
    <3> QED BY <3>3, <3>4 DEF TypeOK
  <2> QED BY <2>1, <2>2
<1> QED BY <1>1, <1>2, <1>3

\* A signal only wakes a processor.
LEMMA SignalTypes ==
  ASSUME TypeOK, signal
  PROVE  \/ UNCHANGED processor
         \/ \E p \in Traces : processor[p] = "waiting" /\ processor' = [processor EXCEPT ![p] = "scan"]
  BY DEF signal

\* The frame a processor removes is not null, nor are its neighbours.
LEMMA RemoveTypes ==
  ASSUME TypeOK, Linked, NEW t \in Traces, processor[t] = "remove",
         Allocated({traFrame[t], next[traFrame[t]], prev[traFrame[t]]})
  PROVE  /\ traFrame[t] \in Frames /\ traFrame[t] \notin freed
         /\ next[traFrame[t]] \in Nodes /\ next[traFrame[t]] \notin freed
         /\ prev[traFrame[t]] \in Nodes /\ prev[traFrame[t]] \notin freed
<1>1. traFrame[t] \in Frames /\ traFrame[t] \in Nodes
  BY Names DEF TypeOK, Linked
<1>2. /\ traFrame[t] \notin freed /\ next[traFrame[t]] \notin freed
      /\ prev[traFrame[t]] \notin freed
  BY DEF Allocated
<1> QED BY <1>1, <1>2 DEF TypeOK, Linked

\* The steps of the HAL's thread keep the domains and the links.
LEMMA HalTypes ==
  ASSUME TypeOK, Linked, Named, TRACE_ON \/ TRACE_OFF \/ TRACE_IND \/ Hal
  PROVE  TypeOK' /\ Linked' /\ Named'
<1>1. CASE TRACE_ON
  BY <1>1 DEF TRACE_ON, TypeOK, Linked, Named, files, list, threads, history, NextTrace
<1>2. CASE TRACE_OFF
  BY <1>2 DEF TRACE_OFF, TypeOK, Linked, Named, files, list, threads, history, NextTrace
<1>3. CASE TRACE_IND
  <2>1. s_fpTraceFile' \in 0 .. MaxTraces /\ unopened' \in BOOLEAN
    BY <1>3, Names DEF TRACE_IND, toOpenFile, openTraceFile, TypeOK, NoFile
  <2> QED BY <1>3, <2>1 DEF TRACE_IND, TypeOK, Linked, Named, halVars, list, threads, NextTrace
<1>4. CASE traceInit
  <2>1. NextTrace \in 0 .. MaxTraces
    BY <1>4, Names DEF traceInit, Named, Traces
  <2>2. s_openFileName' \in 0 .. MaxTraces
    BY <1>4, <2>1 DEF traceInit, TypeOK
  <2>3. hal' \in {"head", "idle"} /\ inited' \in BOOLEAN
    BY <1>4 DEF traceInit, TypeOK
  <2>4. hal' = "head" => s_openFileName' \in Traces
    BY <1>4 DEF traceInit, Named, TypeOK
  <2> QED BY <1>4, <2>2, <2>3, <2>4 DEF traceInit, TypeOK, Linked, Named, files, list, threads, history
<1>5. CASE writeTraceFileHead
  <2>1. /\ file' \in [Traces -> Seq(1 .. MaxFrames + 1)] /\ s_fpTraceFile' \in 0 .. MaxTraces
        /\ unopened' \in BOOLEAN
    <3>1. HEAD \in 1 .. MaxFrames + 1
      BY Names
    <3> QED BY <1>5, <3>1, WriteTypes DEF writeTraceFileHead
  <2>2. overlap' \in BOOLEAN
    BY <1>5 DEF writeTraceFileHead
  <2> QED BY <1>5, <2>1, <2>2 DEF writeTraceFileHead, TypeOK, Linked, Named, list, threads
<1>6. CASE startThreads
  <2>1. PICK t \in Traces : t = s_openFileName
    BY <1>6 DEF startThreads, Named
  <2>2. /\ reader' \in [Traces -> {"none", "top", "get", "signal", "gone"}]
        /\ processor' \in [Traces -> {"none", "scan", "frame", "remove", "check", "close",
                                      "block", "waiting", "gone"}]
        /\ \A u \in Traces : processor'[u] \in {"frame", "remove"} => processor[u] = processor'[u]
    BY <1>6, <2>1 DEF startThreads, TypeOK
  <2>3. /\ next' \in [Nodes -> Nodes \cup {NULL}] /\ prev' \in [Nodes -> Nodes \cup {NULL}]
        /\ UNCHANGED freed
        /\ \A n \in Nodes : n \notin freed => next'[n] # NULL /\ prev'[n] # NULL
    BY <1>6, Names DEF startThreads, frame_init_list, TypeOK, Linked
  <2> QED BY <1>6, <2>2, <2>3 DEF startThreads, TypeOK, Linked, Named, files, history
<1> QED BY <1>1, <1>2, <1>3, <1>4, <1>5, <1>6 DEF Hal

\* So do those of a reader.
LEMMA ReaderTypes ==
  ASSUME TypeOK, Linked, Named, NEW t \in Traces, Reader(t)
  PROVE  TypeOK' /\ Linked' /\ Named'
<1>1. ASSUME UNCHANGED processor
             \/ \E p \in Traces : processor' = [processor EXCEPT ![p] = "scan"]
      PROVE  /\ processor' \in [Traces -> {"none", "scan", "frame", "remove", "check", "close",
                                           "block", "waiting", "gone"}]
             /\ \A u \in Traces : processor'[u] \in {"frame", "remove"} => processor[u] = processor'[u]
  BY <1>1 DEF TypeOK
<1>2. ASSUME NEW pos \in {"top", "get", "signal", "gone"}, reader' = [reader EXCEPT ![t] = pos]
      PROVE  reader' \in [Traces -> {"none", "top", "get", "signal", "gone"}]
  BY <1>2 DEF TypeOK
<1>3. CASE readTraceStreamLoop(t)
  <2>1. \/ UNCHANGED processor
        \/ \E p \in Traces : processor' = [processor EXCEPT ![p] = "scan"]
    BY <1>3, SignalTypes DEF readTraceStreamLoop
  <2>2. missed' \in BOOLEAN
    BY <1>3 DEF readTraceStreamLoop, TypeOK
  <2>3. reader' \in [Traces -> {"none", "top", "get", "signal", "gone"}]
    BY <1>2, <1>3 DEF readTraceStreamLoop
  <2> QED BY <1>1, <1>3, <2>1, <2>2, <2>3
          DEF readTraceStreamLoop, TypeOK, Linked, Named, halVars, files, list, NextTrace
<1>4. CASE getTraceFrame(t)
  <2>1. reader' \in [Traces -> {"none", "top", "get", "signal", "gone"}]
    BY <1>2, <1>4 DEF getTraceFrame
  <2>2. CASE UNCHANGED <<read, list>>
    BY <1>4, <2>1, <2>2
       DEF getTraceFrame, TypeOK, Linked, Named, halVars, files, list, history, NextTrace
  <2>3. CASE /\ read < MaxFrames /\ read' = read + 1 /\ frame_addToList(read + 1)
             /\ UNCHANGED freed
    <3>1. read' \in 0 .. MaxFrames /\ read + 1 \in Nodes /\ List \in Nodes
      BY <2>3, Names DEF TypeOK, Nodes, List
    <3>2. List \notin freed /\ prev[List] # NULL
      BY <3>1, Names DEF TypeOK, Linked
    <3>3. prev[List] \in Nodes
      BY <3>1, <3>2 DEF TypeOK
    <3>4. /\ next' \in [Nodes -> Nodes \cup {NULL}] /\ prev' \in [Nodes -> Nodes \cup {NULL}]
      BY <2>3, <3>1, <3>3 DEF frame_addToList, TypeOK
    <3>5. \A n \in Nodes : n \notin freed => next'[n] # NULL /\ prev'[n] # NULL
      BY <2>3, <3>1, <3>3, Names DEF frame_addToList, TypeOK, Linked
    <3> QED BY <1>4, <2>1, <2>3, <3>1, <3>4, <3>5
            DEF getTraceFrame, TypeOK, Linked, Named, halVars, files, history, NextTrace
  <2> QED BY <1>4, <2>2, <2>3 DEF getTraceFrame
<1>5. CASE getTraceFrame_signals(t)
  <2>1. \/ UNCHANGED processor
        \/ \E p \in Traces : processor' = [processor EXCEPT ![p] = "scan"]
    BY <1>5, SignalTypes DEF getTraceFrame_signals
  <2>2. reader' \in [Traces -> {"none", "top", "get", "signal", "gone"}]
    BY <1>2, <1>5 DEF getTraceFrame_signals
  <2> QED BY <1>1, <1>5, <2>1, <2>2
          DEF getTraceFrame_signals, TypeOK, Linked, Named, halVars, files, list, history, NextTrace
<1> QED BY <1>3, <1>4, <1>5 DEF Reader

\* So do those of a processor, as it crashes where it would use freed memory.
LEMMA ProcessorTypes ==
  ASSUME TypeOK, Linked, Named, NEW t \in Traces, Processor(t) \/ Spurious(t)
  PROVE  TypeOK' /\ Linked' /\ Named'
<1> DEFINE Positions == {"none", "scan", "frame", "remove", "check", "close", "block", "waiting", "gone"}
<1>1. ASSUME NEW pos \in Positions, processor' = [processor EXCEPT ![t] = pos]
      PROVE  /\ processor' \in [Traces -> Positions]
             /\ \A u \in Traces : processor'[u] = IF u = t THEN pos ELSE processor[u]
  BY <1>1 DEF TypeOK
<1>2. ASSUME NEW f \in Nodes, traFrame' = [traFrame EXCEPT ![t] = f]
      PROVE  /\ traFrame' \in [Traces -> Nodes]
             /\ \A u \in Traces : traFrame'[u] = IF u = t THEN f ELSE traFrame[u]
  BY <1>2 DEF TypeOK
<1>3. CASE scan(t)
  <2>1. List \in Nodes /\ List \notin freed
    BY Names DEF TypeOK
  <2>2. next[List] \in Nodes
    BY <2>1 DEF TypeOK, Linked
  <2>3. At(next[List]) \in Positions /\ (At(next[List]) \in {"frame", "remove"} => next[List] # List)
    BY DEF At
  <2>4. /\ processor' \in [Traces -> Positions] /\ traFrame' \in [Traces -> Nodes]
        /\ \A u \in Traces : /\ processor'[u] = IF u = t THEN At(next[List]) ELSE processor[u]
                             /\ traFrame'[u] = IF u = t THEN next[List] ELSE traFrame[u]
    BY ZenonT(60), <1>1, <1>2, <1>3, <2>2, <2>3 DEF scan
  <2> QED BY <1>3, <2>3, <2>4
          DEF scan, TypeOK, Linked, Named, halVars, files, list, history, NextTrace
<1>4. CASE processOTRByTypes(t)
  <2>1. traFrame[t] \in Frames /\ traFrame[t] \in Nodes /\ traFrame[t] \notin freed
    BY <1>4, Names DEF processOTRByTypes, TypeOK, Linked, Allocated
  <2>2. next[traFrame[t]] \in Nodes
    BY <2>1 DEF TypeOK, Linked
  <2>3. nextFrame' \in [Traces -> Nodes]
    BY <1>4, <2>2 DEF processOTRByTypes, TypeOK
  <2>4. /\ file' \in [Traces -> Seq(1 .. MaxFrames + 1)] /\ s_fpTraceFile' \in 0 .. MaxTraces
        /\ unopened' \in BOOLEAN
    <3>1. traFrame[t] \in 1 .. MaxFrames + 1
      BY <2>1, Names DEF Frames
    <3> QED BY <1>4, <3>1, WriteTypes DEF processOTRByTypes
  <2>5. /\ processor' \in [Traces -> Positions]
        /\ \A u \in Traces : processor'[u] = IF u = t THEN "remove" ELSE processor[u]
    BY <1>1, <1>4 DEF processOTRByTypes
  <2>6. \A u \in Traces : processor'[u] \in {"frame", "remove"} => traFrame[u] # List
    BY <1>4, <2>5 DEF processOTRByTypes, Linked
  <2> QED BY <1>4, <2>3, <2>4, <2>5, <2>6
          DEF processOTRByTypes, TypeOK, Linked, Named, halVars, list, NextTrace
<1>5. CASE removeAndFree(t)
  <2>1. PICK f \in Frames, a \in Nodes, b \in Nodes :
          /\ f = traFrame[t] /\ a = next[f] /\ b = prev[f]
          /\ f \notin freed /\ a \notin freed /\ b \notin freed
    BY <1>5, RemoveTypes DEF removeAndFree
  <2>2. f \in Nodes
    BY Names
  <2>3. /\ prev' = [prev EXCEPT ![a] = b, ![f] = NULL]
        /\ next' = [next EXCEPT ![b] = a, ![f] = NULL]
        /\ freed' = freed \cup {f}
    BY <1>5, <2>1 DEF removeAndFree, frame_removeFromList
  <2>4. /\ next' \in [Nodes -> Nodes \cup {NULL}] /\ prev' \in [Nodes -> Nodes \cup {NULL}]
        /\ freed' \subseteq Frames
    BY <2>1, <2>2, <2>3 DEF TypeOK
  <2>5. \A n \in Nodes : n \notin freed' => next'[n] # NULL /\ prev'[n] # NULL
    <3>1. a # NULL /\ b # NULL
      BY <2>1, Names
    <3> QED BY <2>1, <2>2, <2>3, <3>1 DEF TypeOK, Linked
  <2>6. nextFrame[t] \in Nodes
    BY DEF TypeOK
  <2>7. At(nextFrame[t]) \in Positions /\ (At(nextFrame[t]) \in {"frame", "remove"} => nextFrame[t] # List)
    BY DEF At
  <2>8. /\ processor' \in [Traces -> Positions] /\ traFrame' \in [Traces -> Nodes]
        /\ \A u \in Traces : /\ processor'[u] = IF u = t THEN At(nextFrame[t]) ELSE processor[u]
                             /\ traFrame'[u] = IF u = t THEN nextFrame[t] ELSE traFrame[u]
    BY ZenonT(60), <1>1, <1>2, <1>5, <2>6, <2>7 DEF removeAndFree
  <2>9. \A u \in Traces : processor'[u] \in {"frame", "remove"} => traFrame'[u] # List
    BY <2>7, <2>8 DEF Linked
  <2> QED BY <1>5, <2>4, <2>5, <2>8, <2>9
          DEF removeAndFree, TypeOK, Linked, Named, halVars, files, history, NextTrace
<1>6. ASSUME NEW pos \in Positions \ {"frame", "remove"}, processor' = [processor EXCEPT ![t] = pos],
             UNCHANGED <<halVars, file, read, list, reader, traFrame, nextFrame, crashed, history>>,
             s_fpTraceFile' \in {s_fpTraceFile, NoFile}
      PROVE  TypeOK' /\ Linked' /\ Named'
  <2>1. /\ processor' \in [Traces -> Positions]
        /\ \A u \in Traces : processor'[u] \in {"frame", "remove"} => processor[u] = processor'[u]
    BY <1>1, <1>6
  <2>2. s_fpTraceFile' \in 0 .. MaxTraces
    BY <1>6, Names DEF TypeOK, NoFile
  <2> QED BY <1>6, <2>1, <2>2 DEF TypeOK, Linked, Named, halVars, list, history, NextTrace
<1>7. CASE processTraceFrameLoop(t)
  <2>1. (IF s_trace_open THEN "block" ELSE "close") \in Positions \ {"frame", "remove"}
    OBVIOUS
  <2> QED BY <1>6, <1>7, <2>1 DEF processTraceFrameLoop, files
<1>8. CASE closeTraceFile(t)
  BY <1>6, <1>8 DEF closeTraceFile
<1>9. CASE wait(t) \/ Spurious(t)
  BY <1>6, <1>9 DEF wait, Spurious, files
<1>10. CASE processor_crash(t)
  <2>1. Crash
    BY <1>10 DEF processor_crash
  <2>2. \A n \in Nodes : next'[n] # NULL /\ prev'[n] # NULL
    BY <2>1, Names DEF Crash
  <2>3. /\ next' \in [Nodes -> Nodes \cup {NULL}] /\ prev' \in [Nodes -> Nodes \cup {NULL}]
        /\ traFrame' \in [Traces -> Nodes] /\ nextFrame' \in [Traces -> Nodes]
    BY <2>1, Names DEF Crash
  <2>4. /\ processor' \in [Traces -> Positions]
        /\ \A u \in Traces : processor'[u] = "gone"
        /\ reader' \in [Traces -> {"none", "top", "get", "signal", "gone"}]
    BY <2>1 DEF Crash
  <2>5. s_fpTraceFile' \in 0 .. MaxTraces
    BY <2>1, Names DEF Crash, NoFile
  <2> QED BY <2>1, <2>2, <2>3, <2>4, <2>5 DEF Crash, TypeOK, Linked, Named, history
<1> QED BY <1>3, <1>4, <1>5, <1>7, <1>8, <1>9, <1>10 DEF Processor

\* Every step keeps the domains, and follows no null pointer.
LEMMA TypeStep ==
  ASSUME TypeOK, Linked, Named, [Next]_vars
  PROVE  TypeOK' /\ Linked' /\ Named'
<1>1. CASE UNCHANGED vars
  BY <1>1 DEF vars, halVars, files, list, threads, history, TypeOK, Linked, Named, NextTrace
<1> QED BY <1>1, HalTypes, ReaderTypes, ProcessorTypes DEF Next

-----------------------------------------------------------------------------
(* The steps, while no traces overlap and every file could be opened.      *)

\* The HAL's thread switches the flag, or nothing happens to list and files.
LEMMA Quiet ==
  ASSUME TypeOK, Opened, Apart, NEW d \in 0 .. read, Progress(d), ~ crashed',
         UNCHANGED <<files, read, list, processor, traFrame, nextFrame>>,
         Current' = Current, hal # "start", hal' # "start",
         s_trace_open' => s_trace_open /\ hal' = "idle" /\ s_openFileName' = s_openFileName
  PROVE  Tidy'
<1>1. UNCHANGED <<file, s_fpTraceFile, read, next, prev, freed, processor, traFrame, nextFrame>>
  BY DEF files, list
<1>2. Listed(d)'
  BY <1>1 DEF Progress, Listed
<1>3. ASSUME NEW t \in Traces PROVE Works(t, d)' /\ Recorded(t, d)'
  BY <1>1 DEF Progress, Works, Recorded, Done
<1>4. Opened'
  BY <1>1 DEF Opened
<1>5. Apart'
  BY <1>1 DEF Apart
<1> QED BY <1>1, <1>2, <1>3, <1>4, <1>5 DEF Tidy, Progress

\* A processor goes on without touching its file or the list.
LEMMA Moves ==
  ASSUME TypeOK, Opened, Apart, NEW d \in 0 .. read, Progress(d), ~ crashed',
         UNCHANGED <<halVars, files, read, list, nextFrame>>,
         NEW t \in Traces, ~ Ended(processor[t]), processor[t] # "remove",
         NEW pos \in {"scan", "frame", "check", "close", "block", "waiting"},
         processor' = [processor EXCEPT ![t] = pos],
         pos = "close" => ~ s_trace_open,
         pos = "frame" => d < read /\ traFrame'[t] = d + 1,
         \A u \in Traces : u # t => traFrame'[u] = traFrame[u]
  PROVE  Tidy'
<1>1. UNCHANGED <<file, s_fpTraceFile, read, next, prev, freed, hal, s_trace_open, s_openFileName,
                  nextFrame, Current>>
  BY DEF files, list, halVars, Current
<1>2. Listed(d)'
  BY <1>1 DEF Progress, Listed
<1>3. processor'[t] = pos /\ \A u \in Traces : u # t => processor'[u] = processor[u]
  BY DEF TypeOK
<1>4. \A u \in Traces : /\ Ended(processor'[u]) <=> Ended(processor[u])
                        /\ Done(u, d)' = Done(u, d)
  BY <1>3 DEF Ended, Done
<1>5. ASSUME NEW u \in Traces PROVE Works(u, d)' /\ Recorded(u, d)'
  <2>1. Works(u, d)'
    BY <1>1, <1>3 DEF Progress, Works
  <2>2. Recorded(u, d)'
    BY <1>1, <1>4 DEF Progress, Recorded
  <2> QED BY <2>1, <2>2
<1>6. Opened'
  BY <1>1, <1>3, <1>4 DEF Opened
<1>7. Apart'
  BY <1>1 DEF Apart
<1> QED BY <1>1, <1>2, <1>5, <1>6, <1>7 DEF Tidy, Progress

\* The processor closes its file.
LEMMA Closes ==
  ASSUME TypeOK, Opened, Apart, NEW d \in 0 .. read, Progress(d), ~ crashed,
         NEW t \in Traces, closeTraceFile(t)
  PROVE  Tidy'
<1>1. /\ UNCHANGED <<file, read, next, prev, freed, hal, s_trace_open, s_openFileName,
                     traFrame, nextFrame, Current, crashed>>
      /\ s_fpTraceFile' = NoFile /\ processor[t] = "close"
      /\ processor' = [processor EXCEPT ![t] = "gone"]
  BY DEF closeTraceFile, list, halVars, Current
<1>2. Listed(d)'
  BY <1>1 DEF Progress, Listed
<1>3. processor'[t] = "gone" /\ \A u \in Traces : u # t => processor'[u] = processor[u]
  BY <1>1 DEF TypeOK
<1>4. /\ t = Current /\ hal # "start"
      /\ \A u \in Traces : u # t => Ended(processor[u])
  BY <1>1 DEF Progress, Recorded, Ended
<1>5. \A u \in Traces : Ended(processor'[u]) /\ Done(u, d)' = Done(u, d)
  BY <1>1, <1>3, <1>4 DEF Ended, Done
<1>6. ASSUME NEW u \in Traces PROVE Works(u, d)' /\ Recorded(u, d)'
  <2>1. Works(u, d)'
    BY <1>5 DEF Works, Ended
  <2>2. Recorded(u, d)'
    BY <1>1, <1>5 DEF Progress, Recorded
  <2> QED BY <2>1, <2>2
<1>7. Opened'
  <2>1. ~ s_trace_open
    <3>1. s_trace_open => hal = "idle" /\ s_openFileName = t
      BY <1>4 DEF Opened, Current
    <3> QED BY <1>1, <3>1 DEF Opened
  <2> QED BY <1>1, <1>4, <2>1 DEF Opened
<1>8. Apart'
  BY <1>1 DEF Apart
<1> QED BY <1>1, <1>2, <1>6, <1>7, <1>8 DEF Tidy, Progress

\* A frame that was taken from the device becomes the last one of the list.
LEMMA Adds ==
  ASSUME TypeOK, Opened, Apart, NEW d \in 0 .. read, Progress(d), ~ crashed',
         UNCHANGED <<halVars, files, freed, processor, traFrame, nextFrame>>,
         read < MaxFrames, read' = read + 1, frame_addToList(read + 1)
  PROVE  Tidy'
<1>1. UNCHANGED <<file, s_fpTraceFile, freed, hal, s_trace_open, s_openFileName, Current,
                  processor, traFrame, nextFrame>>
  BY DEF files, halVars, Current
<1>2. /\ read \in Nat /\ d \in Nat /\ d <= read /\ read + 1 \in Nodes /\ List \in Nodes /\ List = 0
      /\ \A f \in d + 1 .. read : f \in Nodes
  BY Names DEF TypeOK, Nodes, List
<1>3. prev[List] = (IF d = read THEN List ELSE read) /\ prev[List] \in Nodes
  BY <1>2 DEF Progress, Listed, Nodes
<1>4. PICK p \in Nodes : p = prev[List]
  BY <1>3
<1>5. /\ next' = [next EXCEPT ![read + 1] = List, ![p] = read + 1]
      /\ prev' = [prev EXCEPT ![read + 1] = p, ![List] = read + 1]
  BY <1>4 DEF frame_addToList
<1>6. /\ \A n \in Nodes : next'[n] = IF n = p THEN read + 1 ELSE IF n = read + 1 THEN List ELSE next[n]
      /\ \A n \in Nodes : prev'[n] = IF n = List THEN read + 1 ELSE IF n = read + 1 THEN p ELSE prev[n]
  BY <1>5 DEF TypeOK
<1>7. d \in 0 .. read' /\ d # read'
  BY <1>2
<1>8. Listed(d)'
  <2>1. next'[List] = d + 1
    <3>1. CASE d = read
      BY <1>2, <1>3, <1>4, <1>6, <3>1
    <3>2. CASE d # read
      <4>1. next[List] = d + 1 /\ p = read /\ read # 0
        BY <1>2, <1>3, <1>4, <3>2 DEF Progress, Listed
      <4> QED BY <1>2, <1>6, <4>1
    <3> QED BY <3>1, <3>2
  <2>2. prev'[List] = read'
    BY <1>2, <1>6
  <2>3. ASSUME NEW f \in d + 1 .. read'
        PROVE  /\ next'[f] = IF f = read' THEN List ELSE f + 1
               /\ prev'[f] = IF f = d + 1 THEN List ELSE f - 1
    <3>1. CASE f = read + 1
      <4>1. f # p /\ f # List /\ f \in Nodes
        BY <1>2, <1>3, <1>4, <3>1
      <4>2. next'[f] = List /\ prev'[f] = p
        BY <1>6, <3>1, <4>1
      <4>3. p = IF f = d + 1 THEN List ELSE f - 1
        BY <1>2, <1>3, <1>4, <3>1
      <4> QED BY <3>1, <4>2, <4>3
    <3>2. CASE f # read + 1
      <4>1. f \in d + 1 .. read /\ f # List /\ f \in Nodes /\ d # read
        BY <1>2, <3>2
      <4>2. /\ next[f] = IF f = read THEN List ELSE f + 1
            /\ prev[f] = IF f = d + 1 THEN List ELSE f - 1
        BY <4>1 DEF Progress, Listed
      <4>3. next'[f] = IF f = read THEN read + 1 ELSE next[f]
        BY <1>3, <1>4, <1>6, <3>2, <4>1
      <4>4. prev'[f] = prev[f]
        BY <1>6, <3>2, <4>1
      <4>5. (next'[f] = IF f = read' THEN List ELSE f + 1)
        BY <1>2, <3>2, <4>2, <4>3
      <4> QED BY <4>2, <4>4, <4>5
    <3> QED BY <3>1, <3>2
  <2>4. freed' \subseteq 1 .. d
    BY <1>1 DEF Progress, Listed
  <2> QED BY <1>7, <2>1, <2>2, <2>3, <2>4 DEF Listed
<1>9. ASSUME NEW t \in Traces PROVE Works(t, d)' /\ Recorded(t, d)'
  <2>1. Works(t, d)'
    <3>1. (d < read => d < read') /\ (d + 1 < read => d + 1 < read')
      BY <1>2
    <3> QED BY <1>1, <3>1 DEF Progress, Works
  <2>2. Recorded(t, d)'
    BY <1>1 DEF Progress, Recorded, Done
  <2> QED BY <2>1, <2>2
<1>10. Opened'
  BY <1>1 DEF Opened
<1>11. Apart'
  BY <1>1 DEF Apart
<1> QED BY <1>7, <1>8, <1>9, <1>10, <1>11 DEF Tidy, Progress

\* What is in a file is a number.
LEMMA Numbered ==
  ASSUME TypeOK, NEW t \in Traces, NEW i \in 2 .. Len(file[t])
  PROVE  file[t][i] \in Int
<1>1. PICK s \in Seq(1 .. MaxFrames + 1) : s = file[t]
  BY DEF TypeOK
<1>2. i \in 1 .. Len(s)
  BY <1>1, LenProperties
<1>3. s[i] \in 1 .. MaxFrames + 1
  BY <1>2, ElementOfSeq
<1> QED BY <1>1, <1>3, Names

\* The processor writes the first frame of the list, which nobody has freed, to
\* its file, which is open.
LEMMA Writes ==
  ASSUME TypeOK, Linked, Opened, Apart, NEW d \in 0 .. read, Progress(d), ~ crashed,
         NEW t \in Traces, processOTRByTypes(t)
  PROVE  Tidy'
<1>1. /\ UNCHANGED <<read, next, prev, freed, hal, s_trace_open, s_openFileName,
                     traFrame, Current, crashed>>
      /\ processor[t] = "frame" /\ processor' = [processor EXCEPT ![t] = "remove"]
      /\ nextFrame' = [nextFrame EXCEPT ![t] = next[traFrame[t]]]
      /\ writeFrame(traFrame[t])
  BY DEF processOTRByTypes, list, halVars, Current
<1>2. d \in Nat /\ read \in Nat /\ d < read /\ traFrame[t] = d + 1 /\ read <= MaxFrames
  BY <1>1, Names DEF Progress, Works, TypeOK
<1>3. /\ t = Current /\ hal # "start" /\ s_fpTraceFile = t /\ file[t] # <<>>
      /\ Len(file[t]) >= 2 => file[t][Len(file[t])] = d
      /\ \A u \in Traces : u # t => Ended(processor[u])
  BY <1>1 DEF Progress, Recorded, Ended, Done
<1>4. /\ processor'[t] = "remove" /\ nextFrame'[t] = next[d + 1]
      /\ \A u \in Traces : u # t => processor'[u] = processor[u] /\ nextFrame'[u] = nextFrame[u]
  BY <1>1, <1>2 DEF TypeOK
<1>5. s_fpTraceFile' = t /\ file' = [file EXCEPT ![t] = Append(file[t], d + 1)]
  BY <1>1, <1>2, <1>3, Names DEF writeFrame, toOpenFile
<1>6. PICK s \in Seq(1 .. MaxFrames + 1), z \in Seq(1 .. MaxFrames + 1) :
        /\ s = file[t] /\ z = file'[t]
        /\ Len(z) = Len(s) + 1 /\ Len(s) \in Nat /\ z # <<>>
        /\ \A i \in 1 .. Len(s) : z[i] = s[i]
        /\ z[Len(s) + 1] = d + 1
  <2>1. d + 1 \in 1 .. MaxFrames + 1
    BY <1>2, Names
  <2>2. file[t] \in Seq(1 .. MaxFrames + 1) /\ file'[t] = Append(file[t], d + 1)
    BY <1>5 DEF TypeOK
  <2> QED BY <2>1, <2>2, Behind
<1>7. \A u \in Traces : u # t => file'[u] = file[u]
  BY <1>5 DEF TypeOK
<1>8. Listed(d)'
  BY <1>1 DEF Progress, Listed
<1>9. /\ Len(s) # 0 /\ s[1] = HEAD
      /\ \A i \in 2 .. Len(s) : s[i] <= d
      /\ \A i \in 2 .. Len(s) - 1 : s[i + 1] = s[i] + 1
  <2>1. Len(s) # 0
    BY <1>3, <1>6, EmptySeq
  <2>2. Recorded(t, d) /\ Done(t, d) = d
    BY <1>1 DEF Progress, Done
  <2> QED BY <1>3, <1>6, <2>1, <2>2 DEF Recorded
<1>10. /\ z[1] = HEAD
       /\ \A i \in 2 .. Len(z) : z[i] <= d + 1 /\ (i \in 2 .. Len(s) \/ z[i] = d + 1)
       /\ \A i \in 2 .. Len(z) - 1 : z[i + 1] = z[i] + 1
  <2>1. 1 \in 1 .. Len(s)
    BY <1>6, <1>9
  <2>2. ASSUME NEW i \in 2 .. Len(z) PROVE z[i] <= d + 1 /\ (i \in 2 .. Len(s) \/ z[i] = d + 1)
    <3>1. CASE i = Len(s) + 1
      BY <1>2, <1>6, <3>1
    <3>2. CASE i # Len(s) + 1
      <4>1. i \in 1 .. Len(s) /\ i \in 2 .. Len(s)
        BY <1>6, <3>2
      <4>2. s[i] \in Int /\ s[i] <= d /\ z[i] = s[i]
        BY SMTT(30), <1>6, <1>9, <4>1, ElementOfSeq, Names
      <4> QED BY <1>2, <4>1, <4>2
    <3> QED BY <3>1, <3>2
  <2>3. ASSUME NEW i \in 2 .. Len(z) - 1 PROVE z[i + 1] = z[i] + 1
    <3>1. i \in 1 .. Len(s)
      BY <1>6
    <3>2. CASE i = Len(s)
      <4>1. Len(s) >= 2 /\ z[i] = s[Len(s)] /\ z[i + 1] = d + 1
        BY <1>6, <3>1, <3>2
      <4>2. s[Len(s)] = d
        BY <1>3, <1>6, <4>1
      <4> QED BY <4>1, <4>2
    <3>3. CASE i # Len(s)
      <4>1. i \in 2 .. Len(s) - 1 /\ i + 1 \in 1 .. Len(s)
        BY <1>6, <3>1, <3>3
      <4> QED BY <1>6, <1>9, <3>1, <4>1
    <3> QED BY <3>2, <3>3
  <2> QED BY <1>6, <1>9, <2>1, <2>2, <2>3
<1>11. ASSUME NEW u \in Traces PROVE Works(u, d)' /\ Recorded(u, d)'
  <2>1. CASE u = t
    <3>1. Done(t, d)' = d + 1 /\ ~ Ended(processor'[t])
      BY <1>4 DEF Done, Ended
    <3>2. Recorded(t, d)'
      <4>1. z[Len(z)] = d + 1
        BY <1>6
      <4>2. \A i \in 2 .. Len(z) : z[i] <= d + 1
        BY <1>10
      <4>3. ~ (t > Current) /\ Current' = Current /\ hal' = hal
        BY <1>1, <1>3, Names
      <4> QED BY <1>3, <1>5, <1>6, <1>10, <3>1, <4>1, <4>2, <4>3 DEF Recorded
    <3>3. Works(t, d)'
      <4>1. next[d + 1] = IF d + 1 = read THEN List ELSE d + 2
        <5>1. d + 1 \in d + 1 .. read /\ d + 1 + 1 = d + 2
          BY <1>2
        <5> QED BY <5>1 DEF Progress, Listed
      <4>2. d + 1 # read => d + 1 < read
        BY <1>2
      <4> QED BY <1>1, <1>2, <1>4, <4>1, <4>2 DEF Works
    <3> QED BY <2>1, <3>2, <3>3
  <2>2. CASE u # t
    <3>1. Done(u, d)' = Done(u, d) /\ processor'[u] = processor[u] /\ Ended(processor[u])
      BY <1>3, <1>4, <2>2 DEF Done, Ended
    <3>2. Recorded(u, d)'
      BY <1>1, <1>7, <2>2, <3>1 DEF Progress, Recorded
    <3>3. Works(u, d)'
      BY <3>1 DEF Works, Ended
    <3> QED BY <3>2, <3>3
  <2> QED BY <2>1, <2>2
<1>12. Opened'
  BY <1>1, <1>3, <1>4, <1>5 DEF Opened, Ended
<1>13. Apart'
  <2>1. ASSUME NEW u \in Traces, u # t, NEW i \in 2 .. Len(file[u]) PROVE file[u][i] <= d
    <3>1. Done(u, d) = d
      BY <1>3, <2>1 DEF Done, Ended
    <3> QED BY <3>1 DEF Progress, Recorded
  <2> SUFFICES ASSUME NEW a \in Traces, NEW b \in Traces, b < a,
                      NEW i \in 2 .. Len(file'[a]), NEW j \in 2 .. Len(file'[b])
               PROVE  file'[b][j] < file'[a][i]
    BY DEF Apart
  <2>2. CASE a # t /\ b # t
    BY <1>7, <2>2 DEF Apart
  <2>3. CASE b = t
    <3>1. a > Current /\ a # t
      BY <1>3, <2>3, Names
    <3>2. file'[a] = <<>>
      BY <1>7, <3>1 DEF Progress, Recorded
    <3> QED BY <3>2
  <2>4. CASE a = t /\ b # t
    <3>1. file'[b] = file[b] /\ file[b][j] <= d
      BY <1>7, <2>1, <2>4
    <3>2. CASE i \in 2 .. Len(s)
      <4>1. i \in 1 .. Len(s)
        BY <1>6, <3>2
      <4>2. file'[a][i] = file[a][i] /\ i \in 2 .. Len(file[a])
        BY <1>6, <2>4, <3>2, <4>1
      <4> QED BY <3>1, <4>2 DEF Apart
    <3>3. CASE i \notin 2 .. Len(s)
      <4>1. file'[a][i] = d + 1
        BY <1>6, <1>10, <2>4, <3>3
      <4>2. file[b][j] \in Int
        <5>1. j \in 2 .. Len(file[b])
          BY <3>1
        <5> QED BY <5>1, Numbered
      <4> QED BY <1>2, <3>1, <4>1, <4>2
    <3> QED BY <3>2, <3>3
  <2> QED BY <2>2, <2>3, <2>4
<1> QED BY <1>1, <1>8, <1>11, <1>12, <1>13 DEF Tidy, Progress

\* The processor takes the first frame out of the list and frees it; the frame
\* it goes on with is the first one now.
LEMMA Removes ==
  ASSUME TypeOK, Linked, Opened, Apart, NEW d \in 0 .. read, Progress(d), ~ crashed,
         NEW t \in Traces, removeAndFree(t)
  PROVE  Tidy'
<1>1. /\ UNCHANGED <<read, file, s_fpTraceFile, hal, s_trace_open, s_openFileName,
                     nextFrame, Current, crashed>>
      /\ processor[t] = "remove"
      /\ processor' = [processor EXCEPT ![t] = At(nextFrame[t])]
      /\ traFrame' = [traFrame EXCEPT ![t] = nextFrame[t]]
  BY DEF removeAndFree, files, halVars, Current
<1>2. /\ d \in Nat /\ read \in Nat /\ d < read /\ traFrame[t] = d + 1 /\ read <= MaxFrames
      /\ nextFrame[t] = List \/ (d + 1 < read /\ nextFrame[t] = d + 2)
  BY <1>1, Names DEF Progress, Works, TypeOK
<1>3. /\ t = Current /\ hal # "start" /\ s_fpTraceFile = t /\ file[t] # <<>>
      /\ Len(file[t]) >= 2 => file[t][Len(file[t])] = d + 1
      /\ \A u \in Traces : u # t => Ended(processor[u])
  BY <1>1 DEF Progress, Recorded, Ended, Done
<1>4. At(nextFrame[t]) \in {"frame", "check"} /\ (At(nextFrame[t]) = "frame" => nextFrame[t] # List)
  BY DEF At
<1>5. /\ processor'[t] \in {"frame", "check"} /\ traFrame'[t] = nextFrame[t]
      /\ processor'[t] = "frame" => nextFrame[t] # List
      /\ \A u \in Traces : u # t => processor'[u] = processor[u] /\ traFrame'[u] = traFrame[u]
  BY <1>1, <1>4 DEF TypeOK
<1>6. d + 1 \in Nodes /\ List \in Nodes /\ List = 0 /\ \A f \in d + 1 .. read : f \in Nodes
  BY <1>2, Names DEF Nodes, List
<1>7. /\ next[List] = d + 1 /\ prev[List] = read
      /\ \A f \in d + 1 .. read : /\ next[f] = IF f = read THEN List ELSE f + 1
                                  /\ prev[f] = IF f = d + 1 THEN List ELSE f - 1
      /\ freed \subseteq 1 .. d
  BY <1>2 DEF Progress, Listed
<1>8. PICK a \in Nodes : a = next[d + 1] /\ a = (IF d + 1 = read THEN List ELSE d + 2)
  <2>1. d + 1 \in d + 1 .. read /\ d + 1 + 1 = d + 2 /\ (d + 1 # read => d + 2 \in d + 1 .. read)
    BY <1>2
  <2> QED BY <1>6, <1>7, <2>1
<1>9. prev[d + 1] = List
  BY <1>2, <1>7
<1>10. /\ prev' = [prev EXCEPT ![a] = List, ![d + 1] = NULL]
       /\ next' = [next EXCEPT ![List] = a, ![d + 1] = NULL]
       /\ freed' = freed \cup {d + 1}
  BY <1>2, <1>8, <1>9 DEF removeAndFree, frame_removeFromList
<1>11. /\ \A n \in Nodes : n # d + 1 => next'[n] = IF n = List THEN a ELSE next[n]
       /\ \A n \in Nodes : n # d + 1 => prev'[n] = IF n = a THEN List ELSE prev[n]
  BY <1>6, <1>10 DEF TypeOK
<1>12. d + 1 \in 0 .. read'
  BY <1>1, <1>2
<1>13. Listed(d + 1)'
  <2>1. next'[List] = IF d + 1 = read THEN List ELSE d + 1 + 1
    BY <1>2, <1>6, <1>8, <1>11
  <2>2. prev'[List] = IF d + 1 = read THEN List ELSE read
    BY <1>2, <1>6, <1>7, <1>8, <1>11
  <2>3. ASSUME NEW f \in d + 1 + 1 .. read
        PROVE  /\ next'[f] = IF f = read THEN List ELSE f + 1
               /\ prev'[f] = IF f = d + 1 + 1 THEN List ELSE f - 1
    <3>1. f \in d + 1 .. read /\ f \in Nodes /\ f # d + 1 /\ f # List /\ d + 1 # read
      BY <1>2, <1>6
    <3>2. next'[f] = next[f] /\ prev'[f] = IF f = d + 2 THEN List ELSE prev[f]
      BY <1>8, <1>11, <3>1
    <3> QED BY <1>2, <1>7, <3>1, <3>2
  <2>4. freed' \subseteq 1 .. d + 1
    <3>1. 1 .. d \subseteq 1 .. d + 1 /\ d + 1 \in 1 .. d + 1
      BY <1>2
    <3>2. freed \subseteq 1 .. d /\ freed' = freed \cup {d + 1}
      BY <1>7, <1>10
    <3> QED BY <3>1, <3>2
  <2> QED BY <1>1, <2>1, <2>2, <2>3, <2>4 DEF Listed
<1>14. ASSUME NEW u \in Traces PROVE Works(u, d + 1)' /\ Recorded(u, d + 1)'
  <2>1. CASE u = t
    <3>1. /\ Done(t, d + 1)' = d + 1 /\ Done(t, d) = d + 1
          /\ ~ Ended(processor'[t]) /\ ~ Ended(processor[t])
      BY <1>1, <1>5 DEF Done, Ended
    <3>2. Recorded(t, d + 1)'
      BY <1>1, <3>1 DEF Progress, Recorded
    <3>3. Works(t, d + 1)'
      <4>1. processor'[t] = "frame" => d + 1 < read /\ traFrame'[t] = d + 1 + 1
        BY <1>2, <1>5
      <4>2. processor'[t] # "remove"
        BY <1>5
      <4> QED BY <1>1, <4>1, <4>2 DEF Works
    <3> QED BY <2>1, <3>2, <3>3
  <2>2. CASE u # t
    <3>1. /\ Done(u, d + 1)' = d + 1 /\ Done(u, d) = d /\ processor'[u] = processor[u]
          /\ Ended(processor[u])
      BY <1>3, <1>5, <2>2 DEF Done, Ended
    <3>2. ASSUME NEW i \in 2 .. Len(file[u]) PROVE file[u][i] <= d + 1
      <4>1. file[u][i] \in Int
        BY Numbered
      <4>2. file[u][i] <= d
        BY <3>1 DEF Progress, Recorded
      <4> QED BY <1>2, <4>1, <4>2
    <3>3. Recorded(u, d + 1)'
      BY <1>1, <3>1, <3>2 DEF Progress, Recorded
    <3>4. Works(u, d + 1)'
      BY <3>1 DEF Works, Ended
    <3> QED BY <3>3, <3>4
  <2> QED BY <2>1, <2>2
<1>15. Opened'
  <2>1. ~ Ended(processor'[t]) /\ processor'[t] # "close"
    BY <1>5 DEF Ended
  <2> QED BY <1>1, <1>3, <2>1, <1>5 DEF Opened
<1>16. Apart'
  BY <1>1 DEF Apart
<1> QED BY <1>1, <1>12, <1>13, <1>14, <1>15, <1>16 DEF Tidy, Progress

\* The next trace is named, while the threads of the one before may still run.
LEMMA Begins ==
  ASSUME TypeOK, Named, Opened, Apart, NEW d \in 0 .. read, Progress(d), ~ crashed,
         traceInit
  PROVE  Tidy'
<1>1. /\ UNCHANGED <<files, read, list, processor, traFrame, nextFrame, s_trace_open, crashed>>
      /\ hal = "init" /\ hal' \in {"head", "idle"}
      /\ hal' = "head" => s_openFileName' = s_openFileName + 1
      /\ hal' = "idle" => s_openFileName' = s_openFileName
  BY DEF traceInit, threads, NextTrace
<1>2. Current' = Current
  <2>1. s_openFileName \in Int
    BY Names DEF TypeOK
  <2> QED BY <1>1, <2>1 DEF Current
<1>3. ~ s_trace_open
  BY <1>1 DEF Opened
<1> QED BY <1>1, <1>2, <1>3, Quiet

\* The file of the next trace is opened, after the threads of the one before
\* are done.
LEMMA Heads ==
  ASSUME TypeOK, Named, Opened, Apart, NEW d \in 0 .. read, Progress(d), ~ crashed,
         writeTraceFileHead, ~ overlap', ~ unopened'
  PROVE  Tidy'
<1>1. /\ UNCHANGED <<read, next, prev, freed, processor, traFrame, nextFrame, s_trace_open,
                     s_openFileName, crashed>>
      /\ hal = "head" /\ hal' = "start" /\ writeFrame(HEAD)
      /\ \A u \in Traces : Ended(processor[u])
  BY DEF writeTraceFileHead, list, threads
<1>2. PICK t \in Traces : t = s_openFileName
  BY <1>1 DEF Named
<1>3. t > Current /\ Current' = t /\ Current \in Int /\ Current = t - 1
  BY <1>1, <1>2, Names DEF Current
<1>4. file[t] = <<>> /\ s_fpTraceFile = NoFile
  BY <1>1, <1>3 DEF Progress, Recorded, Opened
<1>5. s_fpTraceFile' = t /\ file' = [file EXCEPT ![t] = Append(file[t], HEAD)] /\ t # NoFile
  BY <1>1, <1>2, <1>4, Names DEF writeFrame, toOpenFile, openTraceFile
<1>6. file'[t] = <<HEAD>> /\ \A u \in Traces : u # t => file'[u] = file[u]
  BY <1>4, <1>5 DEF TypeOK
<1>7. Listed(d)'
  BY <1>1 DEF Progress, Listed
<1>8. ASSUME NEW u \in Traces PROVE Works(u, d)' /\ Recorded(u, d)'
  <2>1. Done(u, d)' = d /\ Done(u, d) = d /\ Ended(processor'[u])
    BY <1>1 DEF Done, Ended
  <2>2. Works(u, d)'
    BY <2>1 DEF Works, Ended
  <2>3. CASE u = t
    <3>1. ~ (t > t) /\ Len(<<HEAD>>) = 1 /\ <<HEAD>>[1] = HEAD
      BY Names
    <3> QED BY <1>3, <1>6, <2>1, <2>2, <2>3, <3>1 DEF Recorded
  <2>4. CASE u # t
    <3>1. u > t => u > Current
      BY <1>3, Names
    <3> QED BY <1>3, <1>6, <2>1, <2>2, <2>4, <3>1 DEF Progress, Recorded
  <2> QED BY <2>3, <2>4
<1>9. Opened'
  BY <1>1, <1>2, <1>5 DEF Opened
<1>10. Apart'
  <2>1. Len(file'[t]) = 1 /\ 2 .. 1 = {}
    BY <1>6
  <2> QED BY <1>6, <2>1 DEF Apart
<1> QED BY <1>1, <1>7, <1>8, <1>9, <1>10 DEF Tidy, Progress

\* The list is emptied and the threads of the next trace begin.
LEMMA Starts ==
  ASSUME TypeOK, Named, Opened, Apart, NEW d \in 0 .. read, Progress(d), ~ crashed,
         startThreads
  PROVE  Tidy'
<1>1. PICK t \in Traces : t = s_openFileName
  BY DEF startThreads, Named
<1>2. /\ UNCHANGED <<file, s_fpTraceFile, read, traFrame, nextFrame, freed, s_openFileName, crashed>>
      /\ hal = "start" /\ hal' = "idle" /\ s_trace_open'
      /\ processor' = [processor EXCEPT ![t] = "scan"]
      /\ frame_init_list
  BY <1>1 DEF startThreads, files, frame_init_list
<1>3. Current' = Current /\ Current = t
  BY <1>1, <1>2 DEF Current
<1>4. /\ \A u \in Traces : Ended(processor[u])
      /\ s_fpTraceFile = t /\ file[t] = <<HEAD>>
  BY <1>1, <1>2, <1>3 DEF Progress, Recorded, Opened
<1>5. processor'[t] = "scan" /\ \A u \in Traces : u # t => processor'[u] = processor[u]
  BY <1>2 DEF TypeOK
<1>6. d \in Nat /\ read \in Nat /\ d <= read /\ List \in Nodes /\ read \in 0 .. read'
  BY <1>2, Names DEF TypeOK
<1>7. Listed(read)'
  <2>1. next'[List] = List /\ prev'[List] = List
    BY <1>2, <1>6 DEF frame_init_list, TypeOK
  <2>2. freed' \subseteq 1 .. read
    <3>1. 1 .. d \subseteq 1 .. read
      BY <1>6
    <3> QED BY <1>2, <3>1 DEF Progress, Listed
  <2>3. read + 1 .. read = {}
    BY <1>6
  <2> QED BY <1>2, <2>1, <2>2, <2>3 DEF Listed
<1>8. ASSUME NEW e, e = read, NEW u \in Traces PROVE Works(u, e)' /\ Recorded(u, e)'
  <2>1. Done(u, e)' = e /\ Done(u, d) = d /\ processor'[u] \notin {"frame", "remove"}
    BY <1>4, <1>5 DEF Done, Ended
  <2>2. Works(u, e)'
    BY <2>1 DEF Works
  <2>3. ASSUME NEW i \in 2 .. Len(file[u]) PROVE file[u][i] <= e
    <3>1. file[u][i] \in Int /\ file[u][i] <= d
      BY <2>1, Numbered DEF Progress, Recorded
    <3> QED BY <1>6, <1>8, <3>1
  <2>4. CASE u = t
    <3>1. ~ (t > t) /\ Len(<<HEAD>>) = 1 /\ <<HEAD>>[1] = HEAD /\ <<HEAD>> # <<>>
      BY Names
    <3> QED BY <1>2, <1>3, <1>4, <1>5, <2>1, <2>2, <2>4, <3>1 DEF Recorded
  <2>5. CASE u # t
    <3>1. Ended(processor'[u])
      BY <1>4, <1>5, <2>5
    <3> QED BY <1>2, <1>3, <2>1, <2>2, <2>3, <2>5, <3>1 DEF Progress, Recorded
  <2> QED BY <2>4, <2>5
<1>9. Opened'
  BY <1>1, <1>2, <1>4, <1>5 DEF Opened, Ended
<1>10. Apart'
  BY <1>2 DEF Apart
<1>11. PICK e \in 0 .. read' : e = read
  BY <1>6
<1> QED BY <1>2, <1>7, <1>8, <1>9, <1>10, <1>11 DEF Tidy, Progress

\* No processor uses a frame that has been freed, or closes no file.
LEMMA NoCrash ==
  ASSUME TypeOK, Linked, Opened, Apart, NEW d \in 0 .. read, Progress(d),
         NEW t \in Traces, processor_crash(t)
  PROVE  FALSE
<1>1. d \in Nat /\ read \in Nat /\ d <= read
  BY Names DEF TypeOK
<1>2. ASSUME processor[t] \in {"frame", "remove"}
      PROVE  /\ traFrame[t] = d + 1 /\ d + 1 \notin freed
             /\ next[d + 1] \notin freed /\ prev[d + 1] \notin freed
  <2>1. traFrame[t] = d + 1 /\ d < read
    BY <1>2 DEF Progress, Works
  <2>2. d + 1 \in d + 1 .. read
    BY <1>1, <2>1
  <2>3. (next[d + 1] = IF d + 1 = read THEN List ELSE d + 1 + 1) /\ prev[d + 1] = List
    BY <2>2 DEF Progress, Listed
  <2>4. d + 1 \notin 1 .. d /\ d + 1 + 1 \notin 1 .. d /\ List \notin 1 .. d
    BY <1>1 DEF List
  <2>5. freed \subseteq 1 .. d
    BY DEF Progress, Listed
  <2> QED BY <2>1, <2>3, <2>4, <2>5
<1>3. processor[t] = "close" => s_fpTraceFile # NoFile
  BY Names DEF Progress, Recorded, Ended
<1> QED BY <1>2, <1>3 DEF processor_crash, Allocated

\* What has happened once is remembered.
LEMMA Remembers ==
  ASSUME [Next]_vars
  PROVE  (overlap => overlap') /\ (unopened => unopened')
<1>1. CASE UNCHANGED vars
  BY <1>1 DEF vars, history
<1>2. CASE TRACE_ON \/ TRACE_OFF \/ traceInit \/ startThreads
  BY <1>2 DEF TRACE_ON, TRACE_OFF, traceInit, startThreads, history
<1>3. CASE TRACE_IND \/ writeTraceFileHead
  <2>1. unopened => unopened'
    <3>1. toOpenFile
      BY <1>3 DEF TRACE_IND, writeTraceFileHead, writeFrame
    <3> QED BY <3>1 DEF toOpenFile
  <2>2. overlap => overlap'
    <3>1. CASE TRACE_IND
      BY <3>1 DEF TRACE_IND
    <3>2. CASE writeTraceFileHead
      BY <3>2 DEF writeTraceFileHead
    <3> QED BY <1>3, <3>1, <3>2
  <2> QED BY <2>1, <2>2
<1>4. ASSUME NEW t \in Traces, Reader(t) PROVE UNCHANGED <<overlap, unopened>>
  BY <1>4 DEF Reader, readTraceStreamLoop, getTraceFrame, getTraceFrame_signals, history
<1>5. ASSUME NEW t \in Traces, processOTRByTypes(t)
      PROVE  UNCHANGED overlap /\ (unopened => unopened')
  BY <1>5 DEF processOTRByTypes, writeFrame, toOpenFile
<1>6. ASSUME NEW t \in Traces, processor_crash(t) PROVE UNCHANGED <<overlap, unopened>>
  BY <1>6 DEF processor_crash, Crash, history
<1>7. ASSUME NEW t \in Traces,
             \/ scan(t) \/ removeAndFree(t) \/ processTraceFrameLoop(t) \/ closeTraceFile(t)
             \/ wait(t) \/ Spurious(t)
      PROVE  UNCHANGED <<overlap, unopened>>
  BY <1>7 DEF scan, removeAndFree, processTraceFrameLoop, closeTraceFile, wait, Spurious, history
<1> QED BY <1>1, <1>2, <1>3, <1>4, <1>5, <1>6, <1>7 DEF Next, Hal, Processor

\* Every step keeps the order, while no traces overlap.
LEMMA TidyStep ==
  ASSUME IInv, [Next]_vars, ~ overlap', ~ unopened'
  PROVE  Tidy'
<1>1. ~ overlap /\ ~ unopened
  BY Remembers
<1>2. TypeOK /\ Linked /\ Named /\ Tidy
  BY <1>1 DEF IInv
<1>3. PICK d \in 0 .. read : Progress(d)
  BY <1>2 DEF Tidy
<1>4. Opened /\ Apart /\ ~ crashed
  BY <1>2 DEF Tidy
<1>5. CASE UNCHANGED vars
  <2>1. UNCHANGED <<hal, s_trace_open, s_openFileName, s_fpTraceFile, file, read, next, prev, freed,
                    processor, traFrame, nextFrame, crashed>>
    BY <1>5 DEF vars, halVars, files, list, threads
  <2>2. Opened' /\ Apart' /\ Listed(d)' /\ d \in 0 .. read' /\ ~ crashed'
    BY <1>3, <1>4, <2>1 DEF Opened, Apart, Listed, Progress
  <2>3. \A t \in Traces : Works(t, d)' /\ Recorded(t, d)'
    BY <1>3, <2>1 DEF Progress, Works, Recorded, Done, Current
  <2> QED BY <2>2, <2>3 DEF Tidy, Progress
<1>6. CASE TRACE_ON
  <2>1. UNCHANGED <<files, read, list, processor, traFrame, nextFrame, s_openFileName, crashed>>
        /\ hal = "idle" /\ hal' = "init" /\ ~ s_trace_open'
    BY <1>6 DEF TRACE_ON, threads
  <2>2. Current' = Current
    BY <2>1 DEF Current
  <2> QED BY <1>2, <1>3, <1>4, <2>1, <2>2, Quiet
<1>7. CASE TRACE_OFF
  <2>1. UNCHANGED <<files, read, list, processor, traFrame, nextFrame, s_openFileName, crashed>>
        /\ hal = "idle" /\ hal' = "idle" /\ ~ s_trace_open'
    BY <1>7 DEF TRACE_OFF, threads
  <2>2. Current' = Current
    BY <2>1 DEF Current
  <2> QED BY <1>2, <1>3, <1>4, <2>1, <2>2, Quiet
<1>8. CASE TRACE_IND
  <2>1. /\ UNCHANGED <<file, read, list, processor, traFrame, nextFrame, hal, s_openFileName,
                       s_trace_open, crashed>>
        /\ hal = "idle" /\ s_trace_open /\ toOpenFile
    BY <1>8 DEF TRACE_IND, threads, halVars
  <2>2. s_fpTraceFile # NoFile
    BY <1>3, <1>4, <2>1, Names DEF Opened, Progress, Recorded
  <2>3. UNCHANGED files /\ Current' = Current
    BY <2>1, <2>2 DEF toOpenFile, files, Current
  <2> QED BY <1>2, <1>3, <1>4, <2>1, <2>3, Quiet
<1>9. CASE Hal
  BY <1>2, <1>3, <1>4, <1>9, Begins, Heads, Starts DEF Hal
\* A reader wakes a processor, or leaves all of them alone.
<1>10. ASSUME UNCHANGED processor
              \/ \E p \in Traces : processor[p] = "waiting" /\ processor' = [processor EXCEPT ![p] = "scan"],
              UNCHANGED <<halVars, files, read, list, traFrame, nextFrame, crashed>>
       PROVE  Tidy'
  <2>1. CASE UNCHANGED processor
    <3>1. UNCHANGED <<hal, s_trace_open, s_openFileName, s_fpTraceFile, file, read, next, prev, freed,
                      processor, traFrame, nextFrame, crashed>>
      BY <1>10, <2>1 DEF halVars, files, list
    <3>2. Opened' /\ Apart' /\ Listed(d)' /\ d \in 0 .. read' /\ ~ crashed'
      BY <1>3, <1>4, <3>1 DEF Opened, Apart, Listed, Progress
    <3>3. \A t \in Traces : Works(t, d)' /\ Recorded(t, d)'
      BY <1>3, <3>1 DEF Progress, Works, Recorded, Done, Current
    <3> QED BY <3>2, <3>3 DEF Tidy, Progress
  <2>2. ASSUME NEW p \in Traces, processor[p] = "waiting", processor' = [processor EXCEPT ![p] = "scan"]
        PROVE  Tidy'
    <3>1. ~ Ended(processor[p]) /\ processor[p] # "remove"
      BY <2>2 DEF Ended
    <3> QED BY <1>2, <1>3, <1>4, <1>10, <2>2, <3>1, Moves
  <2> QED BY <1>10, <2>1, <2>2
<1>11. ASSUME NEW t \in Traces, Reader(t) PROVE Tidy'
  <2>1. CASE readTraceStreamLoop(t)
    BY <1>2, <1>10, <2>1, SignalTypes DEF readTraceStreamLoop
  <2>2. CASE getTraceFrame(t)
    <3>1. UNCHANGED <<halVars, files, processor, traFrame, nextFrame, crashed>>
      BY <2>2 DEF getTraceFrame
    <3>2. CASE UNCHANGED <<read, list>>
      BY <1>10, <3>1, <3>2
    <3>3. CASE /\ read < MaxFrames /\ read' = read + 1 /\ frame_addToList(read + 1)
               /\ UNCHANGED freed
      BY <1>2, <1>3, <1>4, <3>1, <3>3, Adds
    <3> QED BY <2>2, <3>2, <3>3 DEF getTraceFrame
  <2>3. CASE getTraceFrame_signals(t)
    BY <1>2, <1>10, <2>3, SignalTypes DEF getTraceFrame_signals
  <2> QED BY <1>11, <2>1, <2>2, <2>3 DEF Reader
<1>12. ASSUME NEW t \in Traces, Processor(t) \/ Spurious(t) PROVE Tidy'
  <2>1. CASE scan(t)
    <3>1. /\ UNCHANGED <<halVars, files, read, list, nextFrame, crashed>>
          /\ processor[t] = "scan" /\ traFrame' = [traFrame EXCEPT ![t] = next[List]]
          /\ processor' = [processor EXCEPT ![t] = At(next[List])]
      BY <2>1 DEF scan
    <3>2. PICK pos \in {"frame", "check"} :
            pos = At(next[List]) /\ (pos = "frame" => next[List] # List)
      BY DEF At
    <3>3. next[List] = IF d = read THEN List ELSE d + 1
      BY <1>3 DEF Progress, Listed
    <3>4. d # read => d < read
      BY <1>2, Names DEF TypeOK
    <3>5. traFrame'[t] = next[List] /\ \A u \in Traces : u # t => traFrame'[u] = traFrame[u]
      BY <1>2, <3>1 DEF TypeOK
    <3>6. ~ Ended(processor[t]) /\ processor[t] # "remove"
      BY <3>1 DEF Ended
    <3>7. pos = "frame" => d < read /\ traFrame'[t] = d + 1
      BY <3>2, <3>3, <3>4, <3>5
    <3> QED BY <1>2, <1>3, <1>4, <3>1, <3>2, <3>5, <3>6, <3>7, Moves
  <2>2. CASE processOTRByTypes(t)
    BY <1>2, <1>3, <1>4, <2>2, Writes
  <2>3. CASE removeAndFree(t)
    BY <1>2, <1>3, <1>4, <2>3, Removes
  <2>4. ASSUME NEW pos \in {"scan", "close", "block", "waiting"},
               processor' = [processor EXCEPT ![t] = pos], pos = "close" => ~ s_trace_open,
               processor[t] \in {"check", "block", "waiting"},
               UNCHANGED <<halVars, files, read, list, traFrame, nextFrame, crashed>>
        PROVE  Tidy'
    <3>1. ~ Ended(processor[t]) /\ processor[t] # "remove"
      BY <2>4 DEF Ended
    <3> QED BY <1>2, <1>3, <1>4, <2>4, <3>1, Moves
  <2>5. CASE processTraceFrameLoop(t)
    <3>1. PICK pos \in {"close", "block"} :
            pos = (IF s_trace_open THEN "block" ELSE "close") /\ (pos = "close" => ~ s_trace_open)
      OBVIOUS
    <3> QED BY <2>4, <2>5, <3>1 DEF processTraceFrameLoop
  <2>6. CASE closeTraceFile(t)
    BY <1>2, <1>3, <1>4, <2>6, Closes
  <2>7. CASE wait(t) \/ Spurious(t)
    BY <2>4, <2>7 DEF wait, Spurious
  <2>8. CASE processor_crash(t)
    BY <1>2, <1>3, <1>4, <2>8, NoCrash
  <2> QED BY <1>12, <2>1, <2>2, <2>3, <2>5, <2>6, <2>7, <2>8 DEF Processor
<1> QED BY <1>5, <1>6, <1>7, <1>8, <1>9, <1>11, <1>12 DEF Next

\* The initial state has no trace, no frame and no thread.
LEMMA Established == Init => IInv
<1> SUFFICES ASSUME Init PROVE IInv
  OBVIOUS
<1>1. <<>> \in Seq(1 .. MaxFrames + 1)
  BY EmptySeq
<1>2. 0 \in 0 .. MaxTraces /\ 0 \in 0 .. MaxFrames /\ List \in Nodes
  BY Names
<1>3. TypeOK
  BY <1>1, <1>2, Names DEF Init, TypeOK, NoFile
<1>4. Linked
  BY <1>2, Names DEF Init, Linked
<1>5. Named
  BY DEF Init, Named
<1>6. Opened /\ Apart
  BY DEF Init, Opened, Apart
<1>7. Progress(0)
  <2>1. \A f \in 0 + 1 .. 0 : FALSE
    OBVIOUS
  <2>2. Listed(0)
    BY <1>2, <2>1 DEF Init, Listed
  <2>3. ASSUME NEW t \in Traces PROVE Works(t, 0) /\ Recorded(t, 0)
    BY DEF Init, Works, Recorded, Ended
  <2> QED BY <2>2, <2>3 DEF Progress
<1>8. 0 \in 0 .. read /\ ~ crashed
  BY DEF Init
<1> QED BY <1>3, <1>4, <1>5, <1>6, <1>7, <1>8 DEF IInv, Tidy

\* The inductive invariant: the links of the list, the frame each processor is
\* at and the contents of the files, while no traces overlap.
THEOREM Invariance == Spec => []IInv
<1>1. IInv /\ [Next]_vars => IInv'
  <2> SUFFICES ASSUME IInv, [Next]_vars PROVE IInv'
    OBVIOUS
  <2>1. TypeOK' /\ Linked' /\ Named'
    BY TypeStep DEF IInv
  <2>2. ~ overlap' /\ ~ unopened' => Tidy'
    BY TidyStep
  <2> QED BY <2>1, <2>2 DEF IInv
<1> QED BY Established, <1>1, PTL DEF Spec

\* Every variable keeps its domain, whatever overlaps and whichever file could
\* not be opened: the links of the list never hold a null pointer where a
\* processor follows them.
THEOREM TypeCorrect == Spec => []TypeOK
<1>1. IInv => TypeOK
  BY DEF IInv
<1> QED BY <1>1, Invariance, PTL

\* removeAndFree and the scan never touch a freed frame and fclose always gets
\* an open file, while no traces overlap and every file could be opened.
THEOREM NothingIsUsedTwice == Spec => []NoUseAfterFree
<1>1. IInv => NoUseAfterFree
  BY DEF IInv, Tidy, NoUseAfterFree
<1> QED BY <1>1, Invariance, PTL

\* Under the same conditions every file is its head and an unbroken run of the
\* device's frames, and the runs of the files follow each other.
THEOREM FilesAreRuns == Spec => []FilesInOrder
<1>1. ASSUME IInv PROVE FilesInOrder
  <2> SUFFICES ASSUME ~ overlap, ~ unopened, NEW t \in Traces
               PROVE  /\ file[t] # <<>> => file[t][1] = HEAD
                      /\ \A i \in 2 .. Len(file[t]) : file[t][i] # HEAD
                      /\ \A i \in 2 .. Len(file[t]) - 1 : file[t][i + 1] = file[t][i] + 1
                      /\ \A u \in 1 .. t - 1 : \A i \in 2 .. Len(file[t]), j \in 2 .. Len(file[u]) :
                           file[u][j] < file[t][i]
    BY DEF FilesInOrder
  <2>1. TypeOK /\ Tidy
    BY <1>1 DEF IInv
  <2>2. PICK d \in 0 .. read : Progress(d)
    BY <2>1 DEF Tidy
  <2>3. ASSUME NEW i \in 2 .. Len(file[t]) PROVE file[t][i] # HEAD
    <3>1. file[t][i] <= Done(t, d) /\ Works(t, d)
      BY <2>2 DEF Progress, Recorded
    <3>2. read \in Nat /\ d \in Nat /\ d <= read /\ read <= MaxFrames
      BY <2>1, Names DEF TypeOK
    <3>3. Done(t, d) \in Nat /\ Done(t, d) <= read
      BY <3>1, <3>2 DEF Done, Works
    <3> QED BY <2>1, <3>1, <3>2, <3>3, Names, Numbered
  <2>4. ASSUME NEW u \in 1 .. t - 1, NEW i \in 2 .. Len(file[t]), NEW j \in 2 .. Len(file[u])
        PROVE  file[u][j] < file[t][i]
    <3>1. u \in Traces /\ u < t
      BY Names DEF Traces
    <3> QED BY <2>1, <3>1 DEF Tidy, Apart
  <2> QED BY <2>2, <2>3, <2>4 DEF Progress, Recorded
<1> QED BY <1>1, Invariance, PTL
=============================================================================
