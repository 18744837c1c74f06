----------------------------- MODULE TraceDaemon -----------------------------
(***************************************************************************)
(* The trace daemon of one telephone, Triorail_ril/trace_0/                *)
(* Triorail_trace.cpp.  One thread serves the requests of the HAL.  Each   *)
(* TRACE_ON opens a file and starts two detached threads: a reader that    *)
(* takes frames from the device and puts them into a linked list, and a    *)
(* processor that takes them from the list and writes them to the file.    *)
(* TRACE_OFF only clears a flag: the threads see it and end by themselves, *)
(* the processor after it has closed the file.                             *)
(*                                                                         *)
(* The list is modelled with its pointers, because nothing stops a second  *)
(* pair of threads from being started while the first still runs.          *)
(***************************************************************************)
EXTENDS Naturals, Sequences

CONSTANTS
  MaxTraces,   \* bound: TRACE_ON requests
  NULL,        \* the null pointer
  MaxFrames,   \* bound: frames the device sends; what nobody reads waits in its driver
  OpenFails    \* TRUE: fopen of the trace file may fail

ASSUME TraceAssumption ==
  /\ MaxTraces \in Nat /\ MaxFrames \in Nat
  /\ OpenFails \in BOOLEAN
  /\ NULL \notin 0 .. MaxFrames

Traces == 1 .. MaxTraces
Frames == 1 .. MaxFrames
List   == 0                \* &s_traceFrameList, the head of the circular list
Nodes  == 0 .. MaxFrames
NoFile == 0                \* s_fpTraceFile is NULL
HEAD   == MaxFrames + 1    \* the record writeTraceFileHead writes

VARIABLES
  hal,            \* position of HALReaderLoop
  s_trace_open,
  s_openFileName, \* the trace whose file writeFrame opens
  s_fpTraceFile,  \* the trace whose file is open, or NoFile
  inited,         \* traceInit has succeeded once
  file,           \* the records in the file of each trace
  read,           \* frames taken from the device, numbered as they come
  next, prev,     \* the links of the list
  freed,          \* frames that have been freed
  reader,         \* position of the reader of each trace
  processor,      \* position of the processor of each trace
  traFrame, nextFrame,  \* local variables of each processor
  crashed,        \* TRUE: undefined behaviour; the model goes no further
  overlap,        \* history: a trace was begun while older threads still ran
  missed,         \* history: the last signal of a reader came while its
                  \* processor was about to wait
  unopened        \* history: the file could not be opened

list    == <<next, prev, freed>>
files   == <<s_fpTraceFile, file>>
threads == <<reader, processor, traFrame, nextFrame>>
history == <<overlap, missed, unopened>>
halVars == <<hal, s_trace_open, s_openFileName, inited>>
vars    == <<halVars, files, read, list, threads, crashed, history>>

\* A process that has crashed does nothing.
Runs == ~ crashed

-----------------------------------------------------------------------------
(* The file.  All writers take s_writeFileMutex; fclose does not.          *)

openTraceFile(fp) == fp' \in {s_openFileName} \cup (IF OpenFails THEN {NoFile} ELSE {})

\* Without an open file the file named last is opened.
toOpenFile ==
  /\ \/ s_fpTraceFile # NoFile /\ UNCHANGED s_fpTraceFile
     \/ s_fpTraceFile = NoFile /\ openTraceFile(s_fpTraceFile)
  /\ unopened' = (unopened \/ s_fpTraceFile' = NoFile)

writeFrame(record) ==
  /\ toOpenFile
  /\ file' = IF s_fpTraceFile' = NoFile THEN file
             ELSE [file EXCEPT ![s_fpTraceFile'] = Append(@, record)]

-----------------------------------------------------------------------------
(* The list, each operation under s_frameListMutex.                        *)

frame_init_list ==
  /\ next' = [next EXCEPT ![List] = List]
  /\ prev' = [prev EXCEPT ![List] = List]
  /\ UNCHANGED freed

\* Mutant: the frame becomes the first of the list.
frame_addToList_first(f) ==
  /\ next' = [next EXCEPT ![f] = next[List], ![List] = f]
  /\ prev' = [prev EXCEPT ![f] = List, ![next[List]] = f]

frame_addToList(f) ==
  /\ next' = [next EXCEPT ![f] = List, ![prev[List]] = f]
  /\ prev' = [prev EXCEPT ![f] = prev[List], ![List] = f]

\* Mutant: the neighbours still link to the frame.
frame_removeFromList_kept(f) == UNCHANGED <<next, prev>>

frame_removeFromList(f) ==
  /\ prev' = [prev EXCEPT ![next[f]] = prev[f], ![f] = NULL]
  /\ next' = [next EXCEPT ![prev[f]] = next[f], ![f] = NULL]

\* The memory an operation on frame f touches is still allocated.
Allocated(fs) == fs \cap freed = {}

\* The step is undefined: the process ends, and its memory is gone.
Crash ==
  /\ crashed' = TRUE
  /\ hal' = "idle" /\ s_trace_open' = FALSE /\ s_fpTraceFile' = NoFile
  /\ next' = [n \in Nodes |-> List] /\ prev' = [n \in Nodes |-> List] /\ freed' = {}
  /\ reader' = [t \in Traces |-> "gone"] /\ processor' = [t \in Traces |-> "gone"]
  /\ traFrame' = [t \in Traces |-> List] /\ nextFrame' = [t \in Traces |-> List]
  /\ UNCHANGED <<s_openFileName, inited, file, read, history>>

-----------------------------------------------------------------------------
(* The HAL's requests (processHALTraceCmd).                                *)

\* The trace the next TRACE_ON begins.
NextTrace == s_openFileName + 1

\* A trace that is still open is closed, and the thread sleeps for a second,
\* which does not make it wait for the threads of that trace.
TRACE_ON ==
  /\ Runs /\ hal = "idle"
  /\ NextTrace \in Traces
  /\ hal' = "init"
  /\ s_trace_open' = FALSE
  /\ UNCHANGED <<s_openFileName, inited, files, read, list, threads, crashed, history>>

\* The device is opened and set up once; TRACE_ON gives up after three failures.
traceInit ==
  /\ Runs /\ hal = "init"
  /\ \/ /\ inited' = TRUE
        /\ s_openFileName' = NextTrace
        /\ hal' = "head"
     \/ /\ ~ inited
        /\ hal' = "idle"
        /\ UNCHANGED <<inited, s_openFileName>>
  /\ UNCHANGED <<s_trace_open, files, read, list, threads, crashed, history>>

Ended(position) == position \in {"none", "gone"}

writeTraceFileHead ==
  /\ Runs /\ hal = "head"
  /\ hal' = "start"
  /\ writeFrame(HEAD)
  /\ overlap' = (overlap \/ \E t \in Traces : ~ Ended(reader[t]) \/ ~ Ended(processor[t]))
  /\ UNCHANGED <<s_trace_open, s_openFileName, inited, read, list, threads, crashed, missed>>

\* The list is emptied, the flag is set and both threads are created.
startThreads ==
  LET t == s_openFileName IN
  /\ Runs /\ hal = "start"
  /\ hal' = "idle"
  /\ frame_init_list
  /\ s_trace_open' = TRUE
  /\ reader' = [reader EXCEPT ![t] = "top"]
  /\ processor' = [processor EXCEPT ![t] = "scan"]
  /\ UNCHANGED <<s_openFileName, inited, files, read, traFrame, nextFrame, crashed, history>>

TRACE_OFF ==
  /\ Runs /\ hal = "idle"
  /\ s_trace_open
  /\ s_trace_open' = FALSE
  /\ UNCHANGED <<hal, s_openFileName, inited, files, read, list, threads, crashed, history>>

\* The records of calls and AT commands, which the HAL's thread writes itself;
\* the record is not kept here, only what it does to the open file.
\* Mutant: they are written without a look at the flag.
TRACE_IND_always ==
  /\ Runs /\ hal = "idle"
  /\ s_openFileName # NoFile
  /\ toOpenFile
  /\ UNCHANGED <<halVars, file, read, list, threads, crashed, overlap, missed>>

TRACE_IND ==
  /\ Runs /\ hal = "idle"
  /\ s_trace_open
  /\ toOpenFile
  /\ UNCHANGED <<halVars, file, read, list, threads, crashed, overlap, missed>>

Hal == traceInit \/ writeTraceFileHead \/ startThreads

-----------------------------------------------------------------------------
(* The reader of trace t.                                                  *)

\* pthread_cond_signal wakes a processor that waits, and is lost without one.
\* Mutant: nothing is woken.
signal_lost == UNCHANGED processor

signal ==
  IF \E p \in Traces : processor[p] = "waiting"
  THEN \E p \in Traces :
         /\ processor[p] = "waiting"
         /\ processor' = [processor EXCEPT ![p] = "scan"]
  ELSE UNCHANGED processor

readTraceStreamLoop(t) ==
  /\ Runs /\ reader[t] = "top"
  /\ \/ /\ s_trace_open
        /\ reader' = [reader EXCEPT ![t] = "get"]
        /\ UNCHANGED <<processor, missed>>
     \/ /\ ~ s_trace_open
        /\ reader' = [reader EXCEPT ![t] = "gone"]
        /\ signal
        /\ missed' = (missed \/ \E p \in Traces : processor[p] = "block")
  /\ UNCHANGED <<halVars, files, read, list, traFrame, nextFrame, crashed, overlap, unopened>>

\* The device has no frame now, or one that is put into the list, whatever
\* the flag says.
getTraceFrame(t) ==
  /\ Runs /\ reader[t] = "get"
  /\ \/ /\ reader' = [reader EXCEPT ![t] = "top"]
        /\ UNCHANGED <<read, list>>
     \/ /\ read < MaxFrames
        /\ read' = read + 1
        /\ frame_addToList(read + 1)
        /\ reader' = [reader EXCEPT ![t] = "signal"]
        /\ UNCHANGED freed
  /\ UNCHANGED <<halVars, files, processor, traFrame, nextFrame, crashed, history>>

getTraceFrame_signals(t) ==
  /\ Runs /\ reader[t] = "signal"
  /\ reader' = [reader EXCEPT ![t] = "get"]
  /\ signal
  /\ UNCHANGED <<halVars, files, read, list, traFrame, nextFrame, crashed, history>>

Reader(t) == readTraceStreamLoop(t) \/ getTraceFrame(t) \/ getTraceFrame_signals(t)

-----------------------------------------------------------------------------
(* The processor of trace t.                                               *)

\* Where the scan of the list stands when it comes to frame f.
At(f) == IF f = List THEN "check" ELSE "frame"

scan(t) ==
  /\ Runs /\ processor[t] = "scan"
  /\ traFrame' = [traFrame EXCEPT ![t] = next[List]]
  /\ processor' = [processor EXCEPT ![t] = At(next[List])]
  /\ UNCHANGED <<halVars, files, read, list, reader, nextFrame, crashed, history>>

\* The next frame is looked up before this one is processed: one that is
\* added in the meantime is not part of the scan.
processOTRByTypes(t) ==
  /\ Runs /\ processor[t] = "frame"
  /\ Allocated({traFrame[t]})
  /\ nextFrame' = [nextFrame EXCEPT ![t] = next[traFrame[t]]]
  /\ writeFrame(traFrame[t])
  /\ processor' = [processor EXCEPT ![t] = "remove"]
  /\ UNCHANGED <<halVars, read, list, reader, traFrame, crashed, overlap, missed>>

\* Mutant: the next frame is taken from the links of the one removed.
removeAndFree_after(t) ==
  LET f == traFrame[t] IN
  /\ Runs /\ processor[t] = "remove"
  /\ Allocated({f, next[f], prev[f]})
  /\ frame_removeFromList(f)
  /\ freed' = freed \cup {f}
  /\ traFrame' = [traFrame EXCEPT ![t] = next'[f]]
  /\ processor' = [processor EXCEPT ![t] = At(next'[f])]
  /\ UNCHANGED <<halVars, files, read, reader, nextFrame, crashed, history>>

removeAndFree(t) ==
  LET f == traFrame[t] IN
  /\ Runs /\ processor[t] = "remove"
  /\ Allocated({f, next[f], prev[f]})
  /\ frame_removeFromList(f)
  /\ freed' = freed \cup {f}
  /\ traFrame' = [traFrame EXCEPT ![t] = nextFrame[t]]
  /\ processor' = [processor EXCEPT ![t] = At(nextFrame[t])]
  /\ UNCHANGED <<halVars, files, read, reader, nextFrame, crashed, history>>

\* Mutant: the flag is looked at before the list is.
processTraceFrameLoop_early(t) ==
  /\ Runs /\ processor[t] \in {"scan", "check"}
  /\ processor' = [processor EXCEPT ![t] = IF s_trace_open THEN "block" ELSE "close"]
  /\ UNCHANGED <<halVars, files, read, list, reader, traFrame, nextFrame, crashed, history>>

processTraceFrameLoop(t) ==
  /\ Runs /\ processor[t] = "check"
  /\ processor' = [processor EXCEPT ![t] = IF s_trace_open THEN "block" ELSE "close"]
  /\ UNCHANGED <<halVars, files, read, list, reader, traFrame, nextFrame, crashed, history>>

closeTraceFile(t) ==
  /\ Runs /\ processor[t] = "close"
  /\ s_fpTraceFile # NoFile
  /\ s_fpTraceFile' = NoFile
  /\ processor' = [processor EXCEPT ![t] = "gone"]
  /\ UNCHANGED <<halVars, file, read, list, reader, traFrame, nextFrame, crashed, history>>

\* pthread_cond_wait; it may also return without a signal.
wait(t) ==
  /\ Runs /\ processor[t] = "block"
  /\ processor' = [processor EXCEPT ![t] = "waiting"]
  /\ UNCHANGED <<halVars, files, read, list, reader, traFrame, nextFrame, crashed, history>>

Spurious(t) ==
  /\ Runs /\ processor[t] = "waiting"
  /\ processor' = [processor EXCEPT ![t] = "scan"]
  /\ UNCHANGED <<halVars, files, read, list, reader, traFrame, nextFrame, crashed, history>>

\* A freed frame is used, or fclose gets a null pointer.
processor_crash(t) ==
  LET f == traFrame[t] IN
  /\ Runs
  /\ \/ processor[t] = "frame" /\ ~ Allocated({f})
     \/ processor[t] = "remove" /\ ~ Allocated({f, next[f], prev[f]})
     \/ processor[t] = "close" /\ s_fpTraceFile = NoFile
  /\ Crash

Processor(t) ==
  \/ scan(t) \/ processOTRByTypes(t) \/ removeAndFree(t)
  \/ processTraceFrameLoop(t) \/ closeTraceFile(t) \/ wait(t)
  \/ processor_crash(t)

-----------------------------------------------------------------------------
Init ==
  /\ hal = "idle" /\ s_trace_open = FALSE /\ s_openFileName = 0 /\ inited = FALSE
  /\ s_fpTraceFile = NoFile
  /\ file = [t \in Traces |-> <<>>]
  /\ read = 0
  /\ next = [n \in Nodes |-> List] /\ prev = [n \in Nodes |-> List] /\ freed = {}
  /\ reader = [t \in Traces |-> "none"] /\ processor = [t \in Traces |-> "none"]
  /\ traFrame = [t \in Traces |-> List] /\ nextFrame = [t \in Traces |-> List]
  /\ crashed = FALSE
  /\ overlap = FALSE /\ missed = FALSE /\ unopened = FALSE

Next ==
  \/ TRACE_ON \/ TRACE_OFF \/ TRACE_IND \/ Hal
  \/ \E t \in Traces : Reader(t) \/ Processor(t) \/ Spurious(t)

\* The threads run; the HAL and the device need not do anything.
Fairness ==
  /\ WF_vars(Hal)
  /\ \A t \in Traces : WF_vars(Reader(t)) /\ WF_vars(Processor(t))

Spec == Init /\ [][Next]_vars /\ Fairness
=============================================================================
