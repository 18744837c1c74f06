--------------------------- MODULE TraceDaemonProps ---------------------------
(***************************************************************************)
(* What the trace daemon promises about the files it records.              *)
(***************************************************************************)
EXTENDS TraceDaemon

TypeOK ==
  /\ hal \in {"idle", "init", "head", "start"}
  /\ s_trace_open \in BOOLEAN /\ inited \in BOOLEAN /\ crashed \in BOOLEAN
  /\ overlap \in BOOLEAN /\ missed \in BOOLEAN /\ unopened \in BOOLEAN
  /\ s_openFileName \in 0 .. MaxTraces /\ s_fpTraceFile \in 0 .. MaxTraces
  /\ file \in [Traces -> Seq(1 .. MaxFrames + 1)]
  /\ read \in 0 .. MaxFrames
  /\ next \in [Nodes -> Nodes \cup {NULL}] /\ prev \in [Nodes -> Nodes \cup {NULL}] /\ freed \subseteq Frames
  /\ reader \in [Traces -> {"none", "top", "get", "signal", "gone"}]
  /\ processor \in [Traces -> {"none", "scan", "frame", "remove", "check", "close",
                               "block", "waiting", "gone"}]
  /\ traFrame \in [Traces -> Nodes] /\ nextFrame \in [Traces -> Nodes]

\* Nobody uses a frame after it has been freed or closes a file twice, except
\* when a trace is switched on before the threads of the one before are done,
\* or when the file could not be opened at all.
NoUseAfterFree == crashed => overlap \/ unopened

\* A file that could be opened begins with its head, has no other, and holds
\* an unbroken run of the frames of the device in their order, as long as no
\* two traces overlap: none is written twice, skipped or put into the file of
\* another trace.
FilesInOrder ==
  ~ overlap /\ ~ unopened =>
    \A t \in Traces :
      /\ file[t] # <<>> => file[t][1] = HEAD
      /\ \A i \in 2 .. Len(file[t]) : file[t][i] # HEAD
      /\ \A i \in 2 .. Len(file[t]) - 1 : file[t][i + 1] = file[t][i] + 1
      /\ \A u \in 1 .. t - 1 : \A i \in 2 .. Len(file[t]), j \in 2 .. Len(file[u]) :
           file[u][j] < file[t][i]

\* The frames that are linked into the list.
Walk[n \in Nodes] == IF n = 0 \/ Walk[n - 1] \in {List, NULL} THEN next[List] ELSE next[Walk[n - 1]]
InList == {Walk[n] : n \in Nodes} \ {List, NULL}
Written(f) == \E t \in Traces : \E i \in DOMAIN file[t] : file[t][i] = f

\* What is still in the list when a trace is switched off while its processor
\* waits is written before the file is closed.
ListIsDrained ==
  \A f \in Frames :
    (~ s_trace_open /\ f \in InList /\ \E t \in Traces : processor[t] = "waiting")
      ~> (Written(f) \/ missed \/ overlap \/ unopened)

\* A trace that has been switched off is closed, so that the client uploads
\* all of it, except when the last signal of its reader came just before its
\* processor waited for it.
FileIsClosed ==
  ~ s_trace_open ~> (s_trace_open \/ s_fpTraceFile = NoFile \/ missed \/ overlap)
=============================================================================
