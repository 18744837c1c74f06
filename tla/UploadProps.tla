----------------------------- MODULE UploadProps ------------------------------
(***************************************************************************)
(* What the client promises about the upload of its trace files.           *)
(***************************************************************************)
EXTENDS Upload

Frames(states) ==
  [state : states, task : Tasks, id : 0 .. MaxId, len : 0 .. Fragment]

TypeOK ==
  /\ status \in [Tasks -> {"waiting", "running", "stopped", "uploading", "gone"}]
  /\ len \in [Tasks -> Missing .. MaxLen] /\ recording \in [Tasks -> BOOLEAN]
  /\ fragment_id \in 0 .. MaxId /\ trace_stop \in BOOLEAN
  /\ old_file_len \in 0 .. MaxLen /\ no_file_check \in 0 .. NoFileLimit
  /\ cached \in Tasks \cup {NoTask}
  /\ toGround \in Seq(Frames({"REQUEST", "UPLOADING", "LATEST"}))
  /\ toClient \in Seq(Frames({"AGREE", "GOON", "SUCCESS"}))
  /\ pieces \in [Tasks -> 0 .. MaxId] /\ units \in [Tasks -> Nat]
  /\ whole \in [Tasks -> BOOLEAN]
  /\ losses \in 0 .. MaxLoss
  /\ sized \in Tasks \cup {NoTask} /\ judged \in Tasks \cup {NoTask}
  /\ early \in [Tasks -> BOOLEAN]

\* A task whose upload the ground has confirmed has arrived to its last unit,
\* through lost connections, restarts, repeated requests and files that end
\* with a whole fragment; except when the client took the trace for finished
\* while it was still being written.
CopyIsComplete ==
  \A t \in Tasks :
    status[t] = "gone" /\ len[t] # Missing /\ ~ early[t] =>
      whole[t] /\ units[t] = len[t] /\ ~ recording[t]

\* A task that runs, or whose stop the ground has not asked about, is not
\* deleted by a confirmation of its upload, only because it has no file.
RunningIsKept ==
  [][ \A t \in Tasks :
        status[t] # "uploading" /\ status[t] # "gone" /\ status'[t] = "gone"
          => len[t] = Missing ]_vars

\* The last fragment of a file that is still being written is only sent when
\* two checks in a row have found one length: two checks of this file, or the
\* last one of a file that has been uploaded and the first one of this file,
\* since all tasks share the length.
LastIsJudged ==
  [][ \A t \in Tasks :
        early'[t] /\ ~ early[t] =>
          judged = t \/ (judged # NoTask /\ status[judged] = "gone") ]_vars

\* The upload of an empty file never ends, and no other one begins.
Stuck == cached # NoTask /\ len[cached] = 0 /\ ~ recording[cached] /\ status[cached] # "gone"

\* Every finished test is uploaded and deleted in the end: once all tests have
\* ended no task is left, unless the file of the one being uploaded is empty.
UploadEnds == <>[] (\A t \in Tasks : status[t] = "uploading" => Stuck)

=============================================================================
