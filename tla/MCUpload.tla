------------------------------- MODULE MCUpload -------------------------------
(***************************************************************************)
(* Instances of Upload with two tasks and files of few fragments.          *)
(***************************************************************************)
EXTENDS UploadProps
=============================================================================
