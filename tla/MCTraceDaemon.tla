---------------------------- MODULE MCTraceDaemon ----------------------------
(***************************************************************************)
(* Instances of TraceDaemon with few traces and few frames.                *)
(***************************************************************************)
EXTENDS TraceDaemonProps
=============================================================================
