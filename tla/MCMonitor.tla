------------------------------ MODULE MCMonitor ------------------------------
(***************************************************************************)
(* Instances of Monitor with few modules and few process ids; the kernel   *)
(* may give an id again as soon as its process has been waited for.        *)
(***************************************************************************)
EXTENDS MonitorProps
=============================================================================
