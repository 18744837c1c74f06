------------------------------- MODULE MCTele -------------------------------
(***************************************************************************)
(* Instances of Tele: tasks of one long call and of repeated calls.        *)
(***************************************************************************)
EXTENDS TeleProps

CONSTANT none

Long     == [long |-> TRUE, access |-> "ok", phone |-> TRUE]
Repeated == [long |-> FALSE, access |-> "ok", phone |-> TRUE]
Timed    == {Long, Repeated}
=============================================================================
