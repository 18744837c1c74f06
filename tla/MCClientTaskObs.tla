--------------------------- MODULE MCClientTaskObs ---------------------------
(***************************************************************************)
(* The instances of MCClientTask with the history variables.               *)
(***************************************************************************)
EXTENDS MCClientTask, ClientTaskObs
=============================================================================
