---------------------------- MODULE MCClientTask ----------------------------
(***************************************************************************)
(* Instances of ClientTask: tasks a, b and c with the windows [1,2], [2,3] *)
(* (it overlaps a's) and [3,3] (it overlaps b's only).                     *)
(***************************************************************************)
EXTENDS ClientTaskProps, TLC

CONSTANTS a, b, c

MCStart == (a :> 1) @@ (b :> 2) @@ (c :> 3)
MCStop  == (a :> 2) @@ (b :> 3) @@ (c :> 3)
=============================================================================
