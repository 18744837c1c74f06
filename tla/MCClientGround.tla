---------------------------- MODULE MCClientGround ----------------------------
(***************************************************************************)
(* Instances of ClientGround: tasks a and c with the windows [1,1], [2,2]. *)
(***************************************************************************)
EXTENDS ClientGround, TLC

CONSTANTS a, c

MCStart == (a :> 1) @@ (c :> 2)
MCStop  == (a :> 1) @@ (c :> 2)
=============================================================================
