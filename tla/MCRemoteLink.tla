---------------------------- MODULE MCRemoteLink -----------------------------
(***************************************************************************)
(* Instances of RemoteLink with few units on their way.                    *)
(***************************************************************************)
EXTENDS RemoteLinkProps
=============================================================================
