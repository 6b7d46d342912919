---------------------------- MODULE MCUserChannel ----------------------------
(***************************************************************************)
(* Instances of UserChannel for TLC.                                       *)
(***************************************************************************)
EXTENDS UserChannel
=============================================================================
