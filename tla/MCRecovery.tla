------------------------------- MODULE MCRecovery -------------------------------
(***************************************************************************)
(* Instances of RaftRecovery for TLC.                                      *)
(***************************************************************************)
EXTENDS RaftRecovery
=============================================================================
