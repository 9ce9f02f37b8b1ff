------------------------------- MODULE MCMemLog -------------------------------
(* Instances of MemLog for TLC.                                             *)
EXTENDS MemLog
=============================================================================
