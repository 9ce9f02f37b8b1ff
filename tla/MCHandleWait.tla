----------------------------- MODULE MCHandleWait -----------------------------
(* Instances of HandleWait for TLC.                                         *)
EXTENDS HandleWait
=============================================================================
