----------------------------- MODULE MCSmStdCall -----------------------------
(* Instances of SmStdCall for TLC.                                          *)
EXTENDS SmStdCall
=============================================================================
