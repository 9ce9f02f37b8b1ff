------------------------------ MODULE MCVqueue ------------------------------
(* Instances of Vqueue for TLC.                                             *)
EXTENDS Vqueue, TLC
=============================================================================
