----------------------------- MODULE MCStorage -----------------------------
(* Instances of Storage for TLC.                                            *)
EXTENDS Storage

CONSTANTS both, one, p, q

(* One session works on two files, the other one on one of them.            *)
MCSessions == {both, one}
MCUses(t) == IF t = both THEN {p, q} ELSE {p}
=============================================================================
