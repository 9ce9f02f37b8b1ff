----------------------------- MODULE MCTipcLink -----------------------------
(* Instances of TipcLink for TLC.                                           *)
EXTENDS TipcLink, TLC

FdSymmetry == Permutations(Fds)
=============================================================================
