------------------------------- MODULE MCIpcMsg -------------------------------
(* Instances of IpcMsg for TLC.  Messages are interchangeable.             *)
EXTENDS IpcMsg, TLC

MsgSymmetry == Permutations(Msgs)
=============================================================================
