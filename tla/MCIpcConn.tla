------------------------------ MODULE MCIpcConn ------------------------------
(* Instances of IpcConn for TLC.  Channels are interchangeable memory, and  *)
(* so are the ports.                                                        *)
EXTENDS IpcConn, TLC

ObjectSymmetry == Permutations(Chans) \cup Permutations(Ports)
=============================================================================
