---------------------------- MODULE MC_IpcOwner ----------------------------
(* Three broadcasters, two of them in one process, so that descriptors are  *)
(* reused within a process and locks contended across processes.            *)
EXTENDS IpcOwner, TLC

CONSTANTS b1, b2, b3, p1, p2

MCBroadcasters == {b1, b2, b3}
MCProcesses == {p1, p2}
MCProcessOf == b1 :> p1 @@ b2 :> p1 @@ b3 :> p2
=============================================================================
