---------------------------- MODULE MCBroadcast ----------------------------
(* Model values for the runs of Broadcast.                                   *)
EXTENDS Broadcast

CONSTANTS p1, p2, p3

ThreePeers == {p1, p2, p3}
============================================================================
