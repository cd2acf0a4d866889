------------------------ MODULE MCMessageDispatcher ------------------------
(* Instance for TLC.                                                          *)
EXTENDS MessageDispatcher

CONSTANTS r1, r2

TwoRequests == {r1, r2}

=============================================================================
