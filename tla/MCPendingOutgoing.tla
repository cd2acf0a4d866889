------------------------ MODULE MCPendingOutgoing ------------------------
(* Model values for the runs of PendingOutgoing.                           *)
EXTENDS PendingOutgoing

CONSTANTS t1, none

OneTx == {t1}
==========================================================================
