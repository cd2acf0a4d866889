------------------------- MODULE MCPeerMessageLock -------------------------
(* The TLC instance of PeerMessageLock.  Requests are model values.          *)
EXTENDS PeerMessageLock
============================================================================
