----------------------------- MODULE MCChatQueue -----------------------------
(***************************************************************************)
(* Two messages, one spawned flush beside the one of the maintenance loop, *)
(* two faults and a crash.                                                 *)
(***************************************************************************)
EXTENDS ChatQueue
=============================================================================
