---------------------------- MODULE MCBroadcast -----------------------------
(***************************************************************************)
(* Broadcast with a few messages and two listeners, so that ACKs of the    *)
(* same message come twice.                                                *)
(***************************************************************************)
EXTENDS Broadcast

MCListeners == {"l1", "l2"}
=============================================================================
