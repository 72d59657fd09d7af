----------------------------- MODULE MCHostComm -----------------------------
(***************************************************************************)
(* HostComm with two robots: a datagram of two frames can already be cut   *)
(* between them.                                                           *)
(***************************************************************************)
EXTENDS HostComm
=============================================================================
