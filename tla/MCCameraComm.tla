---------------------------- MODULE MCCameraComm ----------------------------
(***************************************************************************)
(* CameraComm with three packets: one to be read, one that replaces it     *)
(* while it is read, and one after that.                                   *)
(***************************************************************************)
EXTENDS CameraComm
=============================================================================
