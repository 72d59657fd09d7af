------------------------------- MODULE MCGame -------------------------------
(***************************************************************************)
(* Game with the keys that one question needs, two frames for the timer    *)
(* and two for a motion profile.                                           *)
(***************************************************************************)
EXTENDS Game
=============================================================================
