------------------------------ MODULE MCKDTree ------------------------------
(***************************************************************************)
(* KDTree in the plane, with points on a small grid, so that coordinates   *)
(* and whole points are often equal, and with queries on and off the grid. *)
(***************************************************************************)
EXTENDS KDTree

MCPoints == {<<0, 0>>, <<0, 2>>, <<2, 0>>, <<2, 2>>}
MCQueries == {<<0, 2>>, <<3, 1>>}
MCRadii == {1, 4, 5}
=============================================================================
