---------------------------- MODULE MCTrajectory ----------------------------
(***************************************************************************)
(* Trajectory with a maximal velocity whose braking distance is 24 units,  *)
(* and rounding errors of one unit.  The inputs lie around every boundary  *)
(* of the case analysis: at rest, just inside and outside of the braking   *)
(* distance, long enough to reach max_vel and to keep it.                  *)
(***************************************************************************)
EXTENDS Trajectory

MCDists == {-200, -97, -31, -24, -7} \cup (0..12) \cup (22..34) \cup (40..56) \cup {96, 200}

MCVels == {-100, -24, -9, -1, 0, 1, 2, 5, 11, 17, 18, 24, 30, 31, 36, 100}
=============================================================================
