------------------------------- MODULE MCRRTX -------------------------------
(***************************************************************************)
(* RRTX on a small grid: an open field, an obstacle in the middle (the     *)
(* straight line is blocked and there is a way around), and a wall (there  *)
(* is no way).                                                             *)
(***************************************************************************)
EXTENDS RRTX, Integers

CONSTANTS Width, Height

Grid == (0..Width) \X (0..Height)

Abs(n) == IF n < 0 THEN -n ELSE n

\* The larger of the two coordinate distances.
GridDist ==
    [e \in Grid \X Grid |->
        LET dx == Abs(e[1][1] - e[2][1])
            dy == Abs(e[1][2] - e[2][2])
        IN IF dx < dy THEN dy ELSE dx]

\* r is on the segment from p to q.
OnSegment(r, p, q) ==
    /\ (q[1] - p[1]) * (r[2] - p[2]) = (q[2] - p[2]) * (r[1] - p[1])
    /\ GridDist[p, r] + GridDist[r, q] = GridDist[p, q]

Obstacles ==
    [open |-> {}, middle |-> {<<1, 0>>}, wall |-> {<<1, y>> : y \in 0..Height}]

GridLayouts == DOMAIN Obstacles

GridFree ==
    [o \in GridLayouts |->
        {e \in Grid \X Grid :
            e[1] = e[2] \/ \A r \in Obstacles[o] : ~OnSegment(r, e[1], e[2])}]
=============================================================================
