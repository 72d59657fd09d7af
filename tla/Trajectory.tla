----------------------------- MODULE Trajectory -----------------------------
(***************************************************************************)
(* The motion profile of one axis: the constructor of SingleDOF and        *)
(* SingleDOF::solveAll, which covers a distance by segments of constant    *)
(* acceleration, from the velocity the robot has to a standstill.          *)
(*                                                                         *)
(* Units make the square root disappear.  A length s is measured as        *)
(* 2 * max_acc * s, and a velocity v as v * |v|: then the braking distance *)
(* of v is |v|, and a segment from v to w covers the difference of their   *)
(* magnitudes.  A result of floating point arithmetic is off by up to      *)
(* Round; eps is larger than what a few such errors amount to.             *)
(***************************************************************************)
EXTENDS Integers, Sequences

CONSTANTS
    MaxVel,   \* max_vel
    Eps,      \* eps as a length, and as a velocity near max_vel
    Round,    \* bound: rounding error of one result
    Dists,    \* distances final_pos - initial_pos to be covered
    Vels      \* initial velocities

Abs(n) == IF n < 0 THEN -n ELSE n

ASSUME RoundAssumption == Round \in Nat /\ Eps \in Nat /\ Eps >= 4 * Round + 2
ASSUME MaxVelAssumption == MaxVel \in Nat /\ MaxVel >= 2 * Eps

\* An initial velocity that is nearly but not exactly max_vel is left out.
ASSUME InputsAssumption ==
    /\ Dists \subseteq Int /\ Vels \subseteq Int
    /\ \A v \in Vels : Abs(v) = MaxVel \/ Abs(Abs(v) - MaxVel) >= Eps

VARIABLES
    pc,           \* "idle", or "solve" while solveAll runs
    dir_sign,
    total_dist,   \* what is left to be covered, in the direction of the target
    initial_vel,  \* the velocity at the start of the next segment
    pos_accum,
    segments,
    distance, velocity  \* history: the normalised inputs

vars == <<pc, dir_sign, total_dist, initial_vel, pos_accum, segments, distance, velocity>>

Segments == [accel : {-1, 0, 1}, vel_start : Int, pos_start : Int, distanceOf : Int]

\* Every variable keeps its type.
TypeOK ==
    /\ pc \in {"idle", "solve"}
    /\ dir_sign \in {-1, 1}
    /\ total_dist \in Nat
    /\ initial_vel \in Int
    /\ pos_accum \in Int
    /\ segments \in Seq(Segments)
    /\ distance \in Nat
    /\ velocity \in Int

\* SingleDOF(): nothing to do, and no segments.
Init ==
    /\ pc = "idle"
    /\ dir_sign = 1
    /\ total_dist = 0 /\ initial_vel = 0 /\ pos_accum = 0
    /\ segments = <<>>
    /\ distance = 0 /\ velocity = 0

-----------------------------------------------------------------------------
(* The constructor *)

sgn(n) == IF n < 0 THEN -1 ELSE 1

\* Position and velocity are normalised: the target is ahead.
SingleDOF ==
    /\ pc = "idle"
    /\ \E d \in Dists, v \in Vels :
        /\ dir_sign' = sgn(d)
        /\ distance' = sgn(d) * d
        /\ velocity' = sgn(d) * v
    /\ total_dist' = distance'
    /\ initial_vel' = velocity'
    /\ pos_accum' = 0
    /\ segments' = <<>>
    /\ pc' = "solve"

-----------------------------------------------------------------------------
(* solveAll *)

Errors == (-Round)..Round

\* The test of the loop.  Near zero only a rounding error is below eps, since
\* the unit is a square.
Busy == total_dist > Eps \/ Abs(initial_vel) > Round

Braking == Abs(initial_vel)

Room == total_dist > Braking + Eps

AtMaxVel == Abs(initial_vel - MaxVel) < Eps

\* Mutant of Snapped: the velocity is taken as it was computed.
SnappedNot(v) == v

\* The velocity snaps onto max_vel and onto 0.
Snapped(v) ==
    IF Abs(v - MaxVel) < Eps THEN MaxVel ELSE IF Abs(v) <= Round THEN 0 ELSE v

\* Mutant of AddSegment: total_dist is not clamped.
AddSegmentUnclamped(accel, end, covered) ==
    /\ segments' = Append(segments, [accel |-> accel, vel_start |-> initial_vel,
                                     pos_start |-> pos_accum, distanceOf |-> covered])
    /\ pos_accum' = pos_accum + covered
    /\ total_dist' = total_dist - covered
    /\ initial_vel' = Snapped(end)
    /\ UNCHANGED <<pc, dir_sign, distance, velocity>>

\* The rest of a round: what is left after a segment that ends with velocity
\* end and covers covered.  A target that was passed counts as reached.
AddSegment(accel, end, covered) ==
    /\ segments' = Append(segments, [accel |-> accel, vel_start |-> initial_vel,
                                     pos_start |-> pos_accum, distanceOf |-> covered])
    /\ pos_accum' = pos_accum + covered
    /\ total_dist' = IF total_dist < covered THEN 0 ELSE total_dist - covered
    /\ initial_vel' = Snapped(end)
    /\ UNCHANGED <<pc, dir_sign, distance, velocity>>

\* A segment that accelerates or brakes to the velocity end.
ChangeVelocity(accel, end) ==
    \E dv, dd \in Errors :
        AddSegment(accel, end + dv, accel * (Abs(end) - Abs(initial_vel)) + dd)

\* Moving away from the target: stop.
solveCase1 ==
    /\ pc = "solve" /\ Busy
    /\ initial_vel < 0
    /\ ChangeVelocity(1, 0)

\* Too fast: slow down to max_vel.
solveCase3 ==
    /\ pc = "solve" /\ Busy
    /\ initial_vel > MaxVel
    /\ ChangeVelocity(-1, MaxVel)

\* At max_vel: keep it until the braking distance is left.
solveCase2_2 ==
    /\ pc = "solve" /\ Busy
    /\ initial_vel \in 0..MaxVel
    /\ AtMaxVel /\ Room
    /\ \E dd \in Errors : AddSegment(0, initial_vel, total_dist - MaxVel + dd)

\* Mutant of w1: the distance is not halved.
w1TooLarge == total_dist + initial_vel \div 2

\* The velocity w1 from which braking has to start.
w1 == (total_dist + initial_vel) \div 2

\* Mutant of solveCase2_1: max_vel is not a limit.
solveCase2_1NoLimit ==
    /\ pc = "solve" /\ Busy
    /\ initial_vel \in 0..MaxVel
    /\ ~AtMaxVel /\ Room
    /\ ChangeVelocity(1, w1)

\* Below max_vel: accelerate to max_vel, or to w1 if that comes first.
solveCase2_1 ==
    /\ pc = "solve" /\ Busy
    /\ initial_vel \in 0..MaxVel
    /\ ~AtMaxVel /\ Room
    /\ ChangeVelocity(1, IF MaxVel < w1 THEN MaxVel ELSE w1)

\* No room: brake.
solveCase2_3 ==
    /\ pc = "solve" /\ Busy
    /\ initial_vel \in 0..MaxVel
    /\ ~Room
    /\ ChangeVelocity(-1, 0)

Solved ==
    /\ pc = "solve" /\ ~Busy
    /\ pc' = "idle"
    /\ UNCHANGED <<dir_sign, total_dist, initial_vel, pos_accum, segments, distance,
                   velocity>>

Next ==
    \/ SingleDOF \/ Solved
    \/ solveCase1 \/ solveCase2_1 \/ solveCase2_2 \/ solveCase2_3 \/ solveCase3

Spec == Init /\ [][Next]_vars

-----------------------------------------------------------------------------
(* Properties *)

\* positionAt for a time after the end of the profile.
positionAtEnd ==
    IF segments = <<>> THEN 0
    ELSE LET last == segments[Len(segments)]
         IN dir_sign * (last.pos_start + last.distanceOf)

\* Where the profile has to end: at the target, or, when the robot is too fast
\* to stop there, where full braking stops it.
Reach == IF velocity > distance THEN velocity ELSE distance

Tolerance == Eps + 3 * Round

\* The profile ends at the target, or where full braking ends, whatever velocity
\* the robot starts with and however results are rounded: the errors of all the
\* segments do not amount to more than one eps and three roundings.
LandsOnTarget == pc = "idle" => Abs(positionAtEnd - dir_sign * Reach) <= Tolerance

\* solveAll ends after at most five segments.  Its own guard cannot see to that:
\* it compares a counter that is never incremented.
FewSegments == Len(segments) <= 5

\* A velocity that max_vel allows is never followed by one that it does not,
\* although the velocity of every segment is computed from that of the last.
SpeedLimit ==
    [][pc = "solve" /\ initial_vel <= MaxVel => initial_vel' <= MaxVel]_vars
=============================================================================
