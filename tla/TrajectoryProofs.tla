-------------------------- MODULE TrajectoryProofs --------------------------
(***************************************************************************)
(* For every maximal velocity, every set of inputs and every bound on the  *)
(* rounding errors that eps covers, solveAll needs at most five segments,  *)
(* exceeds no limit and ends where it has to.                              *)
(*                                                                         *)
(* Two quantities carry the argument.  Rank bounds the segments that are   *)
(* still to come.  Landing is where the profile would end if nothing were  *)
(* rounded from here on; it moves only when the target is no longer ahead, *)
(* and then there are at most two segments left that can move it.          *)
(***************************************************************************)
EXTENDS Trajectory, TLAPS

\* After the first segment no velocity lies strictly within eps of max_vel.
VelocityIsClear == initial_vel = MaxVel \/ Abs(initial_vel - MaxVel) >= Eps

\* pos_accum is the end of the last segment.
AccumulatesSegments ==
    IF segments = <<>> THEN pos_accum = 0
    ELSE segments[Len(segments)].pos_start + segments[Len(segments)].distanceOf
            = pos_accum

\* How many more segments there can be.
Rank ==
    IF ~Busy THEN 0
    ELSE IF initial_vel < 0 THEN 5
    ELSE IF initial_vel > MaxVel THEN 4
    ELSE IF Room THEN IF AtMaxVel \/ w1 <= MaxVel THEN 2 ELSE 4
    ELSE IF total_dist - initial_vel <= Eps - Round THEN 1 ELSE 3

RankIsLeft == Len(segments) + Rank <= 5

\* Where the profile ends when nothing more is rounded.
Landing ==
    pos_accum + (IF initial_vel > total_dist THEN initial_vel ELSE total_dist)

\* The target lies clearly beyond the braking distance.
Ahead == total_dist > initial_vel + Round

LandingIsClose ==
    /\ Busy => /\ initial_vel < 0 \/ initial_vel > MaxVel \/ Ahead => Landing = Reach
               /\ Landing - Reach >= -Round
               /\ Landing - Reach <= Eps + 2 * Round
    /\ ~Busy => /\ pos_accum - Reach >= -Tolerance
                /\ pos_accum - Reach <= Tolerance

Inv ==
    /\ TypeOK
    /\ pc = "idle" => ~Busy
    /\ VelocityIsClear
    /\ AccumulatesSegments
    /\ RankIsLeft
    /\ LandingIsClose

-----------------------------------------------------------------------------

\* The value of w1, as it is used below.
LEMMA HalfOfSum ==
    ASSUME TypeOK
    PROVE  w1 \in Int /\ 2 * w1 <= total_dist + initial_vel
                      /\ total_dist + initial_vel <= 2 * w1 + 1
  BY DEF TypeOK, w1

\* What the end of a round does, whatever the segment is.
LEMMA SegmentAdded ==
    ASSUME TypeOK,
           NEW accel \in {-1, 0, 1}, NEW end \in Int, NEW covered \in Int,
           AddSegment(accel, end, covered)
    PROVE  /\ TypeOK' /\ AccumulatesSegments'
           /\ Len(segments') = Len(segments) + 1
           /\ pos_accum' = pos_accum + covered
           /\ total_dist' = IF total_dist < covered THEN 0 ELSE total_dist - covered
           /\ initial_vel' = Snapped(end)
           /\ pc' = pc /\ Reach' = Reach
<1> DEFINE new == [accel |-> accel, vel_start |-> initial_vel,
                   pos_start |-> pos_accum, distanceOf |-> covered]
<1>1. new \in Segments
  BY DEF TypeOK, Segments
<1>2. segments' = Append(segments, new) /\ segments \in Seq(Segments)
  BY DEF AddSegment, TypeOK
<1>3. /\ segments' \in Seq(Segments) /\ segments' # <<>>
      /\ Len(segments') = Len(segments) + 1
      /\ segments'[Len(segments')] = new
  <2> HIDE DEF new
  <2> QED  BY <1>1, <1>2
<1>4. AccumulatesSegments'
  BY <1>3 DEF AccumulatesSegments, AddSegment
<1>5. initial_vel' \in Int /\ initial_vel' = Snapped(end)
  BY MaxVelAssumption DEF AddSegment, Snapped
<1>6. TypeOK'
  <2>1. total_dist' \in Nat /\ pos_accum' \in Int
    BY DEF AddSegment, TypeOK
  <2> QED  BY <1>3, <1>5, <2>1 DEF AddSegment, TypeOK
<1> QED  BY <1>3, <1>4, <1>5, <1>6 DEF AddSegment, Reach

\* A round that accelerates or brakes: way is what it would cover exactly.
LEMMA VelocityChanged ==
    ASSUME TypeOK, NEW accel \in {-1, 1}, NEW end \in Nat, NEW way \in Int,
           way = accel * (end - Abs(initial_vel)),
           ChangeVelocity(accel, end)
    PROVE  \E dv, dd \in Errors :
                 /\ TypeOK' /\ AccumulatesSegments'
                 /\ Len(segments') = Len(segments) + 1
                 /\ pos_accum' = pos_accum + (way + dd)
                 /\ total_dist' = IF total_dist < way + dd THEN 0
                                  ELSE total_dist - (way + dd)
                 /\ initial_vel' = Snapped(end + dv)
                 /\ pc' = pc /\ Reach' = Reach
<1>1. PICK dv \in Errors, dd \in Errors :
         AddSegment(accel, end + dv, accel * (Abs(end) - Abs(initial_vel)) + dd)
  BY DEF ChangeVelocity
<1>2. Abs(end) = end
  BY DEF Abs
<1>3. dv \in Int /\ dd \in Int
  BY RoundAssumption DEF Errors
<1>4. /\ end + dv \in Int
      /\ way + dd \in Int
      /\ accel \in {-1, 0, 1}
  BY <1>3
<1>5. AddSegment(accel, end + dv, way + dd)
  BY <1>1, <1>2
<1> QED  BY <1>4, <1>5, SegmentAdded

\* The place where the profile has to end is an integer.
LEMMA ReachType == TypeOK => Reach \in Int
  BY DEF TypeOK, Reach

\* Errors are at most Round.
LEMMA ErrorType ==
    ASSUME NEW e \in Errors
    PROVE  e \in Int /\ -Round <= e /\ e <= Round
  BY RoundAssumption DEF Errors

-----------------------------------------------------------------------------

\* Stopping a robot that moves away preserves the invariant.
LEMMA Case1Keeps == Inv /\ solveCase1 => Inv'
<1> SUFFICES ASSUME Inv, solveCase1 PROVE Inv'
  OBVIOUS
<1> USE RoundAssumption, MaxVelAssumption
<1>0. TypeOK /\ Busy /\ initial_vel < 0 /\ pc = "solve"
  BY DEF Inv, solveCase1
<1>1. PICK dv \in Errors, dd \in Errors :
         /\ TypeOK' /\ AccumulatesSegments'
         /\ Len(segments') = Len(segments) + 1
         /\ pos_accum' = pos_accum + (initial_vel + dd)
         /\ total_dist' = IF total_dist < initial_vel + dd THEN 0
                          ELSE total_dist - (initial_vel + dd)
         /\ initial_vel' = Snapped(0 + dv)
         /\ pc' = pc /\ Reach' = Reach
  <2>1. initial_vel = 1 * (0 - Abs(initial_vel)) /\ initial_vel \in Int
    BY <1>0 DEF Abs, TypeOK
  <2>2. ChangeVelocity(1, 0) /\ 1 \in {-1, 1} /\ 0 \in Nat
    BY DEF solveCase1
  <2> QED  BY <1>0, <2>1, <2>2, VelocityChanged
<1>2. /\ dv \in Int /\ -Round <= dv /\ dv <= Round
      /\ dd \in Int /\ -Round <= dd /\ dd <= Round
  BY ErrorType
<1>3. initial_vel' = 0
  BY <1>1, <1>2 DEF Snapped, Abs
<1>4. total_dist' = total_dist - (initial_vel + dd)
  BY <1>0, <1>1, <1>2 DEF Busy, Abs, TypeOK
<1>5. VelocityIsClear'
  BY <1>3 DEF VelocityIsClear, Abs
<1>6. RankIsLeft'
  <2>1. Len(segments) = 0
    BY <1>0 DEF Inv, RankIsLeft, Rank, TypeOK
  <2>2. Len(segments') <= 1 /\ Len(segments') \in Nat
    BY <1>1, <2>1
  <2>3. Rank' <= 4 /\ Rank' \in Nat
    BY <1>3 DEF Rank
  <2> QED  BY <2>2, <2>3 DEF RankIsLeft
<1>7. LandingIsClose'
  <2>1. Landing = Reach /\ Landing = pos_accum + total_dist
    BY <1>0 DEF Inv, LandingIsClose, Landing, TypeOK
  <2>2. Landing' = pos_accum + total_dist
    BY <1>0, <1>1, <1>2, <1>3, <1>4 DEF Landing, TypeOK
  <2>3. ~Busy' => total_dist' <= Eps
    BY <1>1 DEF Busy, TypeOK
  <2> QED
    BY <1>0, <1>1, <1>2, <1>3, <1>4, <2>1, <2>2, <2>3
    DEF LandingIsClose, Tolerance, TypeOK
<1> QED  BY <1>0, <1>1, <1>5, <1>6, <1>7 DEF Inv

\* Slowing down to max_vel preserves the invariant.
LEMMA Case3Keeps == Inv /\ solveCase3 => Inv'
<1> SUFFICES ASSUME Inv, solveCase3 PROVE Inv'
  OBVIOUS
<1> USE RoundAssumption, MaxVelAssumption
<1>0. TypeOK /\ Busy /\ initial_vel > MaxVel /\ pc = "solve"
  BY DEF Inv, solveCase3
<1> DEFINE way == initial_vel - MaxVel
<1>w. way \in Int /\ way = (-1) * (MaxVel - Abs(initial_vel))
  BY <1>0 DEF Abs, TypeOK
<1>1. PICK dv \in Errors, dd \in Errors :
         /\ TypeOK' /\ AccumulatesSegments'
         /\ Len(segments') = Len(segments) + 1
         /\ pos_accum' = pos_accum + (way + dd)
         /\ total_dist' = IF total_dist < way + dd THEN 0
                          ELSE total_dist - (way + dd)
         /\ initial_vel' = Snapped(MaxVel + dv)
         /\ pc' = pc /\ Reach' = Reach
  <2>1. ChangeVelocity(-1, MaxVel) /\ -1 \in {-1, 1} /\ MaxVel \in Nat
    BY DEF solveCase3
  <2> HIDE DEF way
  <2> QED  BY <1>0, <1>w, <2>1, VelocityChanged
<1>2. /\ dv \in Int /\ -Round <= dv /\ dv <= Round
      /\ dd \in Int /\ -Round <= dd /\ dd <= Round
  BY ErrorType
<1>3. initial_vel' = MaxVel /\ Busy'
  BY <1>1, <1>2 DEF Snapped, Abs, Busy
<1>5. VelocityIsClear'
  BY <1>3 DEF VelocityIsClear
<1>6. RankIsLeft'
  <2>1. Len(segments) <= 1 /\ Len(segments) \in Nat
    BY <1>0 DEF Inv, RankIsLeft, Rank, TypeOK
  <2>2. Len(segments') <= 2 /\ Len(segments') \in Nat
    BY <1>1, <2>1
  <2>3. Rank' <= 3 /\ Rank' \in Nat
    BY <1>3 DEF Rank, AtMaxVel, Abs
  <2> QED  BY <2>2, <2>3 DEF RankIsLeft
<1>7. LandingIsClose'
  <2>1. pos_accum + (IF initial_vel > total_dist THEN initial_vel ELSE total_dist) = Reach
    BY <1>0 DEF Inv, LandingIsClose, Landing
  <2>2. Landing' = IF total_dist >= initial_vel + dd THEN pos_accum + total_dist
                   ELSE pos_accum + initial_vel + dd
    <3>1. /\ pos_accum' = pos_accum + (way + dd)
          /\ total_dist' = IF total_dist < way + dd THEN 0
                           ELSE total_dist - (way + dd)
      BY <1>1
    <3> QED  BY <1>0, <1>2, <1>3, <3>1 DEF Landing, TypeOK
  <2>3. Ahead' => total_dist > initial_vel + dd + Round
    BY <1>0, <1>1, <1>2, <1>3 DEF Ahead, TypeOK
  <2>4. /\ Ahead' => Landing' = Reach
        /\ Landing' - Reach >= -Round
        /\ Landing' - Reach <= Eps + 2 * Round
    BY <1>0, <1>2, <2>1, <2>2, <2>3 DEF TypeOK
  <2> QED  BY <1>1, <1>3, <2>4 DEF LandingIsClose
<1> QED  BY <1>0, <1>1, <1>5, <1>6, <1>7 DEF Inv

\* Accelerating preserves the invariant.
LEMMA Case2_1Keeps == Inv /\ solveCase2_1 => Inv'
<1> SUFFICES ASSUME Inv, solveCase2_1 PROVE Inv'
  OBVIOUS
<1> USE RoundAssumption, MaxVelAssumption
<1> DEFINE top == IF MaxVel < w1 THEN MaxVel ELSE w1
<1> DEFINE way == top - initial_vel
<1>0. /\ TypeOK /\ Busy /\ pc = "solve"
      /\ total_dist \in Nat /\ initial_vel \in Int /\ pos_accum \in Int
      /\ initial_vel >= 0 /\ initial_vel <= MaxVel - Eps
      /\ total_dist > initial_vel + Eps
  <2>1. TypeOK /\ initial_vel \in 0..MaxVel
    BY DEF Inv, solveCase2_1
  <2> QED  BY <2>1 DEF Inv, solveCase2_1, AtMaxVel, Room, Braking, Abs, TypeOK
<1>h. /\ w1 \in Int
      /\ 2 * w1 <= total_dist + initial_vel
      /\ total_dist + initial_vel <= 2 * w1 + 1
  BY <1>0, HalfOfSum
<1>t. /\ top = MaxVel \/ top = w1
      /\ top \in Nat /\ top <= MaxVel /\ top <= w1
      /\ top >= initial_vel + 2 * Round + 1
  BY <1>0, <1>h
<1>w. /\ way \in Int /\ way = top - initial_vel
      /\ way = 1 * (top - Abs(initial_vel))
  BY <1>0, <1>t DEF Abs
<1>1. PICK dv \in Errors, dd \in Errors :
         /\ TypeOK' /\ AccumulatesSegments'
         /\ Len(segments') = Len(segments) + 1
         /\ pos_accum' = pos_accum + (way + dd)
         /\ total_dist' = IF total_dist < way + dd THEN 0
                          ELSE total_dist - (way + dd)
         /\ initial_vel' = Snapped(top + dv)
         /\ pc' = pc /\ Reach' = Reach
  <2>1. ChangeVelocity(1, top) /\ 1 \in {-1, 1}
    BY DEF solveCase2_1
  <2> HIDE DEF top, way
  <2> QED  BY <1>0, <1>t, <1>w, <2>1, VelocityChanged
<1> HIDE DEF top, way
<1>2. /\ dv \in Int /\ -Round <= dv /\ dv <= Round
      /\ dd \in Int /\ -Round <= dd /\ dd <= Round
  BY ErrorType
<1> DEFINE v1 == initial_vel'
<1> DEFINE d1 == total_dist'
<1> DEFINE p1 == pos_accum'
<1>3. /\ v1 = Snapped(top + dv)
      /\ d1 = IF total_dist < way + dd THEN 0 ELSE total_dist - (way + dd)
      /\ p1 = pos_accum + (way + dd)
  BY <1>1
<1> HIDE DEF v1, d1, p1
<1>s. \/ v1 = MaxVel /\ top + dv > MaxVel - Eps
      \/ v1 = top + dv /\ top + dv <= MaxVel - Eps
  BY <1>0, <1>2, <1>t, <1>3 DEF Snapped, Abs
<1>v. v1 \in Int /\ v1 > Round /\ v1 <= MaxVel /\ Abs(v1) = v1
  BY <1>0, <1>2, <1>t, <1>s DEF Abs
<1>4. d1 = total_dist - (way + dd) /\ d1 \in Int /\ p1 \in Int
  <2>1. ~(total_dist < way + dd)
    BY <1>0, <1>2, <1>h, <1>t, <1>w
  <2> QED  BY <1>0, <1>2, <1>3, <1>w, <2>1
<1>b. Busy'
  BY <1>v DEF Busy, v1
<1>5. VelocityIsClear'
  <2>1. v1 = MaxVel \/ Abs(v1 - MaxVel) >= Eps
    BY <1>2, <1>t, <1>s DEF Abs
  <2> QED  BY <2>1 DEF VelocityIsClear, v1
<1>6. RankIsLeft'
  <2>0. Len(segments) \in Nat /\ Len(segments') = Len(segments) + 1
    BY <1>0, <1>1 DEF TypeOK
  <2>1. Rank = IF w1 <= MaxVel THEN 2 ELSE 4
    BY <1>0 DEF Inv, solveCase2_1, Rank
  <2>2. Len(segments) + Rank <= 5
    BY DEF Inv, RankIsLeft
  <2>3. CASE w1 <= MaxVel
    <3>1. d1 - v1 <= Eps - Round
      BY <1>0, <1>2, <1>s, <1>4, <1>h, <1>t, <1>w, <2>3
    <3>2. ~(d1 > v1 + Eps) /\ ~(v1 < 0) /\ ~(v1 > MaxVel)
      BY <1>v, <1>4, <3>1
    <3>3. ~Room'
      BY <1>v, <3>2 DEF Room, Braking, v1, d1
    <3>4. Rank' = 1
      BY <1>b, <3>1, <3>2, <3>3 DEF Rank, v1, d1
    <3> QED  BY <2>0, <2>1, <2>2, <2>3, <3>4 DEF RankIsLeft
  <2>4. CASE ~(w1 <= MaxVel)
    <3>1. v1 = MaxVel
      BY <1>2, <1>s, <1>h, <1>t, <2>4
    <3>2. initial_vel' = MaxVel
      BY <3>1 DEF v1
    <3>3. Rank' \in 0..3
      BY <3>2 DEF Rank, AtMaxVel, Abs
    <3> QED  BY <2>0, <2>1, <2>2, <2>4, <3>3 DEF RankIsLeft
  <2> QED  BY <2>3, <2>4
<1>7. LandingIsClose'
  <2>1. Reach = pos_accum + total_dist
    BY <1>0 DEF Inv, LandingIsClose, Landing, Ahead
  <2>2. v1 - d1 <= Eps + 2 * Round
    BY <1>0, <1>2, <1>s, <1>4, <1>h, <1>t, <1>w
  <2>3. p1 + d1 = Reach
    BY <1>0, <1>2, <1>3, <1>4, <1>w, <2>1
  <2> DEFINE l1 == p1 + (IF v1 > d1 THEN v1 ELSE d1)
  <2>4. /\ d1 > v1 + Round => l1 = Reach
        /\ l1 - Reach >= -Round
        /\ l1 - Reach <= Eps + 2 * Round
    BY <1>v, <1>4, <2>2, <2>3
  <2>5. /\ Ahead' => Landing' = Reach
        /\ Landing' - Reach >= -Round
        /\ Landing' - Reach <= Eps + 2 * Round
    BY <2>4, Zenon DEF Landing, Ahead, l1, v1, d1, p1
  <2>6. ~(initial_vel' < 0) /\ ~(initial_vel' > MaxVel)
    <3>1. ~(v1 < 0) /\ ~(v1 > MaxVel)
      BY <1>v
    <3> QED  BY <3>1 DEF v1
  <2> QED  BY <1>1, <1>b, <2>5, <2>6 DEF LandingIsClose
<1> QED  BY <1>0, <1>1, <1>5, <1>6, <1>7 DEF Inv

\* Keeping max_vel preserves the invariant.
LEMMA Case2_2Keeps == Inv /\ solveCase2_2 => Inv'
<1> SUFFICES ASSUME Inv, solveCase2_2 PROVE Inv'
  OBVIOUS
<1> USE RoundAssumption, MaxVelAssumption
<1>0. /\ TypeOK /\ Busy /\ pc = "solve"
      /\ total_dist \in Nat /\ initial_vel = MaxVel /\ pos_accum \in Int
      /\ total_dist > MaxVel + Eps
  <2>1. TypeOK /\ initial_vel = MaxVel
    BY DEF Inv, solveCase2_2, AtMaxVel, VelocityIsClear, Abs, TypeOK
  <2> QED  BY <2>1 DEF Inv, solveCase2_2, Room, Braking, Abs, TypeOK
<1>1. PICK dd \in Errors : AddSegment(0, initial_vel, total_dist - MaxVel + dd)
  BY DEF solveCase2_2
<1>2. dd \in Int /\ -Round <= dd /\ dd <= Round
  BY ErrorType
<1>3. /\ TypeOK' /\ AccumulatesSegments'
      /\ Len(segments') = Len(segments) + 1
      /\ pos_accum' = pos_accum + (total_dist - MaxVel + dd)
      /\ total_dist' = IF total_dist < total_dist - MaxVel + dd THEN 0
                       ELSE total_dist - (total_dist - MaxVel + dd)
      /\ initial_vel' = Snapped(initial_vel)
      /\ pc' = pc /\ Reach' = Reach
  <2>1. total_dist - MaxVel + dd \in Int /\ initial_vel \in Int /\ 0 \in {-1, 0, 1}
    BY <1>0, <1>2
  <2> QED  BY <1>0, <1>1, <2>1, SegmentAdded
<1>4. /\ initial_vel' = MaxVel
      /\ total_dist' = MaxVel - dd
  BY <1>0, <1>2, <1>3 DEF Snapped, Abs
<1>b. Busy'
  BY <1>4 DEF Busy, Abs
<1>5. VelocityIsClear'
  BY <1>4 DEF VelocityIsClear
<1>6. RankIsLeft'
  <2>0. Len(segments) \in Nat /\ Len(segments') = Len(segments) + 1
    BY <1>0, <1>3 DEF TypeOK
  <2>1. Len(segments) + 2 <= 5
    BY <1>0, <2>0 DEF Inv, RankIsLeft, Rank, solveCase2_2
  <2>2. Rank' = 1
    BY <1>2, <1>4, <1>b DEF Rank, Room, Braking, Abs
  <2> QED  BY <2>0, <2>1, <2>2 DEF RankIsLeft
<1>7. LandingIsClose'
  <2>1. Reach = pos_accum + total_dist
    BY <1>0 DEF Inv, LandingIsClose, Landing, Ahead
  <2>2. /\ Ahead' => Landing' = Reach
        /\ Landing' - Reach >= -Round
        /\ Landing' - Reach <= Eps + 2 * Round
    BY <1>0, <1>2, <1>3, <1>4, <2>1 DEF Landing, Ahead
  <2> QED  BY <1>3, <1>4, <1>b, <2>2 DEF LandingIsClose
<1> QED  BY <1>0, <1>3, <1>5, <1>6, <1>7 DEF Inv

\* Braking preserves the invariant.
LEMMA Case2_3Keeps == Inv /\ solveCase2_3 => Inv'
<1> SUFFICES ASSUME Inv, solveCase2_3 PROVE Inv'
  OBVIOUS
<1> USE RoundAssumption, MaxVelAssumption
<1>0. /\ TypeOK /\ Busy /\ pc = "solve" /\ ~Room
      /\ total_dist \in Nat /\ initial_vel \in Int /\ pos_accum \in Int
      /\ initial_vel >= 0 /\ initial_vel <= MaxVel
      /\ total_dist <= initial_vel + Eps
  <2>1. TypeOK /\ initial_vel \in 0..MaxVel
    BY DEF Inv, solveCase2_3
  <2> QED  BY <2>1 DEF Inv, solveCase2_3, Room, Braking, Abs, TypeOK
<1>1. PICK dv \in Errors, dd \in Errors :
         /\ TypeOK' /\ AccumulatesSegments'
         /\ Len(segments') = Len(segments) + 1
         /\ pos_accum' = pos_accum + (initial_vel + dd)
         /\ total_dist' = IF total_dist < initial_vel + dd THEN 0
                          ELSE total_dist - (initial_vel + dd)
         /\ initial_vel' = Snapped(0 + dv)
         /\ pc' = pc /\ Reach' = Reach
  <2>1. initial_vel = (-1) * (0 - Abs(initial_vel))
    BY <1>0 DEF Abs
  <2>2. ChangeVelocity(-1, 0) /\ -1 \in {-1, 1} /\ 0 \in Nat
    BY DEF solveCase2_3
  <2> QED  BY <1>0, <2>1, <2>2, VelocityChanged
<1>2. /\ dv \in Int /\ -Round <= dv /\ dv <= Round
      /\ dd \in Int /\ -Round <= dd /\ dd <= Round
  BY ErrorType
<1>3. initial_vel' = 0
  BY <1>1, <1>2 DEF Snapped, Abs
<1>4. Busy' <=> total_dist > initial_vel + dd + Eps
  BY <1>0, <1>1, <1>2, <1>3 DEF Busy, Abs
<1>5. VelocityIsClear'
  BY <1>3 DEF VelocityIsClear, Abs
<1>6. RankIsLeft'
  <2>0. Len(segments) \in Nat /\ Len(segments') = Len(segments) + 1
    BY <1>0, <1>1 DEF TypeOK
  <2>1. Len(segments) + Rank <= 5
    BY DEF Inv, RankIsLeft
  <2>2. Rank = IF total_dist - initial_vel <= Eps - Round THEN 1 ELSE 3
    BY <1>0 DEF Rank
  <2>3. Rank' \in 0..2 /\ (total_dist - initial_vel <= Eps - Round => Rank' = 0)
    <3>1. CASE ~Busy'
      BY <3>1 DEF Rank
    <3>2. CASE Busy'
      <4>1. /\ total_dist' > Eps /\ total_dist' <= Eps + Round /\ total_dist' \in Int
            /\ ~(total_dist - initial_vel <= Eps - Round)
        BY <1>0, <1>1, <1>2, <1>4, <3>2
      <4>2. w1' <= MaxVel
        <5> DEFINE d1 == total_dist'
        <5>1. w1' = (d1 + 0) \div 2
          BY <1>3 DEF w1
        <5>2. d1 \in Int /\ d1 > Eps /\ d1 <= Eps + Round
          BY <4>1
        <5> HIDE DEF d1
        <5>3. (d1 + 0) \div 2 <= MaxVel
          BY <5>2
        <5> QED  BY <5>1, <5>3
      <4>3. Room'
        BY <1>3, <4>1 DEF Room, Braking, Abs
      <4> QED  BY <1>3, <3>2, <4>1, <4>2, <4>3 DEF Rank
    <3> QED  BY <3>1, <3>2
  <2> QED  BY <2>0, <2>1, <2>2, <2>3 DEF RankIsLeft
<1>7. LandingIsClose'
  <2>1. /\ Ahead => Landing = Reach
        /\ Landing - Reach >= -Round
        /\ Landing - Reach <= Eps + 2 * Round
        /\ Reach \in Int
    BY <1>0, ReachType DEF Inv, LandingIsClose
  <2>2. CASE Busy'
    <3>1. Ahead /\ total_dist' = total_dist - (initial_vel + dd)
      BY <1>0, <1>1, <1>2, <1>4, <2>2 DEF Ahead
    <3>2. Landing' = Reach
      BY <1>0, <1>1, <1>2, <1>3, <2>1, <3>1 DEF Landing, Ahead
    <3> QED  BY <1>1, <2>1, <2>2, <3>2 DEF LandingIsClose
  <2>3. CASE ~Busy'
    <3>1. /\ pos_accum' - Reach >= -Tolerance
          /\ pos_accum' - Reach <= Tolerance
      BY <1>0, <1>1, <1>2, <1>4, <2>1, <2>3 DEF Landing, Ahead, Tolerance
    <3> QED  BY <1>1, <2>3, <3>1 DEF LandingIsClose, Tolerance
  <2> QED  BY <2>2, <2>3
<1> QED  BY <1>0, <1>1, <1>5, <1>6, <1>7 DEF Inv

\* A new profile starts with the invariant.
LEMMA StartKeeps == Inv /\ SingleDOF => Inv'
<1> SUFFICES ASSUME Inv, SingleDOF PROVE Inv'
  OBVIOUS
<1> USE RoundAssumption, MaxVelAssumption
<1>1. PICK d \in Dists, v \in Vels :
         /\ dir_sign' = sgn(d)
         /\ distance' = sgn(d) * d
         /\ velocity' = sgn(d) * v
  BY DEF SingleDOF
<1>2. /\ d \in Int /\ v \in Int
      /\ Abs(v) = MaxVel \/ Abs(Abs(v) - MaxVel) >= Eps
  BY InputsAssumption
<1> DEFINE D == sgn(d) * d
<1> DEFINE V == sgn(d) * v
<1>3. /\ D \in Nat /\ V \in Int /\ sgn(d) \in {-1, 1}
      /\ V = MaxVel \/ Abs(V - MaxVel) >= Eps
  BY <1>2 DEF sgn, Abs
<1> HIDE DEF D, V
<1>4. /\ dir_sign' \in {-1, 1} /\ distance' = D /\ velocity' = V
      /\ total_dist' = D /\ initial_vel' = V /\ pos_accum' = 0
      /\ segments' = <<>> /\ pc' = "solve"
  BY <1>1, <1>3 DEF SingleDOF, D, V
<1>5. TypeOK' /\ VelocityIsClear' /\ AccumulatesSegments'
  <2>1. TypeOK'
    BY <1>3, <1>4 DEF TypeOK
  <2>2. VelocityIsClear'
    BY <1>3, <1>4 DEF VelocityIsClear
  <2>3. AccumulatesSegments'
    BY <1>4 DEF AccumulatesSegments
  <2> QED  BY <2>1, <2>2, <2>3
<1>6. RankIsLeft'
  <2>1. Rank' <= 5 /\ Rank' \in Nat
    BY DEF Rank
  <2>2. Len(segments') <= 0 /\ Len(segments') \in Nat
    BY <1>4
  <2> QED  BY <2>1, <2>2 DEF RankIsLeft
<1>7. LandingIsClose'
  <2>1. Reach' = Landing'
    BY <1>3, <1>4 DEF Reach, Landing
  <2> DEFINE R == IF V > D THEN V ELSE D
  <2>2. Reach' = R /\ pos_accum' = 0
    BY <1>4 DEF Reach
  <2>3. R \in Int /\ R - R >= -Round /\ R - R <= Eps + 2 * Round
    BY <1>3
  <2>4. ~Busy' => 0 - R >= -Tolerance /\ 0 - R <= Tolerance
    <3>1. ~Busy' => D <= Eps /\ V <= Round
      BY <1>3, <1>4 DEF Busy, Abs
    <3> QED  BY <1>3, <3>1 DEF Tolerance
  <2> HIDE DEF R
  <2> QED  BY <2>1, <2>2, <2>3, <2>4 DEF LandingIsClose, Tolerance
<1> QED  BY <1>4, <1>5, <1>6, <1>7 DEF Inv

\* The inductive invariant of solveAll: Rank more segments suffice, and Landing
\* stays near the place where the profile has to end.
THEOREM Invariance == Spec => []Inv
<1> USE RoundAssumption, MaxVelAssumption
<1>1. Init => Inv
  <2> SUFFICES ASSUME Init PROVE Inv
    OBVIOUS
  <2>1. TypeOK /\ ~Busy /\ VelocityIsClear /\ AccumulatesSegments
    BY DEF Init, TypeOK, Busy, VelocityIsClear, AccumulatesSegments, Abs
  <2>2. RankIsLeft
    BY <2>1 DEF Init, RankIsLeft, Rank
  <2>3. LandingIsClose
    BY <2>1 DEF Init, LandingIsClose, Reach, Tolerance
  <2> QED  BY <2>1, <2>2, <2>3 DEF Inv
<1>2. Inv /\ [Next]_vars => Inv'
  <2> SUFFICES ASSUME Inv, [Next]_vars PROVE Inv'
    OBVIOUS
  <2>1. CASE SingleDOF
    BY <2>1, StartKeeps
  <2>2. CASE solveCase1
    BY <2>2, Case1Keeps
  <2>3. CASE solveCase2_1
    BY <2>3, Case2_1Keeps
  <2>4. CASE solveCase2_2
    BY <2>4, Case2_2Keeps
  <2>5. CASE solveCase2_3
    BY <2>5, Case2_3Keeps
  <2>6. CASE solveCase3
    BY <2>6, Case3Keeps
  <2>u. ASSUME UNCHANGED <<dir_sign, total_dist, initial_vel, pos_accum, segments,
                           distance, velocity>>,
               pc' \in {"idle", "solve"}, pc' = "idle" => ~Busy
        PROVE  Inv'
    <3>1. Busy' = Busy /\ Rank' = Rank /\ Landing' = Landing /\ Reach' = Reach
          /\ Ahead' = Ahead
      BY <2>u DEF Busy, Rank, Landing, Reach, Ahead, Room, Braking, AtMaxVel, w1
    <3> QED
      BY <2>u, <3>1
      DEF Inv, TypeOK, VelocityIsClear, AccumulatesSegments, RankIsLeft,
          LandingIsClose, Tolerance
  <2>7. CASE Solved
    BY <2>7, <2>u DEF Solved
  <2>8. CASE UNCHANGED vars
    BY <2>8, <2>u DEF vars, Inv, TypeOK
  <2> QED
    BY <2>1, <2>2, <2>3, <2>4, <2>5, <2>6, <2>7, <2>8 DEF Next
<1> QED  BY <1>1, <1>2, PTL DEF Spec

\* total_dist is never negative and all variables keep their types.
THEOREM TypeCorrect == Spec => []TypeOK
<1>1. Inv => TypeOK
  BY DEF Inv
<1> QED  BY <1>1, Invariance, PTL

\* solveAll pushes at most five segments, however results are rounded: the loop
\* ends although its guard is dead.
THEOREM SegmentsAreFew == Spec => []FewSegments
<1>1. Inv => FewSegments
  <2> SUFFICES ASSUME Inv PROVE FewSegments
    OBVIOUS
  <2>1. Len(segments) \in Nat /\ Len(segments) + Rank <= 5
    BY DEF Inv, TypeOK, RankIsLeft
  <2>2. Rank \in Nat
    BY DEF Rank
  <2> QED  BY <2>1, <2>2 DEF FewSegments
<1> QED  BY <1>1, Invariance, PTL

\* positionAt of the end is the target, or the end of full braking, up to one
\* eps and three rounding errors.
THEOREM ProfileLands == Spec => []LandsOnTarget
<1>1. Inv => LandsOnTarget
  <2> SUFFICES ASSUME Inv, pc = "idle" PROVE Abs(positionAtEnd - dir_sign * Reach) <= Tolerance
    BY DEF LandsOnTarget
  <2>1. TypeOK /\ Reach \in Int /\ pos_accum \in Int /\ dir_sign \in {-1, 1}
    BY ReachType DEF Inv, TypeOK
  <2>2. positionAtEnd = dir_sign * pos_accum
    BY <2>1 DEF Inv, AccumulatesSegments, positionAtEnd
  <2>3. pos_accum - Reach >= -Tolerance /\ pos_accum - Reach <= Tolerance
    BY DEF Inv, LandingIsClose
  <2>4. Tolerance \in Int
    BY RoundAssumption DEF Tolerance
  <2> QED  BY <2>1, <2>2, <2>3, <2>4 DEF Abs
<1> QED  BY <1>1, Invariance, PTL

\* solveAll never leads from a velocity that max_vel allows to one that it does
\* not.
THEOREM LimitIsKept == Spec => SpeedLimit
<1>1. Inv /\ [Next]_vars
        => [pc = "solve" /\ initial_vel <= MaxVel => initial_vel' <= MaxVel]_vars
  <2> SUFFICES ASSUME Inv, Next, pc = "solve", initial_vel <= MaxVel
               PROVE  initial_vel' <= MaxVel
    BY DEF vars
  <2> USE RoundAssumption, MaxVelAssumption
  <2>0. initial_vel \in Int /\ TypeOK
    BY DEF Inv, TypeOK
  <2>1. ASSUME NEW accel \in {-1, 1}, NEW end \in Nat, end <= MaxVel,
               ChangeVelocity(accel, end)
        PROVE  initial_vel' <= MaxVel
    <3>1. PICK dv \in Errors : initial_vel' = Snapped(end + dv)
      BY <2>1 DEF ChangeVelocity, AddSegment
    <3>2. Snapped(end + dv) <= MaxVel
      BY <2>1, ErrorType DEF Snapped, Abs
    <3> QED  BY <3>1, <3>2
  <2>2. CASE solveCase1
    BY <2>1, <2>2 DEF solveCase1
  <2>3. CASE solveCase2_1
    <3>1. (IF MaxVel < w1 THEN MaxVel ELSE w1) \in Nat
          /\ (IF MaxVel < w1 THEN MaxVel ELSE w1) <= MaxVel
      BY <2>0, <2>3, HalfOfSum DEF solveCase2_1, TypeOK
    <3>2. ChangeVelocity(1, IF MaxVel < w1 THEN MaxVel ELSE w1) /\ 1 \in {-1, 1}
      BY <2>3 DEF solveCase2_1
    <3> QED  BY <2>1, <3>1, <3>2
  <2>4. CASE solveCase2_2
    <3>1. initial_vel' = Snapped(initial_vel)
      BY <2>4 DEF solveCase2_2, AddSegment
    <3>2. Snapped(initial_vel) <= MaxVel
      BY <2>0 DEF Snapped
    <3> QED  BY <3>1, <3>2
  <2>5. CASE solveCase2_3
    BY <2>1, <2>5 DEF solveCase2_3
  <2>6. CASE solveCase3
    BY <2>0, <2>6 DEF solveCase3
  <2>7. CASE Solved
    BY <2>7 DEF Solved
  <2>8. CASE SingleDOF
    BY <2>8 DEF SingleDOF
  <2> QED  BY <2>2, <2>3, <2>4, <2>5, <2>6, <2>7, <2>8 DEF Next
<1> QED  BY <1>1, Invariance, PTL DEF Spec, SpeedLimit
=============================================================================
