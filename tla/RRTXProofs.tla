----------------------------- MODULE RRTXProofs -----------------------------
(***************************************************************************)
(* The path that PlanningStep returns, for every set of points, every      *)
(* distance, every step size and every set of obstacles.                   *)
(***************************************************************************)
EXTENDS RRTX, TLAPS

-----------------------------------------------------------------------------
(* The inductive invariant *)

\* While a plan is made the tree is the tree of this call: its root is the
\* start, parents precede their children, and every edge is free.
TreeInv ==
    pc # "idle" =>
        /\ Len(m_nodes) > 0
        /\ m_nodes[1].position = m_start /\ m_nodes[1].parent_idx = 0
        /\ \A i \in 2..Len(m_nodes) :
            /\ m_nodes[i].parent_idx \in 1..(i - 1)
            /\ isCollisionFree(m_nodes[m_nodes[i].parent_idx].position,
                               m_nodes[i].position)
        /\ m_start # m_goal

\* A node that connects to the goal sees it.
EndInv ==
    /\ pc = "grow" => best_goal_node = 0
    /\ pc \in {"pick", "walk", "finish"} /\ best_goal_node # 0
        => isCollisionFree(m_nodes[best_goal_node].position, m_goal)

\* The point where the path ends, before and after the walk has stored it.
EndPoint == IF Len(path) = 0 THEN m_nodes[curr].position ELSE path[1]

\* The end of an unconnected path is the root, or closer to the goal than it.
EndIsCloser ==
    \/ distance(EndPoint, m_goal) < distance(m_start, m_goal)
    \/ pc = "walk" /\ Len(path) = 0 /\ curr = 1
    \/ pc = "finish" /\ Len(path) = 1

\* The walk stores the path backwards, and its legs are free.
WalkInv ==
    /\ pc \in {"grow", "pick"} => Len(path) = 0
    /\ pc = "walk" => curr # 0
    /\ pc \in {"walk", "finish"} =>
        /\ \A k \in 1..(Len(path) - 1) : isCollisionFree(path[k + 1], path[k])
        /\ best_goal_node # 0 => isCollisionFree(EndPoint, m_goal)
        /\ best_goal_node = 0 => EndIsCloser
    /\ pc = "walk" /\ Len(path) > 0
        => isCollisionFree(m_nodes[curr].position, path[Len(path)])
    /\ pc = "finish" => Len(path) > 0 /\ path[Len(path)] = m_start

ResultInv == PathIsFree /\ PathFromStart /\ PathGetsCloser

IInv == TypeOK /\ TreeInv /\ EndInv /\ WalkInv /\ ResultInv

-----------------------------------------------------------------------------
(* Distances *)

LEMMA DistType == ASSUME NEW p \in Points, NEW q \in Points PROVE distance(p, q) \in Nat
BY DistAssumption DEF distance

\* A point is at distance 0 from itself, and closer to itself than any other is.
LEMMA DistSelf ==
    ASSUME NEW p \in Points, NEW q \in Points, p # q PROVE distance(q, q) < distance(p, q)
<1>1. distance(q, q) = 0 /\ distance(p, q) # 0
    BY DistAssumption DEF distance
<1>2. distance(p, q) \in Nat
    BY DistType
<1> QED
    BY <1>1, <1>2

-----------------------------------------------------------------------------
(* Every step preserves it *)

LEMMA InitIInv == Init => IInv
<1> SUFFICES ASSUME Init PROVE IInv
    OBVIOUS
<1>1. Len(path) = 1 /\ path[1] = m_start /\ path \in Seq(Points)
    BY DEF Init
<1>2. TypeOK
    BY <1>1, BoundsAssumption DEF Init, TypeOK
<1>3. ResultInv
    BY <1>1 DEF Init, ResultInv, PathIsFree, PathFromStart, PathGetsCloser
<1> QED
    BY <1>2, <1>3 DEF Init, IInv, TreeInv, EndInv, WalkInv

LEMMA PlanningStepIInv == IInv /\ PlanningStep => IInv'
<1> SUFFICES ASSUME IInv, PlanningStep PROVE IInv'
    OBVIOUS
<1> USE DEF PlanningStep
<1>1. m_start' \in Points /\ m_goal' \in Points /\ m_obstacles' \in Layouts
    OBVIOUS
<1>2. CASE isCollisionFree(m_start, m_goal)'
    <2>1. path' = <<m_start', m_goal'>> /\ UNCHANGED <<pc, m_nodes, best_goal_node, curr>>
        BY <1>2
    <2>2. path' \in Seq(Points) /\ Len(path') = 2 /\ path'[1] = m_start' /\ path'[2] = m_goal'
        BY <1>1, <2>1
    <2>3. TypeOK'
        BY <1>1, <2>1, <2>2 DEF IInv, TypeOK
    <2>4. PathIsFree' /\ PathFromStart'
        BY <1>2, <2>2 DEF PathIsFree, PathFromStart
    <2>5. PathGetsCloser'
        BY <1>1, <2>2, DistSelf DEF PathGetsCloser
    <2> QED
        BY <2>1, <2>3, <2>4, <2>5 DEF IInv, TreeInv, EndInv, WalkInv, ResultInv
<1>3. CASE ~isCollisionFree(m_start, m_goal)'
    <2>1. /\ m_nodes' = <<[position |-> m_start', parent_idx |-> 0]>>
          /\ best_goal_node' = 0 /\ curr' = 0 /\ path' = <<>> /\ pc' = "grow"
        BY <1>3
    <2>2. m_start' # m_goal'
        BY <1>1, <1>3, LayoutsAssumption DEF isCollisionFree
    <2>3. m_nodes' \in Seq(Node) /\ Len(m_nodes') = 1
        BY <1>1, <2>1 DEF Node
    <2>4. TypeOK'
        BY <1>1, <2>1, <2>3, BoundsAssumption DEF TypeOK
    <2>5. TreeInv'
        BY <2>1, <2>2, <2>3 DEF TreeInv
    <2>6. EndInv' /\ WalkInv' /\ ResultInv'
        BY <2>1 DEF EndInv, WalkInv, ResultInv, PathIsFree, PathFromStart, PathGetsCloser
    <2> QED
        BY <2>4, <2>5, <2>6 DEF IInv
<1> QED
    BY <1>2, <1>3

LEMMA GrowIInv == IInv /\ Grow => IInv'
<1> SUFFICES ASSUME IInv, Grow PROVE IInv'
    OBVIOUS
<1>1. pc = "grow" /\ Len(m_nodes) < MaxNodes /\ UNCHANGED <<query, curr, path>>
    BY DEF Grow
<1>2. PICK sample \in Points, i \in 1..Len(m_nodes), new \in Points :
        /\ isCollisionFree(m_nodes[i].position, new)
        /\ m_nodes' = Append(m_nodes, [position |-> new, parent_idx |-> i])
        /\ \/ /\ isCollisionFree(new, m_goal)
              /\ best_goal_node' = Len(m_nodes) + 1 /\ pc' = "pick"
           \/ UNCHANGED <<best_goal_node, pc>>
    BY DEF Grow, steer
<1> DEFINE node == [position |-> new, parent_idx |-> i]
<1>3. m_nodes \in Seq(Node) /\ node \in Node
    BY <1>2 DEF IInv, TypeOK, Node
<1>4. /\ m_nodes' \in Seq(Node) /\ Len(m_nodes') = Len(m_nodes) + 1
      /\ \A j \in 1..Len(m_nodes) : m_nodes'[j] = m_nodes[j]
      /\ m_nodes'[Len(m_nodes) + 1] = node
    BY <1>2, <1>3
<1>5. TypeOK'
    BY <1>1, <1>2, <1>4, BoundsAssumption DEF IInv, TypeOK, query
<1>6. TreeInv'
    <2>1. m_nodes'[1] = m_nodes[1] /\ Len(m_nodes') > 0 /\ pc # "idle"
        BY <1>1, <1>3, <1>4 DEF IInv, TreeInv
    <2>2. ASSUME NEW j \in 2..Len(m_nodes')
          PROVE  /\ m_nodes'[j].parent_idx \in 1..(j - 1)
                 /\ isCollisionFree(m_nodes[m_nodes[j].parent_idx].position,
                                    m_nodes[j].position)'
        <3>1. CASE j = Len(m_nodes) + 1
            <4>1. m_nodes'[j].parent_idx = i /\ m_nodes'[j].position = new
                BY <1>4, <3>1
            <4>2. m_nodes'[i] = m_nodes[i] /\ i \in 1..(j - 1)
                BY <1>3, <1>4, <3>1
            <4> QED
                BY <1>1, <1>2, <4>1, <4>2 DEF isCollisionFree, query
        <3>2. CASE j \in 2..Len(m_nodes)
            <4>1. m_nodes[j].parent_idx \in 1..(j - 1)
                BY <3>2, <2>1 DEF IInv, TreeInv
            <4>2. m_nodes[j].parent_idx \in 1..Len(m_nodes)
                BY <3>2, <4>1, <1>3
            <4> QED
                BY <1>1, <1>4, <2>1, <3>2, <4>1, <4>2 DEF IInv, TreeInv, isCollisionFree, query
        <3> QED
            BY <1>3, <1>4, <3>1, <3>2
    <2> QED
        BY <1>1, <2>1, <2>2 DEF IInv, TreeInv, query
<1>7. EndInv'
    <2>1. best_goal_node = 0
        BY <1>1 DEF IInv, EndInv
    <2>2. m_nodes'[Len(m_nodes) + 1].position = new
        BY <1>4
    <2> QED
        BY <1>1, <1>2, <2>1, <2>2 DEF EndInv, isCollisionFree, query
<1>8. pc' \in {"grow", "pick"} /\ Len(path') = 0
    BY <1>1, <1>2 DEF IInv, WalkInv
<1> QED
    BY <1>5, <1>6, <1>7, <1>8 DEF IInv, WalkInv, ResultInv, PathIsFree, PathFromStart, PathGetsCloser

LEMMA TimeoutIInv == IInv /\ Timeout => IInv'
<1> SUFFICES ASSUME IInv, Timeout PROVE IInv'
    OBVIOUS
<1>1. pc = "grow" /\ pc' = "pick" /\ UNCHANGED <<query, m_nodes, best_goal_node, curr, path>>
    BY DEF Timeout
<1>2. TypeOK' /\ TreeInv' /\ EndInv'
    BY <1>1 DEF IInv, TypeOK, TreeInv, EndInv, isCollisionFree, query
<1> QED
    BY <1>1, <1>2 DEF IInv, WalkInv, ResultInv, PathIsFree, PathFromStart, PathGetsCloser

LEMMA PickEndIInv == IInv /\ PickEnd => IInv'
<1> SUFFICES ASSUME IInv, PickEnd PROVE IInv'
    OBVIOUS
<1>1. /\ pc = "pick" /\ pc' = "walk" /\ Len(path) = 0
      /\ UNCHANGED <<query, m_nodes, best_goal_node, path>>
    BY DEF PickEnd, IInv, WalkInv
<1>2. PICK i \in 1..Len(m_nodes) :
        curr' = i /\ IF best_goal_node # 0 THEN i = best_goal_node ELSE IsNearest(i, m_goal)
    BY DEF PickEnd
<1>3. TypeOK' /\ TreeInv' /\ EndInv'
    BY <1>1, <1>2 DEF IInv, TypeOK, TreeInv, EndInv, isCollisionFree, query
<1>4. EndPoint' = m_nodes[i].position
    BY <1>1, <1>2 DEF EndPoint
<1>5. best_goal_node # 0 => isCollisionFree(EndPoint, m_goal)'
    BY <1>1, <1>2, <1>4 DEF IInv, EndInv, isCollisionFree, query
<1>6. best_goal_node = 0 => EndIsCloser'
    <2> SUFFICES ASSUME best_goal_node = 0, i # 1 PROVE EndIsCloser'
        BY <1>1, <1>2 DEF EndIsCloser
    <2>1. /\ 1 \in 1..Len(m_nodes) /\ m_nodes[1].position = m_start
          /\ m_start \in Points /\ m_goal \in Points /\ m_nodes[i].position \in Points
        <3>1. m_nodes \in Seq(Node) /\ Len(m_nodes) > 0 /\ m_nodes[1].position = m_start
            BY <1>1 DEF IInv, TypeOK, TreeInv
        <3>2. m_nodes[i] \in Node /\ 1 \in 1..Len(m_nodes)
            BY <3>1
        <3> QED
            BY <3>1, <3>2 DEF IInv, TypeOK, Node
    <2>2. distance(m_nodes[i].position, m_goal) < distance(m_start, m_goal)
        <3>1. IsNearest(i, m_goal)
            BY <1>2
        <3>2. \/ distance(m_nodes[i].position, m_goal) < distance(m_nodes[1].position, m_goal)
              \/ i <= 1
            BY <2>1, <3>1 DEF IsNearest
        <3> QED
            BY <1>2, <2>1, <3>2
    <2> QED
        BY <1>1, <1>4, <2>2 DEF EndIsCloser, query
<1>7. WalkInv'
    BY <1>1, <1>2, <1>5, <1>6 DEF WalkInv
<1> QED
    BY <1>1, <1>3, <1>7 DEF IInv, ResultInv, PathIsFree, PathFromStart, PathGetsCloser

LEMMA WalkToRootIInv == IInv /\ WalkToRoot => IInv'
<1> SUFFICES ASSUME IInv, WalkToRoot PROVE IInv'
    OBVIOUS
<1> DEFINE here == m_nodes[curr].position
           up == m_nodes[curr].parent_idx
<1>1. /\ pc = "walk" /\ path' = Append(path, here) /\ curr' = up
      /\ pc' = IF up = 0 THEN "finish" ELSE "walk"
      /\ UNCHANGED <<query, m_nodes, best_goal_node>>
    BY DEF WalkToRoot
<1>2. curr \in 1..Len(m_nodes) /\ m_nodes[curr] \in Node /\ path \in Seq(Points)
    BY <1>1 DEF IInv, TypeOK, WalkInv
<1>3. here \in Points /\ up \in Nat
    BY <1>2 DEF Node
<1>4. /\ path' \in Seq(Points) /\ Len(path') = Len(path) + 1
      /\ \A k \in 1..Len(path) : path'[k] = path[k]
      /\ path'[Len(path) + 1] = here
    BY <1>1, <1>2, <1>3
<1>5. \/ curr = 1 /\ up = 0 /\ here = m_start
      \/ /\ curr > 1 /\ up \in 1..(curr - 1)
         /\ isCollisionFree(m_nodes[up].position, here)
    BY <1>1, <1>2 DEF IInv, TreeInv
<1>6. TypeOK'
    BY <1>1, <1>2, <1>4, <1>5 DEF IInv, TypeOK, query
<1>7. TreeInv' /\ EndInv'
    BY <1>1 DEF IInv, TreeInv, EndInv, isCollisionFree, query
<1>8. EndPoint' = EndPoint
    <2>1. CASE Len(path) = 0
        BY <1>1, <1>4, <2>1 DEF EndPoint
    <2>2. CASE Len(path) # 0
        BY <1>2, <1>4, <2>2 DEF EndPoint
    <2> QED
        BY <2>1, <2>2
<1>9. \A k \in 1..(Len(path') - 1) : isCollisionFree(path[k + 1], path[k])'
    <2> SUFFICES ASSUME NEW k \in 1..Len(path)
                 PROVE <<path'[k + 1], path'[k]>> \in Free[m_obstacles]
        BY <1>1, <1>2, <1>4 DEF isCollisionFree, query
    <2>1. CASE k = Len(path)
        <3>1. Len(path) > 0 /\ path'[k + 1] = here /\ path'[k] = path[Len(path)]
            BY <1>2, <1>4, <2>1
        <3>2. isCollisionFree(here, path[Len(path)])
            BY <1>1, <3>1 DEF IInv, WalkInv
        <3> QED
            BY <3>1, <3>2 DEF isCollisionFree
    <2>2. CASE k \in 1..(Len(path) - 1)
        BY <1>1, <1>2, <1>4, <2>2 DEF IInv, WalkInv, isCollisionFree
    <2> QED
        BY <1>2, <2>1, <2>2
<1>10. best_goal_node' = 0 => EndIsCloser'
    <2> SUFFICES ASSUME best_goal_node = 0 PROVE EndIsCloser'
        BY <1>1
    <2>1. CASE distance(EndPoint, m_goal) < distance(m_start, m_goal)
        BY <1>1, <1>8, <2>1 DEF EndIsCloser, query
    <2>2. CASE Len(path) = 0 /\ curr = 1
        <3>1. pc' = "finish"
            BY <1>1, <1>5, <2>2
        <3>2. Len(path') = 1
            BY <1>4, <2>2
        <3> QED
            BY <3>1, <3>2 DEF EndIsCloser
    <2> QED
        BY <1>1, <2>1, <2>2 DEF IInv, WalkInv, EndIsCloser
<1>11. pc' = "walk" => isCollisionFree(m_nodes[curr].position, path[Len(path)])'
    BY <1>1, <1>4, <1>5 DEF isCollisionFree, query
<1>12. pc' = "finish" => path'[Len(path')] = m_start'
    BY <1>1, <1>4, <1>5 DEF query
<1>13. best_goal_node' # 0 => isCollisionFree(EndPoint, m_goal)'
    BY <1>1, <1>8 DEF IInv, WalkInv, isCollisionFree, query
<1>14. WalkInv'
    BY <1>1, <1>4, <1>9, <1>10, <1>11, <1>12, <1>13 DEF WalkInv
<1> QED
    BY <1>1, <1>6, <1>7, <1>14 DEF IInv, ResultInv, PathIsFree, PathFromStart, PathGetsCloser

LEMMA FinishIInv == IInv /\ Finish => IInv'
<1> SUFFICES ASSUME IInv, Finish PROVE IInv'
    OBVIOUS
<1> DEFINE rev == Reversed(path)
           n == Len(path)
           addGoal == \/ best_goal_node # 0
                      \/ isCollisionFree(path[1], m_goal) /\ distance(path[1], m_goal) > 0
<1>1. /\ pc = "finish" /\ pc' = "idle"
      /\ path' = IF addGoal THEN Append(rev, m_goal) ELSE rev
      /\ UNCHANGED <<query, m_nodes, best_goal_node, curr>>
    BY DEF Finish
<1>2. /\ path \in Seq(Points) /\ n \in Nat \ {0} /\ path[n] = m_start
      /\ m_start \in Points /\ m_goal \in Points /\ m_obstacles \in Layouts
      /\ m_start # m_goal
    <2>1. path \in Seq(Points) /\ m_start \in Points /\ m_goal \in Points
          /\ m_obstacles \in Layouts
        BY DEF IInv, TypeOK
    <2>2. Len(path) > 0 /\ path[Len(path)] = m_start
        BY <1>1 DEF IInv, WalkInv
    <2>3. m_start # m_goal
        BY <1>1 DEF IInv, TreeInv
    <2> QED
        BY <2>1, <2>2, <2>3
<1>3. /\ rev \in Seq(Points) /\ Len(rev) = n
      /\ \A k \in 1..n : rev[k] = path[n + 1 - k]
    BY <1>2 DEF Reversed
<1>4. rev[1] = m_start /\ rev[n] = path[1]
    BY <1>2, <1>3
<1>5. \A k \in 1..(n - 1) : isCollisionFree(rev[k], rev[k + 1])
    <2> SUFFICES ASSUME NEW k \in 1..(n - 1) PROVE isCollisionFree(rev[k], rev[k + 1])
        OBVIOUS
    <2>1. n - k \in 1..(n - 1) /\ rev[k] = path[(n - k) + 1] /\ rev[k + 1] = path[n - k]
        BY <1>2, <1>3
    <2> QED
        BY <1>1, <2>1 DEF IInv, WalkInv
<1>6. CASE addGoal
    <2>1. path' = Append(rev, m_goal)
        BY <1>1, <1>6
    <2>2. /\ path' \in Seq(Points) /\ Len(path') = n + 1
          /\ \A k \in 1..n : path'[k] = rev[k]
          /\ path'[n + 1] = m_goal
        BY <1>2, <1>3, <2>1
    <2>3. isCollisionFree(rev[n], m_goal)
        BY <1>1, <1>2, <1>4, <1>6 DEF IInv, WalkInv, EndPoint
    <2>4. PathIsFree'
        <3> SUFFICES ASSUME NEW k \in 1..n PROVE isCollisionFree(path[k], path[k + 1])'
            BY <1>2, <2>2 DEF PathIsFree
        <3>1. CASE k = n
            BY <1>1, <1>2, <2>2, <2>3, <3>1 DEF isCollisionFree, query
        <3>2. CASE k \in 1..(n - 1)
            <4>1. path'[k] = rev[k] /\ path'[k + 1] = rev[k + 1] /\ isCollisionFree(rev[k], rev[k + 1])
                BY <1>2, <1>5, <2>2, <3>2
            <4> QED
                BY <1>1, <4>1 DEF isCollisionFree, query
        <3> QED
            BY <1>2, <3>1, <3>2
    <2>5. PathFromStart'
        <3>1. Len(path') > 0 /\ path'[1] = m_start
            BY <1>2, <1>4, <2>2
        <3> QED
            BY <1>1, <3>1 DEF PathFromStart, query
    <2>6. PathGetsCloser'
        BY <1>1, <1>2, <2>2, DistSelf DEF PathGetsCloser, query
    <2>7. TypeOK'
        BY <1>1, <2>2 DEF IInv, TypeOK, query
    <2> QED
        BY <1>1, <2>4, <2>5, <2>6, <2>7 DEF IInv, TreeInv, EndInv, WalkInv, ResultInv
<1>7. CASE ~addGoal
    <2>1. path' = rev
        BY <1>1, <1>7
    <2>2. PathIsFree' /\ PathFromStart'
        <3>1. Len(path') = n /\ Len(path') > 0 /\ path'[1] = m_start
            BY <1>2, <1>3, <1>4, <2>1
        <3>2. \A k \in 1..(Len(path') - 1) : isCollisionFree(path[k], path[k + 1])'
            BY <1>1, <1>5, <2>1, <3>1 DEF isCollisionFree, query
        <3> QED
            BY <1>1, <3>1, <3>2 DEF PathIsFree, PathFromStart, query
    <2>3. PathGetsCloser'
        <3>1. n > 1 => distance(path[1], m_goal) < distance(m_start, m_goal)
            <4>1. best_goal_node = 0 /\ EndPoint = path[1]
                BY <1>2, <1>7 DEF EndPoint
            <4>2. EndIsCloser
                BY <1>1, <4>1 DEF IInv, WalkInv
            <4> QED
                BY <1>1, <1>2, <4>1, <4>2 DEF EndIsCloser
        <3> QED
            BY <1>1, <1>3, <1>4, <2>1, <3>1 DEF PathGetsCloser, query
    <2>4. TypeOK'
        BY <1>1, <1>3, <2>1 DEF IInv, TypeOK, query
    <2> QED
        BY <1>1, <2>2, <2>3, <2>4 DEF IInv, TreeInv, EndInv, WalkInv, ResultInv
<1> QED
    BY <1>6, <1>7

\* The invariant of the planner.
THEOREM Invariance == Spec => []IInv
<1>1. IInv /\ UNCHANGED vars => IInv'
    BY DEF vars, query, IInv, TypeOK, TreeInv, EndInv, EndPoint, EndIsCloser, WalkInv,
           ResultInv, PathIsFree, PathFromStart, PathGetsCloser, isCollisionFree
<1>2. IInv /\ [Next]_vars => IInv'
    BY <1>1, PlanningStepIInv, GrowIInv, TimeoutIInv, PickEndIInv, WalkToRootIInv, FinishIInv
    DEF Next, Planning
<1> QED
    BY <1>2, InitIInv, PTL DEF Spec

\* Every leg of a returned path is free (RRTX::plan with isCollisionFree).
THEOREM PathsAreFree == Spec => []PathIsFree
<1>1. IInv => PathIsFree
    BY DEF IInv, ResultInv
<1> QED
    BY <1>1, Invariance, PTL

\* A returned path is not empty and starts at m_start of this call.
THEOREM PathsStartAtTheRobot == Spec => []PathFromStart
<1>1. IInv => PathFromStart
    BY DEF IInv, ResultInv
<1> QED
    BY <1>1, Invariance, PTL

\* A returned path of more than one point ends closer to the goal.
THEOREM PathsGetCloser == Spec => []PathGetsCloser
<1>1. IInv => PathGetsCloser
    BY DEF IInv, ResultInv
<1> QED
    BY <1>1, Invariance, PTL

\* Type correctness: in particular best_goal_node, curr and the parent indices
\* stay inside the tree.
THEOREM TypeCorrect == Spec => []TypeOK
<1>1. IInv => TypeOK
    BY DEF IInv
<1> QED
    BY <1>1, Invariance, PTL
=============================================================================
