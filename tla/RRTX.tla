-------------------------------- MODULE RRTX --------------------------------
(***************************************************************************)
(* The path planner: RRTX::PlanningStep, which Game::Plan calls in every   *)
(* frame of the automatic mode.  The tree is grown from the start until it *)
(* connects to the goal or the time is up; the path is then read off the   *)
(* parent indices, from its end to its start, and reversed.                *)
(*                                                                         *)
(* The plane is abstracted to a set of points with a distance, and a set   *)
(* of obstacles to the pairs of points whose connection it leaves free.    *)
(* Indices start at 1, and 0 stands for the -1 of the code.  The cost of a *)
(* node is never read and is left out.                                     *)
(***************************************************************************)
EXTENDS Naturals, Sequences

CONSTANTS
    Points,
    Dist,       \* distance, a function of pairs of points
    StepSize,   \* m_config.step_size
    Layouts,    \* sets of obstacles, by name
    Free,       \* for every layout, the pairs that isCollisionFree accepts
    MaxNodes    \* bound: nodes of the tree

ASSUME DistAssumption ==
    /\ Dist \in [Points \X Points -> Nat]
    /\ \A p, q \in Points : Dist[<<p, q>>] = 0 <=> p = q

\* isCollisionFree computes the same for both directions, and accepts a segment
\* without a length.
ASSUME LayoutsAssumption ==
    \A o \in Layouts :
        /\ \A p \in Points : <<p, p>> \in Free[o]
        /\ \A p, q \in Points : <<p, q>> \in Free[o] => <<q, p>> \in Free[o]

ASSUME BoundsAssumption == StepSize \in Nat \ {0} /\ MaxNodes \in Nat \ {0}

VARIABLES
    pc,                          \* "idle", "grow", "pick", "walk" or "finish"
    m_start, m_goal, m_obstacles,
    m_nodes,                     \* the tree, kept from call to call
    best_goal_node, curr,
    path

query == <<m_start, m_goal, m_obstacles>>
vars  == <<pc, query, m_nodes, best_goal_node, curr, path>>

Node == [position : Points, parent_idx : Nat]

\* Every variable keeps its type.
TypeOK ==
    /\ pc \in {"idle", "grow", "pick", "walk", "finish"}
    /\ m_start \in Points /\ m_goal \in Points
    /\ m_obstacles \in Layouts
    /\ m_nodes \in Seq(Node) /\ Len(m_nodes) <= MaxNodes
    /\ best_goal_node \in 0..Len(m_nodes)
    /\ curr \in 0..Len(m_nodes)
    /\ path \in Seq(Points)

\* Before the first call the members hold anything; no path was returned yet.
Init ==
    /\ pc = "idle"
    /\ m_start \in Points /\ m_goal \in Points /\ m_obstacles \in Layouts
    /\ m_nodes = <<>>
    /\ best_goal_node = 0 /\ curr = 0
    /\ path = <<m_start>>

distance(p, q) == Dist[<<p, q>>]

isCollisionFree(p, q) == <<p, q>> \in Free[m_obstacles]

\* Mutant of IsNearest: a later node of the same distance replaces it.
IsNearestLast(i, p) ==
    /\ i \in 1..Len(m_nodes)
    /\ \A j \in 1..Len(m_nodes) :
        LET d(k) == distance(m_nodes[k].position, p) IN
        d(i) < d(j) \/ (d(i) = d(j) /\ i >= j)

\* The first node of least distance from p: a later one replaces it only when
\* it is strictly closer.
IsNearest(i, p) ==
    /\ i \in 1..Len(m_nodes)
    /\ \A j \in 1..Len(m_nodes) :
        LET d(k) == distance(m_nodes[k].position, p) IN
        d(i) < d(j) \/ (d(i) = d(j) /\ i <= j)

\* One step from n towards the sample s, or s itself when it is near.
steer(n, s) ==
    IF distance(n, s) < StepSize THEN {s}
    ELSE {q \in Points : distance(n, q) = StepSize /\ distance(q, s) < distance(n, s)}

-----------------------------------------------------------------------------
(* PlanningStep *)

\* Mutant of PlanningStep: the old tree is not cleared.
PlanningStepKeepsTree ==
    /\ pc = "idle"
    /\ m_start' \in Points /\ m_goal' \in Points /\ m_obstacles' \in Layouts
    /\ \/ /\ isCollisionFree(m_start, m_goal)'
          /\ path' = <<m_start', m_goal'>>
          /\ UNCHANGED <<pc, m_nodes, best_goal_node, curr>>
       \/ /\ ~isCollisionFree(m_start, m_goal)'
          /\ m_nodes' = IF m_nodes = <<>> THEN <<[position |-> m_start', parent_idx |-> 0]>>
                                          ELSE m_nodes
          /\ best_goal_node' = 0 /\ curr' = 0
          /\ path' = <<>>
          /\ pc' = "grow"

\* The parameters are stored.  A free straight line is the path, and the tree
\* of an earlier call stays; otherwise a new tree is rooted at the start.
PlanningStep ==
    /\ pc = "idle"
    /\ m_start' \in Points /\ m_goal' \in Points /\ m_obstacles' \in Layouts
    /\ \/ /\ isCollisionFree(m_start, m_goal)'
          /\ path' = <<m_start', m_goal'>>
          /\ UNCHANGED <<pc, m_nodes, best_goal_node, curr>>
       \/ /\ ~isCollisionFree(m_start, m_goal)'
          /\ m_nodes' = <<[position |-> m_start', parent_idx |-> 0]>>
          /\ best_goal_node' = 0 /\ curr' = 0
          /\ path' = <<>>
          /\ pc' = "grow"

\* Mutant of Grow: the connection to the goal is not tested for obstacles.
GrowBlindly ==
    /\ pc = "grow" /\ Len(m_nodes) < MaxNodes
    /\ \E sample \in Points : \E i \in 1..Len(m_nodes) :
        /\ IsNearest(i, sample)
        /\ \E new \in steer(m_nodes[i].position, sample) :
            /\ isCollisionFree(m_nodes[i].position, new)
            /\ m_nodes' = Append(m_nodes, [position |-> new, parent_idx |-> i])
            /\ \/ /\ distance(new, m_goal) < StepSize
                  /\ best_goal_node' = Len(m_nodes) + 1
                  /\ pc' = "pick"
               \/ /\ ~(distance(new, m_goal) < StepSize)
                  /\ UNCHANGED <<best_goal_node, pc>>
    /\ UNCHANGED <<query, curr, path>>

\* Mutant of Grow: best_goal_node is the size, not the last index.
GrowPastEnd ==
    /\ pc = "grow" /\ Len(m_nodes) < MaxNodes
    /\ \E new \in Points :
        /\ isCollisionFree(m_nodes[1].position, new)
        /\ m_nodes' = Append(m_nodes, [position |-> new, parent_idx |-> 1])
    /\ best_goal_node' = Len(m_nodes) + 2
    /\ pc' = "pick"
    /\ UNCHANGED <<query, curr, path>>

\* One round of the loop whose sample extends the tree: the goal itself may be
\* the sample.  A sample that an obstacle refuses changes nothing.
Grow ==
    /\ pc = "grow" /\ Len(m_nodes) < MaxNodes
    /\ \E sample \in Points : \E i \in 1..Len(m_nodes) :
        /\ IsNearest(i, sample)
        /\ \E new \in steer(m_nodes[i].position, sample) :
            /\ isCollisionFree(m_nodes[i].position, new)
            /\ m_nodes' = Append(m_nodes, [position |-> new, parent_idx |-> i])
            /\ LET connects == /\ distance(new, m_goal) < StepSize
                               /\ isCollisionFree(new, m_goal) IN
               \/ connects /\ best_goal_node' = Len(m_nodes) + 1 /\ pc' = "pick"
               \/ ~connects /\ UNCHANGED <<best_goal_node, pc>>
    /\ UNCHANGED <<query, curr, path>>

\* Mutant of Timeout: the clock is only looked at after a node was added.
TimeoutAfterNode ==
    /\ pc = "grow" /\ Len(m_nodes) > 1
    /\ pc' = "pick"
    /\ UNCHANGED <<query, m_nodes, best_goal_node, curr, path>>

\* recalculation_time_ms is over, possibly before the first sample.
Timeout ==
    /\ pc = "grow"
    /\ pc' = "pick"
    /\ UNCHANGED <<query, m_nodes, best_goal_node, curr, path>>

\* The path ends at the node that connects to the goal or, without one, at the
\* node that is nearest to the goal.
PickEnd ==
    /\ pc = "pick"
    /\ \E i \in 1..Len(m_nodes) :
        /\ IF best_goal_node # 0 THEN i = best_goal_node ELSE IsNearest(i, m_goal)
        /\ curr' = i
    /\ pc' = "walk"
    /\ UNCHANGED <<query, m_nodes, best_goal_node, path>>

\* path.push_back(m_nodes[curr].position), and on to the parent.
WalkToRoot ==
    /\ pc = "walk"
    /\ path' = Append(path, m_nodes[curr].position)
    /\ curr' = m_nodes[curr].parent_idx
    /\ pc' = IF curr' = 0 THEN "finish" ELSE "walk"
    /\ UNCHANGED <<query, m_nodes, best_goal_node>>

Reversed(s) == [i \in 1..Len(s) |-> s[Len(s) + 1 - i]]

\* std::reverse; the goal is added when it is connected, and otherwise when the
\* last point happens to see it (and is not the goal: 0.01 is less than a unit).
Finish ==
    /\ pc = "finish"
    /\ LET last == path[1]
           addGoal == \/ best_goal_node # 0
                      \/ isCollisionFree(last, m_goal) /\ distance(last, m_goal) > 0
       IN path' = IF addGoal THEN Append(Reversed(path), m_goal) ELSE Reversed(path)
    /\ pc' = "idle"
    /\ UNCHANGED <<query, m_nodes, best_goal_node, curr>>

Planning == Grow \/ Timeout \/ PickEnd \/ WalkToRoot \/ Finish

Next == PlanningStep \/ Planning

Spec == Init /\ [][Next]_vars

\* The program runs, and the clock does: the time limit is reached.
FairSpec ==
    Spec /\ WF_vars(Timeout) /\ WF_vars(PickEnd) /\ WF_vars(WalkToRoot) /\ WF_vars(Finish)

-----------------------------------------------------------------------------
(* Properties of the path that PlanningStep returns (pc is "idle") *)

\* Game::UpdateAutoStrategy steers for path[1] without a test of its own: every
\* leg of the path is free of the obstacles of this call, although the path is
\* read backwards from a tree that outlives the call.
PathIsFree ==
    pc = "idle" =>
        \A k \in 1..(Len(path) - 1) : isCollisionFree(path[k], path[k + 1])

\* The path is never empty and starts where the robot is, not at the root of an
\* earlier tree.
PathFromStart == pc = "idle" => Len(path) > 0 /\ path[1] = m_start

\* As the tests of the planner expect, a path that leads somewhere ends closer
\* to the goal than it starts, also when the time limit cut the search short.
PathGetsCloser ==
    pc = "idle" /\ Len(path) > 1 /\ m_start # m_goal
        => distance(path[Len(path)], m_goal) < distance(m_start, m_goal)

\* PlanningStep returns: the walk along the parent indices ends at the root.
PlanReturns == pc = "grow" ~> pc = "idle"
=============================================================================
