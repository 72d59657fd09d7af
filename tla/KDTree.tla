------------------------------- MODULE KDTree -------------------------------
(***************************************************************************)
(* kdTree.h: a k-d tree that is built from a vector of points, grows by    *)
(* insertions, and answers three kinds of neighbour queries.               *)
(*                                                                         *)
(* A node is named by idx, the index of its point.  A slot is a place that *)
(* holds a pointer to a node: root_, or next[0] or next[1] of a node.  The *)
(* recursive functions take one step per call; stack holds the calls that  *)
(* have not returned.  A pointer that a call returns to be assigned is in  *)
(* its slot from the moment the node is made: no one looks before.         *)
(*                                                                         *)
(* Distances are squared, which changes no comparison; coordinates are     *)
(* integers.                                                               *)
(***************************************************************************)
EXTENDS Integers, Sequences, FiniteSets

CONSTANTS
    DIM,         \* PointT::DIM
    Points,      \* the points that are built from and inserted
    Queries,     \* the points that are asked for
    Radii,       \* squared radii that are asked for
    DoubleMax,   \* numeric_limits<double>::max()
    MaxBuild,    \* bound: points of a build
    MaxPoints    \* bound: points in the tree

VARIABLES
    root_,
    points_,
    node,        \* the nodes that are allocated
    op,          \* the member function that runs
    stack,       \* its calls that have not returned, the latest last
    query,       \* the arguments of a search: the point,
    bound,       \* and k or the radius
    guess,       \* what nnSearch has found,
    minDist,
    queue,       \* knnSearch: pairs of distance and index,
    indices      \* radiusSearch

tree == <<root_, points_, node>>
results == <<guess, minDist, queue, indices>>
vars == <<tree, op, stack, query, bound, results>>

NullNode == 0
Root == <<0, 0>>
Slots == {Root} \cup ((DOMAIN node) \X {0, 1})
Child(at) == IF at = Root THEN root_ ELSE node[at[1]].next[at[2]]

\* What a walk that starts at root_ and follows all pointers meets.
Closed(S) ==
    /\ root_ # NullNode => root_ \in S
    /\ \A n \in S, d \in {0, 1} : node[n].next[d] # NullNode => node[n].next[d] \in S
Reachable == {n \in DOMAIN node : \A S \in SUBSET DOMAIN node : Closed(S) => n \in S}

Coord(i, axis) == points_[i][axis + 1]

Square(x) == x * x
distance(p, q) ==
    LET dist[i \in 0..DIM] == IF i = 0 THEN 0 ELSE dist[i - 1] + Square(p[i] - q[i])
    IN  dist[DIM]

ASSUME KDTreeAssumption ==
    /\ DIM \in Nat \ {0} /\ MaxBuild \in Nat /\ MaxPoints \in Nat /\ MaxBuild <= MaxPoints
    /\ Points \cup Queries \subseteq [1..DIM -> Int]
    /\ Radii \subseteq Nat

\* Every distance is less than the greatest double.
ASSUME DoubleMaxAssumption ==
    DoubleMax \in Int /\ \A p \in Points, q \in Queries : distance(q, p) < DoubleMax

Init ==
    /\ root_ = NullNode /\ points_ = <<>> /\ node = <<>>
    /\ op = "none" /\ stack = <<>>
    /\ query = <<>> /\ bound = 0
    /\ guess = 0 /\ minDist = DoubleMax /\ queue = <<>> /\ indices = <<>>

-----------------------------------------------------------------------------
\* The latest call, and its return.
Top == stack[Len(stack)]
Pop == stack' = SubSeq(stack, 1, Len(stack) - 1)

\* The call on top returns by calling another one, or calls one more.
TailCall(call) == stack' = [stack EXCEPT ![Len(stack)] = call]
Call(rest, call) == stack' = Append([stack EXCEPT ![Len(stack)] = rest], call)

NewNode(axis) == [axis |-> axis, next |-> [d \in {0, 1} |-> NullNode]]

\* A mutant: the node that the call returns is not linked.
AttachUnlinked(at, i, axis) ==
    /\ root_' = IF at = Root THEN i ELSE root_
    /\ node' = [n \in DOMAIN node \cup {i} |-> IF n = i THEN NewNode(axis) ELSE node[n]]

\* A new node for point i, in the slot at.
Attach(at, i, axis) ==
    /\ root_' = IF at = Root THEN i ELSE root_
    /\ node' = [n \in DOMAIN node \cup {i} |->
                   IF n = i THEN NewNode(axis)
                   ELSE IF n = at[1] THEN [node[n] EXCEPT !.next[at[2]] = i]
                   ELSE node[n]]

\* clearRecursive deletes what it reaches.
Freed == [n \in DOMAIN node \ Reachable |-> node[n]]

clear ==
    /\ op = "none"
    /\ root_' = NullNode /\ points_' = <<>> /\ node' = Freed
    /\ UNCHANGED <<op, stack, query, bound, results>>

build(points) ==
    /\ op = "none" /\ op' = "build"
    /\ root_' = NullNode /\ points_' = points /\ node' = Freed
    /\ stack' = <<[indices |-> DOMAIN points, depth |-> 0, at |-> Root]>>
    /\ UNCHANGED <<query, bound, results>>

\* nth_element leaves at mid an element that none before it exceeds and that
\* exceeds none behind it; which one, and what stands before it when
\* coordinates are equal, is up to the library.
NthElement(all, axis, mid, before) ==
    /\ Cardinality(before) = (Cardinality(all) - 1) \div 2
    /\ \A i \in before : Coord(i, axis) <= Coord(mid, axis)
    /\ \A i \in all \ before : Coord(mid, axis) <= Coord(i, axis)

buildRecursive ==
    /\ op = "build" /\ stack # <<>>
    /\ LET call == Top
           axis == call.depth % DIM
       IN  \/ call.indices = {} /\ Pop /\ UNCHANGED tree
           \/ \E mid \in call.indices : \E before \in SUBSET (call.indices \ {mid}) :
                 /\ NthElement(call.indices, axis, mid, before)
                 /\ Attach(call.at, mid, axis)
                 /\ Call([indices |-> call.indices \ (before \cup {mid}),
                          depth |-> call.depth + 1, at |-> <<mid, 1>>],
                         [indices |-> before, depth |-> call.depth + 1, at |-> <<mid, 0>>])
                 /\ UNCHANGED points_
    /\ UNCHANGED <<op, query, bound, results>>

insert(point) ==
    /\ op = "none" /\ op' = "insert"
    /\ Len(points_) < MaxPoints
    /\ points_' = Append(points_, point)
    /\ stack' = <<[indices |-> {Len(points_) + 1}, depth |-> 0, at |-> Root]>>
    /\ UNCHANGED <<root_, node, query, bound, results>>

insertRecursive ==
    /\ op = "insert" /\ stack # <<>>
    /\ LET call == Top
           idx == Len(points_)
           n == Child(call.at)
           d == IF Coord(idx, node[n].axis) < Coord(n, node[n].axis) THEN 0 ELSE 1
       IN  \/ /\ n = NullNode
              /\ Attach(call.at, idx, call.depth % DIM)
              /\ Pop
           \/ /\ n # NullNode
              /\ TailCall([indices |-> {idx}, depth |-> call.depth + 1, at |-> <<n, d>>])
              /\ UNCHANGED <<root_, node>>
    /\ UNCHANGED <<points_, op, query, bound, results>>

\* A mutant: no equal coordinate is allowed on the side of the smaller ones.
ValidateStrict ==
    \A n \in Reachable :
        LET Key(m) == Coord(m, node[n].axis)
            next == node[n].next
        IN  next[0] # NullNode /\ next[1] # NullNode
                => Key(next[0]) < Key(n) /\ Key(n) <= Key(next[1])

\* Only a node with two children is compared with them.  Exceptions do not
\* leave validate.
validate ==
    \A n \in Reachable :
        LET Key(m) == Coord(m, node[n].axis)
            next == node[n].next
        IN  next[0] # NullNode /\ next[1] # NullNode
                => Key(next[0]) <= Key(n) /\ Key(n) <= Key(next[1])

-----------------------------------------------------------------------------
\* A mutant: the sides are exchanged.
DirExchanged(n) == IF query[node[n].axis + 1] < Coord(n, node[n].axis) THEN 1 ELSE 0

\* The side of the query at a node, and its distance from the plane there.
dir(n) == IF query[node[n].axis + 1] < Coord(n, node[n].axis) THEN 0 ELSE 1
PlaneDistance(n) == Square(query[node[n].axis + 1] - Coord(n, node[n].axis))

\* A call of a search for a node; "far" when it is back from the near side.
Visit(n) == [node |-> n, pc |-> "enter"]

Begin(search, q, b) ==
    /\ op = "none" /\ op' = search
    /\ query' = q /\ bound' = b
    /\ stack' = <<Visit(root_)>>
    /\ UNCHANGED <<tree, results>>

nnSearch(q) == Begin("nnSearch", q, 0)
knnSearch(q, k) == Begin("knnSearch", q, k)
radiusSearch(q, radius) == Begin("radiusSearch", q, radius)

\* What the three recursive searches do alike: return at once, go on with the
\* near side, and after that with the far side or not.
AtNull == Top.node = NullNode /\ Pop
NearSide ==
    /\ Top.node # NullNode /\ Top.pc = "enter"
    /\ Call([Top EXCEPT !.pc = "far"], Visit(node[Top.node].next[dir(Top.node)]))
\* A mutant: the far side is never entered.
FarSideNever(enter) == Top.pc = "far" /\ Pop
FarSide(enter) ==
    /\ Top.pc = "far"
    /\ IF enter THEN TailCall(Visit(node[Top.node].next[1 - dir(Top.node)])) ELSE Pop

\* On an empty tree guess is returned uninitialized: 0 is no index.
nnSearchRecursive ==
    /\ op = "nnSearch" /\ stack # <<>>
    /\ LET dist == distance(query, points_[Top.node])
       IN  \/ AtNull /\ UNCHANGED <<guess, minDist>>
           \/ /\ NearSide
              /\ IF dist < minDist THEN minDist' = dist /\ guess' = Top.node
                 ELSE UNCHANGED <<guess, minDist>>
           \/ FarSide(PlaneDistance(Top.node) < minDist) /\ UNCHANGED <<guess, minDist>>
    /\ UNCHANGED <<tree, op, query, bound, queue, indices>>

\* A mutant: the queue keeps the greatest elements.
LessReversed(a, b) == b[1] < a[1] \/ (b[1] = a[1] /\ b[2] < a[2])

\* BoundedPriorityQueue: in ascending order, at most bound of them.
Less(a, b) == a[1] < b[1] \/ (a[1] = b[1] /\ a[2] < b[2])
push(val) ==
    LET greater == {i \in DOMAIN queue : Less(val, queue[i])}
        at == IF greater = {} THEN Len(queue) + 1 ELSE CHOOSE i \in greater : \A j \in greater : i <= j
    IN  queue' = [i \in 1..(IF Len(queue) < bound THEN Len(queue) + 1 ELSE bound) |->
                     IF i < at THEN queue[i] ELSE IF i = at THEN val ELSE queue[i - 1]]

knnSearchRecursive ==
    /\ op = "knnSearch" /\ stack # <<>>
    /\ \/ AtNull /\ UNCHANGED queue
       \/ NearSide /\ push(<<distance(query, points_[Top.node]), Top.node>>)
       \/ /\ FarSide(Len(queue) < bound \/ PlaneDistance(Top.node) < queue[Len(queue)][1])
          /\ UNCHANGED queue
    /\ UNCHANGED <<tree, op, query, bound, guess, minDist, indices>>

radiusSearchRecursive ==
    /\ op = "radiusSearch" /\ stack # <<>>
    /\ \/ AtNull /\ UNCHANGED indices
       \/ /\ NearSide
          /\ IF distance(query, points_[Top.node]) < bound THEN indices' = Append(indices, Top.node)
             ELSE UNCHANGED indices
       \/ FarSide(PlaneDistance(Top.node) < bound) /\ UNCHANGED indices
    /\ UNCHANGED <<tree, op, query, bound, guess, minDist, queue>>

-----------------------------------------------------------------------------
\* The member function returns, and its local variables are gone.
Return ==
    /\ op # "none" /\ stack = <<>>
    /\ op' = "none"
    /\ query' = <<>> /\ bound' = 0
    /\ guess' = 0 /\ minDist' = DoubleMax /\ queue' = <<>> /\ indices' = <<>>
    /\ UNCHANGED <<tree, stack>>

Next ==
    \/ clear
    \/ \E n \in 0..MaxBuild : \E points \in [1..n -> Points] : build(points)
    \/ \E point \in Points : insert(point)
    \/ \E q \in Queries : nnSearch(q)
    \/ \E q \in Queries, k \in 1..MaxPoints : knnSearch(q, k)
    \/ \E q \in Queries, radius \in Radii : radiusSearch(q, radius)
    \/ buildRecursive
    \/ insertRecursive
    \/ nnSearchRecursive
    \/ knnSearchRecursive
    \/ radiusSearchRecursive
    \/ Return

Spec == Init /\ [][Next]_vars

-----------------------------------------------------------------------------
\* After any sequence of calls each point has one node, a walk from root_
\* meets all of them, and no two slots hold the same node: a query can find
\* every point, and clear frees every node once.
IndexedOnce ==
    op \notin {"build", "insert"} =>
        /\ points_ \in Seq(Points) /\ Len(points_) <= MaxPoints
        /\ DOMAIN node = DOMAIN points_
        /\ Reachable = DOMAIN node
        /\ \A a, b \in Slots : Child(a) = Child(b) /\ Child(a) # NullNode => a = b

\* validate accepts every tree that build and insert make, also when points
\* with equal coordinates end up on either side.
AlwaysValid == op \notin {"build", "insert"} => validate

Returns(search) == op = search /\ stack = <<>>
Distance(i) == distance(query, points_[i])

\* nnSearch returns a point of the tree to which no other one is nearer.
NearestIsNearest ==
    Returns("nnSearch") /\ points_ # <<>> =>
        /\ guess \in DOMAIN points_ /\ minDist = Distance(guess)
        /\ \A i \in DOMAIN points_ : minDist <= Distance(i)

\* knnSearch returns as many points as it can, in the order of their
\* distances, and no point that is left out is nearer than one that is not.
KNearest ==
    Returns("knnSearch") =>
        /\ Len(queue) = (IF Len(points_) < bound THEN Len(points_) ELSE bound)
        /\ \A i \in DOMAIN queue :
              queue[i][2] \in DOMAIN points_ /\ queue[i][1] = Distance(queue[i][2])
        /\ \A i, j \in DOMAIN queue : i < j => queue[i][1] <= queue[j][1] /\ queue[i][2] # queue[j][2]
        /\ \A i \in DOMAIN points_ : (\A j \in DOMAIN queue : queue[j][2] # i)
              => \A j \in DOMAIN queue : queue[j][1] <= Distance(i)

\* radiusSearch returns exactly the points inside the open circle, each once.
WithinRadius ==
    Returns("radiusSearch") =>
        /\ {indices[j] : j \in DOMAIN indices} = {i \in DOMAIN points_ : Distance(i) < bound}
        /\ \A i, j \in DOMAIN indices : i # j => indices[i] # indices[j]
=============================================================================
