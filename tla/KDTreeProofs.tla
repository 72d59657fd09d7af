---------------------------- MODULE KDTreeProofs ----------------------------
(***************************************************************************)
(* Proofs about KDTree, for every dimension, set of points and bound.      *)
(***************************************************************************)
EXTENDS KDTree, FiniteSetTheorems, TLAPS

Index == DOMAIN points_
Nodes == DOMAIN node
NodeType == [axis : 0..(DIM - 1), next : [{0, 1} -> {NullNode} \cup Nodes]]

TreeType ==
    /\ points_ \in Seq(Points) /\ Len(points_) <= MaxPoints
    /\ Nodes \subseteq Index /\ node \in [Nodes -> NodeType]
    /\ root_ \in {NullNode} \cup Nodes

OneParent == \A a, b \in Slots : Child(a) = Child(b) /\ Child(a) # NullNode => a = b

-----------------------------------------------------------------------------
LEMMA IndexIsNat == TreeType => Index = 1..Len(points_) /\ Len(points_) \in Nat /\ NullNode \notin Index
BY DEF TreeType, Index, NullNode

LEMMA ChildType == TreeType => \A at \in Slots : Child(at) \in {NullNode} \cup Nodes
<1> SUFFICES ASSUME TreeType, NEW at \in Slots PROVE Child(at) \in {NullNode} \cup Nodes
  OBVIOUS
<1>1. CASE at = Root
  BY <1>1 DEF Child, TreeType
<1>2. CASE at # Root
  <2>1. at[1] \in Nodes /\ at[2] \in {0, 1}
    BY <1>2 DEF Slots, Nodes
  <2>2. node[at[1]].next \in [{0, 1} -> {NullNode} \cup Nodes]
    BY <2>1 DEF TreeType, NodeType
  <2> QED BY <1>2, <2>1, <2>2 DEF Child
<1> QED BY <1>1, <1>2

LEMMA AxisType == TreeType => \A n \in Nodes : node[n].axis \in 0..(DIM - 1)
BY DEF TreeType, NodeType

\* Coordinates are numbers.
LEMMA CoordType == TreeType => \A i \in Index, n \in Nodes : Coord(i, node[n].axis) \in Int
<1> SUFFICES ASSUME TreeType, NEW i \in Index, NEW n \in Nodes PROVE Coord(i, node[n].axis) \in Int
  OBVIOUS
<1>1. points_[i] \in Points
  BY DEF TreeType, Index
<1>2. points_[i] \in [1..DIM -> Int]
  BY <1>1, KDTreeAssumption
<1>3. node[n].axis + 1 \in 1..DIM
  BY AxisType, KDTreeAssumption
<1> QED BY <1>2, <1>3 DEF Coord

LEMMA ChildOfNode ==
    TreeType => \A n \in Nodes, d \in {0, 1} : <<n, d>> \in Slots /\ Child(<<n, d>>) = node[n].next[d]
<1> SUFFICES ASSUME TreeType, NEW n \in Nodes, NEW d \in {0, 1}
             PROVE  <<n, d>> \in Slots /\ Child(<<n, d>>) = node[n].next[d]
  OBVIOUS
<1>1. n # 0
  BY IndexIsNat DEF TreeType, NullNode
<1> QED BY <1>1 DEF Slots, Child, Root, Nodes

\* What a new node changes: its slot points to it, and its own slots are
\* empty.
LEMMA AttachStep ==
    ASSUME TreeType, NEW at \in Slots, NEW i \in Index, i \notin Nodes,
           NEW axis \in 0..(DIM - 1), Attach(at, i, axis)
    PROVE  /\ Nodes' = Nodes \cup {i} /\ node' \in [Nodes' -> NodeType'] /\ root_' \in {NullNode} \cup Nodes'
           /\ node'[i].axis = axis /\ \A n \in Nodes : node'[n].axis = node[n].axis
           /\ Slots' = Slots \cup {<<i, 0>>, <<i, 1>>}
           /\ \A b \in Slots : Child(b)' = IF b = at THEN i ELSE Child(b)
           /\ \A d \in {0, 1} : Child(<<i, d>>)' = NullNode
<1>0. i # 0 /\ 0 \notin Nodes /\ i \in Nat
  BY IndexIsNat DEF TreeType, NullNode
<1>1. Nodes' = Nodes \cup {i}
  BY DEF Attach, Nodes
<1>2. node'[i] = NewNode(axis)
  BY DEF Attach, Nodes
<1>3. ASSUME NEW n \in Nodes
      PROVE  /\ node[n] \in NodeType
             /\ node'[n] = IF n = at[1] THEN [node[n] EXCEPT !.next[at[2]] = i] ELSE node[n]
  BY DEF Attach, Nodes, TreeType
<1>4. NewNode(axis) \in NodeType'
  BY <1>1 DEF NewNode, NodeType
<1>5. ASSUME NEW n \in Nodes PROVE node'[n] \in NodeType' /\ node'[n].axis = node[n].axis
  <2>1. node[n] \in NodeType'
    BY <1>1, <1>3 DEF NodeType
  <2>2. CASE n = at[1]
    <3>1. at[2] \in {0, 1}
      BY DEF Slots, Root
    <3>2. node[n].next \in [{0, 1} -> {NullNode} \cup Nodes'] /\ node[n].axis \in 0..(DIM - 1)
      BY <2>1 DEF NodeType
    <3>3. [node[n].next EXCEPT ![at[2]] = i] \in [{0, 1} -> {NullNode} \cup Nodes']
      BY <1>1, <3>1, <3>2
    <3>4. node'[n] = [node[n] EXCEPT !.next = [node[n].next EXCEPT ![at[2]] = i]]
      BY <1>3, <2>2
    <3>5. /\ node'[n].axis = node[n].axis
          /\ node'[n] = [axis |-> node[n].axis, next |-> [node[n].next EXCEPT ![at[2]] = i]]
      BY <1>3, <3>4 DEF NodeType
    <3> QED BY <3>2, <3>3, <3>5 DEF NodeType
  <2>3. CASE n # at[1]
    BY <1>3, <2>1, <2>3
  <2> QED BY <2>2, <2>3
<1>6. node' \in [Nodes' -> NodeType']
  <2>1. node' = [n \in Nodes' |-> node'[n]]
    BY DEF Attach, Nodes
  <2>2. \A n \in Nodes' : node'[n] \in NodeType'
    BY <1>1, <1>2, <1>4, <1>5
  <2> QED BY <2>1, <2>2
<1>7. Slots' = Slots \cup {<<i, 0>>, <<i, 1>>}
  BY <1>1 DEF Slots, Nodes
<1>8. root_' \in {NullNode} \cup Nodes'
  BY <1>1 DEF Attach, TreeType
<1>9. ASSUME NEW b \in Slots PROVE Child(b)' = IF b = at THEN i ELSE Child(b)
  <2>1. CASE b = Root
    BY <2>1 DEF Attach, Child
  <2>2. CASE b # Root
    <3>1. b = <<b[1], b[2]>> /\ b[1] \in Nodes /\ b[2] \in {0, 1}
      BY <2>2 DEF Slots, Nodes
    <3>2. Child(b) = node[b[1]].next[b[2]] /\ Child(b)' = node'[b[1]].next[b[2]]
      BY <2>2 DEF Child
    <3>3. node[b[1]].next \in [{0, 1} -> {NullNode} \cup Nodes]
      BY <1>3, <3>1 DEF NodeType
    <3>4. CASE b[1] = at[1]
      <4>1. at # Root /\ at = <<at[1], at[2]>> /\ at[2] \in {0, 1}
        BY <1>0, <3>1, <3>4 DEF Slots, Root
      <4>2. node'[b[1]].next = [node[b[1]].next EXCEPT ![at[2]] = i]
        BY <1>3, <3>1, <3>4 DEF NodeType
      <4> QED BY <3>1, <3>2, <3>3, <3>4, <4>1, <4>2
    <3>5. CASE b[1] # at[1]
      BY <1>3, <3>1, <3>2, <3>5
    <3> QED BY <3>4, <3>5
  <2> QED BY <2>1, <2>2
<1>10. ASSUME NEW d \in {0, 1} PROVE Child(<<i, d>>)' = NullNode
  BY <1>0, <1>2 DEF Child, Root, NewNode
<1>11. node'[i].axis = axis
  BY <1>2 DEF NewNode
<1> QED BY <1>1, <1>5, <1>6, <1>7, <1>8, <1>9, <1>10, <1>11

\* A new node has one parent.
LEMMA AttachOneParent ==
    ASSUME TreeType, OneParent, NEW at \in Slots, NEW i \in Index, i \notin Nodes,
           NEW axis \in 0..(DIM - 1), Attach(at, i, axis)
    PROVE  OneParent'
<1> SUFFICES ASSUME NEW a \in Slots', NEW b \in Slots', Child(a)' = Child(b)', Child(a)' # NullNode
             PROVE  a = b
  BY DEF OneParent, NullNode
<1>1. /\ Slots' = Slots \cup {<<i, 0>>, <<i, 1>>}
      /\ \A c \in Slots : Child(c)' = IF c = at THEN i ELSE Child(c)
      /\ \A d \in {0, 1} : Child(<<i, d>>)' = NullNode
  BY AttachStep
<1>2. a \in Slots /\ b \in Slots
  BY <1>1
<1>3. \A c \in Slots : Child(c) # i
  BY ChildType, IndexIsNat
<1> QED BY <1>1, <1>2, <1>3 DEF OneParent

-----------------------------------------------------------------------------
\* What the three moves of the stack leave.
LEMMA PopStep ==
    ASSUME NEW S, stack \in Seq(S), stack # <<>>, Pop
    PROVE  /\ stack' \in Seq(S) /\ Len(stack') = Len(stack) - 1 /\ Len(stack) \in Nat \ {0}
           /\ \A j \in 1..(Len(stack) - 1) : stack'[j] = stack[j]
<1> DEFINE L == Len(stack)
<1>1. L \in Nat \ {0}
  OBVIOUS
<1>2. stack' = [j \in 1..(L - 1) |-> stack[j]]
  BY <1>1 DEF Pop
<1>3. \A j \in 1..(L - 1) : stack[j] \in S
  BY <1>1
<1>4. L - 1 \in Nat
  BY <1>1
<1> HIDE DEF L
<1>5. stack' \in Seq(S) /\ Len(stack') = L - 1
  BY <1>2, <1>3, <1>4
<1> QED BY <1>1, <1>2, <1>5 DEF L

LEMMA TailCallStep ==
    ASSUME NEW S, stack \in Seq(S), stack # <<>>, NEW call \in S, TailCall(call)
    PROVE  /\ stack' \in Seq(S) /\ Len(stack') = Len(stack) /\ Len(stack) \in Nat \ {0}
           /\ \A j \in 1..(Len(stack) - 1) : stack'[j] = stack[j]
           /\ stack'[Len(stack)] = call
BY DEF TailCall

LEMMA CallStep ==
    ASSUME NEW S, stack \in Seq(S), stack # <<>>, NEW rest \in S, NEW call \in S, Call(rest, call)
    PROVE  /\ stack' \in Seq(S) /\ Len(stack') = Len(stack) + 1 /\ Len(stack) \in Nat \ {0}
           /\ \A j \in 1..(Len(stack) - 1) : stack'[j] = stack[j]
           /\ stack'[Len(stack)] = rest
           /\ stack'[Len(stack) + 1] = call
<1> DEFINE s == [stack EXCEPT ![Len(stack)] = rest]
<1>1. /\ s \in Seq(S) /\ Len(s) = Len(stack) /\ Len(stack) \in Nat \ {0}
      /\ \A j \in 1..(Len(stack) - 1) : s[j] = stack[j]
      /\ s[Len(stack)] = rest
  OBVIOUS
<1>2. stack' = Append(s, call)
  BY DEF Call
<1> HIDE DEF s
<1> QED BY <1>1, <1>2

-----------------------------------------------------------------------------
\* The calls of buildRecursive and insertRecursive that have not returned:
\* each has the points that will go into its slot.
Placing == op \in {"build", "insert"}
PlaceCall == [indices : SUBSET Index, depth : Nat, at : Slots]

Waits ==
    /\ stack \in Seq(PlaceCall)
    /\ \A j \in DOMAIN stack : stack[j].indices \cap Nodes = {}
    /\ \A j, k \in DOMAIN stack : j # k => /\ stack[j].at # stack[k].at
                                           /\ stack[j].indices \cap stack[k].indices = {}
    /\ \A i \in Index : i \in Nodes \/ \E j \in DOMAIN stack : i \in stack[j].indices
    /\ op = "build" => \A j \in DOMAIN stack : Child(stack[j].at) = NullNode
    /\ op = "insert" => Len(stack) <= 1 /\ \A j \in DOMAIN stack : stack[j].indices = {Len(points_)}

Pend(at) == {i \in Index : Placing /\ \E j \in DOMAIN stack : stack[j].at = at /\ i \in stack[j].indices}

\* side says which points belong below which slot: those of the node there,
\* those on its two sides, and those that wait.  On the sides of a node the
\* points are on the right side of its plane.
AllSlots == {Root} \cup (Nat \X {0, 1})
Sub(side, n) == IF n = NullNode THEN {} ELSE {n} \cup side[<<n, 0>>] \cup side[<<n, 1>>]

Ordered(side, n) ==
    /\ \A i \in side[<<n, 0>>] : Coord(i, node[n].axis) <= Coord(n, node[n].axis)
    /\ \A i \in side[<<n, 1>>] : Coord(n, node[n].axis) <= Coord(i, node[n].axis)

Apart(side, n) ==
    n \notin side[<<n, 0>>] /\ n \notin side[<<n, 1>>] /\ side[<<n, 0>>] \cap side[<<n, 1>>] = {}

Shape(side) ==
    /\ side \in [AllSlots -> SUBSET Index]
    /\ side[Root] = Index
    /\ \A at \in Slots : side[at] = Sub(side, Child(at)) \cup Pend(at)
    /\ \A at \in Slots : Sub(side, Child(at)) \cap Pend(at) = {}
    /\ \A n \in Nodes : Apart(side, n) /\ Ordered(side, n)

LEMMA SlotsAreSlots == TreeType => Slots \subseteq AllSlots /\ \A n \in Index, d \in {0, 1} : <<n, d>> \in AllSlots
BY IndexIsNat DEF TreeType, Slots, AllSlots, Nodes

\* A call of buildRecursive with points makes a node of one of them and
\* leaves the others to two calls.
LEMMA BuildPlaces ==
    ASSUME TreeType, OneParent, Waits, op = "build", op' = "build", stack # <<>>,
           points_' = points_,
           NEW axis \in 0..(DIM - 1), NEW mid \in Top.indices, NEW before \in SUBSET (Top.indices \ {mid}),
           NEW depth \in Nat,
           Attach(Top.at, mid, axis),
           Call([indices |-> Top.indices \ (before \cup {mid}), depth |-> depth, at |-> <<mid, 1>>],
                [indices |-> before, depth |-> depth, at |-> <<mid, 0>>]),
           NthElement(Top.indices, axis, mid, before),
           NEW side, Shape(side), NEW new,
           new = [side EXCEPT ![<<mid, 0>>] = before, ![<<mid, 1>>] = Top.indices \ (before \cup {mid})]
    PROVE  TreeType' /\ OneParent' /\ Waits' /\ Shape(new)'
<1> DEFINE L == Len(stack)
           after == Top.indices \ (before \cup {mid})
<1>1. L \in Nat \ {0} /\ Top = stack[L] /\ Top \in PlaceCall /\ L \in DOMAIN stack /\ DOMAIN stack = 1..L
  BY DEF Waits, Top
<1>2. Top.at \in Slots /\ Top.indices \subseteq Index /\ mid \in Index /\ mid \notin Nodes
  BY <1>1 DEF PlaceCall, Waits
<1>3. /\ Nodes' = Nodes \cup {mid} /\ node' \in [Nodes' -> NodeType'] /\ root_' \in {NullNode} \cup Nodes'
      /\ Slots' = Slots \cup {<<mid, 0>>, <<mid, 1>>}
      /\ \A b \in Slots : Child(b)' = IF b = Top.at THEN mid ELSE Child(b)
      /\ \A d \in {0, 1} : Child(<<mid, d>>)' = NullNode
  BY <1>2, AttachStep
<1>4. Index' = Index
  BY DEF Index
<1>5. TreeType'
  BY <1>2, <1>3, <1>4 DEF TreeType
<1>6. OneParent'
  BY <1>2, AttachOneParent
<1>7. PlaceCall \subseteq PlaceCall'
  BY <1>3, <1>4 DEF PlaceCall
<1>8. stack \in Seq(PlaceCall')
  BY <1>7 DEF Waits
<1>9. /\ [indices |-> after, depth |-> depth, at |-> <<mid, 1>>] \in PlaceCall'
      /\ [indices |-> before, depth |-> depth, at |-> <<mid, 0>>] \in PlaceCall'
  BY <1>2, <1>3, <1>4 DEF PlaceCall
<1>10. /\ stack' \in Seq(PlaceCall') /\ Len(stack') = L + 1
       /\ \A j \in 1..(L - 1) : stack'[j] = stack[j]
       /\ stack'[L] = [indices |-> after, depth |-> depth, at |-> <<mid, 1>>]
       /\ stack'[L + 1] = [indices |-> before, depth |-> depth, at |-> <<mid, 0>>]
  BY <1>8, <1>9, CallStep
<1>11. stack'[L].indices = after /\ stack'[L].at = <<mid, 1>> /\ stack'[L + 1].indices = before /\ stack'[L + 1].at = <<mid, 0>>
  BY <1>10
<1>12. DOMAIN stack' = 1..(L + 1)
  BY <1>1, <1>10
<1> HIDE DEF L
<1>13. ASSUME NEW j \in DOMAIN stack' PROVE j \in 1..(L - 1) \/ j = L \/ j = L + 1
  BY <1>1, <1>12
<1>14. ASSUME NEW j \in 1..(L - 1)
       PROVE  /\ j \in DOMAIN stack /\ stack'[j] = stack[j] /\ stack[j].at \in Slots
              /\ stack[j].at # Top.at /\ stack[j].at # <<mid, 0>> /\ stack[j].at # <<mid, 1>>
              /\ stack[j].indices \cap Top.indices = {} /\ stack[j].indices \cap Nodes' = {}
  <2>1. j \in DOMAIN stack /\ j # L /\ stack'[j] = stack[j]
    BY <1>1, <1>10
  <2>2. stack[j] \in PlaceCall
    BY <2>1 DEF Waits
  <2>3. stack[j].at \in Slots /\ stack[j].at # Top.at /\ stack[j].indices \cap Top.indices = {} /\ stack[j].indices \cap Nodes = {}
    BY <1>1, <2>1, <2>2 DEF Waits, PlaceCall
  <2>4. <<mid, 0>> \notin Slots /\ <<mid, 1>> \notin Slots
    BY <1>2, IndexIsNat DEF Slots, Root, Nodes, NullNode
  <2> QED BY <1>3, <2>1, <2>3, <2>4
<1>15. \A j \in DOMAIN stack' : stack'[j].indices \cap Nodes' = {}
  <2>1. Top.indices \cap Nodes = {}
    BY <1>1 DEF Waits
  <2> QED BY <1>3, <1>11, <1>13, <1>14, <2>1
<1>16. ASSUME NEW j \in DOMAIN stack', NEW k \in DOMAIN stack', j # k
       PROVE  stack'[j].at # stack'[k].at /\ stack'[j].indices \cap stack'[k].indices = {}
  <2>1. CASE j \in 1..(L - 1) /\ k \in 1..(L - 1)
    BY <1>14, <1>16, <2>1 DEF Waits
  <2>2. CASE j \in 1..(L - 1) /\ k \notin 1..(L - 1)
    BY <1>11, <1>13, <1>14, <2>2
  <2>3. CASE j \notin 1..(L - 1) /\ k \in 1..(L - 1)
    BY <1>11, <1>13, <1>14, <2>3
  <2>4. CASE j \notin 1..(L - 1) /\ k \notin 1..(L - 1)
    BY <1>11, <1>13, <1>16, <2>4
  <2> QED BY <2>1, <2>2, <2>3, <2>4
<1>17. ASSUME NEW i \in Index PROVE i \in Nodes' \/ \E j \in DOMAIN stack' : i \in stack'[j].indices
  <2>1. CASE i \in Nodes
    BY <1>3, <2>1
  <2>2. CASE i \in Top.indices
    <3>1. i = mid \/ i \in before \/ i \in after
      BY <2>2
    <3>2. L \in DOMAIN stack' /\ L + 1 \in DOMAIN stack'
      BY <1>1, <1>12
    <3> QED BY <1>3, <1>11, <3>1, <3>2
  <2>3. CASE i \notin Nodes /\ i \notin Top.indices
    <3>1. PICK j \in DOMAIN stack : i \in stack[j].indices
      BY <2>3 DEF Waits
    <3>2. j \in 1..(L - 1) /\ j \in DOMAIN stack'
      BY <1>1, <1>12, <2>3, <3>1
    <3> QED BY <1>14, <3>1, <3>2
  <2> QED BY <2>1, <2>2, <2>3
<1>18. ASSUME NEW j \in DOMAIN stack', NEW at, at = stack'[j].at PROVE Child(at)' = NullNode
  <2>1. CASE j \in 1..(L - 1)
    <3>1. Child(at)' = Child(at) /\ at = stack[j].at
      BY <1>3, <1>14, <1>18, <2>1
    <3>2. Child(stack[j].at) = NullNode
      BY <1>14, <2>1 DEF Waits
    <3> QED BY <3>1, <3>2
  <2>2. CASE j = L
    BY <1>3, <1>11, <1>18, <2>2
  <2>3. CASE j = L + 1
    BY <1>3, <1>11, <1>18, <2>3
  <2> QED BY <1>13, <2>1, <2>2, <2>3
<1>19. (\A j \in DOMAIN stack : Child(stack[j].at) = NullNode)'
  BY <1>18 DEF Child, NullNode
<1>20. Waits'
  BY <1>4, <1>10, <1>15, <1>16, <1>17, <1>19 DEF Waits
<1>21. /\ <<mid, 0>> \in AllSlots /\ <<mid, 1>> \in AllSlots
       /\ <<mid, 0>> \notin Slots /\ <<mid, 1>> \notin Slots /\ Slots \subseteq AllSlots
  BY <1>2, IndexIsNat, SlotsAreSlots DEF Slots, Root, Nodes, NullNode
<1>22. /\ new \in [AllSlots -> SUBSET Index]
       /\ new[<<mid, 0>>] = before /\ new[<<mid, 1>>] = after
       /\ \A at \in Slots : new[at] = side[at]
  BY <1>2, <1>21 DEF Shape
<1>23. ASSUME NEW n \in {NullNode} \cup Nodes PROVE Sub(new, n) = Sub(side, n)
  <2>1. n # NullNode => <<n, 0>> \in Slots /\ <<n, 1>> \in Slots
    BY <1>23, ChildOfNode
  <2> QED BY <1>22, <2>1 DEF Sub
<1>24. mid # NullNode /\ Sub(new, mid) = Top.indices
  <2>1. mid # NullNode
    BY <1>2, IndexIsNat
  <2>2. Sub(new, mid) = {mid} \cup before \cup after
    BY <1>22, <2>1 DEF Sub
  <2>3. {mid} \cup before \cup after = Top.indices
    OBVIOUS
  <2> QED BY <2>1, <2>2, <2>3
<1>25. side[Top.at] = Top.indices
  <2>1. Child(Top.at) = NullNode
    BY <1>1 DEF Waits
  <2>2. Pend(Top.at) = Top.indices
    <3>1. \A j \in DOMAIN stack : stack[j].at = Top.at => j = L
      BY <1>1 DEF Waits
    <3> QED BY <1>1, <1>2, <3>1 DEF Pend, Placing
  <2>3. side[Top.at] = Sub(side, Child(Top.at)) \cup Pend(Top.at)
    BY <1>2 DEF Shape
  <2>4. Sub(side, Child(Top.at)) = {}
    BY <2>1 DEF Sub
  <2> QED BY <2>2, <2>3, <2>4
<1>26. ASSUME NEW at \in Slots'
       PROVE  Pend(at)' = IF at = Top.at THEN {} ELSE IF at = <<mid, 0>> THEN before
                          ELSE IF at = <<mid, 1>> THEN after ELSE Pend(at)
  <2>1. Pend(at)' = {i \in Index : \E j \in DOMAIN stack' : stack'[j].at = at /\ i \in stack'[j].indices}
    BY <1>4 DEF Pend, Placing
  <2>2. Pend(at) = {i \in Index : \E j \in DOMAIN stack : stack[j].at = at /\ i \in stack[j].indices}
    BY DEF Pend, Placing
  <2>3. CASE at = Top.at
    <3>1. \A j \in DOMAIN stack' : stack'[j].at # at
      BY <1>2, <1>11, <1>13, <1>14, <1>21, <2>3
    <3> QED BY <2>1, <2>3, <3>1
  <2>4. CASE at = <<mid, 0>>
    <3>1. at # Top.at
      BY <1>2, <1>21, <2>4
    <3>2. \A j \in DOMAIN stack' : stack'[j].at = at <=> j = L + 1
      BY <1>1, <1>11, <1>12, <1>13, <1>14, <2>4
    <3>3. before \subseteq Index /\ L + 1 \in DOMAIN stack'
      BY <1>1, <1>2, <1>12
    <3> QED BY <1>11, <2>1, <2>4, <3>1, <3>2, <3>3
  <2>5. CASE at = <<mid, 1>>
    <3>1. at # Top.at /\ at # <<mid, 0>>
      BY <1>2, <1>21, <2>5
    <3>2. \A j \in DOMAIN stack' : stack'[j].at = at <=> j = L
      BY <1>1, <1>11, <1>12, <1>13, <1>14, <2>5
    <3>3. after \subseteq Index /\ L \in DOMAIN stack'
      BY <1>1, <1>2, <1>12
    <3> QED BY <1>11, <2>1, <2>5, <3>1, <3>2, <3>3
  <2>6. CASE at # Top.at /\ at # <<mid, 0>> /\ at # <<mid, 1>>
    <3>1. \A j \in DOMAIN stack' : stack'[j].at = at => j \in 1..(L - 1)
      BY <1>11, <1>13, <2>6
    <3>2. \A j \in DOMAIN stack : stack[j].at = at => j \in 1..(L - 1)
      BY <1>1, <2>6
    <3>3. \A j \in 1..(L - 1) : j \in DOMAIN stack /\ j \in DOMAIN stack' /\ stack'[j] = stack[j]
      BY <1>1, <1>12, <1>14
    <3>4. Pend(at)' = Pend(at)
      BY <2>1, <2>2, <3>1, <3>2, <3>3
    <3> QED BY <2>6, <3>4
  <2> QED BY <2>3, <2>4, <2>5, <2>6
<1>27. ASSUME NEW at \in Slots'
       PROVE  new[at] = Sub(new, Child(at)') \cup Pend(at)' /\ Sub(new, Child(at)') \cap Pend(at)' = {}
  <2>1. CASE at = Top.at
    BY <1>2, <1>3, <1>22, <1>24, <1>25, <1>26, <2>1
  <2>2. CASE at = <<mid, 0>> \/ at = <<mid, 1>>
    <3>1. Sub(new, Child(at)') = {}
      BY <1>3, <2>2 DEF Sub
    <3>2. at # Top.at
      BY <1>2, <1>21, <2>2
    <3> QED BY <1>22, <1>26, <2>2, <3>1, <3>2
  <2>3. CASE at \in Slots /\ at # Top.at
    <3>1. at # <<mid, 0>> /\ at # <<mid, 1>>
      BY <1>21, <2>3
    <3>2. Sub(new, Child(at)') = Sub(side, Child(at))
      BY <1>3, <1>23, <2>3, ChildType
    <3> QED BY <1>22, <1>26, <2>3, <3>1, <3>2 DEF Shape
  <2> QED BY <1>3, <2>1, <2>2, <2>3
<1>28. ASSUME NEW n \in Nodes' PROVE Apart(new, n)' /\ Ordered(new, n)'
  <2>1. CASE n = mid
    <3>1. Apart(new, n)
      BY <1>22, <2>1 DEF Apart
    <3>2. node'[n].axis = axis /\ \A i : Coord(i, axis)' = Coord(i, axis)
      BY <1>2, <2>1, AttachStep DEF Coord
    <3>3. /\ \A i \in before : Coord(i, axis) <= Coord(mid, axis)
          /\ \A i \in after : Coord(mid, axis) <= Coord(i, axis)
      BY DEF NthElement
    <3> QED BY <1>22, <2>1, <3>1, <3>2, <3>3 DEF Apart, Ordered, Coord
  <2>2. CASE n \in Nodes
    <3>1. new[<<n, 0>>] = side[<<n, 0>>] /\ new[<<n, 1>>] = side[<<n, 1>>]
      BY <1>22, <2>2, ChildOfNode
    <3>2. node'[n].axis = node[n].axis
      BY <1>2, <2>2, AttachStep
    <3>3. Apart(side, n) /\ Ordered(side, n)
      BY <2>2 DEF Shape
    <3> QED BY <3>1, <3>2, <3>3 DEF Apart, Ordered, Coord
  <2> QED BY <1>3, <2>1, <2>2
<1>29. new[Root] = Index
  BY <1>22 DEF Shape, Slots
<1>30. Shape(new)'
  BY <1>4, <1>22, <1>27, <1>28, <1>29 DEF Shape, AllSlots, Sub, Root, NullNode
<1> QED BY <1>5, <1>6, <1>20, <1>30

\* A call of buildRecursive without points returns nullptr.
LEMMA BuildReturns ==
    ASSUME TreeType, OneParent, Waits, op = "build", op' = "build", stack # <<>>, UNCHANGED tree,
           Top.indices = {}, Pop, NEW side, Shape(side)
    PROVE  TreeType' /\ OneParent' /\ Waits' /\ Shape(side)'
<1> DEFINE L == Len(stack)
<1>1. L \in Nat \ {0} /\ Top = stack[L] /\ L \in DOMAIN stack /\ DOMAIN stack = 1..L
  BY DEF Waits, Top
<1>2. points_' = points_ /\ node' = node /\ root_' = root_
  BY DEF tree
<1>3. Index' = Index /\ Nodes' = Nodes /\ Slots' = Slots /\ PlaceCall' = PlaceCall /\ NodeType' = NodeType
  BY <1>2 DEF Index, Nodes, Slots, PlaceCall, NodeType
<1>4. \A at : Child(at)' = Child(at)
  BY <1>2 DEF Child
<1>5. TreeType'
  BY <1>2, <1>3 DEF TreeType
<1>6. OneParent'
  BY <1>3, <1>4 DEF OneParent, NullNode
<1>7. stack' \in Seq(PlaceCall) /\ Len(stack') = L - 1 /\ \A j \in 1..(L - 1) : stack'[j] = stack[j]
  BY PopStep DEF Waits
<1>8. DOMAIN stack' = 1..(L - 1) /\ \A j \in DOMAIN stack' : j \in DOMAIN stack /\ j # L /\ stack'[j] = stack[j]
  BY <1>1, <1>7
<1>9. \A j \in DOMAIN stack : j = L \/ j \in DOMAIN stack'
  BY <1>1, <1>8
<1> HIDE DEF L
<1>10. (\A j \in DOMAIN stack : Child(stack[j].at) = NullNode)'
  <2>1. \A j \in DOMAIN stack' : Child(stack[j].at) = NullNode
    BY <1>8 DEF Waits
  <2> QED BY <1>2, <1>8, <2>1 DEF Child, NullNode
<1>11. Waits'
  <2>1. \A i \in Index : i \in Nodes \/ \E j \in DOMAIN stack' : i \in stack'[j].indices
    BY <1>1, <1>8, <1>9 DEF Waits
  <2>2. \A j, k \in DOMAIN stack' : j # k => /\ stack'[j].at # stack'[k].at
                                             /\ stack'[j].indices \cap stack'[k].indices = {}
    BY <1>8 DEF Waits
  <2>3. \A j \in DOMAIN stack' : stack'[j].indices \cap Nodes = {}
    BY <1>8 DEF Waits
  <2> QED BY <1>3, <1>7, <1>10, <2>1, <2>2, <2>3 DEF Waits
<1>12. ASSUME NEW at PROVE Pend(at)' = Pend(at)
  <2>1. Pend(at)' = {i \in Index : \E j \in DOMAIN stack' : stack'[j].at = at /\ i \in stack'[j].indices}
    BY <1>3 DEF Pend, Placing
  <2>2. Pend(at) = {i \in Index : \E j \in DOMAIN stack : stack[j].at = at /\ i \in stack[j].indices}
    BY DEF Pend, Placing
  <2> QED BY <1>1, <1>8, <1>9, <2>1, <2>2
<1>13. \A n : Ordered(side, n)' <=> Ordered(side, n)
  BY <1>2 DEF Ordered, Coord
<1>14. Shape(side)'
  BY <1>3, <1>4, <1>12, <1>13 DEF Shape, Apart, Sub, AllSlots, Root, NullNode
<1> QED BY <1>5, <1>6, <1>11, <1>14

\* What a call of insertRecursive works on.
LEMMA InsertTop ==
    ASSUME TreeType, Waits, op = "insert", stack # <<>>
    PROVE  /\ Len(stack) = 1 /\ Top = stack[1] /\ Top \in PlaceCall /\ Top.at \in Slots
           /\ Top.indices = {Len(points_)} /\ Len(points_) \in Index /\ Len(points_) \notin Nodes
           /\ \A i \in Index : i \in Nodes \/ i = Len(points_)
           /\ \A at : Pend(at) = IF at = Top.at THEN {Len(points_)} ELSE {}
<1>0. stack \in Seq(PlaceCall) /\ Len(stack) \in Nat \ {0} /\ Len(stack) <= 1
  BY DEF Waits
<1>1. Len(stack) = 1 /\ DOMAIN stack = {1} /\ Top = stack[1]
  <2>0. \A m \in Nat \ {0} : m <= 1 => m = 1
    OBVIOUS
  <2>1. Len(stack) = 1
    BY <1>0, <2>0, Zenon
  <2>2. DOMAIN stack = 1..1
    BY <1>0, <2>1
  <2> QED BY <2>1, <2>2 DEF Top
<1>2. Top \in PlaceCall /\ Top.indices = {Len(points_)} /\ Top.indices \cap Nodes = {}
  BY <1>1 DEF Waits
<1>3. Top.at \in Slots /\ Len(points_) \in Index /\ Len(points_) \notin Nodes
  BY <1>2 DEF PlaceCall
<1>4. \A i \in Index : i \in Nodes \/ i = Len(points_)
  BY <1>1, <1>2 DEF Waits
<1>5. ASSUME NEW at PROVE Pend(at) = IF at = Top.at THEN {Len(points_)} ELSE {}
  BY <1>1, <1>2, <1>3 DEF Pend, Placing
<1> QED BY <1>1, <1>2, <1>3, <1>4, <1>5

\* insertRecursive at nullptr makes the node.
LEMMA InsertAttaches ==
    ASSUME TreeType, OneParent, Waits, op = "insert", op' = "insert", stack # <<>>, points_' = points_,
           NEW axis \in 0..(DIM - 1), Child(Top.at) = NullNode,
           NEW idx, idx = Len(points_), Attach(Top.at, idx, axis), Pop,
           NEW side, Shape(side), NEW new, new = [side EXCEPT ![<<idx, 0>>] = {}, ![<<idx, 1>>] = {}]
    PROVE  TreeType' /\ OneParent' /\ Waits' /\ Shape(new)'
<1>1. /\ Len(stack) = 1 /\ Top.at \in Slots /\ idx \in Index /\ idx \notin Nodes /\ idx # NullNode
      /\ \A i \in Index : i \in Nodes \/ i = idx
      /\ \A at : Pend(at) = IF at = Top.at THEN {idx} ELSE {}
  BY InsertTop, IndexIsNat
<1>3. /\ Nodes' = Nodes \cup {idx} /\ node' \in [Nodes' -> NodeType'] /\ root_' \in {NullNode} \cup Nodes'
      /\ Slots' = Slots \cup {<<idx, 0>>, <<idx, 1>>}
      /\ \A n \in Nodes : node'[n].axis = node[n].axis
      /\ \A b \in Slots : Child(b)' = IF b = Top.at THEN idx ELSE Child(b)
      /\ \A d \in {0, 1} : Child(<<idx, d>>)' = NullNode
  BY <1>1, AttachStep
<1>4. Index' = Index
  BY DEF Index
<1>5. TreeType'
  BY <1>1, <1>3, <1>4 DEF TreeType
<1>6. OneParent'
  BY <1>1, AttachOneParent
<1>7. Len(stack') = 0 /\ stack' = <<>>
  BY <1>1, PopStep DEF Waits
<1>8. Waits'
  BY <1>1, <1>3, <1>4, <1>7 DEF Waits
<1>9. \A at : Pend(at)' = {}
  BY <1>7 DEF Pend
<1>10. /\ <<idx, 0>> \in AllSlots /\ <<idx, 1>> \in AllSlots
       /\ <<idx, 0>> \notin Slots /\ <<idx, 1>> \notin Slots /\ Slots \subseteq AllSlots
  BY <1>1, IndexIsNat, SlotsAreSlots DEF Slots, Root, Nodes, NullNode
<1>11. /\ new \in [AllSlots -> SUBSET Index]
       /\ new[<<idx, 0>>] = {} /\ new[<<idx, 1>>] = {}
       /\ \A at \in Slots : new[at] = side[at]
  BY <1>10 DEF Shape
<1>12. ASSUME NEW n \in {NullNode} \cup Nodes PROVE Sub(new, n) = Sub(side, n)
  <2>1. n # NullNode => <<n, 0>> \in Slots /\ <<n, 1>> \in Slots
    BY <1>12, ChildOfNode
  <2> QED BY <1>11, <2>1 DEF Sub
<1>13. Sub(new, idx) = {idx}
  BY <1>1, <1>11 DEF Sub
<1>14. ASSUME NEW at \in Slots' PROVE new[at] = Sub(new, Child(at)')
  <2>1. CASE at = Top.at
    <3>1. side[at] = Sub(side, Child(at)) \cup Pend(at)
      BY <1>1, <2>1 DEF Shape
    <3>2. side[at] = {idx}
      BY <1>1, <2>1, <3>1 DEF Sub
    <3> QED BY <1>1, <1>3, <1>11, <1>13, <2>1, <3>2
  <2>2. CASE at = <<idx, 0>> \/ at = <<idx, 1>>
    BY <1>3, <1>11, <2>2 DEF Sub
  <2>3. CASE at \in Slots /\ at # Top.at
    <3>1. Sub(new, Child(at)') = Sub(side, Child(at))
      BY <1>3, <1>12, <2>3, ChildType
    <3>2. side[at] = Sub(side, Child(at)) \cup Pend(at)
      BY <2>3 DEF Shape
    <3> QED BY <1>1, <1>11, <2>3, <3>1, <3>2
  <2> QED BY <1>3, <2>1, <2>2, <2>3
<1>15. ASSUME NEW n \in Nodes' PROVE Apart(new, n)' /\ Ordered(new, n)'
  <2>1. CASE n = idx
    BY <1>11, <2>1 DEF Apart, Ordered
  <2>2. CASE n \in Nodes
    <3>1. new[<<n, 0>>] = side[<<n, 0>>] /\ new[<<n, 1>>] = side[<<n, 1>>]
      BY <1>11, <2>2, ChildOfNode
    <3>2. Apart(side, n) /\ Ordered(side, n) /\ node'[n].axis = node[n].axis
      BY <1>3, <2>2 DEF Shape
    <3> QED BY <3>1, <3>2 DEF Apart, Ordered, Coord
  <2> QED BY <1>3, <2>1, <2>2
<1>16. new[Root] = Index
  BY <1>11 DEF Shape, Slots
<1>17. \A at \in Slots' : /\ new[at] = Sub(new, Child(at)') \cup Pend(at)'
                         /\ Sub(new, Child(at)') \cap Pend(at)' = {}
  BY <1>9, <1>14
<1>18. Shape(new)'
  BY <1>4, <1>11, <1>15, <1>16, <1>17 DEF Shape, AllSlots, Sub, Root, NullNode
<1> QED BY <1>5, <1>6, <1>8, <1>18

\* insertRecursive goes down on the side where the point belongs.
LEMMA InsertDescends ==
    ASSUME TreeType, OneParent, Waits, op = "insert", op' = "insert", stack # <<>>, UNCHANGED tree,
           NEW n, n = Child(Top.at), n # NullNode, NEW depth \in Nat,
           NEW d, d = IF Coord(Len(points_), node[n].axis) < Coord(n, node[n].axis) THEN 0 ELSE 1,
           TailCall([indices |-> {Len(points_)}, depth |-> depth, at |-> <<n, d>>]),
           NEW side, Shape(side), NEW new,
           new = [side EXCEPT ![<<n, d>>] = side[<<n, d>>] \cup {Len(points_)}]
    PROVE  TreeType' /\ OneParent' /\ Waits' /\ Shape(new)'
<1> DEFINE idx == Len(points_)
<1>1. /\ Len(stack) = 1 /\ Top.at \in Slots /\ idx \in Index /\ idx \notin Nodes /\ idx # NullNode
      /\ \A i \in Index : i \in Nodes \/ i = idx
      /\ \A at : Pend(at) = IF at = Top.at THEN {idx} ELSE {}
  BY InsertTop, IndexIsNat
<1>2. points_' = points_ /\ node' = node /\ root_' = root_
  BY DEF tree
<1>3. Index' = Index /\ Nodes' = Nodes /\ Slots' = Slots /\ PlaceCall' = PlaceCall /\ NodeType' = NodeType
  BY <1>2 DEF Index, Nodes, Slots, PlaceCall, NodeType
<1>4. \A at : Child(at)' = Child(at)
  BY <1>2 DEF Child
<1>5. TreeType' /\ OneParent'
  BY <1>2, <1>3, <1>4 DEF TreeType, OneParent, NullNode
<1>6. n \in Nodes /\ d \in {0, 1} /\ <<n, d>> \in Slots
  BY <1>1, ChildType, ChildOfNode
<1>7. stack' \in Seq(PlaceCall) /\ Len(stack') = 1
      /\ stack'[1] = [indices |-> {idx}, depth |-> depth, at |-> <<n, d>>]
  <2>1. [indices |-> {idx}, depth |-> depth, at |-> <<n, d>>] \in PlaceCall
    BY <1>1, <1>6 DEF PlaceCall
  <2> QED BY <1>1, <2>1, TailCallStep DEF Waits
<1>8. DOMAIN stack' = {1} /\ stack'[1].indices = {idx} /\ stack'[1].at = <<n, d>>
  BY <1>7
<1>9. Waits'
  BY <1>1, <1>2, <1>3, <1>7, <1>8 DEF Waits
<1>10. \A at : Pend(at)' = IF at = <<n, d>> THEN {idx} ELSE {}
  BY <1>1, <1>3, <1>8 DEF Pend, Placing
<1> HIDE DEF idx
<1>11. d = IF Coord(idx, node[n].axis) < Coord(n, node[n].axis) THEN 0 ELSE 1
  BY DEF idx
<1>12. /\ new \in [AllSlots -> SUBSET Index]
       /\ new[<<n, d>>] = side[<<n, d>>] \cup {idx}
       /\ \A at \in AllSlots : at # <<n, d>> => new[at] = side[at]
       /\ Slots \subseteq AllSlots /\ <<n, d>> \in AllSlots
  BY <1>1, <1>6, SlotsAreSlots DEF Shape, idx
<1>13. /\ side[Top.at] = {n} \cup side[<<n, 0>>] \cup side[<<n, 1>>] \cup {idx}
       /\ idx \notin side[<<n, 0>>] /\ idx \notin side[<<n, 1>>] /\ idx # n
  <2>1. side[Top.at] = Sub(side, n) \cup Pend(Top.at) /\ Sub(side, n) \cap Pend(Top.at) = {}
    BY <1>1 DEF Shape
  <2>2. Sub(side, n) = {n} \cup side[<<n, 0>>] \cup side[<<n, 1>>]
    BY DEF Sub
  <2>3. Pend(Top.at) = {idx}
    BY <1>1
  <2> QED BY <2>1, <2>2, <2>3
<1>14. Apart(side, n) /\ Ordered(side, n)
  BY <1>6 DEF Shape
<1>15. Top.at # <<n, d>>
  <2>1. n \in side[Top.at] /\ n \notin side[<<n, 0>>] /\ n \notin side[<<n, 1>>]
    BY <1>13, <1>14 DEF Apart
  <2> QED BY <1>6, <2>1
<1>16. Sub(new, n) = Sub(side, n) \cup {idx}
  <2>1. <<n, 0>> \in AllSlots /\ <<n, 1>> \in AllSlots
    BY <1>6, <1>12, ChildOfNode
  <2>2. new[<<n, 0>>] \cup new[<<n, 1>>] = side[<<n, 0>>] \cup side[<<n, 1>>] \cup {idx}
    <3>1. CASE d = 0
      <4>1. new[<<n, 0>>] = side[<<n, 0>>] \cup {idx} /\ new[<<n, 1>>] = side[<<n, 1>>]
        BY <1>12, <2>1, <3>1
      <4> QED BY <4>1
    <3>2. CASE d = 1
      <4>1. new[<<n, 1>>] = side[<<n, 1>>] \cup {idx} /\ new[<<n, 0>>] = side[<<n, 0>>]
        BY <1>12, <2>1, <3>2
      <4> QED BY <4>1
    <3> QED BY <1>6, <3>1, <3>2
  <2>3. Sub(new, n) = {n} \cup (new[<<n, 0>>] \cup new[<<n, 1>>])
    BY DEF Sub
  <2>4. Sub(side, n) = {n} \cup (side[<<n, 0>>] \cup side[<<n, 1>>])
    BY DEF Sub
  <2> QED BY <2>2, <2>3, <2>4
<1>17. ASSUME NEW m \in {NullNode} \cup Nodes, m # n PROVE Sub(new, m) = Sub(side, m)
  <2>1. m # NullNode => <<m, 0>> \in AllSlots /\ <<m, 1>> \in AllSlots
    BY <1>12, <1>17, ChildOfNode
  <2>2. <<m, 0>> # <<n, d>> /\ <<m, 1>> # <<n, d>>
    BY <1>17
  <2> QED BY <1>12, <2>1, <2>2 DEF Sub
<1>18. ASSUME NEW at \in Slots
       PROVE  /\ new[at] = Sub(new, Child(at)) \cup Pend(at)'
              /\ Sub(new, Child(at)) \cap Pend(at)' = {}
  <2>1. side[at] = Sub(side, Child(at)) \cup Pend(at) /\ Sub(side, Child(at)) \cap Pend(at) = {}
    BY DEF Shape
  <2>2. CASE at = Top.at
    <3>1. Pend(at)' = {} /\ Pend(at) = {idx}
      BY <1>1, <1>10, <1>15, <2>2
    <3>2. new[at] = side[at]
      BY <1>12, <1>15, <2>2
    <3> QED BY <1>16, <2>1, <2>2, <3>1, <3>2
  <2>3. CASE at = <<n, d>>
    <3>1. Pend(at)' = {idx} /\ Pend(at) = {}
      BY <1>1, <1>10, <1>15, <2>3
    <3>2. Child(at) # n
      BY <1>1, <1>6, <1>15, <2>3 DEF OneParent
    <3>3. Sub(new, Child(at)) = Sub(side, Child(at))
      BY <1>17, <3>2, ChildType
    <3>4. idx \notin side[at] /\ new[at] = side[at] \cup {idx}
      BY <1>6, <1>12, <1>13, <2>3
    <3> QED BY <2>1, <3>1, <3>3, <3>4
  <2>4. CASE at # Top.at /\ at # <<n, d>>
    <3>1. Pend(at)' = {} /\ Pend(at) = {} /\ new[at] = side[at]
      BY <1>1, <1>10, <1>12, <2>4
    <3>2. Child(at) # n
      BY <1>1, <2>4 DEF OneParent
    <3>3. Sub(new, Child(at)) = Sub(side, Child(at))
      BY <1>17, <3>2, ChildType
    <3> QED BY <2>1, <3>1, <3>3
  <2> QED BY <2>2, <2>3, <2>4
<1>19. ASSUME NEW m \in Nodes PROVE Apart(new, m) /\ Ordered(new, m)
  <2>1. Apart(side, m) /\ Ordered(side, m) /\ <<m, 0>> \in AllSlots /\ <<m, 1>> \in AllSlots
    BY <1>12, ChildOfNode DEF Shape
  <2>2. CASE m # n
    <3>1. new[<<m, 0>>] = side[<<m, 0>>] /\ new[<<m, 1>>] = side[<<m, 1>>]
      BY <1>12, <2>1, <2>2
    <3> QED BY <2>1, <3>1 DEF Apart, Ordered
  <2>3. CASE m = n /\ d = 0
    <3>1. new[<<m, 0>>] = side[<<m, 0>>] \cup {idx} /\ new[<<m, 1>>] = side[<<m, 1>>]
      BY <1>12, <2>1, <2>3
    <3>2. Coord(idx, node[n].axis) <= Coord(n, node[n].axis)
      <4>1. Coord(idx, node[n].axis) < Coord(n, node[n].axis)
        BY <1>11, <2>3
      <4> QED BY <1>1, <1>6, <4>1, CoordType DEF TreeType
    <3> QED BY <1>13, <2>1, <2>3, <3>1, <3>2 DEF Apart, Ordered
  <2>4. CASE m = n /\ d = 1
    <3>1. new[<<m, 1>>] = side[<<m, 1>>] \cup {idx} /\ new[<<m, 0>>] = side[<<m, 0>>]
      BY <1>12, <2>1, <2>4
    <3>2. Coord(n, node[n].axis) <= Coord(idx, node[n].axis)
      <4>1. ~(Coord(idx, node[n].axis) < Coord(n, node[n].axis))
        BY <1>11, <2>4
      <4> QED BY <1>1, <1>6, <4>1, CoordType DEF TreeType
    <3> QED BY <1>13, <2>1, <2>4, <3>1, <3>2 DEF Apart, Ordered
  <2> QED BY <1>6, <2>2, <2>3, <2>4
<1>20. \A m : Ordered(new, m)' <=> Ordered(new, m)
  BY <1>2 DEF Ordered, Coord
<1>21. new[Root] = Index
  <2>1. Root # <<n, d>> /\ Root \in AllSlots
    BY <1>6, IndexIsNat DEF Root, AllSlots, TreeType, NullNode
  <2> QED BY <1>12, <2>1 DEF Shape
<1>22. Shape(new)'
  BY <1>3, <1>4, <1>12, <1>18, <1>19, <1>20, <1>21 DEF Shape, Apart, Sub, AllSlots, Root, NullNode
<1> QED BY <1>5, <1>9, <1>22

-----------------------------------------------------------------------------
\* A set of numbers has a least one.  Every induction below rests on it.
LEMMA Least ==
    ASSUME NEW T \in SUBSET Nat, T # {}
    PROVE  \E x \in T : \A y \in T : x <= y
<1>1. IsWellFoundedOn(OpToRel(<, Nat), Nat)
  BY NatLessThanWellFounded
<1>2. PICK x \in T : \A y \in T : ~ (<<y, x>> \in OpToRel(<, Nat))
  BY <1>1, WFMin
<1>3. \A y \in T : ~(y < x)
  BY <1>2 DEF OpToRel
<1> QED BY <1>3

\* A walk from the root meets every node: each step down leaves a smaller
\* set of points that it has not met.
LEMMA AllReachable ==
    ASSUME TreeType, ~Placing, NEW side, Shape(side)
    PROVE  Reachable = Nodes
<1> SUFFICES ASSUME NEW n \in Nodes, NEW S \in SUBSET Nodes, Closed(S), n \notin S PROVE FALSE
  BY DEF Reachable, Nodes
<1> DEFINE B == {at \in Slots : Child(at) \in {NullNode} \cup S /\ \E i \in side[at] : i \notin S}
           T == {Cardinality(side[at]) : at \in B}
<1>1. \A at \in Slots : side[at] = Sub(side, Child(at))
  BY DEF Shape, Pend
<1>2. ASSUME NEW at \in Slots PROVE IsFiniteSet(side[at]) /\ Cardinality(side[at]) \in Nat
  <2>1. side[at] \in SUBSET Index /\ Index = 1..Len(points_) /\ Len(points_) \in Int
    BY SlotsAreSlots, IndexIsNat DEF Shape
  <2>2. IsFiniteSet(Index)
    BY <2>1, FS_Interval
  <2> QED BY <2>1, <2>2, FS_Subset, FS_CardinalityType
<1>3. Root \in B
  <2>1. Root \in Slots /\ Child(Root) = root_ /\ side[Root] = Index /\ n \in Index
    BY DEF Slots, Child, Shape, TreeType
  <2>2. root_ \in {NullNode} \cup S
    BY DEF Closed
  <2> QED BY <2>1, <2>2
<1>4. PICK x \in T : \A y \in T : x <= y
  <2>1. T \in SUBSET Nat /\ T # {}
    BY <1>2, <1>3
  <2> HIDE DEF T
  <2> QED BY <2>1, Least
<1>5. PICK at \in B : x = Cardinality(side[at])
  BY <1>4
<1>6. PICK i \in side[at] : i \notin S
  BY <1>5
<1> DEFINE c == Child(at)
<1>7. c # NullNode /\ c \in S /\ c \in Nodes /\ side[at] = {c} \cup side[<<c, 0>>] \cup side[<<c, 1>>]
  <2>1. side[at] = Sub(side, c)
    BY <1>1, <1>5
  <2>2. c # NullNode
    BY <1>6, <2>1 DEF Sub
  <2> QED BY <1>5, <2>1, <2>2 DEF Sub
<1>8. PICK d \in {0, 1} : i \in side[<<c, d>>]
  BY <1>6, <1>7
<1> DEFINE b == <<c, d>>
<1>9. b \in Slots /\ Child(b) = node[c].next[d]
  BY <1>7, <1>8, ChildOfNode
<1>10. Child(b) \in {NullNode} \cup S
  BY <1>7, <1>8, <1>9 DEF Closed
<1>11. b \in B
  BY <1>6, <1>8, <1>9, <1>10
<1>12. x <= Cardinality(side[b])
  BY <1>4, <1>11
<1>13. c \notin side[b] /\ side[b] \subseteq side[at] /\ c \in side[at]
  BY <1>7, <1>8 DEF Shape, Apart
<1>14. Cardinality(side[b]) <= Cardinality(side[at]) /\ Cardinality(side[b]) # Cardinality(side[at])
  <2>1. at \in Slots
    BY <1>5
  <2>2. IsFiniteSet(side[at])
    BY <1>2, <2>1
  <2> HIDE DEF b
  <2> QED BY <1>13, <2>2, FS_Subset
<1>15. Cardinality(side[b]) \in Nat /\ Cardinality(side[at]) \in Nat
  BY <1>2, <1>5, <1>9
<1> QED BY <1>5, <1>12, <1>14, <1>15

-----------------------------------------------------------------------------
\* s holds the sums of the first elements of a.
Sums(a, n, s) ==
    /\ DOMAIN s = 0..n /\ s = [i \in DOMAIN s |-> s[i]]
    /\ s[0] = 0
    /\ \A i \in 1..n : s[i] = s[i - 1] + a[i]

LEMMA SumsExist ==
    ASSUME NEW m \in Nat, NEW a \in [1..m -> Nat]
    PROVE  \E s : Sums(a, m, s)
<1> DEFINE T == {n \in 0..m : ~\E s : Sums(a, n, s)}
<1> SUFFICES ASSUME T # {} PROVE FALSE
  OBVIOUS
<1>1. PICK x \in T : \A y \in T : x <= y
  <2>1. T \in SUBSET Nat
    OBVIOUS
  <2> HIDE DEF T
  <2> QED BY <2>1, Least
<1>2. x # 0
  <2>1. Sums(a, 0, [i \in 0..0 |-> 0])
    BY DEF Sums
  <2> QED BY <2>1
<1>3. PICK s : Sums(a, x - 1, s)
  <2>1. x - 1 \in 0..m /\ x - 1 \notin T
    BY <1>1, <1>2
  <2> QED BY <2>1
<1> DEFINE t == [i \in 0..x |-> IF i = x THEN s[x - 1] + a[x] ELSE s[i]]
<1>4. Sums(a, x, t)
  <2>1. x \in Nat \ {0} /\ DOMAIN t = 0..x /\ t = [i \in DOMAIN t |-> t[i]]
    BY <1>2
  <2>2. t[0] = 0
    BY <1>2, <1>3 DEF Sums
  <2>3. ASSUME NEW i \in 1..x PROVE t[i] = t[i - 1] + a[i]
    <3>1. CASE i = x
      BY <2>1, <3>1
    <3>2. CASE i # x
      <4>1. i \in 1..(x - 1) /\ t[i] = s[i] /\ t[i - 1] = s[i - 1]
        BY <2>1, <3>2
      <4> QED BY <1>3, <4>1 DEF Sums
    <3> QED BY <3>1, <3>2
  <2> QED BY <2>1, <2>2, <2>3 DEF Sums
<1> QED BY <1>4

LEMMA SumsBound ==
    ASSUME NEW m \in Nat, NEW a \in [1..m -> Nat], NEW s, Sums(a, m, s)
    PROVE  \A i \in 0..m : s[i] \in Nat /\ \A j \in 1..i : a[j] <= s[i]
<1> DEFINE Good(i) == s[i] \in Nat /\ \A j \in 1..i : a[j] <= s[i]
           T == {i \in 0..m : ~Good(i)}
<1> SUFFICES ASSUME T # {} PROVE FALSE
  OBVIOUS
<1>1. PICK x \in T : \A y \in T : x <= y
  <2>1. T \in SUBSET Nat
    OBVIOUS
  <2> HIDE DEF T
  <2> QED BY <2>1, Least
<1>2. x # 0
  BY DEF Sums
<1>3. Good(x - 1)
  BY <1>1, <1>2
<1>4. s[x] = s[x - 1] + a[x] /\ a[x] \in Nat
  BY <1>1, <1>2 DEF Sums
<1>5. ASSUME NEW j \in 1..x PROVE a[j] <= s[x]
  <2>1. a[j] \in Nat
    OBVIOUS
  <2>2. j = x \/ j \in 1..(x - 1)
    BY <1>1, <1>2
  <2>3. s[x - 1] \in Nat /\ (j \in 1..(x - 1) => a[j] <= s[x - 1])
    BY <1>3
  <2> QED BY <1>4, <2>1, <2>2, <2>3
<1> QED BY <1>1, <1>3, <1>4, <1>5

\* No coordinate differs by more than the distance.
LEMMA DistanceBound ==
    ASSUME NEW p \in [1..DIM -> Int], NEW q \in [1..DIM -> Int]
    PROVE  /\ distance(p, q) \in Nat
           /\ \A j \in 1..DIM : Square(p[j] - q[j]) <= distance(p, q)
<1> DEFINE a == [i \in 1..DIM |-> Square(p[i] - q[i])]
           D(s) == [i \in 0..DIM |-> IF i = 0 THEN 0 ELSE s[i - 1] + Square(p[i] - q[i])]
           dist == CHOOSE s : s = D(s)
<1>1. a \in [1..DIM -> Nat]
  <2>1. \A x \in Int : x * x \in Nat
    OBVIOUS
  <2> QED BY <2>1 DEF Square
<1>2. ASSUME NEW s, Sums(a, DIM, s) PROVE s = D(s)
  <2>1. DOMAIN s = 0..DIM /\ s = [i \in 0..DIM |-> s[i]]
    BY <1>2 DEF Sums
  <2>2. ASSUME NEW i \in 0..DIM PROVE s[i] = IF i = 0 THEN 0 ELSE s[i - 1] + Square(p[i] - q[i])
    <3>1. CASE i = 0
      BY <1>2, <3>1 DEF Sums
    <3>2. CASE i # 0
      <4>1. i \in 1..DIM
        BY <3>2, KDTreeAssumption
      <4> QED BY <1>2, <3>2, <4>1 DEF Sums
    <3> QED BY <3>1, <3>2
  <2> QED BY <2>1, <2>2, Zenon
<1>3. ASSUME NEW s, s = D(s) PROVE Sums(a, DIM, s)
  <2>1. DOMAIN s = 0..DIM /\ s = [i \in DOMAIN s |-> s[i]]
    BY <1>3
  <2>2. \A i \in 0..DIM : s[i] = IF i = 0 THEN 0 ELSE s[i - 1] + Square(p[i] - q[i])
    BY <1>3, Zenon
  <2>3. s[0] = 0
    BY <2>2, KDTreeAssumption
  <2>4. ASSUME NEW i \in 1..DIM PROVE s[i] = s[i - 1] + a[i]
    BY <2>2, KDTreeAssumption
  <2> QED BY <2>1, <2>3, <2>4 DEF Sums
<1>4. PICK s : Sums(a, DIM, s)
  BY <1>1, SumsExist, KDTreeAssumption
<1>5. dist = D(dist)
  <2>1. s = D(s)
    BY <1>2, <1>4
  <2> HIDE DEF D
  <2> QED BY <2>1
<1>6. Sums(a, DIM, dist)
  BY <1>3, <1>5
<1>7. distance(p, q) = dist[DIM]
  BY DEF distance
<1> HIDE DEF dist
<1>8. /\ dist[DIM] \in Nat
      /\ \A j \in 1..DIM : a[j] <= dist[DIM]
  <2> HIDE DEF a
  <2>1. DIM \in Nat /\ DIM \in 0..DIM
    BY KDTreeAssumption
  <2>2. \A i \in 0..DIM : dist[i] \in Nat /\ \A j \in 1..i : a[j] <= dist[i]
    BY <1>1, <1>6, <2>1, SumsBound
  <2> QED BY <2>1, <2>2
<1> QED BY <1>7, <1>8

-----------------------------------------------------------------------------
\* A greater distance from the plane is a greater square.
LEMMA SquareGrows ==
    ASSUME NEW a \in Int, NEW b \in Int, NEW c \in Int, (a <= b /\ b <= c) \/ (c <= b /\ b <= a)
    PROVE  Square(a - b) <= Square(a - c)
<1>1. \A x \in Nat, y \in Nat : x <= y => x * x <= y * y
  <2> SUFFICES ASSUME NEW x \in Nat, NEW y \in Nat, x <= y PROVE x * x <= y * y
    OBVIOUS
  <2>1. PICK z \in Nat : y = x + z
    <3>1. y - x \in Nat /\ y = x + (y - x)
      OBVIOUS
    <3> QED BY <3>1
  <2>2. y * y = x * x + 2 * (x * z) + z * z /\ x * z \in Nat /\ z * z \in Nat /\ x * x \in Nat
    BY <2>1
  <2> QED BY <2>2
<1>2. \A x \in Int : (0 - x) * (0 - x) = x * x
  OBVIOUS
<1>3. CASE a <= b /\ b <= c
  <2>1. b - a \in Nat /\ c - a \in Nat /\ b - a <= c - a
    BY <1>3
  <2>2. (b - a) * (b - a) <= (c - a) * (c - a)
    BY <1>1, <2>1
  <2>3. 0 - (a - b) = b - a /\ 0 - (a - c) = c - a /\ a - b \in Int /\ a - c \in Int
    OBVIOUS
  <2>4. (b - a) * (b - a) = (a - b) * (a - b) /\ (c - a) * (c - a) = (a - c) * (a - c)
    BY <1>2, <2>3
  <2> QED BY <2>2, <2>4 DEF Square
<1>4. CASE c <= b /\ b <= a
  <2>1. a - b \in Nat /\ a - c \in Nat /\ a - b <= a - c
    BY <1>4
  <2> QED BY <1>1, <2>1 DEF Square
<1> QED BY <1>3, <1>4

LEMMA DistanceType ==
    ASSUME TreeType, query \in Queries, NEW i \in Index
    PROVE  /\ points_[i] \in Points /\ points_[i] \in [1..DIM -> Int] /\ query \in [1..DIM -> Int]
           /\ Distance(i) \in Nat /\ Distance(i) < DoubleMax
<1>1. points_[i] \in Points
  BY DEF TreeType, Index
<1>2. points_[i] \in [1..DIM -> Int] /\ query \in [1..DIM -> Int]
  BY <1>1, KDTreeAssumption
<1>3. Distance(i) \in Nat
  BY <1>2, DistanceBound DEF Distance
<1>4. Distance(i) < DoubleMax
  BY <1>1, DoubleMaxAssumption DEF Distance
<1> QED BY <1>1, <1>2, <1>3, <1>4

\* No point on the far side of a plane is nearer than the plane.
LEMMA FarAway ==
    ASSUME TreeType, query \in Queries, NEW side, Shape(side), NEW n \in Nodes,
           NEW i \in side[<<n, 1 - dir(n)>>]
    PROVE  PlaneDistance(n) \in Nat /\ PlaneDistance(n) <= Distance(i)
<1> DEFINE axis == node[n].axis
           q == query[axis + 1]
<1>1. dir(n) \in {0, 1} /\ <<n, 0>> \in Slots /\ <<n, 1>> \in Slots
  BY ChildOfNode DEF dir
<1>2. i \in Index /\ n \in Index
  <2>1. <<n, 1 - dir(n)>> \in AllSlots
    BY <1>1, SlotsAreSlots
  <2> QED BY <2>1 DEF Shape, TreeType
<1>3. axis + 1 \in 1..DIM
  BY AxisType, KDTreeAssumption
<1>4. /\ points_[i] \in [1..DIM -> Int] /\ query \in [1..DIM -> Int] /\ Distance(i) \in Nat
      /\ q \in Int
  BY <1>2, <1>3, DistanceType
<1>5. Coord(i, axis) \in Int /\ Coord(n, axis) \in Int
  BY <1>2, CoordType
<1>6. (q <= Coord(n, axis) /\ Coord(n, axis) <= Coord(i, axis))
      \/ (Coord(i, axis) <= Coord(n, axis) /\ Coord(n, axis) <= q)
  <2>1. Ordered(side, n)
    BY DEF Shape
  <2>2. CASE dir(n) = 0
    <3>1. q < Coord(n, axis)
      BY <2>2 DEF dir
    <3>2. Coord(n, axis) <= Coord(i, axis)
      BY <2>1, <2>2 DEF Ordered
    <3> QED BY <1>4, <1>5, <3>1, <3>2
  <2>3. CASE dir(n) = 1
    <3>1. ~(q < Coord(n, axis))
      BY <2>3 DEF dir
    <3>2. Coord(i, axis) <= Coord(n, axis)
      BY <2>1, <2>3 DEF Ordered
    <3> QED BY <1>4, <1>5, <3>1, <3>2
  <2> QED BY <1>1, <2>2, <2>3
<1>7. Square(q - Coord(n, axis)) <= Square(q - Coord(i, axis))
  BY <1>4, <1>5, <1>6, SquareGrows
<1>8. Square(q - Coord(i, axis)) <= Distance(i)
  BY <1>3, <1>4, DistanceBound DEF Distance, Coord
<1>9. \A x \in Int : Square(x) \in Nat
  <2>1. \A x \in Int : x * x \in Nat
    OBVIOUS
  <2> QED BY <2>1 DEF Square
<1>10. PlaneDistance(n) = Square(q - Coord(n, axis))
  BY DEF PlaneDistance
<1>11. q - Coord(n, axis) \in Int /\ q - Coord(i, axis) \in Int
  BY <1>4, <1>5
<1>12. Square(q - Coord(n, axis)) \in Nat /\ Square(q - Coord(i, axis)) \in Nat
  BY <1>9, <1>11
<1> QED BY <1>4, <1>7, <1>8, <1>10, <1>12

-----------------------------------------------------------------------------
\* The calls of a search that have not returned: each will still look at the
\* points of its region, and no two regions have a point in common.
Searching == op \in {"nnSearch", "knnSearch", "radiusSearch"}
SearchCall == [node : {NullNode} \cup Nodes, pc : {"enter", "far"}]
Region(side, f) == IF f.pc = "enter" THEN Sub(side, f.node) ELSE side[<<f.node, 1 - dir(f.node)>>]

Walk(side) ==
    /\ query \in Queries
    /\ stack \in Seq(SearchCall)
    /\ \A j \in DOMAIN stack : stack[j].pc = "far" => stack[j].node # NullNode
    /\ \A j, k \in DOMAIN stack : j # k => Region(side, stack[j]) \cap Region(side, stack[k]) = {}

\* The points that are not yet passed.
Left(side) == {i \in Index : \E j \in DOMAIN stack : i \in Region(side, stack[j])}

\* The state in which a recursive search takes a step.
InSearch(side) ==
    /\ TreeType /\ Shape(side) /\ ~Placing /\ stack # <<>> /\ Walk(side)
    /\ UNCHANGED <<tree, query>>

LEMMA SearchTop ==
    ASSUME NEW side, InSearch(side)
    PROVE  /\ Len(stack) \in Nat \ {0} /\ Len(stack) \in DOMAIN stack /\ DOMAIN stack = 1..Len(stack)
           /\ Top = stack[Len(stack)] /\ Top \in SearchCall
           /\ Top.node \in {NullNode} \cup Nodes /\ Top.pc \in {"enter", "far"}
           /\ Top.pc = "far" => Top.node \in Nodes
           /\ SearchCall' = SearchCall /\ Index' = Index /\ \A f : Region(side, f)' = Region(side, f)
           /\ \A at \in Slots : side[at] = Sub(side, Child(at))
           /\ Queries' = Queries /\ query' = query
<1>1. stack \in Seq(SearchCall) /\ stack # <<>>
  BY DEF InSearch, Walk
<1>2. /\ Len(stack) \in Nat \ {0} /\ Len(stack) \in DOMAIN stack /\ DOMAIN stack = 1..Len(stack)
      /\ Top = stack[Len(stack)] /\ Top \in SearchCall
  BY <1>1 DEF Top
<1>3. Top.node \in {NullNode} \cup Nodes /\ Top.pc \in {"enter", "far"}
  BY <1>2 DEF SearchCall
<1>4. Top.pc = "far" => Top.node \in Nodes
  BY <1>2, <1>3 DEF InSearch, Walk
<1>5. points_' = points_ /\ node' = node /\ query' = query
  BY DEF InSearch, tree
<1>6. Index' = Index /\ Nodes' = Nodes
  BY <1>5 DEF Index, Nodes
<1>7. SearchCall' = SearchCall
  BY <1>6 DEF SearchCall, NullNode
<1>8. \A f : Region(side, f)' = Region(side, f)
  BY <1>5 DEF Region, Sub, dir, Coord, NullNode
<1>9. \A at \in Slots : side[at] = Sub(side, Child(at))
  BY DEF InSearch, Shape, Pend
<1> QED BY <1>2, <1>3, <1>4, <1>5, <1>6, <1>7, <1>8, <1>9

\* The region of a call consists of points.
LEMMA RegionType ==
    ASSUME NEW side, InSearch(side), NEW j \in DOMAIN stack PROVE Region(side, stack[j]) \subseteq Index
<1> DEFINE n == stack[j].node
<1>1. stack[j] \in SearchCall /\ (stack[j].pc = "far" => n # NullNode)
  BY DEF InSearch, Walk
<1>2. n \in {NullNode} \cup Nodes
  BY <1>1 DEF SearchCall
<1>3. \A d \in {0, 1} : n # NullNode => n \in Index /\ side[<<n, d>>] \subseteq Index
  <2>1. n # NullNode => n \in Index
    BY <1>2 DEF InSearch, TreeType
  <2>2. n # NullNode => \A d \in {0, 1} : <<n, d>> \in AllSlots
    BY <2>1, SlotsAreSlots DEF InSearch
  <2> QED BY <2>1, <2>2 DEF InSearch, Shape
<1>4. 1 - dir(n) \in {0, 1}
  BY DEF dir
<1>5. stack[j].pc \in {"enter", "far"}
  BY <1>1 DEF SearchCall
<1>6. CASE stack[j].pc = "enter"
  BY <1>3, <1>6 DEF Region, Sub
<1>7. CASE stack[j].pc = "far"
  BY <1>1, <1>3, <1>4, <1>7 DEF Region
<1> QED BY <1>5, <1>6, <1>7


\* A step replaces the call on top by calls that share its region.
LEMMA WalkMoves ==
    ASSUME NEW side, InSearch(side), NEW L, L = Len(stack),
           stack' \in Seq(SearchCall), L - 1 <= Len(stack'),
           \A j \in 1..(L - 1) : stack'[j] = stack[j],
           \A j \in L..Len(stack') : /\ stack'[j].pc = "far" => stack'[j].node # NullNode
                                     /\ Region(side, stack'[j]) \subseteq Region(side, Top),
           \A j, k \in L..Len(stack') : j # k => Region(side, stack'[j]) \cap Region(side, stack'[k]) = {}
    PROVE  /\ Walk(side)' /\ Left(side)' \subseteq Left(side) /\ Region(side, Top) \subseteq Left(side)
           /\ \A i \in Left(side) :
                 i \in Left(side)' <=> \/ i \notin Region(side, Top)
                                       \/ \E j \in L..Len(stack') : i \in Region(side, stack'[j])
<1>1. /\ L \in Nat \ {0} /\ L \in DOMAIN stack /\ DOMAIN stack = 1..L /\ Top = stack[L]
      /\ SearchCall' = SearchCall /\ Index' = Index /\ \A f : Region(side, f)' = Region(side, f)
      /\ query' = query
  BY SearchTop
<1>2. DOMAIN stack' = 1..Len(stack') /\ Len(stack') \in Nat
  OBVIOUS
<1>3. ASSUME NEW j \in DOMAIN stack' PROVE j \in 1..(L - 1) \/ j \in L..Len(stack')
  BY <1>1, <1>2
<1>4. ASSUME NEW j \in 1..(L - 1)
      PROVE  /\ j \in DOMAIN stack /\ stack'[j] = stack[j] /\ j # L /\ j \in DOMAIN stack'
             /\ Region(side, stack[j]) \cap Region(side, Top) = {}
  <2>1. j \in DOMAIN stack /\ stack'[j] = stack[j] /\ j # L /\ j \in DOMAIN stack'
    BY <1>1, <1>2
  <2> QED BY <1>1, <2>1 DEF InSearch, Walk
<1>5. ASSUME NEW j \in DOMAIN stack', NEW k \in DOMAIN stack', j # k
      PROVE  Region(side, stack'[j]) \cap Region(side, stack'[k]) = {}
  <2>1. CASE j \in 1..(L - 1) /\ k \in 1..(L - 1)
    BY <1>4, <1>5, <2>1 DEF InSearch, Walk
  <2>2. CASE j \in 1..(L - 1) /\ k \in L..Len(stack')
    BY <1>4, <2>2
  <2>3. CASE j \in L..Len(stack') /\ k \in 1..(L - 1)
    BY <1>4, <2>3
  <2>4. CASE j \in L..Len(stack') /\ k \in L..Len(stack')
    BY <1>5, <2>4
  <2> QED BY <1>3, <2>1, <2>2, <2>3, <2>4
<1>6. \A j \in DOMAIN stack' : stack'[j].pc = "far" => stack'[j].node # NullNode
  BY <1>3, <1>4 DEF InSearch, Walk
<1>7. \A f : Region(side, f)' = Region(side, f)
  BY SearchTop
<1>9. Walk(side)'
  <2>1. \A j, k \in DOMAIN stack' : j # k => Region(side, stack'[j]) \cap Region(side, stack'[k]) = {}
    BY <1>5
  <2>2. (\A j, k \in DOMAIN stack : j # k => Region(side, stack[j]) \cap Region(side, stack[k]) = {})'
    BY <1>7, <2>1
  <2>3. (\A j \in DOMAIN stack : stack[j].pc = "far" => stack[j].node # NullNode)'
    BY <1>6 DEF NullNode
  <2>4. (query \in Queries)' /\ (stack \in Seq(SearchCall))'
    BY <1>1 DEF InSearch, Walk
  <2> QED BY <2>2, <2>3, <2>4 DEF Walk
<1>10. Left(side)' = {i \in Index : \E j \in DOMAIN stack' : i \in Region(side, stack'[j])}
  BY <1>1, <1>7 DEF Left
<1>11. Region(side, Top) \subseteq Left(side)
  BY <1>1, RegionType DEF Left
<1>12. Left(side)' \subseteq Left(side)
  <2> SUFFICES ASSUME NEW i \in Index, NEW j \in DOMAIN stack', i \in Region(side, stack'[j])
               PROVE  i \in Left(side)
    BY <1>10
  <2>1. CASE j \in 1..(L - 1)
    BY <1>4, <2>1 DEF Left
  <2>2. CASE j \in L..Len(stack')
    BY <1>11, <2>2
  <2> QED BY <1>3, <2>1, <2>2
<1>13. ASSUME NEW i \in Left(side)
       PROVE  i \in Left(side)' <=> \/ i \notin Region(side, Top)
                                    \/ \E j \in L..Len(stack') : i \in Region(side, stack'[j])
  <2>1. i \in Index
    BY DEF Left
  <2>2. ASSUME i \in Left(side)', i \in Region(side, Top)
        PROVE  \E j \in L..Len(stack') : i \in Region(side, stack'[j])
    <3>1. PICK j \in DOMAIN stack' : i \in Region(side, stack'[j])
      BY <1>10, <2>2
    <3> QED BY <1>3, <1>4, <2>2, <3>1
  <2>3. ASSUME NEW j \in L..Len(stack'), i \in Region(side, stack'[j]) PROVE i \in Left(side)'
    <3>1. j \in DOMAIN stack'
      BY <1>1, <1>2
    <3> QED BY <1>10, <2>1, <2>3, <3>1
  <2>4. ASSUME i \notin Region(side, Top) PROVE i \in Left(side)'
    <3>1. PICK j \in DOMAIN stack : i \in Region(side, stack[j])
      BY DEF Left
    <3>2. j \in 1..(L - 1)
      BY <1>1, <2>4, <3>1
    <3> QED BY <1>4, <1>10, <2>1, <3>1, <3>2
  <2> QED BY <2>2, <2>3, <2>4
<1> QED BY <1>9, <1>11, <1>12, <1>13

LEMMA WalkAtNull ==
    ASSUME NEW side, InSearch(side), AtNull PROVE Walk(side)' /\ Left(side)' = Left(side)
<1>1. PICK L : L = Len(stack)
  OBVIOUS
<1>2. /\ stack' \in Seq(SearchCall) /\ Len(stack') = L - 1 /\ L \in Nat \ {0}
      /\ \A j \in 1..(L - 1) : stack'[j] = stack[j]
  BY <1>1, PopStep DEF InSearch, Walk, AtNull
<1>3. L..Len(stack') = {} /\ L - 1 <= Len(stack')
  BY <1>2
<1>4. Region(side, Top) = {}
  <2>1. Top.pc = "enter"
    <3>1. NullNode \notin Nodes
      BY IndexIsNat DEF InSearch, TreeType
    <3> QED BY <3>1, SearchTop DEF AtNull
  <2> QED BY <2>1 DEF Region, Sub, AtNull
<1>5. /\ Walk(side)' /\ Left(side)' \subseteq Left(side)
      /\ \A i \in Left(side) :
            i \in Left(side)' <=> \/ i \notin Region(side, Top)
                                  \/ \E j \in L..Len(stack') : i \in Region(side, stack'[j])
  BY <1>1, <1>2, <1>3, WalkMoves
<1> QED BY <1>4, <1>5

\* The sides of a node and what is below its pointers.
LEMMA TwoSides ==
    ASSUME NEW side, InSearch(side), NEW n \in Nodes, NEW d, d = dir(n)
    PROVE  /\ d \in {0, 1} /\ 1 - d \in {0, 1} /\ n # NullNode /\ Apart(side, n)
           /\ \A e \in {0, 1} : /\ Visit(node[n].next[e]) \in SearchCall
                                /\ Region(side, Visit(node[n].next[e])) = side[<<n, e>>]
           /\ Sub(side, n) = {n} \cup side[<<n, d>>] \cup side[<<n, 1 - d>>]
           /\ side[<<n, d>>] \cap side[<<n, 1 - d>>] = {} /\ n \notin side[<<n, d>>] /\ n \notin side[<<n, 1 - d>>]
<1>1. d \in {0, 1} /\ 1 - d \in {0, 1} /\ (d = 0 => 1 - d = 1) /\ (d = 1 => 1 - d = 0)
  BY DEF dir
<1>2. n # NullNode
  BY IndexIsNat DEF InSearch, TreeType
<1>3. Apart(side, n)
  BY DEF InSearch, Shape
<1>4. ASSUME NEW e \in {0, 1}
      PROVE  /\ Visit(node[n].next[e]) \in SearchCall
             /\ Region(side, Visit(node[n].next[e])) = side[<<n, e>>]
  <2>1. <<n, e>> \in Slots /\ Child(<<n, e>>) = node[n].next[e]
    BY ChildOfNode DEF InSearch
  <2>2. node[n].next[e] \in {NullNode} \cup Nodes
    BY <2>1, ChildType DEF InSearch
  <2>3. side[<<n, e>>] = Sub(side, node[n].next[e])
    BY <2>1, SearchTop
  <2> QED BY <2>2, <2>3 DEF Visit, SearchCall, Region
<1>5. Sub(side, n) = {n} \cup side[<<n, 0>>] \cup side[<<n, 1>>]
  BY <1>2 DEF Sub
<1>6. CASE d = 0
  BY <1>1, <1>2, <1>3, <1>4, <1>5, <1>6 DEF Apart
<1>7. CASE d = 1
  BY <1>1, <1>2, <1>3, <1>4, <1>5, <1>7 DEF Apart
<1> QED BY <1>1, <1>6, <1>7

\* Only the node itself is passed when a search goes on with the near side.
LEMMA WalkNear ==
    ASSUME NEW side, InSearch(side), NearSide
    PROVE  /\ Top.node \in Nodes /\ Top.node \in Left(side)
           /\ Walk(side)' /\ Left(side)' = Left(side) \ {Top.node}
<1>0. PICK L : L = Len(stack)
  OBVIOUS
<1>1. PICK n : n = Top.node
  OBVIOUS
<1>2. PICK d : d = dir(n)
  OBVIOUS
<1>3. n \in Nodes /\ Top \in SearchCall /\ L \in Nat \ {0}
  BY <1>0, <1>1, SearchTop DEF NearSide
<1>4. PICK rest : rest = [Top EXCEPT !.pc = "far"]
  OBVIOUS
<1>5. PICK call : call = Visit(node[n].next[d])
  OBVIOUS
<1>6. rest \in SearchCall /\ rest.pc = "far" /\ rest.node = n
  BY <1>1, <1>3, <1>4 DEF SearchCall
<1>7. /\ d \in {0, 1} /\ 1 - d \in {0, 1} /\ n # NullNode
      /\ call \in SearchCall /\ Region(side, call) = side[<<n, d>>]
      /\ Sub(side, n) = {n} \cup side[<<n, d>>] \cup side[<<n, 1 - d>>]
      /\ side[<<n, d>>] \cap side[<<n, 1 - d>>] = {} /\ n \notin side[<<n, d>>] /\ n \notin side[<<n, 1 - d>>]
  <2>1. /\ d \in {0, 1} /\ 1 - d \in {0, 1} /\ n # NullNode
        /\ \A e \in {0, 1} : /\ Visit(node[n].next[e]) \in SearchCall
                             /\ Region(side, Visit(node[n].next[e])) = side[<<n, e>>]
        /\ Sub(side, n) = {n} \cup side[<<n, d>>] \cup side[<<n, 1 - d>>]
        /\ side[<<n, d>>] \cap side[<<n, 1 - d>>] = {} /\ n \notin side[<<n, d>>] /\ n \notin side[<<n, 1 - d>>]
    BY <1>2, <1>3, TwoSides
  <2>2. Visit(node[n].next[d]) \in SearchCall /\ Region(side, Visit(node[n].next[d])) = side[<<n, d>>]
    BY <2>1
  <2> QED BY <1>5, <2>1, <2>2, Zenon
<1>8. Region(side, rest) = side[<<n, 1 - d>>]
  BY <1>2, <1>6 DEF Region
<1>9. Region(side, Top) = Sub(side, n)
  BY <1>1 DEF Region, NearSide
<1>10. Call(rest, call)
  BY <1>1, <1>2, <1>4, <1>5 DEF NearSide
<1>11. /\ stack' \in Seq(SearchCall) /\ Len(stack') = L + 1
       /\ \A j \in 1..(L - 1) : stack'[j] = stack[j]
       /\ stack'[L] = rest /\ stack'[L + 1] = call
  BY <1>0, <1>6, <1>7, <1>10, CallStep DEF InSearch, Walk
<1>12. L..Len(stack') = {L, L + 1} /\ L # L + 1 /\ L - 1 <= Len(stack')
  BY <1>3, <1>11
<1>13. \A j \in L..Len(stack') : /\ stack'[j].pc = "far" => stack'[j].node # NullNode
                                 /\ Region(side, stack'[j]) \subseteq Region(side, Top)
  <2>1. call.pc = "enter"
    BY <1>5 DEF Visit
  <2> QED BY <1>6, <1>7, <1>8, <1>9, <1>11, <1>12, <2>1
<1>14. \A j, k \in L..Len(stack') : j # k => Region(side, stack'[j]) \cap Region(side, stack'[k]) = {}
  BY <1>7, <1>8, <1>11, <1>12
<1>15. /\ Walk(side)' /\ Left(side)' \subseteq Left(side) /\ Region(side, Top) \subseteq Left(side)
       /\ \A i \in Left(side) :
             i \in Left(side)' <=> \/ i \notin Region(side, Top)
                                   \/ \E j \in L..Len(stack') : i \in Region(side, stack'[j])
  BY <1>0, <1>11, <1>12, <1>13, <1>14, WalkMoves
<1>16. \A i : (\E j \in L..Len(stack') : i \in Region(side, stack'[j])) <=> i \in side[<<n, d>>] \cup side[<<n, 1 - d>>]
  BY <1>7, <1>8, <1>11, <1>12
<1> QED BY <1>1, <1>3, <1>7, <1>9, <1>15, <1>16

\* Nothing is passed when it enters the far side, and the far side when it
\* does not.
LEMMA WalkFarEntered ==
    ASSUME NEW side, InSearch(side), FarSide(TRUE) PROVE Walk(side)' /\ Left(side)' = Left(side)
<1>0. PICK L : L = Len(stack)
  OBVIOUS
<1>1. PICK n : n = Top.node
  OBVIOUS
<1>2. PICK d : d = dir(n)
  OBVIOUS
<1>3. n \in Nodes /\ L \in Nat \ {0}
  BY <1>0, <1>1, SearchTop DEF FarSide
<1>4. PICK call : call = Visit(node[n].next[1 - d])
  OBVIOUS
<1>5. call \in SearchCall /\ Region(side, call) = side[<<n, 1 - d>>]
  <2>1. /\ 1 - d \in {0, 1}
        /\ \A e \in {0, 1} : /\ Visit(node[n].next[e]) \in SearchCall
                             /\ Region(side, Visit(node[n].next[e])) = side[<<n, e>>]
    BY <1>2, <1>3, TwoSides
  <2>2. PICK e \in {0, 1} : e = 1 - d
    BY <2>1
  <2>3. call = Visit(node[n].next[e])
    BY <1>4, <2>2
  <2> QED BY <2>1, <2>2, <2>3, Zenon
<1>6. Region(side, Top) = side[<<n, 1 - d>>]
  BY <1>1, <1>2 DEF Region, FarSide
<1>7. /\ stack' \in Seq(SearchCall) /\ Len(stack') = L
      /\ \A j \in 1..(L - 1) : stack'[j] = stack[j]
      /\ stack'[L] = call
  <2>1. TailCall(call)
    BY <1>1, <1>2, <1>4 DEF FarSide
  <2> QED BY <1>0, <1>5, <2>1, TailCallStep DEF InSearch, Walk
<1>8. L..Len(stack') = {L} /\ L - 1 <= Len(stack')
  BY <1>3, <1>7
<1>9. call.pc = "enter"
  BY <1>4 DEF Visit
<1>10. /\ Walk(side)' /\ Left(side)' \subseteq Left(side)
       /\ \A i \in Left(side) :
             i \in Left(side)' <=> \/ i \notin Region(side, Top)
                                   \/ \E j \in L..Len(stack') : i \in Region(side, stack'[j])
  <2>1. \A j \in L..Len(stack') : /\ stack'[j].pc = "far" => stack'[j].node # NullNode
                                  /\ Region(side, stack'[j]) \subseteq Region(side, Top)
    BY <1>5, <1>6, <1>7, <1>8, <1>9
  <2>2. \A j, k \in L..Len(stack') : j # k => Region(side, stack'[j]) \cap Region(side, stack'[k]) = {}
    BY <1>8
  <2> QED BY <1>0, <1>7, <1>8, <2>1, <2>2, WalkMoves
<1> QED BY <1>5, <1>6, <1>7, <1>8, <1>10

LEMMA WalkFarSkipped ==
    ASSUME NEW side, InSearch(side), FarSide(FALSE)
    PROVE  /\ Walk(side)' /\ Left(side)' \subseteq Left(side) /\ Top.node \in Nodes
           /\ \A i \in Left(side) : i \in Left(side)' \/ i \in side[<<Top.node, 1 - dir(Top.node)>>]
<1>1. PICK L : L = Len(stack)
  OBVIOUS
<1>2. /\ stack' \in Seq(SearchCall) /\ Len(stack') = L - 1 /\ L \in Nat \ {0}
      /\ \A j \in 1..(L - 1) : stack'[j] = stack[j]
  BY <1>1, PopStep DEF InSearch, Walk, FarSide
<1>3. L..Len(stack') = {} /\ L - 1 <= Len(stack')
  BY <1>2
<1>4. Region(side, Top) = side[<<Top.node, 1 - dir(Top.node)>>] /\ Top.node \in Nodes
  BY SearchTop DEF Region, FarSide
<1>5. /\ Walk(side)' /\ Left(side)' \subseteq Left(side)
      /\ \A i \in Left(side) :
            i \in Left(side)' <=> \/ i \notin Region(side, Top)
                                  \/ \E j \in L..Len(stack') : i \in Region(side, stack'[j])
  BY <1>1, <1>2, <1>3, WalkMoves
<1> QED BY <1>4, <1>5

\* The distances do not change while a search runs.
LEMMA SameDistances ==
    ASSUME NEW side, InSearch(side) PROVE \A i : Distance(i)' = Distance(i)
BY DEF InSearch, tree, Distance

\* nnSearch: what is found so far, and no point that is passed is nearer.
Nearest(side) ==
    /\ (guess = 0 /\ minDist = DoubleMax) \/ (guess \in Index /\ minDist = Distance(guess))
    /\ \A i \in Index : i \in Left(side) \/ minDist <= Distance(i)

LEMMA MinDistType ==
    ASSUME TreeType, query \in Queries, NEW side, Nearest(side) PROVE minDist \in Int
BY DistanceType, DoubleMaxAssumption DEF Nearest

LEMMA NNStep ==
    ASSUME NEW side, InSearch(side), Nearest(side), nnSearchRecursive
    PROVE  Walk(side)' /\ Nearest(side)'
<1>1. Index' = Index /\ \A i : Distance(i)' = Distance(i)
  BY SearchTop, SameDistances
<1>2. TreeType /\ query \in Queries /\ Shape(side)
  BY DEF InSearch, Walk
<1>3. minDist \in Int /\ \A i \in Index : Distance(i) \in Nat
  BY <1>2, MinDistType, DistanceType
<1>4. ASSUME Left(side)' = Left(side), UNCHANGED <<guess, minDist>> PROVE Nearest(side)'
  <2>1. (guess = 0 /\ minDist = DoubleMax)' \/ (guess \in Index /\ minDist = Distance(guess))'
    BY <1>1, <1>4 DEF Nearest
  <2>2. \A i \in Index : i \in Left(side)' \/ minDist' <= Distance(i)
    BY <1>4 DEF Nearest
  <2> QED BY <1>1, <2>1, <2>2 DEF Nearest
<1>5. CASE AtNull /\ UNCHANGED <<guess, minDist>>
  BY <1>4, <1>5, WalkAtNull
<1>6. ASSUME NearSide,
             IF Distance(Top.node) < minDist THEN minDist' = Distance(Top.node) /\ guess' = Top.node
             ELSE UNCHANGED <<guess, minDist>>
      PROVE  Walk(side)' /\ Nearest(side)'
  <2>1. PICK n : n = Top.node
    OBVIOUS
  <2>2. n \in Nodes /\ Walk(side)' /\ Left(side)' = Left(side) \ {n}
    BY <1>6, <2>1, WalkNear
  <2>3. n \in Index
    BY <1>2, <2>2 DEF TreeType
  <2>4. CASE Distance(n) < minDist
    <3>1. minDist' = Distance(n) /\ guess' = n
      BY <1>6, <2>1, <2>4
    <3>2. ASSUME NEW i \in Index, i \notin Left(side)' PROVE minDist' <= Distance(i)
      <4>1. i = n \/ minDist <= Distance(i)
        BY <2>2, <3>2 DEF Nearest
      <4> QED BY <1>3, <2>3, <2>4, <3>1, <4>1
    <3>3. guess' \in Index' /\ minDist' = Distance(n)' /\ n = guess'
      BY <1>1, <2>3, <3>1
    <3>4. minDist' = Distance(guess)'
      BY <3>3 DEF Distance
    <3> QED BY <1>1, <2>2, <3>2, <3>3, <3>4 DEF Nearest
  <2>5. CASE ~(Distance(n) < minDist)
    <3>1. minDist' = minDist /\ guess' = guess
      BY <1>6, <2>1, <2>5
    <3>2. ASSUME NEW i \in Index, i \notin Left(side)' PROVE minDist' <= Distance(i)
      <4>1. i = n \/ minDist <= Distance(i)
        BY <2>2, <3>2 DEF Nearest
      <4> QED BY <1>3, <2>3, <2>5, <3>1, <4>1
    <3>3. (guess = 0 /\ minDist = DoubleMax)' \/ (guess \in Index /\ minDist = Distance(guess))'
      BY <1>1, <3>1 DEF Nearest
    <3> QED BY <1>1, <2>2, <3>2, <3>3 DEF Nearest
  <2> QED BY <2>4, <2>5
<1>7. ASSUME FarSide(PlaneDistance(Top.node) < minDist), UNCHANGED <<guess, minDist>>
      PROVE  Walk(side)' /\ Nearest(side)'
  <2>1. CASE PlaneDistance(Top.node) < minDist
    BY <1>4, <1>7, <2>1, WalkFarEntered DEF FarSide
  <2>2. CASE ~(PlaneDistance(Top.node) < minDist)
    <3>1. FarSide(FALSE)
      BY <1>7, <2>2 DEF FarSide
    <3>2. /\ Walk(side)' /\ Top.node \in Nodes
          /\ \A i \in Left(side) : i \in Left(side)' \/ i \in side[<<Top.node, 1 - dir(Top.node)>>]
      BY <3>1, WalkFarSkipped
    <3>3. ASSUME NEW i \in Index, i \notin Left(side)' PROVE minDist <= Distance(i)
      <4>1. CASE i \in Left(side)
        <5>1. PlaneDistance(Top.node) \in Nat /\ PlaneDistance(Top.node) <= Distance(i)
          BY <1>2, <3>2, <3>3, <4>1, FarAway
        <5> QED BY <1>3, <2>2, <5>1
      <4>2. CASE i \notin Left(side)
        BY <4>2 DEF Nearest
      <4> QED BY <4>1, <4>2
    <3>4. (guess = 0 /\ minDist = DoubleMax)' \/ (guess \in Index /\ minDist = Distance(guess))'
      BY <1>1, <1>7 DEF Nearest
    <3> QED BY <1>1, <1>7, <3>2, <3>3, <3>4 DEF Nearest
  <2> QED BY <2>1, <2>2
<1>8. \/ AtNull /\ UNCHANGED <<guess, minDist>>
      \/ /\ NearSide
         /\ IF Distance(Top.node) < minDist THEN minDist' = Distance(Top.node) /\ guess' = Top.node
            ELSE UNCHANGED <<guess, minDist>>
      \/ FarSide(PlaneDistance(Top.node) < minDist) /\ UNCHANGED <<guess, minDist>>
  BY DEF nnSearchRecursive, Distance
<1> QED BY <1>5, <1>6, <1>7, <1>8

LEMMA NNResult ==
    ASSUME TreeType, query \in Queries, NEW side, Nearest(side), stack = <<>>, points_ # <<>>
    PROVE  /\ guess \in DOMAIN points_ /\ minDist = Distance(guess)
           /\ \A i \in DOMAIN points_ : minDist <= Distance(i)
<1>1. Left(side) = {}
  BY DEF Left
<1>2. \A i \in Index : minDist <= Distance(i)
  BY <1>1 DEF Nearest
<1>3. 1 \in Index
  BY DEF TreeType, Index
<1>4. minDist <= Distance(1) /\ Distance(1) < DoubleMax /\ Distance(1) \in Nat /\ minDist \in Int /\ DoubleMax \in Int
  BY <1>2, <1>3, DistanceType, MinDistType, DoubleMaxAssumption
<1>5. minDist # DoubleMax
  BY <1>4
<1> QED BY <1>2, <1>5 DEF Nearest, Index

\* radiusSearch: of the points that are passed, those inside are found.
Inside(side) ==
    /\ bound \in Nat
    /\ indices \in Seq(Index)
    /\ \A j \in DOMAIN indices : indices[j] \notin Left(side)
    /\ \A j, k \in DOMAIN indices : j # k => indices[j] # indices[k]
    /\ \A i \in Index : i \in Left(side) \/ (Distance(i) < bound <=> \E j \in DOMAIN indices : indices[j] = i)

LEMMA RadiusStep ==
    ASSUME NEW side, InSearch(side), Inside(side), radiusSearchRecursive
    PROVE  Walk(side)' /\ Inside(side)'
<1>1. Index' = Index /\ (\A i : Distance(i)' = Distance(i)) /\ bound' = bound
  BY SearchTop, SameDistances DEF radiusSearchRecursive
<1>2. TreeType /\ query \in Queries /\ Shape(side)
  BY DEF InSearch, Walk
<1>3. bound \in Nat /\ \A i \in Index : Distance(i) \in Nat
  BY <1>2, DistanceType DEF Inside
<1>4. ASSUME Left(side)' \subseteq Left(side), UNCHANGED indices,
             \A i \in Left(side) : i \notin Left(side)' => ~(Distance(i) < bound)
      PROVE  Inside(side)'
  <2>1. \A i \in Index : i \in Left(side)' \/ (Distance(i) < bound <=> \E j \in DOMAIN indices : indices[j] = i)
    BY <1>4 DEF Inside
  <2>2. \A j \in DOMAIN indices : indices[j] \notin Left(side)'
    BY <1>4 DEF Inside
  <2> QED BY <1>1, <1>4, <2>1, <2>2 DEF Inside
<1>5. CASE AtNull /\ UNCHANGED indices
  <2>1. Walk(side)' /\ Left(side)' = Left(side)
    BY <1>5, WalkAtNull
  <2> QED BY <1>4, <1>5, <2>1
<1>6. ASSUME NearSide,
             IF Distance(Top.node) < bound THEN indices' = Append(indices, Top.node) ELSE UNCHANGED indices
      PROVE  Walk(side)' /\ Inside(side)'
  <2>1. PICK n : n = Top.node
    OBVIOUS
  <2>2. n \in Nodes /\ n \in Left(side) /\ Walk(side)' /\ Left(side)' = Left(side) \ {n}
    BY <1>6, <2>1, WalkNear
  <2>3. n \in Index
    BY <1>2, <2>2 DEF TreeType
  <2>4. CASE Distance(n) < bound
    <3>0. PICK L : L = Len(indices)
      OBVIOUS
    <3>1. /\ L \in Nat /\ DOMAIN indices = 1..L
          /\ indices' \in Seq(Index) /\ Len(indices') = L + 1 /\ DOMAIN indices' = 1..(L + 1)
          /\ indices'[L + 1] = n /\ \A j \in 1..L : indices'[j] = indices[j]
      BY <1>6, <2>1, <2>3, <2>4, <3>0 DEF Inside
    <3>2. \A j \in 1..(L + 1) : j \in 1..L \/ j = L + 1
      BY <3>1
    <3>3. \A j \in 1..L : indices[j] \notin Left(side) /\ indices[j] # n
      BY <2>2, <3>1 DEF Inside
    <3>4. \A j \in DOMAIN indices' : indices'[j] \notin Left(side)'
      BY <2>2, <3>1, <3>2, <3>3
    <3>5. \A j, k \in DOMAIN indices' : j # k => indices'[j] # indices'[k]
      BY <3>1, <3>2, <3>3 DEF Inside
    <3>6. ASSUME NEW i \in Index
          PROVE  i \in Left(side)' \/ (Distance(i) < bound <=> \E j \in DOMAIN indices' : indices'[j] = i)
      <4>1. CASE i = n
        <5>1. L + 1 \in DOMAIN indices'
          BY <3>1
        <5> QED BY <2>4, <3>1, <4>1, <5>1
      <4>2. CASE i # n
        <5>1. (\E j \in DOMAIN indices' : indices'[j] = i) <=> (\E j \in DOMAIN indices : indices[j] = i)
          <6>1. \A j \in 1..L : j \in 1..(L + 1)
            BY <3>1
          <6> QED BY <3>1, <3>2, <4>2, <6>1
        <5> QED BY <2>2, <4>2, <5>1 DEF Inside
      <4> QED BY <4>1, <4>2
    <3> QED BY <1>1, <1>3, <2>2, <3>1, <3>4, <3>5, <3>6 DEF Inside
  <2>5. CASE ~(Distance(n) < bound)
    BY <1>4, <1>6, <2>1, <2>2, <2>5
  <2> QED BY <2>4, <2>5
<1>7. ASSUME FarSide(PlaneDistance(Top.node) < bound), UNCHANGED indices
      PROVE  Walk(side)' /\ Inside(side)'
  <2>1. CASE PlaneDistance(Top.node) < bound
    <3>1. Walk(side)' /\ Left(side)' = Left(side)
      BY <1>7, <2>1, WalkFarEntered DEF FarSide
    <3> QED BY <1>4, <1>7, <3>1
  <2>2. CASE ~(PlaneDistance(Top.node) < bound)
    <3>1. FarSide(FALSE)
      BY <1>7, <2>2 DEF FarSide
    <3>2. /\ Walk(side)' /\ Left(side)' \subseteq Left(side) /\ Top.node \in Nodes
          /\ \A i \in Left(side) : i \in Left(side)' \/ i \in side[<<Top.node, 1 - dir(Top.node)>>]
      BY <3>1, WalkFarSkipped
    <3>3. ASSUME NEW i \in Left(side), i \notin Left(side)' PROVE ~(Distance(i) < bound)
      <4>1. PlaneDistance(Top.node) \in Nat /\ PlaneDistance(Top.node) <= Distance(i)
        BY <1>2, <3>2, <3>3, FarAway
      <4>2. i \in Index
        BY DEF Left
      <4> QED BY <1>3, <2>2, <4>1, <4>2
    <3> QED BY <1>4, <1>7, <3>2, <3>3
  <2> QED BY <2>1, <2>2
<1>8. \/ AtNull /\ UNCHANGED indices
      \/ /\ NearSide
         /\ IF Distance(Top.node) < bound THEN indices' = Append(indices, Top.node) ELSE UNCHANGED indices
      \/ FarSide(PlaneDistance(Top.node) < bound) /\ UNCHANGED indices
  BY DEF radiusSearchRecursive, Distance
<1> QED BY <1>5, <1>6, <1>7, <1>8

LEMMA RadiusResult ==
    ASSUME NEW side, Inside(side), stack = <<>>
    PROVE  /\ {indices[j] : j \in DOMAIN indices} = {i \in DOMAIN points_ : Distance(i) < bound}
           /\ \A i, j \in DOMAIN indices : i # j => indices[i] # indices[j]
<1>1. Left(side) = {}
  BY DEF Left
<1>2. \A i \in Index : Distance(i) < bound <=> \E j \in DOMAIN indices : indices[j] = i
  BY <1>1 DEF Inside
<1>3. \A j \in DOMAIN indices : indices[j] \in Index
  BY DEF Inside
<1>4. {indices[j] : j \in DOMAIN indices} = {i \in Index : Distance(i) < bound}
  BY <1>2, <1>3
<1> QED BY <1>4 DEF Inside, Index

-----------------------------------------------------------------------------
\* The pairs of the queue are in a linear order.
LEMMA LessOrder ==
    ASSUME NEW a \in Nat \X Nat, NEW b \in Nat \X Nat, NEW c \in Nat \X Nat
    PROVE  /\ Less(a, b) /\ Less(b, c) => Less(a, c)
           /\ a[2] # b[2] /\ ~Less(a, b) => Less(b, a)
           /\ Less(a, b) => a[1] <= b[1]
           /\ ~Less(a, a)
<1>1. a[1] \in Nat /\ a[2] \in Nat /\ b[1] \in Nat /\ b[2] \in Nat /\ c[1] \in Nat /\ c[2] \in Nat
  OBVIOUS
<1> QED BY <1>1 DEF Less

\* push puts a pair behind the smaller ones and before the greater ones, and
\* drops the last of the queue when it gets too long.
LEMMA PushStep ==
    ASSUME queue \in Seq(Nat \X Nat), bound \in Nat \ {0}, Len(queue) <= bound,
           \A j, k \in DOMAIN queue : j < k => Less(queue[j], queue[k]),
           NEW val \in Nat \X Nat, \A j \in DOMAIN queue : queue[j][2] # val[2], push(val),
           NEW L, L = Len(queue), NEW M, M = IF L < bound THEN L + 1 ELSE bound
    PROVE  \E at \in 1..(L + 1) :
              /\ queue' = [i \in 1..M |-> IF i < at THEN queue[i] ELSE IF i = at THEN val ELSE queue[i - 1]]
              /\ \A i \in 1..L : i < at => Less(queue[i], val)
              /\ \A i \in 1..L : at <= i => Less(val, queue[i])
<1> DEFINE greater == {i \in DOMAIN queue : Less(val, queue[i])}
           at == IF greater = {} THEN L + 1 ELSE CHOOSE i \in greater : \A j \in greater : i <= j
<1>1. L \in Nat /\ DOMAIN queue = 1..L /\ \A j \in 1..L : queue[j] \in Nat \X Nat
  OBVIOUS
<1>2. queue' = [i \in 1..M |-> IF i < at THEN queue[i] ELSE IF i = at THEN val ELSE queue[i - 1]]
  BY DEF push
<1>3. greater # {} => at \in greater /\ \A j \in greater : at <= j
  <2>1. greater \in SUBSET Nat
    BY <1>1
  <2>2. greater # {} => \E i \in greater : \A j \in greater : i <= j
    <3> HIDE DEF greater
    <3> QED BY <2>1, Least
  <2> HIDE DEF greater
  <2> QED BY <2>2
<1>4. at \in 1..(L + 1)
  <2>1. CASE greater = {}
    <3>1. at = L + 1
      BY <2>1
    <3>2. L + 1 \in 1..(L + 1)
      BY <1>1
    <3> HIDE DEF at
    <3> QED BY <3>1, <3>2
  <2>2. CASE greater # {}
    <3>1. at \in 1..L
      BY <1>1, <1>3, <2>2
    <3>2. 1..L \subseteq 1..(L + 1)
      BY <1>1
    <3> HIDE DEF at
    <3> QED BY <3>1, <3>2
  <2> QED BY <2>1, <2>2
<1>5. ASSUME NEW i \in 1..L, i < at PROVE Less(queue[i], val)
  <2>1. i \notin greater
    <3>1. at \in Int
      BY <1>1, <1>4
    <3>2. i \in greater => at <= i
      BY <1>3
    <3> HIDE DEF at
    <3> QED BY <1>5, <3>1, <3>2
  <2>2. ~Less(val, queue[i])
    BY <1>1, <2>1
  <2> QED BY <1>1, <2>2, LessOrder
<1>6. ASSUME NEW i \in 1..L, at <= i PROVE Less(val, queue[i])
  <2>1. greater # {}
    BY <1>1, <1>6
  <2>2. at \in 1..L /\ Less(val, queue[at])
    BY <1>1, <1>3, <2>1
  <2> HIDE DEF at
  <2>3. CASE at = i
    BY <2>2, <2>3
  <2>4. CASE at # i
    <3>1. at < i
      BY <1>6, <2>2, <2>4
    <3>2. Less(queue[at], queue[i])
      BY <1>1, <2>2, <3>1
    <3> QED BY <1>1, <2>2, <3>2, LessOrder
  <2> QED BY <2>3, <2>4
<1> HIDE DEF at
<1> QED BY <1>2, <1>4, <1>5, <1>6

\* knnSearch: the queue holds points that are passed, the nearest first; a
\* point that is passed and not there is not nearer than the last of a full
\* queue.
Closest(side) ==
    /\ bound \in Nat \ {0}
    /\ queue \in Seq(Nat \X Index) /\ Len(queue) <= bound
    /\ \A j \in DOMAIN queue : queue[j][1] = Distance(queue[j][2]) /\ queue[j][2] \notin Left(side)
    /\ \A j, k \in DOMAIN queue : j < k => Less(queue[j], queue[k])
    /\ \A i \in Index : \/ i \in Left(side)
                        \/ \E j \in DOMAIN queue : queue[j][2] = i
                        \/ Len(queue) = bound /\ queue[bound][1] <= Distance(i)

LEMMA PushKeeps ==
    ASSUME NEW side, InSearch(side), Closest(side), NEW n \in Index, n \in Left(side),
           push(<<Distance(n), n>>), bound' = bound, Walk(side)', Left(side)' = Left(side) \ {n}
    PROVE  Closest(side)'
<1>1. Index' = Index /\ (\A i : Distance(i)' = Distance(i)) /\ Index \subseteq Nat
  BY SearchTop, SameDistances, IndexIsNat DEF InSearch
<1>2. \A i \in Index : Distance(i) \in Nat
  BY DistanceType DEF InSearch, Walk
<1>3. PICK L : L = Len(queue)
  OBVIOUS
<1>4. PICK M : M = IF L < bound THEN L + 1 ELSE bound
  OBVIOUS
<1>5. PICK val : val = <<Distance(n), n>>
  OBVIOUS
<1>6. PICK k : k = bound
  OBVIOUS
<1>7. /\ L \in Nat /\ DOMAIN queue = 1..L /\ k \in Nat \ {0} /\ L <= k
      /\ \A j \in 1..L : /\ queue[j] \in Nat \X Index /\ queue[j] \in Nat \X Nat
                         /\ queue[j][1] = Distance(queue[j][2]) /\ queue[j][2] \notin Left(side)
                         /\ queue[j][2] # n
  <2>1. L \in Nat /\ DOMAIN queue = 1..L /\ k \in Nat \ {0} /\ L <= k
    BY <1>3, <1>6 DEF Closest
  <2>2. ASSUME NEW j \in 1..L
        PROVE  /\ queue[j] \in Nat \X Index /\ queue[j] \in Nat \X Nat
               /\ queue[j][1] = Distance(queue[j][2]) /\ queue[j][2] \notin Left(side)
               /\ queue[j][2] # n
    <3>1. queue[j] \in Nat \X Index
      BY <1>3, <2>1 DEF Closest
    <3> QED BY <1>1, <2>1, <3>1 DEF Closest
  <2> QED BY <2>1, <2>2
<1>8. M \in Nat \ {0} /\ M <= k /\ M <= L + 1 /\ (L < k => M = L + 1) /\ (M = L \/ M = L + 1) /\ (M = L => L = k)
  BY <1>4, <1>6, <1>7
<1>9. val \in Nat \X Index /\ val \in Nat \X Nat /\ val[1] = Distance(n) /\ val[2] = n
  BY <1>1, <1>2, <1>5
<1>10. \A i, j \in 1..L : i < j => Less(queue[i], queue[j])
  BY <1>7 DEF Closest
<1>11. PICK at \in 1..(L + 1) :
          /\ queue' = [i \in 1..M |-> IF i < at THEN queue[i] ELSE IF i = at THEN val ELSE queue[i - 1]]
          /\ \A i \in 1..L : i < at => Less(queue[i], val)
          /\ \A i \in 1..L : at <= i => Less(val, queue[i])
  <2>1. queue \in Seq(Nat \X Nat)
    <3>1. queue \in [1..L -> Nat \X Nat]
      <4>1. queue = [j \in 1..L |-> queue[j]]
        BY <1>3 DEF Closest
      <4> QED BY <1>7, <4>1
    <3> QED BY <1>7, <3>1
  <2>2. push(val)
    BY <1>5
  <2> QED BY <1>3, <1>4, <1>6, <1>7, <1>9, <1>10, <2>1, <2>2, PushStep
<1>12. ASSUME NEW i \in 1..M
       PROVE  /\ i < at => i \in 1..L /\ queue'[i] = queue[i]
              /\ i = at => queue'[i] = val
              /\ at < i => i - 1 \in 1..L /\ at <= i - 1 /\ queue'[i] = queue[i - 1]
              /\ i < at \/ i = at \/ at < i
  <2>1. queue'[i] = IF i < at THEN queue[i] ELSE IF i = at THEN val ELSE queue[i - 1]
    BY <1>11
  <2>2. /\ i < at => i \in 1..L
        /\ at < i => i - 1 \in 1..L /\ at <= i - 1 /\ ~(i < at) /\ i # at
        /\ i < at \/ i = at \/ at < i
        /\ i = at => ~(i < at)
    BY <1>7, <1>8
  <2> QED BY <2>1, <2>2
<1>13. ASSUME NEW i \in 1..M
       PROVE  /\ queue'[i] \in Nat \X Index /\ queue'[i] \in Nat \X Nat
              /\ queue'[i][1] = Distance(queue'[i][2]) /\ queue'[i][2] \notin Left(side)'
  <2>1. ASSUME NEW j \in 1..L PROVE queue[j][2] \notin Left(side)'
    BY <1>7
  <2>2. CASE i < at
    BY <1>7, <1>12, <2>1, <2>2
  <2>3. CASE i = at
    BY <1>9, <1>12, <2>3
  <2>4. CASE at < i
    <3>1. PICK j \in 1..L : queue'[i] = queue[j]
      BY <1>12, <2>4
    <3> QED BY <1>7, <2>1, <3>1
  <2> QED BY <1>12, <2>2, <2>3, <2>4
<1>14. queue' \in Seq(Nat \X Index) /\ Len(queue') = M /\ DOMAIN queue' = 1..M
  <2>1. queue' \in [1..M -> Nat \X Index]
    BY <1>11, <1>13
  <2> QED BY <1>8, <2>1
<1>15. ASSUME NEW i \in 1..M, NEW j \in 1..M, i < j PROVE Less(queue'[i], queue'[j])
  <2>1. CASE j < at
    <3>1. i < at
      BY <1>8, <1>15, <2>1
    <3> QED BY <1>10, <1>12, <1>15, <2>1, <3>1
  <2>2. CASE j = at
    <3>1. i < at
      BY <1>15, <2>2
    <3> QED BY <1>11, <1>12, <2>2, <3>1
  <2>3. CASE at < j /\ i < at
    <3>1. queue'[i] = queue[i] /\ i \in 1..L /\ queue'[j] = queue[j - 1] /\ j - 1 \in 1..L /\ i < j - 1
      BY <1>12, <2>3
    <3> QED BY <1>10, <3>1
  <2>4. CASE at < j /\ i = at
    <3>1. queue'[i] = val /\ queue'[j] = queue[j - 1] /\ j - 1 \in 1..L /\ at <= j - 1
      BY <1>12, <2>4
    <3> QED BY <1>11, <3>1
  <2>5. CASE at < j /\ at < i
    <3>1. queue'[i] = queue[i - 1] /\ i - 1 \in 1..L /\ queue'[j] = queue[j - 1] /\ j - 1 \in 1..L
      BY <1>12, <2>5
    <3>2. i - 1 < j - 1
      BY <1>15
    <3> QED BY <1>10, <3>1, <3>2
  <2> QED BY <1>12, <2>1, <2>2, <2>3, <2>4, <2>5
<1>16. ASSUME L = k PROVE M = k /\ k \in 1..M /\ k \in 1..L /\ queue'[k][1] <= queue[k][1]
  <2>1. M = k /\ k \in 1..M /\ k \in 1..L
    BY <1>4, <1>6, <1>7, <1>16
  <2>2. CASE k < at
    BY <1>7, <1>12, <2>1, <2>2
  <2>3. CASE k = at
    BY <1>7, <1>9, <1>11, <1>12, <2>1, <2>3, LessOrder
  <2>4. CASE at < k
    <3>1. k - 1 \in 1..L /\ queue'[k] = queue[k - 1] /\ k - 1 < k
      BY <1>7, <1>12, <2>1, <2>4
    <3>2. Less(queue[k - 1], queue[k])
      BY <1>10, <2>1, <3>1
    <3> QED BY <1>7, <2>1, <3>1, <3>2, LessOrder
  <2> QED BY <1>12, <2>1, <2>2, <2>3, <2>4
<1>17. ASSUME NEW i \in Index, i \notin Left(side)'
       PROVE  \/ \E j \in 1..M : queue'[j][2] = i
              \/ M = k /\ queue'[k][1] <= Distance(i)
  <2>1. CASE i = n
    <3>1. CASE at \in 1..M
      BY <1>9, <1>12, <2>1, <3>1
    <3>2. CASE at \notin 1..M
      <4>1. L = k /\ at = k + 1 /\ M = k
        BY <1>7, <1>8, <3>2
      <4>2. k \in 1..M /\ k \in 1..L /\ k < at
        BY <1>7, <4>1
      <4>3. queue'[k] = queue[k] /\ Less(queue[k], val)
        BY <1>11, <1>12, <4>2
      <4> QED BY <1>7, <1>9, <2>1, <4>1, <4>2, <4>3, LessOrder
    <3> QED BY <3>1, <3>2
  <2>2. ASSUME NEW j \in 1..L, queue[j][2] = i
        PROVE  (\E m \in 1..M : queue'[m][2] = i) \/ (M = k /\ queue'[k][1] <= Distance(i))
    <3>1. CASE j < at
      <4>1. CASE j \in 1..M
        BY <1>12, <2>2, <3>1, <4>1
      <4>2. CASE j \notin 1..M
        BY <1>7, <1>8, <4>2
      <4> QED BY <4>1, <4>2
    <3>2. CASE at <= j /\ j + 1 \in 1..M
      <4>1. at < j + 1 /\ (j + 1) - 1 = j
        BY <3>2
      <4>2. queue'[j + 1] = queue[j]
        BY <1>12, <3>2, <4>1
      <4> QED BY <2>2, <3>2, <4>2
    <3>3. CASE at <= j /\ j + 1 \notin 1..M
      <4>1. L = k /\ j = k
        BY <1>7, <1>8, <3>3
      <4>2. M = k /\ queue'[k][1] <= queue[k][1]
        BY <1>16, <4>1
      <4> QED BY <1>7, <2>2, <4>1, <4>2
    <3>4. j < at \/ at <= j
      OBVIOUS
    <3> QED BY <3>1, <3>2, <3>3, <3>4
  <2>3. ASSUME L = k, queue[k][1] <= Distance(i) PROVE M = k /\ queue'[k][1] <= Distance(i)
    <3>1. M = k /\ k \in 1..M /\ k \in 1..L /\ queue'[k][1] <= queue[k][1]
      BY <1>16, <2>3
    <3>2. queue[k][1] \in Nat /\ queue'[k][1] \in Nat /\ Distance(i) \in Nat
      BY <1>2, <1>7, <1>13, <3>1
    <3> QED BY <2>3, <3>1, <3>2
  <2>4. \/ i = n
        \/ \E j \in 1..L : queue[j][2] = i
        \/ L = k /\ queue[k][1] <= Distance(i)
    BY <1>3, <1>6, <1>7, <1>17 DEF Closest
  <2> QED BY <2>1, <2>2, <2>3, <2>4
<1>18. ASSUME NEW j \in DOMAIN queue', NEW i, i = queue'[j][2]
       PROVE  queue'[j][1] = Distance(i)' /\ i \notin Left(side)'
  BY <1>1, <1>13, <1>14, <1>18
<1>19. (\A j \in DOMAIN queue : queue[j][1] = Distance(queue[j][2]) /\ queue[j][2] \notin Left(side))'
  BY <1>18 DEF Distance
<1>20. \A i \in Index : \/ i \in Left(side)'
                        \/ \E j \in DOMAIN queue' : queue'[j][2] = i
                        \/ Len(queue') = bound' /\ queue'[bound'][1] <= Distance(i)
  BY <1>6, <1>14, <1>17
<1>21. (bound \in Nat \ {0})' /\ (queue \in Seq(Nat \X Index) /\ Len(queue) <= bound)'
  BY <1>1, <1>6, <1>7, <1>8, <1>14
<1>22. (\A i, j \in DOMAIN queue : i < j => Less(queue[i], queue[j]))'
  BY <1>14, <1>15 DEF Less
<1> QED BY <1>1, <1>19, <1>20, <1>21, <1>22 DEF Closest

LEMMA KNNStep ==
    ASSUME NEW side, InSearch(side), Closest(side), knnSearchRecursive
    PROVE  Walk(side)' /\ Closest(side)'
<1>1. Index' = Index /\ (\A i : Distance(i)' = Distance(i)) /\ bound' = bound
  BY SearchTop, SameDistances DEF knnSearchRecursive
<1>2. TreeType /\ query \in Queries /\ Shape(side)
  BY DEF InSearch, Walk
<1>3. ASSUME Left(side)' \subseteq Left(side), UNCHANGED queue,
             \A i \in Left(side) : i \in Left(side)' \/ (Len(queue) = bound /\ queue[bound][1] <= Distance(i))
      PROVE  Closest(side)'
  <2>1. \A i \in Index : \/ i \in Left(side)'
                         \/ \E j \in DOMAIN queue : queue[j][2] = i
                         \/ Len(queue) = bound /\ queue[bound][1] <= Distance(i)
    BY <1>3 DEF Closest
  <2>2. \A j \in DOMAIN queue : queue[j][1] = Distance(queue[j][2]) /\ queue[j][2] \notin Left(side)'
    BY <1>3 DEF Closest
  <2>3. (\A j \in DOMAIN queue : queue[j][1] = Distance(queue[j][2]) /\ queue[j][2] \notin Left(side))'
    BY <1>1, <1>3, <2>2
  <2>4. (\A j, k \in DOMAIN queue : j < k => Less(queue[j], queue[k]))'
    BY <1>3 DEF Closest, Less
  <2> QED BY <1>1, <1>3, <2>1, <2>3, <2>4 DEF Closest
<1>4. CASE AtNull /\ UNCHANGED queue
  <2>1. Walk(side)' /\ Left(side)' = Left(side)
    BY <1>4, WalkAtNull
  <2> QED BY <1>3, <1>4, <2>1
<1>5. ASSUME NearSide, push(<<Distance(Top.node), Top.node>>) PROVE Walk(side)' /\ Closest(side)'
  <2>1. PICK n : n = Top.node
    OBVIOUS
  <2>2. n \in Nodes /\ n \in Left(side) /\ Walk(side)' /\ Left(side)' = Left(side) \ {n}
    BY <1>5, <2>1, WalkNear
  <2>3. n \in Index /\ push(<<Distance(n), n>>)
    BY <1>2, <1>5, <2>1, <2>2 DEF TreeType
  <2> QED BY <1>1, <2>2, <2>3, PushKeeps
<1>6. ASSUME FarSide(Len(queue) < bound \/ PlaneDistance(Top.node) < queue[Len(queue)][1]), UNCHANGED queue
      PROVE  Walk(side)' /\ Closest(side)'
  <2>1. CASE Len(queue) < bound \/ PlaneDistance(Top.node) < queue[Len(queue)][1]
    <3>1. Walk(side)' /\ Left(side)' = Left(side)
      BY <1>6, <2>1, WalkFarEntered DEF FarSide
    <3> QED BY <1>3, <1>6, <3>1
  <2>2. CASE ~(Len(queue) < bound \/ PlaneDistance(Top.node) < queue[Len(queue)][1])
    <3>1. FarSide(FALSE)
      BY <1>6, <2>2 DEF FarSide
    <3>2. /\ Walk(side)' /\ Left(side)' \subseteq Left(side) /\ Top.node \in Nodes
          /\ \A i \in Left(side) : i \in Left(side)' \/ i \in side[<<Top.node, 1 - dir(Top.node)>>]
      BY <3>1, WalkFarSkipped
    <3>3. Len(queue) = bound /\ ~(PlaneDistance(Top.node) < queue[bound][1]) /\ queue[bound][1] \in Nat
      <4>1. Len(queue) \in Nat /\ bound \in Nat \ {0} /\ Len(queue) <= bound /\ ~(Len(queue) < bound)
        BY <2>2 DEF Closest
      <4>2. Len(queue) = bound
        BY <4>1
      <4>3. queue[bound] \in Nat \X Index
        BY <4>1, <4>2 DEF Closest
      <4> QED BY <2>2, <4>2, <4>3
    <3>4. ASSUME NEW i \in Left(side), i \notin Left(side)' PROVE queue[bound][1] <= Distance(i)
      <4>1. PlaneDistance(Top.node) \in Nat /\ PlaneDistance(Top.node) <= Distance(i)
        BY <1>2, <3>2, <3>4, FarAway
      <4>2. Distance(i) \in Nat
        BY <1>2, DistanceType DEF Left
      <4> QED BY <3>3, <4>1, <4>2
    <3> QED BY <1>3, <1>6, <3>2, <3>3, <3>4
  <2> QED BY <2>1, <2>2
<1>7. \/ AtNull /\ UNCHANGED queue
      \/ NearSide /\ push(<<Distance(Top.node), Top.node>>)
      \/ /\ FarSide(Len(queue) < bound \/ PlaneDistance(Top.node) < queue[Len(queue)][1])
         /\ UNCHANGED queue
  BY DEF knnSearchRecursive, Distance
<1> QED BY <1>4, <1>5, <1>6, <1>7

LEMMA KNNResult ==
    ASSUME TreeType, query \in Queries, NEW side, Closest(side), stack = <<>>
    PROVE  /\ Len(queue) = (IF Len(points_) < bound THEN Len(points_) ELSE bound)
           /\ \A i \in DOMAIN queue :
                 queue[i][2] \in DOMAIN points_ /\ queue[i][1] = Distance(queue[i][2])
           /\ \A i, j \in DOMAIN queue : i < j => queue[i][1] <= queue[j][1] /\ queue[i][2] # queue[j][2]
           /\ \A i \in DOMAIN points_ : (\A j \in DOMAIN queue : queue[j][2] # i)
                 => \A j \in DOMAIN queue : queue[j][1] <= Distance(i)
<1>0. PICK L : L = Len(queue)
  OBVIOUS
<1>1. PICK N : N = Len(points_)
  OBVIOUS
<1>2. Left(side) = {}
  BY DEF Left
<1>3. /\ L \in Nat /\ DOMAIN queue = 1..L /\ bound \in Nat \ {0} /\ L <= bound
      /\ N \in Nat /\ Index = 1..N /\ Index \subseteq Nat
  BY <1>0, <1>1, IndexIsNat DEF Closest
<1>4. ASSUME NEW j \in 1..L
      PROVE  /\ queue[j] \in Nat \X Nat /\ queue[j][2] \in Index /\ queue[j][1] = Distance(queue[j][2])
             /\ queue[j][1] \in Nat
  <2>1. queue[j] \in Nat \X Index
    BY <1>0, <1>3 DEF Closest
  <2> QED BY <1>3, <2>1 DEF Closest
<1>5. ASSUME NEW i \in 1..L, NEW j \in 1..L, i < j
      PROVE  queue[i][1] <= queue[j][1] /\ queue[i][2] # queue[j][2]
  <2>1. Less(queue[i], queue[j])
    BY <1>3, <1>5 DEF Closest
  <2>2. queue[i][1] <= queue[j][1]
    BY <1>4, <2>1, LessOrder
  <2>3. queue[i][2] = queue[j][2] => queue[i][1] = queue[j][1]
    BY <1>4
  <2>4. queue[i][1] \in Nat /\ queue[i][2] \in Nat
    BY <1>3, <1>4
  <2> QED BY <2>1, <2>2, <2>3, <2>4 DEF Less
<1>6. ASSUME NEW i \in Index, \A j \in 1..L : queue[j][2] # i
      PROVE  L = bound /\ queue[L][1] <= Distance(i) /\ Distance(i) \in Nat
  BY <1>0, <1>2, <1>3, <1>6, DistanceType DEF Closest
<1>7. ASSUME NEW i \in Index, \A j \in 1..L : queue[j][2] # i, NEW j \in 1..L
      PROVE  queue[j][1] <= Distance(i)
  <2>1. queue[L][1] <= Distance(i) /\ Distance(i) \in Nat
    BY <1>6, <1>7
  <2>2. CASE j = L
    BY <2>1, <2>2
  <2>3. CASE j # L
    <3>1. j < L /\ L \in 1..L
      BY <1>3, <2>3
    <3>2. queue[j][1] <= queue[L][1]
      BY <1>5, <3>1
    <3> QED BY <1>4, <2>1, <3>1, <3>2
  <2> QED BY <2>2, <2>3
<1> DEFINE found == [j \in 1..L |-> queue[j][2]]
<1>8. /\ IsFiniteSet(1..L) /\ Cardinality(1..L) = L
      /\ IsFiniteSet(1..N) /\ Cardinality(1..N) = N
  <2>1. \A m \in Nat : IsFiniteSet(1..m) /\ Cardinality(1..m) = IF 1 > m THEN 0 ELSE m - 1 + 1
    BY FS_Interval
  <2> QED BY <1>3, <2>1
<1>9. found \in Injection(1..L, 1..N)
  <2>1. found \in [1..L -> 1..N]
    BY <1>3, <1>4
  <2>2. \A i, j \in 1..L : found[i] = found[j] => i = j
    BY <1>3, <1>5
  <2> HIDE DEF found
  <2> QED BY <2>1, <2>2 DEF Injection, IsInjective
<1>10. L <= N
  <2>1. Injection(1..L, 1..N) # {}
    BY <1>9
  <2> QED BY <1>8, <2>1, FS_Injection
<1>11. ASSUME L # bound PROVE L = N
  <2>1. \A i \in 1..N : \E j \in 1..L : queue[j][2] = i
    BY <1>3, <1>6, <1>11
  <2>2. found \in Surjection(1..L, 1..N)
    BY <1>9, <2>1 DEF Surjection, Injection
  <2>3. N <= L
    <3>1. Surjection(1..L, 1..N) # {}
      BY <2>2
    <3> QED BY <1>8, <3>1, FS_Surjection
  <2> QED BY <1>3, <1>10, <2>3
<1>12. L = IF N < bound THEN N ELSE bound
  BY <1>3, <1>10, <1>11
<1> QED BY <1>0, <1>1, <1>3, <1>4, <1>5, <1>7, <1>12 DEF Index

-----------------------------------------------------------------------------
\* The invariant: side is the same from the beginning of a search to its end.
Ops == {"none", "build", "insert", "nnSearch", "knnSearch", "radiusSearch"}

Grown(side) ==
    /\ TreeType /\ OneParent /\ Shape(side)
    /\ Placing => Waits
    /\ ~Placing => Nodes = Index

Fresh == guess = 0 /\ minDist = DoubleMax /\ queue = <<>> /\ indices = <<>>

Searched(side) ==
    /\ op = "none" => stack = <<>>
    /\ ~Searching => Fresh
    /\ Searching => Walk(side)
    /\ op = "nnSearch" => Nearest(side)
    /\ op = "knnSearch" => Closest(side)
    /\ op = "radiusSearch" => Inside(side)

IInv == op \in Ops /\ \E side : Grown(side) /\ Searched(side)

LEMMA NoPend == ~Placing \/ stack = <<>> => \A at : Pend(at) = {}
BY DEF Pend

\* What holds of the tree depends on nothing but the tree and what waits.
LEMMA TreeKept ==
    ASSUME NEW side, TreeType, OneParent, Shape(side), UNCHANGED tree, \A at : Pend(at)' = Pend(at)
    PROVE  TreeType' /\ OneParent' /\ Shape(side)' /\ Index' = Index /\ Nodes' = Nodes
<1>1. points_' = points_ /\ node' = node /\ root_' = root_
  BY DEF tree
<1>2. Index' = Index /\ Nodes' = Nodes /\ Slots' = Slots /\ NodeType' = NodeType
  BY <1>1 DEF Index, Nodes, Slots, NodeType
<1>3. \A at : Child(at)' = Child(at)
  BY <1>1 DEF Child
<1>4. TreeType' /\ OneParent'
  BY <1>1, <1>2, <1>3 DEF TreeType, OneParent, NullNode
<1>5. \A n : Ordered(side, n)' <=> Ordered(side, n)
  BY <1>1 DEF Ordered, Coord
<1>6. Shape(side)'
  BY <1>2, <1>3, <1>5 DEF Shape, Apart, Sub, AllSlots, Root, NullNode
<1> QED BY <1>2, <1>4, <1>6

\* A tree without nodes.
Empty ==
    /\ root_ = NullNode /\ node = [n \in {} |-> NullNode]
    /\ points_ \in Seq(Points) /\ Len(points_) <= MaxPoints
    /\ \A at : Pend(at) = IF at = Root THEN Index ELSE {}

Planted == TreeType /\ OneParent /\ Nodes = {} /\ \E side : Shape(side)

LEMMA EmptyTree == Empty => Planted
<1> SUFFICES ASSUME Empty PROVE Planted
  OBVIOUS
<1>1. Nodes = {}
  BY DEF Empty, Nodes
<1>2. TreeType
  BY <1>1 DEF Empty, TreeType, NodeType
<1>3. Slots = {Root} /\ Child(Root) = NullNode
  BY <1>1 DEF Empty, Slots, Child, Nodes
<1>4. PICK side : side = [at \in AllSlots |-> IF at = Root THEN Index ELSE {}]
  OBVIOUS
<1>5. side \in [AllSlots -> SUBSET Index] /\ side[Root] = Index
  BY <1>4 DEF AllSlots
<1>6. Shape(side)
  BY <1>1, <1>3, <1>5 DEF Shape, Sub, Empty
<1> QED BY <1>1, <1>2, <1>3, <1>6 DEF OneParent, Planted

LEMMA InitInv == Init => IInv
<1> SUFFICES ASSUME Init PROVE IInv
  OBVIOUS
<1>1. Index = {} /\ ~Placing /\ ~Searching
  BY DEF Init, Index, Placing, Searching
<1>2. node = [n \in {} |-> NullNode]
  BY DEF Init
<1>3. Empty
  BY <1>1, <1>2, NoPend, KDTreeAssumption DEF Init, Empty
<1>4. TreeType /\ OneParent /\ Nodes = {} /\ \E side : Shape(side)
  BY <1>3, EmptyTree DEF Planted
<1> QED BY <1>1, <1>4 DEF Init, IInv, Grown, Searched, Fresh, Ops, Searching

LEMMA ClearInv == IInv /\ clear => IInv'
<1> SUFFICES ASSUME IInv, clear PROVE IInv'
  OBVIOUS
<1>1. PICK side : Grown(side) /\ Searched(side)
  BY DEF IInv
<1>2. ~Placing /\ ~Searching /\ Fresh /\ stack = <<>>
  BY <1>1 DEF clear, Placing, Searching, Searched
<1>3. Reachable = Nodes
  BY <1>1, <1>2, AllReachable DEF Grown
<1>4. node' = [n \in {} |-> NullNode]
  BY <1>3 DEF clear, Freed, Nodes
<1>5. ~Placing' /\ ~Searching' /\ Fresh' /\ stack' = <<>> /\ op' = "none"
  BY <1>2 DEF clear, Placing, Searching, Fresh, results
<1>6. points_' = <<>> /\ root_' = NullNode /\ Index' = {}
  BY DEF clear, Index
<1>7. \A at : Pend(at)' = {}
  BY <1>5 DEF Pend
<1>8. Empty'
  BY <1>4, <1>6, <1>7, KDTreeAssumption DEF Empty, NullNode
<1>9. Planted'
  BY <1>8, EmptyTree, PTL
<1>10. PICK s : Shape(s)'
  BY <1>9 DEF Planted
<1>11. Grown(s)'
  BY <1>5, <1>6, <1>9, <1>10 DEF Grown, Planted
<1>12. Searched(s)'
  BY <1>5 DEF Searched
<1> QED BY <1>5, <1>11, <1>12 DEF IInv, Ops

LEMMA BuildInv ==
    ASSUME IInv, NEW m \in 0..MaxBuild, NEW points \in [1..m -> Points], build(points) PROVE IInv'
<1>1. PICK side : Grown(side) /\ Searched(side)
  BY DEF IInv
<1>2. ~Placing /\ ~Searching /\ Fresh
  BY <1>1 DEF build, Placing, Searching, Searched
<1>3. Reachable = Nodes
  BY <1>1, <1>2, AllReachable DEF Grown
<1>4. node' = [n \in {} |-> NullNode] /\ Nodes' = {}
  BY <1>3 DEF build, Freed, Nodes
<1>5. op' = "build" /\ Placing' /\ ~Searching' /\ Fresh'
  BY <1>2 DEF build, Placing, Searching, Fresh, results
<1>6. /\ m \in Nat /\ m <= MaxPoints /\ points \in Seq(Points) /\ Len(points) = m /\ DOMAIN points = 1..m
      /\ points_' = points /\ root_' = NullNode /\ Index' = 1..m
  BY KDTreeAssumption DEF build, Index
<1>7. PICK call : call = [indices |-> 1..m, depth |-> 0, at |-> Root]
  OBVIOUS
<1>8. stack' = <<call>> /\ call.indices = 1..m /\ call.at = Root
  BY <1>6, <1>7 DEF build
<1>9. DOMAIN stack' = {1} /\ stack'[1] = call /\ Len(stack') = 1
  BY <1>8
<1>10. \A at : Pend(at)' = IF at = Root THEN Index' ELSE {}
  BY <1>5, <1>6, <1>8, <1>9 DEF Pend
<1>11. Empty'
  BY <1>4, <1>6, <1>10 DEF Empty, NullNode, Root
<1>12. Planted'
  BY <1>11, EmptyTree, PTL
<1>13. PICK s : Shape(s)'
  BY <1>12 DEF Planted
<1>14. call \in PlaceCall'
  <2>1. Root \in Slots'
    BY DEF Slots, Root
  <2> QED BY <1>6, <1>7, <2>1 DEF PlaceCall
<1>15. (Child(Root) = NullNode)'
  BY <1>6 DEF Child, NullNode, Root
<1>16. Waits'
  <2>1. stack' \in Seq(PlaceCall')
    BY <1>8, <1>14
  <2>2. (\A i \in Index : i \in Nodes \/ \E j \in DOMAIN stack : i \in stack[j].indices)'
    BY <1>6, <1>8, <1>9
  <2>3. (\A j \in DOMAIN stack : Child(stack[j].at) = NullNode)'
    BY <1>6, <1>8, <1>9 DEF Child, NullNode, Root
  <2>4. (\A j \in DOMAIN stack : stack[j].indices \cap Nodes = {})'
    BY <1>4
  <2>5. (\A j, k \in DOMAIN stack : j # k => stack[j].at # stack[k].at /\ stack[j].indices \cap stack[k].indices = {})'
    BY <1>9
  <2> QED BY <1>5, <2>1, <2>2, <2>3, <2>4, <2>5 DEF Waits
<1>17. Grown(s)'
  BY <1>5, <1>12, <1>13, <1>16 DEF Grown, Planted
<1>18. Searched(s)'
  BY <1>5 DEF Searched
<1> QED BY <1>5, <1>17, <1>18 DEF IInv, Ops

LEMMA BuildRecursiveInv == IInv /\ buildRecursive => IInv'
<1> SUFFICES ASSUME IInv, buildRecursive PROVE IInv'
  OBVIOUS
<1>1. PICK side : Grown(side) /\ Searched(side)
  BY DEF IInv
<1>2. op = "build" /\ op' = "build" /\ Placing /\ Placing' /\ ~Searching /\ ~Searching' /\ stack # <<>>
  BY DEF buildRecursive, Placing, Searching
<1>3. Fresh /\ Fresh'
  BY <1>1, <1>2 DEF buildRecursive, Searched, Fresh, results
<1>4. TreeType /\ OneParent /\ Shape(side) /\ Waits
  BY <1>1, <1>2 DEF Grown
<1>5. ASSUME NEW s, TreeType', OneParent', Shape(s)', Waits' PROVE IInv'
  <2>1. Grown(s)'
    BY <1>2, <1>5 DEF Grown
  <2>2. Searched(s)'
    BY <1>2, <1>3 DEF Searched
  <2> QED BY <1>2, <2>1, <2>2 DEF IInv, Ops
<1>6. PICK axis : axis = Top.depth % DIM
  OBVIOUS
<1>7. CASE Top.indices = {} /\ Pop /\ UNCHANGED tree
  BY <1>2, <1>4, <1>5, <1>7, BuildReturns
<1>8. CASE \E mid \in Top.indices : \E before \in SUBSET (Top.indices \ {mid}) :
              /\ NthElement(Top.indices, axis, mid, before)
              /\ Attach(Top.at, mid, axis)
              /\ Call([indices |-> Top.indices \ (before \cup {mid}), depth |-> Top.depth + 1, at |-> <<mid, 1>>],
                      [indices |-> before, depth |-> Top.depth + 1, at |-> <<mid, 0>>])
              /\ UNCHANGED points_
  <2>0. PICK mid \in Top.indices : \E before \in SUBSET (Top.indices \ {mid}) :
              /\ NthElement(Top.indices, axis, mid, before)
              /\ Attach(Top.at, mid, axis)
              /\ Call([indices |-> Top.indices \ (before \cup {mid}), depth |-> Top.depth + 1, at |-> <<mid, 1>>],
                      [indices |-> before, depth |-> Top.depth + 1, at |-> <<mid, 0>>])
              /\ UNCHANGED points_
    BY <1>8
  <2>1. PICK before \in SUBSET (Top.indices \ {mid}) :
              /\ NthElement(Top.indices, axis, mid, before)
              /\ Attach(Top.at, mid, axis)
              /\ Call([indices |-> Top.indices \ (before \cup {mid}), depth |-> Top.depth + 1, at |-> <<mid, 1>>],
                      [indices |-> before, depth |-> Top.depth + 1, at |-> <<mid, 0>>])
              /\ UNCHANGED points_
    BY <2>0
  <2>2. PICK depth : depth = Top.depth + 1
    OBVIOUS
  <2>3. depth \in Nat /\ axis \in 0..(DIM - 1)
    <3>1. Top \in PlaceCall
      BY <1>2, <1>4 DEF Waits, Top
    <3>2. Top.depth \in Nat
      BY <3>1 DEF PlaceCall
    <3> QED BY <1>6, <2>2, <3>2, KDTreeAssumption
  <2>4. PICK new : new = [side EXCEPT ![<<mid, 0>>] = before, ![<<mid, 1>>] = Top.indices \ (before \cup {mid})]
    OBVIOUS
  <2>5. Call([indices |-> Top.indices \ (before \cup {mid}), depth |-> depth, at |-> <<mid, 1>>],
             [indices |-> before, depth |-> depth, at |-> <<mid, 0>>])
    BY <2>1, <2>2
  <2>6. TreeType' /\ OneParent' /\ Waits' /\ Shape(new)'
    BY <1>2, <1>4, <2>1, <2>3, <2>4, <2>5, BuildPlaces
  <2> QED BY <1>5, <2>6
<1> QED BY <1>6, <1>7, <1>8 DEF buildRecursive

LEMMA InsertInv == ASSUME IInv, NEW point \in Points, insert(point) PROVE IInv'
<1>1. PICK side : Grown(side) /\ Searched(side)
  BY DEF IInv
<1>2. /\ op = "none" /\ op' = "insert" /\ ~Placing /\ Placing' /\ ~Searching /\ ~Searching'
  BY DEF insert, Placing, Searching
<1>3. Fresh /\ Fresh'
  BY <1>1, <1>2 DEF insert, Searched, Fresh, results
<1>4. TreeType /\ OneParent /\ Shape(side) /\ Nodes = Index
  BY <1>1, <1>2 DEF Grown
<1>5. PICK N : N = Len(points_)
  OBVIOUS
<1>6. PICK idx : idx = N + 1
  OBVIOUS
<1>7. N \in Nat /\ Index = 1..N /\ idx \in Nat \ {0} /\ idx \notin Index
  BY <1>4, <1>5, <1>6, IndexIsNat
<1>8. /\ points_' \in Seq(Points) /\ Len(points_') = idx /\ Len(points_') <= MaxPoints
      /\ Index' = Index \cup {idx} /\ idx \in Index'
      /\ \A i \in Index : points_'[i] = points_[i]
  <2>1. points_ \in Seq(Points) /\ points_' = Append(points_, point) /\ N < MaxPoints
    BY <1>4, <1>5 DEF TreeType, insert
  <2>2. points_' \in Seq(Points) /\ Len(points_') = idx /\ \A i \in 1..N : points_'[i] = points_[i]
    BY <1>5, <1>6, <1>7, <2>1
  <2>3. Index' = 1..idx
    BY <2>2 DEF Index
  <2>4. idx <= MaxPoints
    BY <1>6, <1>7, <2>1, KDTreeAssumption
  <2>5. 1..idx = (1..N) \cup {idx} /\ idx \in 1..idx
    BY <1>6, <1>7
  <2> QED BY <1>7, <2>2, <2>3, <2>4, <2>5
<1>9. node' = node /\ root_' = root_ /\ Nodes' = Nodes /\ Slots' = Slots /\ NodeType' = NodeType
  BY DEF insert, Nodes, Slots, NodeType
<1>10. \A at : Child(at)' = Child(at)
  BY <1>9 DEF Child
<1>11. TreeType' /\ OneParent'
  BY <1>4, <1>8, <1>9, <1>10 DEF TreeType, OneParent, NullNode
<1>12. PICK call : call = [indices |-> {idx}, depth |-> 0, at |-> Root]
  OBVIOUS
<1>13. stack' = <<call>> /\ call.indices = {idx} /\ call.at = Root
  BY <1>5, <1>6, <1>12 DEF insert
<1>14. DOMAIN stack' = {1} /\ stack'[1] = call /\ Len(stack') = 1
  BY <1>13
<1>15. \A at : Pend(at)' = IF at = Root THEN {idx} ELSE {}
  BY <1>2, <1>8, <1>13, <1>14 DEF Pend
<1>16. Waits'
  <2>1. call \in PlaceCall'
    <3>1. Root \in Slots'
      BY DEF Slots, Root
    <3> QED BY <1>8, <1>12, <3>1 DEF PlaceCall
  <2>2. stack' \in Seq(PlaceCall')
    BY <1>13, <2>1
  <2>3. (\A i \in Index : i \in Nodes \/ \E j \in DOMAIN stack : i \in stack[j].indices)'
    BY <1>4, <1>8, <1>9, <1>13, <1>14
  <2>4. (\A j \in DOMAIN stack : stack[j].indices \cap Nodes = {})'
    BY <1>4, <1>7, <1>9, <1>13, <1>14
  <2>5. (\A j, k \in DOMAIN stack : j # k => stack[j].at # stack[k].at /\ stack[j].indices \cap stack[k].indices = {})'
    BY <1>14
  <2>6. (Len(stack) <= 1 /\ \A j \in DOMAIN stack : stack[j].indices = {Len(points_)})'
    BY <1>8, <1>13, <1>14
  <2> QED BY <1>2, <2>2, <2>3, <2>4, <2>5, <2>6 DEF Waits
<1>17. PICK new : new = [side EXCEPT ![Root] = Index']
  OBVIOUS
<1>18. /\ new \in [AllSlots -> SUBSET Index'] /\ new[Root] = Index'
       /\ \A at \in AllSlots : at # Root => new[at] = side[at]
  BY <1>4, <1>8, <1>17 DEF Shape, AllSlots
<1>19. ASSUME NEW n \in Nodes, NEW d \in {0, 1}
       PROVE  n # NullNode /\ <<n, d>> \in AllSlots /\ <<n, d>> # Root /\ new[<<n, d>>] = side[<<n, d>>] /\ side[<<n, d>>] \subseteq Index
  <2>1. n # NullNode /\ <<n, d>> \in AllSlots
    BY <1>4, IndexIsNat, SlotsAreSlots
  <2>2. <<n, d>> # Root
    BY <2>1 DEF Root, NullNode
  <2> QED BY <1>4, <1>18, <2>1, <2>2 DEF Shape
<1>20. \A n \in {NullNode} \cup Nodes : Sub(new, n) = Sub(side, n) /\ Sub(new, n) \subseteq Index
  BY <1>4, <1>19 DEF Sub
<1>21. ASSUME NEW at \in Slots
       PROVE  new[at] = Sub(new, Child(at)) \cup Pend(at)' /\ Sub(new, Child(at)) \cap Pend(at)' = {}
  <2>1. side[at] = Sub(side, Child(at)) /\ at \in AllSlots /\ side[Root] = Index
    BY <1>2, <1>4, NoPend, SlotsAreSlots DEF Shape
  <2>2. Sub(new, Child(at)) = Sub(side, Child(at)) /\ Sub(side, Child(at)) \subseteq Index
    BY <1>4, <1>20, ChildType
  <2>3. CASE at = Root
    BY <1>7, <1>8, <1>15, <1>18, <2>1, <2>2, <2>3
  <2>4. CASE at # Root
    BY <1>15, <1>18, <2>1, <2>2, <2>4
  <2> QED BY <2>3, <2>4
<1>22. ASSUME NEW n \in Nodes PROVE Apart(new, n) /\ Ordered(new, n)'
  <2>1. Apart(side, n) /\ Ordered(side, n)
    BY <1>4 DEF Shape
  <2>2. new[<<n, 0>>] = side[<<n, 0>>] /\ new[<<n, 1>>] = side[<<n, 1>>] /\ side[<<n, 0>>] \subseteq Index /\ side[<<n, 1>>] \subseteq Index
    BY <1>19
  <2>3. node'[n].axis = node[n].axis /\ n \in Index
    BY <1>4, <1>9
  <2>4. Ordered(new, n)'
    BY <1>8, <1>9, <2>1, <2>2, <2>3 DEF Ordered, Coord
  <2> QED BY <2>1, <2>2, <2>4 DEF Apart
<1>23. Shape(new)'
  BY <1>9, <1>10, <1>18, <1>21, <1>22 DEF Shape, Apart, Sub, AllSlots, Root, NullNode
<1>24. Grown(new)'
  BY <1>2, <1>11, <1>16, <1>23 DEF Grown
<1>25. Searched(new)'
  BY <1>2, <1>3 DEF Searched
<1> QED BY <1>2, <1>24, <1>25 DEF IInv, Ops

LEMMA InsertRecursiveInv == IInv /\ insertRecursive => IInv'
<1> SUFFICES ASSUME IInv, insertRecursive PROVE IInv'
  OBVIOUS
<1>1. PICK side : Grown(side) /\ Searched(side)
  BY DEF IInv
<1>2. /\ op = "insert" /\ op' = "insert" /\ Placing /\ Placing' /\ ~Searching /\ ~Searching' /\ stack # <<>>
      /\ points_' = points_
  BY DEF insertRecursive, Placing, Searching
<1>3. Fresh /\ Fresh'
  BY <1>1, <1>2 DEF insertRecursive, Searched, Fresh, results
<1>4. TreeType /\ OneParent /\ Shape(side) /\ Waits
  BY <1>1, <1>2 DEF Grown
<1>5. ASSUME NEW s, TreeType', OneParent', Shape(s)', Waits' PROVE IInv'
  <2>1. Grown(s)'
    BY <1>2, <1>5 DEF Grown
  <2>2. Searched(s)'
    BY <1>2, <1>3 DEF Searched
  <2> QED BY <1>2, <2>1, <2>2 DEF IInv, Ops
<1>6. Top.depth \in Nat
  BY <1>2, <1>4, InsertTop DEF PlaceCall
<1>7. PICK idx : idx = Len(points_)
  OBVIOUS
<1>8. PICK n : n = Child(Top.at)
  OBVIOUS
<1>9. PICK d : d = IF Coord(Len(points_), node[n].axis) < Coord(n, node[n].axis) THEN 0 ELSE 1
  OBVIOUS
<1>10. CASE n = NullNode /\ Attach(Top.at, idx, Top.depth % DIM) /\ Pop
  <2>1. PICK axis : axis = Top.depth % DIM
    OBVIOUS
  <2>2. axis \in 0..(DIM - 1)
    BY <1>6, <2>1, KDTreeAssumption
  <2>3. PICK new : new = [side EXCEPT ![<<idx, 0>>] = {}, ![<<idx, 1>>] = {}]
    OBVIOUS
  <2>4. TreeType' /\ OneParent' /\ Waits' /\ Shape(new)'
    BY <1>2, <1>4, <1>7, <1>8, <1>10, <2>1, <2>2, <2>3, InsertAttaches
  <2> QED BY <1>5, <2>4
<1>11. CASE /\ n # NullNode
            /\ TailCall([indices |-> {Len(points_)}, depth |-> Top.depth + 1, at |-> <<n, d>>])
            /\ UNCHANGED <<root_, node>>
  <2>1. PICK depth : depth = Top.depth + 1
    OBVIOUS
  <2>2. depth \in Nat /\ UNCHANGED tree
    BY <1>2, <1>6, <1>11, <2>1 DEF tree
  <2>3. PICK new : new = [side EXCEPT ![<<n, d>>] = side[<<n, d>>] \cup {Len(points_)}]
    OBVIOUS
  <2>4. TailCall([indices |-> {Len(points_)}, depth |-> depth, at |-> <<n, d>>])
    BY <1>11, <2>1
  <2>5. TreeType' /\ OneParent' /\ Waits' /\ Shape(new)'
    BY <1>2, <1>4, <1>8, <1>9, <1>11, <2>2, <2>3, <2>4, InsertDescends
  <2> QED BY <1>5, <2>5
<1> QED BY <1>7, <1>8, <1>9, <1>10, <1>11 DEF insertRecursive

\* A search begins at the root, with all points before it.
LEMMA BeginInv ==
    ASSUME IInv, NEW search \in {"nnSearch", "knnSearch", "radiusSearch"}, NEW q \in Queries, NEW b \in Nat,
           search = "knnSearch" => b # 0, Begin(search, q, b)
    PROVE  IInv'
<1>1. PICK side : Grown(side) /\ Searched(side)
  BY DEF IInv
<1>2. op = "none" /\ op' = search /\ ~Placing /\ ~Placing' /\ ~Searching /\ Searching' /\ UNCHANGED tree
  BY DEF Begin, Placing, Searching
<1>3. Fresh'
  BY <1>1, <1>2 DEF Begin, Searched, Fresh, results
<1>4. TreeType /\ OneParent /\ Shape(side) /\ Nodes = Index
  BY <1>1, <1>2 DEF Grown
<1>5. (\A at : Pend(at)' = Pend(at)) /\ \A at : Pend(at) = {}
  BY <1>2 DEF Pend
<1>6. TreeType' /\ OneParent' /\ Shape(side)' /\ Index' = Index /\ Nodes' = Nodes
  BY <1>2, <1>4, <1>5, TreeKept
<1>7. Grown(side)'
  BY <1>2, <1>4, <1>6 DEF Grown
<1>8. PICK call : call = Visit(root_)
  OBVIOUS
<1>9. /\ call \in SearchCall' /\ call.pc = "enter" /\ call.node = root_
      /\ stack' = <<call>> /\ query' = q /\ bound' = b
  BY <1>4, <1>6, <1>8 DEF Visit, SearchCall, TreeType, Begin, NullNode
<1>10. DOMAIN stack' = {1} /\ stack'[1] = call /\ stack' \in Seq(SearchCall')
  BY <1>9
<1>11. Region(side, call)' = Index
  <2>1. side[Root] = Sub(side, Child(Root)) \cup Pend(Root) /\ side[Root] = Index
    BY <1>4 DEF Shape, Slots
  <2>2. Child(Root) = root_
    BY DEF Child
  <2>3. Sub(side, root_) = Index
    BY <1>5, <2>1, <2>2
  <2> QED BY <1>9, <2>3 DEF Region, Sub, NullNode
<1>12. Walk(side)'
  <2>1. (\A j, k \in DOMAIN stack : j # k => Region(side, stack[j]) \cap Region(side, stack[k]) = {})'
    BY <1>10
  <2>2. (\A j \in DOMAIN stack : stack[j].pc = "far" => stack[j].node # NullNode)'
    BY <1>9, <1>10
  <2> QED BY <1>9, <1>10, <2>1, <2>2 DEF Walk
<1>13. Left(side)' = Index'
  <2>1. (Left(side) = {i \in Index : \E j \in DOMAIN stack : i \in Region(side, stack[j])})'
    BY DEF Left
  <2>2. (\A i \in Index : \E j \in DOMAIN stack : i \in Region(side, stack[j]))'
    <3>1. 1 \in DOMAIN stack' /\ stack'[1] = call
      BY <1>10
    <3> QED BY <1>6, <1>11, <3>1 DEF Region, Sub, dir, Coord
  <2> QED BY <2>1, <2>2
<1>14. Nearest(side)'
  BY <1>3, <1>13 DEF Nearest, Fresh
<1>15. search = "knnSearch" => Closest(side)'
  <2>1. queue' = <<>>
    BY <1>3 DEF Fresh
  <2>2. DOMAIN queue' = {} /\ Len(queue') = 0 /\ \A S : queue' \in Seq(S)
    BY <2>1
  <2> QED BY <1>9, <1>13, <2>2 DEF Closest
<1>16. Inside(side)'
  <2>1. indices' = <<>>
    BY <1>3 DEF Fresh
  <2>2. DOMAIN indices' = {} /\ \A S : indices' \in Seq(S)
    BY <2>1
  <2> QED BY <1>9, <1>13, <2>2 DEF Inside
<1>17. Searched(side)'
  BY <1>2, <1>12, <1>14, <1>15, <1>16 DEF Searched
<1> QED BY <1>2, <1>7, <1>17 DEF IInv, Ops

\* The tree and its shape stay during a search.
LEMMA SearchGrown ==
    ASSUME NEW side, Grown(side), ~Placing, ~Placing', UNCHANGED tree PROVE Grown(side)'
<1>1. \A at : Pend(at)' = Pend(at)
  BY DEF Pend
<1>2. TreeType /\ OneParent /\ Shape(side) /\ Nodes = Index
  BY DEF Grown
<1>3. TreeType' /\ OneParent' /\ Shape(side)' /\ Index' = Index /\ Nodes' = Nodes
  BY <1>1, <1>2, TreeKept
<1> QED BY <1>2, <1>3 DEF Grown

LEMMA SearchRecursiveInv ==
    IInv /\ (nnSearchRecursive \/ knnSearchRecursive \/ radiusSearchRecursive) => IInv'
<1> SUFFICES ASSUME IInv, nnSearchRecursive \/ knnSearchRecursive \/ radiusSearchRecursive PROVE IInv'
  OBVIOUS
<1>1. PICK side : Grown(side) /\ Searched(side)
  BY DEF IInv
<1>2. /\ op' = op /\ Searching /\ Searching' /\ ~Placing /\ ~Placing' /\ UNCHANGED <<tree, query>>
      /\ UNCHANGED tree /\ stack # <<>>
  BY DEF nnSearchRecursive, knnSearchRecursive, radiusSearchRecursive, Searching, Placing
<1>3. Grown(side)'
  BY <1>1, <1>2, SearchGrown
<1>4. InSearch(side)
  BY <1>1, <1>2 DEF Grown, Searched, InSearch
<1>5. CASE nnSearchRecursive
  <2>1. op = "nnSearch"
    BY <1>5 DEF nnSearchRecursive
  <2>2. Walk(side)' /\ Nearest(side)'
    BY <1>1, <1>4, <1>5, <2>1, NNStep DEF Searched
  <2>3. Searched(side)'
    BY <1>2, <2>1, <2>2 DEF Searched
  <2> QED BY <1>2, <1>3, <2>1, <2>3 DEF IInv, Ops
<1>6. CASE knnSearchRecursive
  <2>1. op = "knnSearch"
    BY <1>6 DEF knnSearchRecursive
  <2>2. Walk(side)' /\ Closest(side)'
    BY <1>1, <1>4, <1>6, <2>1, KNNStep DEF Searched
  <2>3. Searched(side)'
    BY <1>2, <2>1, <2>2 DEF Searched
  <2> QED BY <1>2, <1>3, <2>1, <2>3 DEF IInv, Ops
<1>7. CASE radiusSearchRecursive
  <2>1. op = "radiusSearch"
    BY <1>7 DEF radiusSearchRecursive
  <2>2. Walk(side)' /\ Inside(side)'
    BY <1>1, <1>4, <1>7, <2>1, RadiusStep DEF Searched
  <2>3. Searched(side)'
    BY <1>2, <2>1, <2>2 DEF Searched
  <2> QED BY <1>2, <1>3, <2>1, <2>3 DEF IInv, Ops
<1> QED BY <1>5, <1>6, <1>7

\* When build or insert returns, no point waits.
LEMMA ReturnInv == IInv /\ Return => IInv'
<1> SUFFICES ASSUME IInv, Return PROVE IInv'
  OBVIOUS
<1>1. PICK side : Grown(side) /\ Searched(side)
  BY DEF IInv
<1>2. op' = "none" /\ ~Placing' /\ ~Searching' /\ stack = <<>> /\ stack' = <<>> /\ UNCHANGED tree /\ Fresh'
  BY DEF Return, Placing, Searching, Fresh
<1>3. TreeType /\ OneParent /\ Shape(side)
  BY <1>1 DEF Grown
<1>4. Nodes = Index
  <2>1. DOMAIN stack = {}
    BY <1>2
  <2>2. Placing => Index \subseteq Nodes
    BY <1>1, <2>1 DEF Grown, Waits
  <2> QED BY <1>1, <1>3, <2>2 DEF Grown, TreeType
<1>5. \A at : Pend(at)' = Pend(at)
  BY <1>2 DEF Pend
<1>6. TreeType' /\ OneParent' /\ Shape(side)' /\ Index' = Index /\ Nodes' = Nodes
  BY <1>2, <1>3, <1>5, TreeKept
<1>7. Grown(side)'
  BY <1>2, <1>4, <1>6 DEF Grown
<1>8. Searched(side)'
  BY <1>2 DEF Searched
<1> QED BY <1>2, <1>7, <1>8 DEF IInv, Ops

LEMMA StutterInv == IInv /\ UNCHANGED vars => IInv'
<1> SUFFICES ASSUME IInv, UNCHANGED vars PROVE IInv'
  OBVIOUS
<1>1. PICK side : Grown(side) /\ Searched(side)
  BY DEF IInv
<1>2. /\ root_' = root_ /\ points_' = points_ /\ node' = node /\ op' = op /\ stack' = stack /\ query' = query
      /\ bound' = bound /\ guess' = guess /\ minDist' = minDist /\ queue' = queue /\ indices' = indices
  BY DEF vars, tree, results
<1>3. /\ Placing' = Placing /\ Searching' = Searching /\ Index' = Index /\ Nodes' = Nodes /\ Slots' = Slots
      /\ (\A at : Pend(at)' = Pend(at)) /\ \A at : Child(at)' = Child(at)
  BY <1>2 DEF Placing, Searching, Index, Nodes, Slots, Pend, Child
<1>4. UNCHANGED tree
  BY <1>2 DEF tree
<1>5. TreeType' /\ OneParent' /\ Shape(side)'
  BY <1>1, <1>3, <1>4, TreeKept DEF Grown
<1>6. PlaceCall' = PlaceCall /\ SearchCall' = SearchCall
  BY <1>3 DEF PlaceCall, SearchCall, NullNode
<1>7. Placing => Waits'
  BY <1>1, <1>2, <1>3, <1>6 DEF Grown, Waits
<1>8. Grown(side)'
  BY <1>1, <1>3, <1>5, <1>7 DEF Grown
<1>9. (\A f : Region(side, f)' = Region(side, f)) /\ \A i : Distance(i)' = Distance(i)
  BY <1>2 DEF Region, Sub, dir, Coord, NullNode, Distance
<1>10. Left(side)' = Left(side)
  BY <1>2, <1>3, <1>9 DEF Left
<1>11. Searching => Walk(side)'
  BY <1>1, <1>2, <1>6, <1>9 DEF Searched, Walk, NullNode
<1>12. op = "nnSearch" => Nearest(side)'
  BY <1>1, <1>2, <1>3, <1>9, <1>10 DEF Searched, Nearest
<1>13. op = "knnSearch" => Closest(side)'
  BY <1>1, <1>2, <1>3, <1>9, <1>10 DEF Searched, Closest, Less
<1>14. op = "radiusSearch" => Inside(side)'
  BY <1>1, <1>2, <1>3, <1>9, <1>10 DEF Searched, Inside
<1>15. Searched(side)'
  BY <1>1, <1>2, <1>3, <1>11, <1>12, <1>13, <1>14 DEF Searched, Fresh
<1> QED BY <1>2, <1>8, <1>15 DEF IInv, Ops

-----------------------------------------------------------------------------
\* The invariant holds whatever is built, inserted and asked for.
THEOREM Inductive == Spec => []IInv
<1>1. IInv /\ [Next]_vars => IInv'
  <2> SUFFICES ASSUME IInv, [Next]_vars PROVE IInv'
    OBVIOUS
  <2>1. CASE clear
    BY <2>1, ClearInv
  <2>2. CASE \E n \in 0..MaxBuild : \E points \in [1..n -> Points] : build(points)
    BY <2>2, BuildInv
  <2>3. CASE \E point \in Points : insert(point)
    BY <2>3, InsertInv
  <2>4. CASE \E q \in Queries : nnSearch(q)
    <3>1. PICK q \in Queries : Begin("nnSearch", q, 0)
      BY <2>4 DEF nnSearch
    <3> QED BY <3>1, BeginInv
  <2>5. CASE \E q \in Queries, k \in 1..MaxPoints : knnSearch(q, k)
    <3>1. PICK q \in Queries, k \in 1..MaxPoints : Begin("knnSearch", q, k)
      BY <2>5 DEF knnSearch
    <3>2. k \in Nat /\ k # 0
      BY KDTreeAssumption
    <3> QED BY <3>1, <3>2, BeginInv
  <2>6. CASE \E q \in Queries, radius \in Radii : radiusSearch(q, radius)
    <3>1. PICK q \in Queries, radius \in Radii : Begin("radiusSearch", q, radius)
      BY <2>6 DEF radiusSearch
    <3>2. radius \in Nat
      BY KDTreeAssumption
    <3> QED BY <3>1, <3>2, BeginInv
  <2>7. CASE buildRecursive
    BY <2>7, BuildRecursiveInv
  <2>8. CASE insertRecursive
    BY <2>8, InsertRecursiveInv
  <2>9. CASE nnSearchRecursive \/ knnSearchRecursive \/ radiusSearchRecursive
    BY <2>9, SearchRecursiveInv
  <2>10. CASE Return
    BY <2>10, ReturnInv
  <2>11. CASE UNCHANGED vars
    BY <2>11, StutterInv
  <2> QED BY <2>1, <2>2, <2>3, <2>4, <2>5, <2>6, <2>7, <2>8, <2>9, <2>10, <2>11 DEF Next
<1> QED BY <1>1, InitInv, PTL DEF Spec

\* Every point has one node in the tree, a walk from root_ meets each, and
\* each has one parent, after any sequence of builds and insertions.
THEOREM EveryPointIsIndexedOnce == Spec => []IndexedOnce
<1>1. IInv => IndexedOnce
  <2> SUFFICES ASSUME IInv, op \notin {"build", "insert"}
               PROVE  /\ points_ \in Seq(Points) /\ Len(points_) <= MaxPoints
                      /\ DOMAIN node = DOMAIN points_ /\ Reachable = DOMAIN node
                      /\ \A a, b \in Slots : Child(a) = Child(b) /\ Child(a) # NullNode => a = b
    BY DEF IndexedOnce
  <2>1. PICK side : Grown(side)
    BY DEF IInv
  <2>2. ~Placing
    BY DEF Placing
  <2>3. Reachable = Nodes
    BY <2>1, <2>2, AllReachable DEF Grown
  <2> QED BY <2>1, <2>2, <2>3 DEF Grown, TreeType, OneParent, Nodes, Index
<1> QED BY <1>1, Inductive, PTL

\* validate never rejects a tree that build and insert have made.
THEOREM TreesAreValid == Spec => []AlwaysValid
<1>1. IInv => AlwaysValid
  <2> SUFFICES ASSUME IInv, op \notin {"build", "insert"}, NEW n \in Reachable,
                      node[n].next[0] # NullNode, node[n].next[1] # NullNode
               PROVE  /\ Coord(node[n].next[0], node[n].axis) <= Coord(n, node[n].axis)
                      /\ Coord(n, node[n].axis) <= Coord(node[n].next[1], node[n].axis)
    BY DEF AlwaysValid, validate
  <2>1. PICK side : Grown(side)
    BY DEF IInv
  <2>2. TreeType /\ Shape(side) /\ \A at : Pend(at) = {}
    BY <2>1, NoPend DEF Grown, Placing
  <2>3. n \in Nodes
    BY DEF Reachable, Nodes
  <2>4. ASSUME NEW d \in {0, 1}, node[n].next[d] # NullNode PROVE node[n].next[d] \in side[<<n, d>>]
    <3>1. <<n, d>> \in Slots /\ Child(<<n, d>>) = node[n].next[d]
      BY <2>2, <2>3, ChildOfNode
    <3>2. side[<<n, d>>] = Sub(side, node[n].next[d])
      BY <2>2, <3>1 DEF Shape
    <3> QED BY <2>4, <3>2 DEF Sub
  <2>5. Ordered(side, n)
    BY <2>2, <2>3 DEF Shape
  <2> QED BY <2>4, <2>5 DEF Ordered
<1> QED BY <1>1, Inductive, PTL

\* nnSearch returns a nearest point: no side of a plane that is skipped
\* holds a nearer one.
THEOREM NearestIsFound == Spec => []NearestIsNearest
<1>1. IInv => NearestIsNearest
  <2> SUFFICES ASSUME IInv, op = "nnSearch", stack = <<>>, points_ # <<>>
               PROVE  /\ guess \in DOMAIN points_ /\ minDist = Distance(guess)
                      /\ \A i \in DOMAIN points_ : minDist <= Distance(i)
    BY DEF NearestIsNearest, Returns
  <2>1. PICK side : Grown(side) /\ Searched(side)
    BY DEF IInv
  <2>2. TreeType /\ query \in Queries /\ Nearest(side)
    BY <2>1 DEF Grown, Searched, Searching, Walk
  <2> QED BY <2>2, NNResult
<1> QED BY <1>1, Inductive, PTL

\* knnSearch returns min(k, size) points in order, and nothing nearer is left.
THEOREM KNearestAreFound == Spec => []KNearest
<1>1. IInv => KNearest
  <2> SUFFICES ASSUME IInv, op = "knnSearch", stack = <<>>
               PROVE  /\ Len(queue) = (IF Len(points_) < bound THEN Len(points_) ELSE bound)
                      /\ \A i \in DOMAIN queue :
                            queue[i][2] \in DOMAIN points_ /\ queue[i][1] = Distance(queue[i][2])
                      /\ \A i, j \in DOMAIN queue : i < j => queue[i][1] <= queue[j][1] /\ queue[i][2] # queue[j][2]
                      /\ \A i \in DOMAIN points_ : (\A j \in DOMAIN queue : queue[j][2] # i)
                            => \A j \in DOMAIN queue : queue[j][1] <= Distance(i)
    BY DEF KNearest, Returns
  <2>1. PICK side : Grown(side) /\ Searched(side)
    BY DEF IInv
  <2>2. TreeType /\ query \in Queries /\ Closest(side)
    BY <2>1 DEF Grown, Searched, Searching, Walk
  <2> QED BY <2>2, KNNResult
<1> QED BY <1>1, Inductive, PTL

\* radiusSearch returns the points inside the circle, each once.
THEOREM RadiusIsExact == Spec => []WithinRadius
<1>1. IInv => WithinRadius
  <2> SUFFICES ASSUME IInv, op = "radiusSearch", stack = <<>>
               PROVE  /\ {indices[j] : j \in DOMAIN indices} = {i \in DOMAIN points_ : Distance(i) < bound}
                      /\ \A i, j \in DOMAIN indices : i # j => indices[i] # indices[j]
    BY DEF WithinRadius, Returns
  <2>1. PICK side : Grown(side) /\ Searched(side)
    BY DEF IInv
  <2>2. Inside(side)
    BY <2>1 DEF Searched
  <2> QED BY <2>2, RadiusResult
<1> QED BY <1>1, Inductive, PTL
=============================================================================
