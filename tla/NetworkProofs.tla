---------------------------- MODULE NetworkProofs ----------------------------
(***************************************************************************)
(* Proofs about what travels between the host, the base station and the    *)
(* robots: the messages (Messages, with nanopb's encoder and decoder) and  *)
(* the clocks and slots of the network cycle (Timing).                     *)
(*                                                                         *)
(* The first part shows, for every structure of the two robot messages,    *)
(* what the encoder writes, what the decoder makes of it whole, cut off    *)
(* or mixed with fields it does not know, and carries that through the     *)
(* steps of the specification.  The second part is about times modulo      *)
(* 2^32.                                                                   *)
(***************************************************************************)
EXTENDS Messages, Timing, NaturalsInduction, WellFoundedInduction, SequenceTheorems, TLAPS

-----------------------------------------------------------------------------
\* Induction as a least counterexample, and what a loop of While ends with.

\* A set of numbers has a least one: every induction below is a least counterexample.
LEMMA Least ==
    ASSUME NEW T \in SUBSET Nat, T # {}
    PROVE  \E x \in T : \A y \in T : x <= y
<1>1. IsWellFoundedOn(OpToRel(<, Nat), Nat)
  BY NatLessThanWellFounded
<1>2. PICK x \in T : \A y \in T : ~ (<<y, x>> \in OpToRel(<, Nat))
  BY <1>1, WFMin
<1>3. \A y \in T : ~(y < x)
  BY <1>2 DEF OpToRel
<1> QED BY <1>3

\* What holds first and is kept by every step holds up to m.
LEMMA Induction ==
    ASSUME NEW m \in Nat, NEW Good, 0 \in Good, \A n \in 1..m : n - 1 \in Good => n \in Good
    PROVE  \A n \in 0..m : n \in Good
<1> DEFINE T == {n \in 0..m : n \notin Good}
<1> SUFFICES ASSUME T # {} PROVE FALSE
  OBVIOUS
<1>1. PICK x \in T : \A y \in T : x <= y
  <2>1. T \in SUBSET Nat
    OBVIOUS
  <2> HIDE DEF T
  <2> QED BY <2>1, Least
<1>2. x \in 1..m /\ x - 1 \in 0..m
  OBVIOUS
<1>3. x - 1 \in T
  BY <1>2
<1> QED BY <1>1, <1>2, <1>3

\* A function defined by recursion on its argument, with values in S, exists.
Steps(S, F, x, m, g) ==
    /\ g \in [0..m -> S]
    /\ g[0] = x
    /\ \A n \in 1..m : g[n] = F[n][g[n - 1]]

\* It is built up to the least number for which there is none.
LEMMA StepsExist ==
    ASSUME NEW S, NEW m \in Nat, NEW F \in [1..m -> [S -> S]], NEW x \in S
    PROVE  \E g : Steps(S, F, x, m, g)
<1> DEFINE Good == {n \in 0..m : \E g : Steps(S, F, x, n, g)}
<1>1. 0 \in Good
  <2>1. Steps(S, F, x, 0, [i \in 0..0 |-> x])
    BY DEF Steps
  <2> QED BY <2>1
<1>2. ASSUME NEW n \in 1..m, n - 1 \in Good PROVE n \in Good
  <2>1. PICK g : Steps(S, F, x, n - 1, g)
    BY <1>2
  <2> DEFINE h == [i \in 0..n |-> IF i = n THEN F[n][g[n - 1]] ELSE g[i]]
  <2>2. g \in [0..(n - 1) -> S] /\ g[0] = x /\ \A i \in 1..(n - 1) : g[i] = F[i][g[i - 1]]
    BY <2>1 DEF Steps
  <2>3. \A i \in 0..n : i # n => i \in 0..(n - 1)
    OBVIOUS
  <2>4. n - 1 \in 0..(n - 1)
    OBVIOUS
  <2>5. h \in [0..n -> S]
    <3>1. F[n] \in [S -> S]
      OBVIOUS
    <3> QED BY <2>2, <2>3, <2>4, <3>1
  <2>6. h[0] = x
    BY <2>2
  <2>7. ASSUME NEW i \in 1..n PROVE h[i] = F[i][h[i - 1]]
    <3>1. i \in 0..n /\ i - 1 \in 0..n /\ i - 1 # n
      OBVIOUS
    <3>2. CASE i = n
      BY <3>1, <3>2
    <3>3. CASE i # n
      <4>1. i \in 1..(n - 1)
        BY <3>3
      <4> QED BY <2>2, <3>1, <3>3, <4>1
    <3> QED BY <3>2, <3>3
  <2>8. Steps(S, F, x, n, h)
    <3> HIDE DEF h
    <3> QED BY <2>5, <2>6, <2>7 DEF Steps
  <2> QED BY <2>8
<1> HIDE DEF Good
<1>3. \A n \in 0..m : n \in Good
  BY <1>1, <1>2, Induction
<1> QED BY <1>3 DEF Good

\* The rounds of a loop whose states are in S.
Rounds(S, F, x, m, g) ==
    /\ g \in [0..m -> S]
    /\ g[0] = x
    /\ \A n \in 1..m : g[n] = F[g[n - 1]]

\* The same when every step is the same function.
LEMMA RoundsExist ==
    ASSUME NEW S, NEW F \in [S -> S], NEW x \in S, NEW m \in Nat
    PROVE  \E g : Rounds(S, F, x, m, g)
<1> DEFINE E == [n \in 1..m |-> F]
<1>1. E \in [1..m -> [S -> S]] /\ \A n \in 1..m : E[n] = F
  OBVIOUS
<1> HIDE DEF E
<1>2. PICK g : Steps(S, E, x, m, g)
  BY <1>1, StepsExist
<1>3. Rounds(S, F, x, m, g)
  BY <1>1, <1>2 DEF Rounds, Steps
<1> QED BY <1>3

\* Induction for a set that a sequence of states does not leave.
LEMMA StaysIn ==
    ASSUME NEW m \in Nat, NEW S, NEW g, g[0] \in S, \A n \in 1..m : g[n - 1] \in S => g[n] \in S
    PROVE  \A n \in 0..m : g[n] \in S
<1> DEFINE Good == {n \in Nat : g[n] \in S}
<1>1. 0 \in Good /\ \A n \in 1..m : n - 1 \in Good => n \in Good
  OBVIOUS
<1> HIDE DEF Good
<1>2. \A n \in 0..m : n \in Good
  BY <1>1, Induction
<1> QED BY <1>2 DEF Good
\* A loop that has ended stays as it is.
LEMMA Settles ==
    ASSUME NEW m \in Nat, NEW g, NEW k \in 0..m, \A n \in 1..m : g[n - 1] = g[k] => g[n] = g[k]
    PROVE  g[m] = g[k]
<1> DEFINE Good == {n \in Nat : n >= k => g[n] = g[k]}
<1>1. 0 \in Good
  OBVIOUS
<1>2. ASSUME NEW n \in 1..m, n - 1 \in Good PROVE n \in Good
  <2>1. CASE n - 1 >= k
    BY <1>2, <2>1
  <2>2. CASE ~(n - 1 >= k)
    <3>1. n >= k => n = k
      BY <2>2
    <3> QED BY <3>1
  <2> QED BY <2>1, <2>2
<1> HIDE DEF Good
<1>3. \A n \in 0..m : n \in Good
  BY <1>1, <1>2, Induction
<1>4. m \in Good /\ m >= k
  BY <1>3
<1> QED BY <1>4 DEF Good

-----------------------------------------------------------------------------
\* Streams: the state of a pb_istream_t, and what reading a byte of it does.

Stream == {s \in [buf : Seq(Byte), pos : Nat, bytes_left : Nat] : s.pos + s.bytes_left <= Len(s.buf)}

\* What being a stream says, field by field.
LEMMA StreamType ==
    ASSUME NEW s \in Stream
    PROVE  /\ s.buf \in Seq(Byte) /\ s.pos \in Nat /\ s.bytes_left \in Nat
           /\ s.pos + s.bytes_left <= Len(s.buf)
           /\ s = [buf |-> s.buf, pos |-> s.pos, bytes_left |-> s.bytes_left]
           /\ \A i \in 1..s.bytes_left : s.buf[s.pos + i] \in Byte
<1>1. /\ s.buf \in Seq(Byte) /\ s.pos \in Nat /\ s.bytes_left \in Nat
      /\ s.pos + s.bytes_left <= Len(s.buf)
      /\ s = [buf |-> s.buf, pos |-> s.pos, bytes_left |-> s.bytes_left]
  BY DEF Stream
<1>2. \A i \in 1..s.bytes_left : s.pos + i \in 1..Len(s.buf)
  BY <1>1
<1> QED BY <1>1, <1>2

\* Reading k bytes leaves a stream behind.
LEMMA AdvanceType ==
    ASSUME NEW s \in Stream, NEW k \in 0..s.bytes_left
    PROVE  /\ Advance(s, k) \in Stream
           /\ Advance(s, k) = [buf |-> s.buf, pos |-> s.pos + k, bytes_left |-> s.bytes_left - k]
<1>1. Advance(s, k) = [buf |-> s.buf, pos |-> s.pos + k, bytes_left |-> s.bytes_left - k]
  BY DEF Advance
<1>2. s.pos + k \in Nat /\ s.bytes_left - k \in Nat /\ (s.pos + k) + (s.bytes_left - k) <= Len(s.buf)
  BY StreamType
<1> QED BY <1>1, <1>2, StreamType DEF Stream

\* pb_readbyte fails at the end, and takes one byte otherwise.
LEMMA ReadByte ==
    ASSUME NEW s \in Stream
    PROVE  /\ s.bytes_left = 0 => pb_readbyte(s) = Error
           /\ s.bytes_left # 0 => /\ pb_readbyte(s) = Done(Advance(s, 1), s.buf[s.pos + 1])
                                  /\ s.buf[s.pos + 1] \in Byte
BY StreamType DEF pb_readbyte

\* A shift keeps the width.
LEMMA ShlType == ASSUME NEW x \in SUBSET Nat, NEW n \in Nat, NEW w \in Nat PROVE Shl(x, n, w) \in SUBSET (0..(w - 1))
BY DEF Shl

\* The states of the loops of the varint decoders.
VarintState == [ok : BOOLEAN, byte : Byte, s : Stream, bitpos : Nat, v : SUBSET (0..63)]

\* A round of the loop of pb_decode_varint keeps the types.
LEMMA VarintRoundType ==
    ASSUME NEW l \in VarintState
    PROVE  VarintRound(l) \in VarintState
<1> DEFINE b == l.s.buf[l.s.pos + 1]
<1>1. l.s \in Stream /\ l.bitpos \in Nat /\ l.v \in SUBSET (0..63)
  BY DEF VarintState
<1>2. Failed(l) \in VarintState
  BY DEF Failed, VarintState
<1>3. CASE l.s.bytes_left = 0
  BY <1>1, <1>2, <1>3, ReadByte DEF VarintRound, Error
<1>4. CASE l.s.bytes_left # 0
  <2>1. pb_readbyte(l.s) = Done(Advance(l.s, 1), b) /\ b \in Byte
    BY <1>1, <1>4, ReadByte
  <2>2. Advance(l.s, 1) \in Stream
    <3>1. 1 \in 0..l.s.bytes_left
      BY <1>1, <1>4, StreamType
    <3> QED BY <1>1, <3>1, AdvanceType
  <2>3. Shl(b \cap 0..6, l.bitpos, 64) \in SUBSET (0..63)
    BY <1>1, ShlType
  <2> HIDE DEF b
  <2>4. [ok |-> TRUE, byte |-> b, s |-> Advance(l.s, 1), bitpos |-> l.bitpos + 7,
          v |-> l.v \cup Shl(b \cap 0..6, l.bitpos, 64)] \in VarintState
    <3>1. l.bitpos + 7 \in Nat /\ l.v \cup Shl(b \cap 0..6, l.bitpos, 64) \in SUBSET (0..63)
      BY <1>1, <2>3
    <3> QED BY <2>1, <2>2, <3>1 DEF VarintState
  <2> QED BY <1>2, <2>1, <2>4 DEF VarintRound, Done
<1> QED BY <1>3, <1>4

VarintStep(l) == IF More(l) THEN VarintRound(l) ELSE l
VarintFirst(s) == [ok |-> TRUE, byte |-> {7}, s |-> s, bitpos |-> 0, v |-> {}]

\* pb_decode_varint is ten rounds of its loop: the fuel of While is enough.
LEMMA VarintLoop ==
    ASSUME NEW s \in Stream
    PROVE  \E g \in [0..10 -> VarintState] :
              /\ g[0] = VarintFirst(s)
              /\ \A n \in 1..10 : g[n] = VarintStep(g[n - 1])
              /\ pb_decode_varint(s) = Result(g[10])
<1> DEFINE F == [l \in VarintState |-> VarintStep(l)]
           D(g) == [n \in 0..10 |-> IF n = 0 THEN VarintFirst(s) ELSE VarintStep(g[n - 1])]
           c == CHOOSE g : g = D(g)
<1>1. F \in [VarintState -> VarintState]
  BY VarintRoundType DEF VarintStep
<1>2. VarintFirst(s) \in VarintState
  BY DEF VarintFirst, VarintState, Byte
<1>3. PICK g : Rounds(VarintState, F, VarintFirst(s), 10, g)
  <2> HIDE DEF F
  <2> QED BY <1>1, <1>2, RoundsExist
<1>4. \A n \in 1..10 : g[n] = VarintStep(g[n - 1])
  <2>1. \A n \in 1..10 : n - 1 \in 0..10
    OBVIOUS
  <2> QED BY <1>3, <2>1 DEF Rounds
<1>5. g = D(g)
  BY <1>3, <1>4 DEF Rounds
<1>6. c = D(c)
  <2> HIDE DEF D
  <2> QED BY <1>5
<1> HIDE DEF c
<1>7. c[0] = VarintFirst(s) /\ \A n \in 1..10 : c[n] = VarintStep(c[n - 1])
  BY <1>6
<1>8. \A n \in 0..10 : c[n] \in VarintState
  <2>1. \A n \in 1..10 : c[n - 1] \in VarintState => c[n] \in VarintState
    BY <1>7, VarintRoundType DEF VarintStep
  <2> QED BY <1>2, <1>7, <2>1, StaysIn
<1>9. c \in [0..10 -> VarintState]
  BY <1>6, <1>8
<1>10. pb_decode_varint(s) = Result(c[10])
  BY DEF pb_decode_varint, While, VarintFirst, VarintStep, c
<1> QED BY <1>7, <1>9, <1>10

At(s, i) == s.buf[s.pos + i]

\* The first k bytes say that more follow; the k-th is the first that does not.
Runs(s, k) == k \in 0..s.bytes_left /\ \A i \in 1..k : 7 \in At(s, i)
Ends(s, k) == k \in 1..s.bytes_left /\ 7 \notin At(s, k) /\ \A i \in 1..(k - 1) : 7 \in At(s, i)

\* The value of the first k groups of seven bits.
Value(s, k, w) == UNION {Shl(At(s, i) \cap 0..6, 7 * (i - 1), w) : i \in 1..k}

\* No group adds nothing,
LEMMA ValueZero == ASSUME NEW s, NEW w PROVE Value(s, 0, w) = {}
BY DEF Value

\* and the next group is added seven bits further up.
LEMMA ValueNext ==
    ASSUME NEW s, NEW w \in Nat, NEW k \in Nat
    PROVE  Value(s, k + 1, w) = Value(s, k, w) \cup Shl(At(s, k + 1) \cap 0..6, 7 * k, w)
<1>2. 1..(k + 1) = (1..k) \cup {k + 1} /\ 7 * ((k + 1) - 1) = 7 * k
  OBVIOUS
<1>3. Value(s, k + 1, w) = Value(s, k, w) \cup Shl(At(s, k + 1) \cap 0..6, 7 * ((k + 1) - 1), w)
  BY <1>2 DEF Value
<1> QED BY <1>2, <1>3

\* Reading nothing.
LEMMA AdvanceZero == ASSUME NEW s \in Stream PROVE Advance(s, 0) = s
<1>1. s.bytes_left \in Nat /\ s.pos \in Nat /\ s = [buf |-> s.buf, pos |-> s.pos, bytes_left |-> s.bytes_left]
  BY StreamType
<1> QED BY <1>1 DEF Advance

\* Reading one more byte behind k others.
LEMMA AdvanceMore ==
    ASSUME NEW s \in Stream, NEW k \in Nat, k < s.bytes_left
    PROVE  /\ Advance(s, k) \in Stream /\ Advance(s, k).bytes_left # 0
           /\ Advance(s, k).buf[Advance(s, k).pos + 1] = At(s, k + 1)
           /\ Advance(Advance(s, k), 1) = Advance(s, k + 1)
           /\ At(s, k + 1) \in Byte
<1>0. s.bytes_left \in Nat /\ s.pos \in Nat /\ s = [buf |-> s.buf, pos |-> s.pos, bytes_left |-> s.bytes_left]
  BY StreamType
<1>1. k \in 0..s.bytes_left /\ k + 1 \in 1..s.bytes_left
  BY <1>0
<1>2. Advance(s, k) \in Stream
  BY <1>1, AdvanceType
<1>4. (s.pos + k) + 1 = s.pos + (k + 1) /\ (s.bytes_left - k) - 1 = s.bytes_left - (k + 1) /\ s.bytes_left - k # 0
  BY <1>0
<1> QED BY <1>1, <1>2, <1>4, StreamType DEF Advance, At

\* Either every byte that is left says that more follow, or there is a first that does not.
LEMMA FirstEnd ==
    ASSUME NEW s \in Stream
    PROVE  Runs(s, s.bytes_left) \/ \E k \in 1..s.bytes_left : Ends(s, k)
<1> DEFINE T == {i \in 1..s.bytes_left : 7 \notin At(s, i)}
<1>1. CASE T = {}
  BY <1>1, StreamType DEF Runs
<1>2. CASE T # {}
  <2>1. T \in SUBSET Nat
    OBVIOUS
  <2>2. PICK k \in T : \A y \in T : k <= y
    <3> HIDE DEF T
    <3> QED BY <1>2, <2>1, Least
  <2>3. ASSUME NEW i \in 1..(k - 1) PROVE 7 \in At(s, i)
    <3>1. i \in 1..s.bytes_left /\ ~(k <= i)
      BY StreamType
    <3> QED BY <2>2, <3>1
  <2> QED BY <2>3 DEF Ends
<1> QED BY <1>1, <1>2

-----------------------------------------------------------------------------
\* What a state of the loop in pb_decode_varint is after n bytes.
LastByte(s, n) == IF n = 0 THEN {7} ELSE At(s, n)
VarintAfter(s, n) ==
    [ok |-> TRUE, byte |-> LastByte(s, n), s |-> Advance(s, n), bitpos |-> 7 * n, v |-> Value(s, n, 64)]

\* Reading a byte behind the first n.
LEMMA ReadNext ==
    ASSUME NEW s \in Stream, NEW n \in Nat, n < s.bytes_left
    PROVE  pb_readbyte(Advance(s, n)) = Done(Advance(s, n + 1), At(s, n + 1))
<1> DEFINE t == Advance(s, n)
<1>1. t \in Stream /\ t.bytes_left # 0 /\ t.buf[t.pos + 1] = At(s, n + 1) /\ Advance(t, 1) = Advance(s, n + 1)
  BY AdvanceMore
<1> HIDE DEF t
<1>2. pb_readbyte(t) = Done(Advance(t, 1), t.buf[t.pos + 1])
  BY <1>1, ReadByte
<1> QED BY <1>1, <1>2 DEF t

\* One round, behind n bytes: the tenth byte may have one bit only.
LEMMA VarintByte ==
    ASSUME NEW s \in Stream, NEW n \in Nat, n < s.bytes_left, 7 \in LastByte(s, n),
           NEW l, l = VarintAfter(s, n)
    PROVE  VarintStep(l) = IF n >= 9 /\ At(s, n + 1) \cap 1..7 # {} THEN Failed(l) ELSE VarintAfter(s, n + 1)
<1> DEFINE r == pb_readbyte(l.s)
<1>1. l.ok /\ 7 \in l.byte /\ l.s = Advance(s, n) /\ l.bitpos = 7 * n /\ l.v = Value(s, n, 64)
  BY DEF VarintAfter
<1>2. r.ok /\ r.s = Advance(s, n + 1) /\ r.v = At(s, n + 1)
  BY <1>1, ReadNext DEF Done
<1>3. 7 * n + 7 = 7 * (n + 1) /\ (7 * n >= 63 <=> n >= 9) /\ LastByte(s, n + 1) = At(s, n + 1)
  BY DEF LastByte
<1> HIDE DEF r
<1>4. VarintRound(l) = IF l.bitpos >= 63 /\ r.v \cap 1..7 # {} THEN Failed(l)
                       ELSE [ok |-> TRUE, byte |-> r.v, s |-> r.s, bitpos |-> l.bitpos + 7,
                             v |-> l.v \cup Shl(r.v \cap 0..6, l.bitpos, 64)]
  BY <1>2 DEF VarintRound, r
<1>5. Value(s, n + 1, 64) = Value(s, n, 64) \cup Shl(At(s, n + 1) \cap 0..6, 7 * n, 64)
  BY ValueNext
<1>6. VarintStep(l) = VarintRound(l)
  BY <1>1 DEF VarintStep, More
<1> QED BY <1>1, <1>2, <1>3, <1>4, <1>5, <1>6 DEF VarintAfter

\* As long as more bytes follow, the state of the loop is VarintAfter.
LEMMA VarintRuns ==
    ASSUME NEW s \in Stream, NEW g, g[0] = VarintFirst(s), \A n \in 1..10 : g[n] = VarintStep(g[n - 1]),
           NEW k \in 0..9, Runs(s, k)
    PROVE  g[k] = VarintAfter(s, k)
<1> DEFINE Good == {n \in 0..k : g[n] = VarintAfter(s, n)}
<1>1. 0 \in Good
  <2>1. Advance(s, 0) = s /\ Value(s, 0, 64) = {} /\ 7 * 0 = 0 /\ LastByte(s, 0) = {7}
    BY AdvanceZero, ValueZero DEF LastByte
  <2>2. VarintAfter(s, 0) = VarintFirst(s)
    BY <2>1 DEF VarintAfter, VarintFirst
  <2> QED BY <2>2
<1>2. ASSUME NEW n \in 1..k, n - 1 \in Good PROVE n \in Good
  <2>1. n - 1 < s.bytes_left /\ n - 1 \in Nat /\ ~(n - 1 >= 9) /\ (n - 1) + 1 = n
          /\ 7 \in LastByte(s, n - 1)
    <3>1. k \in Nat /\ s.bytes_left \in Nat /\ k <= s.bytes_left /\ k <= 9
      BY StreamType DEF Runs
    <3>2. n - 1 < s.bytes_left /\ n - 1 \in Nat /\ ~(n - 1 >= 9) /\ (n - 1) + 1 = n
      BY <3>1
    <3>3. CASE n - 1 = 0
      BY <3>2, <3>3 DEF LastByte
    <3>4. CASE n - 1 # 0
      <4>1. n - 1 \in 1..k
        BY <3>1, <3>4
      <4>2. 7 \in At(s, n - 1)
        BY <4>1 DEF Runs
      <4> QED BY <3>2, <3>4, <4>2 DEF LastByte
    <3> QED BY <3>2, <3>3, <3>4
  <2>2. VarintStep(VarintAfter(s, n - 1)) = VarintAfter(s, n)
    BY <2>1, VarintByte
  <2>3. g[n] = VarintStep(g[n - 1])
    BY <2>1
  <2> QED BY <1>2, <2>2, <2>3
<1> HIDE DEF Good
<1>3. \A n \in 0..k : n \in Good
  BY <1>1, <1>2, Induction
<1>4. k \in Good
  BY <1>3
<1> QED BY <1>4 DEF Good

\* The last byte of a run says that more follow.
LEMMA RunsLast == ASSUME NEW s, NEW k, Runs(s, k) PROVE 7 \in LastByte(s, k)
BY DEF Runs, LastByte

\* Ten bytes at most, and of the tenth only one bit.
Fits64(s, k) == Ends(s, k) /\ k <= 10 /\ (k = 10 => At(s, k) \cap 1..7 = {})

\* What pb_decode_varint returns for every stream.
LEMMA DecodeVarint ==
    ASSUME NEW s \in Stream
    PROVE  /\ \A k : Fits64(s, k) => pb_decode_varint(s) = Done(Advance(s, k), Value(s, k, 64))
           /\ (\A k : ~Fits64(s, k)) => pb_decode_varint(s) = Error
<1>1. PICK g \in [0..10 -> VarintState] :
              /\ g[0] = VarintFirst(s)
              /\ \A n \in 1..10 : g[n] = VarintStep(g[n - 1])
              /\ pb_decode_varint(s) = Result(g[10])
  BY VarintLoop
<1>2. ASSUME NEW k \in 0..10, ~More(g[k]) PROVE g[10] = g[k]
  <2>1. \A n \in 1..10 : g[n - 1] = g[k] => g[n] = g[k]
    BY <1>1, <1>2 DEF VarintStep
  <2> QED BY <2>1, Settles
<1>3. s.bytes_left \in Nat
  BY StreamType
<1>4. ASSUME NEW k, Fits64(s, k) PROVE pb_decode_varint(s) = Done(Advance(s, k), Value(s, k, 64))
  <2>1. k \in 1..10 /\ k - 1 \in 0..9 /\ Runs(s, k - 1) /\ k - 1 < s.bytes_left /\ (k - 1) + 1 = k /\ 7 \notin At(s, k)
    BY <1>3, <1>4 DEF Fits64, Ends, Runs
  <2>2. g[k - 1] = VarintAfter(s, k - 1)
    BY <1>1, <2>1, VarintRuns
  <2>3. ~(k - 1 >= 9 /\ At(s, k) \cap 1..7 # {})
    BY <1>4, <2>1 DEF Fits64
  <2>4. g[k] = VarintAfter(s, k)
    <3>1. 7 \in LastByte(s, k - 1) /\ k - 1 \in Nat
      BY <2>1, RunsLast
    <3>2. VarintStep(g[k - 1]) = VarintAfter(s, (k - 1) + 1)
      BY <2>1, <2>2, <2>3, <3>1, VarintByte
    <3> QED BY <1>1, <2>1, <3>2
  <2>5. g[10] = g[k]
    <3>1. LastByte(s, k) = At(s, k)
      BY <2>1 DEF LastByte
    <3>2. g[k].byte = At(s, k)
      BY <2>4, <3>1 DEF VarintAfter
    <3> QED BY <1>2, <2>1, <3>2 DEF More
  <2> QED BY <1>1, <2>4, <2>5 DEF Result, VarintAfter
<1>5. ASSUME \A k : ~Fits64(s, k) PROVE pb_decode_varint(s) = Error
  <2>1. CASE Runs(s, s.bytes_left) /\ s.bytes_left <= 9
    <3> DEFINE n == s.bytes_left
    <3>1. g[n] = VarintAfter(s, n) /\ n \in 0..9
      BY <1>1, <1>3, <2>1, VarintRuns
    <3>2. pb_readbyte(Advance(s, n)) = Error
      <4>1. Advance(s, n).bytes_left = 0
        BY <1>3 DEF Advance
      <4> QED BY <4>1 DEF pb_readbyte
    <3>3. ~g[n + 1].ok /\ n + 1 \in 1..10
      <4>1. n + 1 \in 1..10 /\ (n + 1) - 1 = n
        BY <3>1
      <4>2. g[n + 1] = VarintStep(VarintAfter(s, n))
        BY <1>1, <3>1, <4>1
      <4> DEFINE l == VarintAfter(s, n)
      <4>3. l.ok /\ 7 \in l.byte /\ l.s = Advance(s, n) /\ Failed(l).ok = FALSE
        BY <2>1, <3>1, RunsLast DEF VarintAfter, Failed
      <4>4. ~pb_readbyte(l.s).ok
        BY <3>2, <4>3 DEF Error
      <4> HIDE DEF l, n
      <4>5. VarintStep(l) = Failed(l)
        BY <4>3, <4>4 DEF VarintStep, More, VarintRound
      <4> QED BY <4>1, <4>2, <4>3, <4>5 DEF l
    <3> HIDE DEF n
    <3>4. g[10] = g[n + 1]
      BY <1>2, <3>3 DEF More
    <3> QED BY <1>1, <3>3, <3>4 DEF Result
  <2>2. ASSUME 9 < s.bytes_left, Runs(s, 9), At(s, 10) \cap 1..7 # {} PROVE pb_decode_varint(s) = Error
    <3>1. g[9] = VarintAfter(s, 9)
      BY <1>1, <2>2, VarintRuns
    <3>2. g[10] = Failed(VarintAfter(s, 9))
      <4>1. 10 - 1 = 9 /\ 9 + 1 = 10 /\ 10 \in 1..10 /\ 9 >= 9 /\ 9 \in Nat
        OBVIOUS
      <4>2. g[10] = VarintStep(g[9])
        BY <1>1, <4>1
      <4>3. 7 \in LastByte(s, 9)
        BY <2>2, RunsLast
      <4>4. VarintStep(g[9]) = IF 9 >= 9 /\ At(s, 9 + 1) \cap 1..7 # {} THEN Failed(g[9]) ELSE VarintAfter(s, 9 + 1)
        BY <2>2, <3>1, <4>1, <4>3, VarintByte
      <4> QED BY <2>2, <3>1, <4>1, <4>2, <4>4
    <3>3. ~g[10].ok
      BY <3>2 DEF Failed, VarintAfter
    <3> QED BY <1>1, <3>3 DEF Result
  <2>3. CASE Runs(s, s.bytes_left) /\ 9 < s.bytes_left
    <3>1. Runs(s, 9) /\ 7 \in At(s, 10)
      BY <1>3, <2>3 DEF Runs
    <3> QED BY <2>2, <2>3, <3>1
  <2>4. CASE \E k \in 1..s.bytes_left : Ends(s, k)
    <3>1. PICK k \in 1..s.bytes_left : Ends(s, k)
      BY <2>4
    <3>2. k > 10 \/ (k = 10 /\ At(s, k) \cap 1..7 # {})
      <4>1. ~Fits64(s, k) /\ k \in Nat
        BY <1>5, <3>1
      <4>2. ~(k <= 10) \/ (k = 10 /\ At(s, k) \cap 1..7 # {})
        BY <3>1, <4>1, Zenon DEF Fits64
      <4> QED BY <4>1, <4>2
    <3>3. Runs(s, 9) /\ 9 < s.bytes_left
      BY <1>3, <3>1, <3>2 DEF Ends, Runs
    <3>4. k > 10 => 7 \in At(s, 10)
      BY <1>3, <3>1 DEF Ends
    <3> QED BY <2>2, <3>2, <3>3, <3>4
  <2> QED BY <1>3, <2>1, <2>3, <2>4, FirstEnd
<1> QED BY <1>4, <1>5

\* The states of the loop of pb_decode_varint32.
Varint32State == [ok : BOOLEAN, byte : Byte, s : Stream, bitpos : Nat, v : SUBSET (0..31)]

\* A round of the loop of pb_decode_varint32 keeps the types.
LEMMA Varint32RoundType ==
    ASSUME NEW l \in Varint32State
    PROVE  Varint32Round(l) \in Varint32State
<1> DEFINE b == l.s.buf[l.s.pos + 1]
<1>1. l.s \in Stream /\ l.bitpos \in Nat /\ l.v \in SUBSET (0..31)
  BY DEF Varint32State
<1>2. Failed(l) \in Varint32State
  BY DEF Failed, Varint32State
<1>3. CASE l.s.bytes_left = 0
  BY <1>1, <1>2, <1>3, ReadByte DEF Varint32Round, Error
<1>4. CASE l.s.bytes_left # 0
  <2>1. pb_readbyte(l.s) = Done(Advance(l.s, 1), b) /\ b \in Byte
    BY <1>1, <1>4, ReadByte
  <2>2. Advance(l.s, 1) \in Stream
    <3>1. 1 \in 0..l.s.bytes_left
      BY <1>1, <1>4, StreamType
    <3> QED BY <1>1, <3>1, AdvanceType
  <2>3. Shl(b \cap 0..6, l.bitpos, 32) \in SUBSET (0..31)
    BY <1>1, ShlType
  <2> HIDE DEF b
  <2>4. [ok |-> TRUE, byte |-> b, s |-> Advance(l.s, 1), bitpos |-> l.bitpos + 7,
          v |-> l.v \cup Shl(b \cap 0..6, l.bitpos, 32)] \in Varint32State
    <3>1. l.bitpos + 7 \in Nat /\ l.v \cup Shl(b \cap 0..6, l.bitpos, 32) \in SUBSET (0..31)
      BY <1>1, <2>3
    <3> QED BY <2>1, <2>2, <3>1 DEF Varint32State
  <2> QED BY <1>2, <2>1, <2>4 DEF Varint32Round, Done
<1> QED BY <1>3, <1>4

Varint32Step(l) == IF More(l) THEN Varint32Round(l) ELSE l
Varint32First(s) ==
    [ok |-> TRUE, byte |-> {7}, s |-> Advance(s, 1), bitpos |-> 7, v |-> At(s, 1) \cap 0..6]

\* pb_decode_varint32 is ten rounds of its loop when its first byte says that more follow.
LEMMA Varint32Loop ==
    ASSUME NEW s \in Stream, s.bytes_left # 0, 7 \in At(s, 1)
    PROVE  \E g \in [0..10 -> Varint32State] :
              /\ g[0] = Varint32First(s)
              /\ \A n \in 1..10 : g[n] = Varint32Step(g[n - 1])
              /\ pb_decode_varint32(s) = Result(g[10])
<1> DEFINE F == [l \in Varint32State |-> Varint32Step(l)]
           D(g) == [n \in 0..10 |-> IF n = 0 THEN Varint32First(s) ELSE Varint32Step(g[n - 1])]
           c == CHOOSE g : g = D(g)
<1>1. F \in [Varint32State -> Varint32State]
  BY Varint32RoundType DEF Varint32Step
<1>0. pb_readbyte(s) = Done(Advance(s, 1), At(s, 1)) /\ At(s, 1) \in Byte
  BY ReadByte DEF At
<1>2. Varint32First(s) \in Varint32State
  <2>1. Advance(s, 1) \in Stream
    <3>1. 1 \in 0..s.bytes_left
      BY StreamType
    <3> QED BY <3>1, AdvanceType
  <2> QED BY <2>1 DEF Varint32First, Varint32State, Byte
<1>3. PICK g : Rounds(Varint32State, F, Varint32First(s), 10, g)
  <2> HIDE DEF F
  <2> QED BY <1>1, <1>2, RoundsExist
<1>4. \A n \in 1..10 : g[n] = Varint32Step(g[n - 1])
  <2>1. \A n \in 1..10 : n - 1 \in 0..10
    OBVIOUS
  <2> QED BY <1>3, <2>1 DEF Rounds
<1>5. g = D(g)
  BY <1>3, <1>4 DEF Rounds
<1>6. c = D(c)
  <2> HIDE DEF D
  <2> QED BY <1>5
<1> HIDE DEF c
<1>7. c[0] = Varint32First(s) /\ \A n \in 1..10 : c[n] = Varint32Step(c[n - 1])
  BY <1>6
<1>8. \A n \in 0..10 : c[n] \in Varint32State
  <2>1. \A n \in 1..10 : c[n - 1] \in Varint32State => c[n] \in Varint32State
    BY <1>7, Varint32RoundType DEF Varint32Step
  <2> QED BY <1>2, <1>7, <2>1, StaysIn
<1>9. c \in [0..10 -> Varint32State]
  BY <1>6, <1>8
<1>10. pb_decode_varint32(s) = Result(c[10])
  <2> DEFINE r == pb_readbyte(s)
  <2>1. r.ok /\ r.s = Advance(s, 1) /\ r.v = At(s, 1)
    BY <1>0 DEF Done
  <2> HIDE DEF r
  <2>2. pb_decode_varint32(s) = Result(While(More, Varint32Round, [ok |-> TRUE, byte |-> {7}, s |-> r.s,
                                                bitpos |-> 7, v |-> r.v \cap 0..6], 10))
    BY <2>1 DEF pb_decode_varint32, r
  <2> QED BY <2>1, <2>2 DEF While, Varint32First, Varint32Step, c
<1> QED BY <1>7, <1>9, <1>10

-----------------------------------------------------------------------------
Valid32At(s, i) == ValidVarint32(At(s, i), 7 * (i - 1), Value(s, i - 1, 32))
Valid32(s, k) == \A i \in 2..k : Valid32At(s, i)
Fits32(s, k) == Ends(s, k) /\ Valid32(s, k)

\* A varint ends at one place,
LEMMA EndsOnce == ASSUME NEW s, NEW j, NEW k, Ends(s, j), Ends(s, k) PROVE j = k
<1>1. j \in Int /\ k \in Int /\ j >= 1 /\ k >= 1
  BY DEF Ends
<1>2. ~(j < k) /\ ~(k < j)
  BY <1>1 DEF Ends
<1> QED BY <1>1, <1>2

\* and behind every run of bytes that say that more follow.
LEMMA EndsRuns == ASSUME NEW s, NEW j, NEW k, Runs(s, j), Ends(s, k) PROVE j < k
<1>1. j \in Int /\ k \in Int /\ j >= 0 /\ k >= 1
  BY DEF Ends, Runs
<1>2. ~(k <= j)
  BY <1>1 DEF Ends, Runs
<1> QED BY <1>1, <1>2

\* The next byte continues the run or ends it.
LEMMA RunsNext ==
    ASSUME NEW s \in Stream, NEW k \in Nat, Runs(s, k), k < s.bytes_left
    PROVE  IF 7 \in At(s, k + 1) THEN Runs(s, k + 1) ELSE Ends(s, k + 1)
<1>1. s.bytes_left \in Nat /\ k + 1 \in 1..s.bytes_left /\ (k + 1) - 1 = k
  BY StreamType
<1>2. \A i \in 1..(k + 1) : i = k + 1 \/ i \in 1..k
  OBVIOUS
<1> QED BY <1>1, <1>2 DEF Runs, Ends

\* No eleventh byte is valid, whatever it is.
LEMMA NotEleven == ASSUME NEW s, NEW k \in Nat, Valid32(s, k) PROVE k <= 10
<1> SUFFICES ASSUME k > 10 PROVE FALSE
  OBVIOUS
<1>1. Valid32At(s, 11)
  BY DEF Valid32
<1>2. 7 * (11 - 1) = 70 /\ ~(70 < 28) /\ ~(70 = 28) /\ 70 >= 32 /\ ~(70 < 64)
  OBVIOUS
<1> QED BY <1>1, <1>2 DEF Valid32At, ValidVarint32

Varint32After(s, n) ==
    [ok |-> TRUE, byte |-> At(s, n), s |-> Advance(s, n), bitpos |-> 7 * n, v |-> Value(s, n, 32)]

\* The outcomes of reading n bytes: more follow, the varint has ended, or it was refused.
Going(s, n, l) == Runs(s, n) /\ Valid32(s, n) /\ l.ok /\ 7 \in l.byte /\ l.s = Advance(s, n) /\ l.bitpos = 7 * n /\ l.v = Value(s, n, 32)
Gone(s, l) == \E k : Fits32(s, k) /\ l = Varint32After(s, k)
Refused(s, l) == ~l.ok /\ \A k : ~Fits32(s, k)

\* One round of pb_decode_varint32.
LEMMA Varint32Byte ==
    ASSUME NEW s \in Stream, NEW n \in Nat, n >= 1, NEW l \in Varint32State, Going(s, n, l)
    PROVE  \/ Going(s, n + 1, Varint32Step(l))
           \/ Gone(s, Varint32Step(l))
           \/ Refused(s, Varint32Step(l))
<1> DEFINE r == pb_readbyte(l.s)
<1>1. l.ok /\ 7 \in l.byte /\ l.s = Advance(s, n) /\ l.bitpos = 7 * n /\ l.v = Value(s, n, 32) /\ Runs(s, n) /\ Valid32(s, n)
  BY DEF Going
<1>2. Varint32Step(l) = Varint32Round(l)
  BY <1>1 DEF Varint32Step, More
<1>3. s.bytes_left \in Nat /\ n <= s.bytes_left
  BY <1>1, StreamType DEF Runs
<1>4. ~Failed(l).ok
  BY DEF Failed, Varint32State
<1>5. CASE n = s.bytes_left
  <2>1. ~r.ok
    <3>1. Advance(s, n).bytes_left = 0
      BY <1>3, <1>5 DEF Advance
    <3> QED BY <1>1, <3>1 DEF pb_readbyte, Error
  <2>2. Varint32Round(l) = Failed(l)
    <3> HIDE DEF r
    <3> QED BY <2>1 DEF Varint32Round, r
  <2>3. \A k : ~Ends(s, k)
    <3> SUFFICES ASSUME NEW k, Ends(s, k) PROVE FALSE
      OBVIOUS
    <3>1. n < k
      BY <1>1, EndsRuns
    <3> QED BY <1>3, <1>5, <3>1 DEF Ends
  <2> QED BY <1>2, <1>4, <2>2, <2>3 DEF Refused, Fits32
<1>6. CASE n < s.bytes_left
  <2>1. r.ok /\ r.s = Advance(s, n + 1) /\ r.v = At(s, n + 1)
    BY <1>1, <1>6, ReadNext DEF Done
  <2>2. Varint32Round(l) = IF ~ValidVarint32(r.v, l.bitpos, l.v) THEN Failed(l)
                           ELSE [ok |-> TRUE, byte |-> r.v, s |-> r.s, bitpos |-> l.bitpos + 7,
                                 v |-> l.v \cup Shl(r.v \cap 0..6, l.bitpos, 32)]
    <3> HIDE DEF r
    <3> QED BY <2>1 DEF Varint32Round, r
  <2>3. (n + 1) - 1 = n /\ 7 * n + 7 = 7 * (n + 1) /\ n + 1 \in Nat
    OBVIOUS
  <2>4. ValidVarint32(r.v, l.bitpos, l.v) <=> Valid32At(s, n + 1)
    BY <1>1, <2>1, <2>3 DEF Valid32At
  <2>5. CASE ~Valid32At(s, n + 1)
    <3>1. \A k : ~Fits32(s, k)
      <4>1. SUFFICES ASSUME NEW k, Fits32(s, k) PROVE FALSE
        OBVIOUS
      <4>2. n < k /\ k \in Int
        BY <1>1, <4>1, EndsRuns DEF Fits32, Ends
      <4>3. n + 1 \in 2..k
        BY <4>2
      <4> QED BY <2>5, <4>1, <4>3 DEF Fits32, Valid32
    <3> QED BY <1>2, <1>4, <2>2, <2>4, <2>5, <3>1 DEF Refused
  <2>6. CASE Valid32At(s, n + 1)
    <3>1. Value(s, n + 1, 32) = Value(s, n, 32) \cup Shl(At(s, n + 1) \cap 0..6, 7 * n, 32)
      BY ValueNext
    <3>2. Varint32Round(l) = Varint32After(s, n + 1)
      BY <1>1, <2>1, <2>2, <2>3, <2>4, <2>6, <3>1 DEF Varint32After
    <3>3. Valid32(s, n + 1)
      <4>1. \A i \in 2..(n + 1) : i = n + 1 \/ i \in 2..n
        OBVIOUS
      <4> QED BY <1>1, <2>6, <4>1 DEF Valid32
    <3>4. CASE 7 \in At(s, n + 1)
      <4>1. Runs(s, n + 1)
        BY <1>1, <1>6, <3>4, RunsNext
      <4> QED BY <1>2, <3>2, <3>3, <3>4, <4>1 DEF Going, Varint32After
    <3>5. CASE 7 \notin At(s, n + 1)
      <4>1. Ends(s, n + 1)
        BY <1>1, <1>6, <3>5, RunsNext
      <4> QED BY <1>2, <3>2, <3>3, <4>1 DEF Gone, Fits32
    <3> QED BY <3>4, <3>5
  <2> QED BY <2>5, <2>6
<1> QED BY <1>3, <1>5, <1>6

\* What pb_decode_varint32 returns for every stream.
LEMMA DecodeVarint32 ==
    ASSUME NEW s \in Stream
    PROVE  /\ \A k : Fits32(s, k) => pb_decode_varint32(s) = Done(Advance(s, k), Value(s, k, 32))
           /\ (\A k : ~Fits32(s, k)) => pb_decode_varint32(s) = Error
<1>1. s.bytes_left \in Nat
  BY StreamType
<1>2. ASSUME s.bytes_left = 0 PROVE pb_decode_varint32(s) = Error /\ \A k : ~Fits32(s, k)
  <2>1. ~Error.ok /\ pb_readbyte(s) = Error
    BY <1>2 DEF Error, pb_readbyte
  <2>2. \A k : ~Ends(s, k)
    BY <1>2 DEF Ends
  <2> QED BY <2>1, <2>2 DEF pb_decode_varint32, Fits32
<1>3. Value(s, 1, 32) = At(s, 1) \cap 0..6
  <2>1. Value(s, 0 + 1, 32) = Value(s, 0, 32) \cup Shl(At(s, 0 + 1) \cap 0..6, 7 * 0, 32)
    BY ValueNext
  <2>2. 0 + 1 = 1 /\ 7 * 0 = 0 /\ Value(s, 0, 32) = {}
    BY ValueZero
  <2>3. Shl(At(s, 1) \cap 0..6, 0, 32) = At(s, 1) \cap 0..6
    BY DEF Shl
  <2> QED BY <2>1, <2>2, <2>3
<1>4. ASSUME s.bytes_left # 0, 7 \notin At(s, 1)
      PROVE  Fits32(s, 1) /\ pb_decode_varint32(s) = Done(Advance(s, 1), Value(s, 1, 32))
  <2>1. pb_readbyte(s) = Done(Advance(s, 1), At(s, 1)) /\ At(s, 1) \in Byte
    BY <1>4, ReadByte DEF At
  <2>2. At(s, 1) \cap 0..6 = At(s, 1)
    BY <1>4, <2>1 DEF Byte
  <2>3. pb_decode_varint32(s) = pb_readbyte(s)
    BY <1>4, <2>1 DEF pb_decode_varint32, Done
  <2> QED BY <1>1, <1>3, <1>4, <2>1, <2>2, <2>3 DEF Fits32, Ends, Valid32
<1>5. ASSUME s.bytes_left # 0, 7 \in At(s, 1)
      PROVE  \/ \E k : Fits32(s, k) /\ pb_decode_varint32(s) = Done(Advance(s, k), Value(s, k, 32))
             \/ (\A k : ~Fits32(s, k)) /\ pb_decode_varint32(s) = Error
  <2>1. PICK g \in [0..10 -> Varint32State] :
              /\ g[0] = Varint32First(s)
              /\ \A n \in 1..10 : g[n] = Varint32Step(g[n - 1])
              /\ pb_decode_varint32(s) = Result(g[10])
    BY <1>5, Varint32Loop
  <2> DEFINE Good == {n \in 0..10 : Going(s, n + 1, g[n]) \/ Gone(s, g[n]) \/ Refused(s, g[n])}
  <2>2. 0 \in Good
    <3>1. Runs(s, 0 + 1) /\ Valid32(s, 0 + 1)
      BY <1>1, <1>5 DEF Runs, Valid32
    <3>2. 0 + 1 = 1 /\ 7 * 1 = 7
      OBVIOUS
    <3>3. Going(s, 0 + 1, g[0])
      BY <1>3, <2>1, <3>1, <3>2 DEF Going, Varint32First
    <3> QED BY <3>3
  <2>3. ASSUME NEW n \in 1..10, n - 1 \in Good PROVE n \in Good
    <3> DEFINE l == g[n - 1]
    <3>0. n - 1 \in 0..10 /\ (n - 1) + 1 = n /\ n \in Nat /\ n >= 1 /\ l \in Varint32State /\ g[n] = Varint32Step(l)
      BY <2>1
    <3>1. CASE Going(s, n, l)
      BY <3>0, <3>1, Varint32Byte
    <3>2. CASE Gone(s, l)
      <4>1. PICK k : Fits32(s, k) /\ l = Varint32After(s, k)
        BY <3>2 DEF Gone
      <4>2. 7 \notin l.byte
        BY <4>1 DEF Fits32, Ends, Varint32After
      <4>3. g[n] = l
        BY <3>0, <4>2 DEF Varint32Step, More
      <4> QED BY <3>2, <4>3
    <3>3. CASE Refused(s, l)
      <4>1. g[n] = l
        BY <3>0, <3>3 DEF Varint32Step, More, Refused
      <4> QED BY <3>3, <4>1
    <3>4. Going(s, n, l) \/ Gone(s, l) \/ Refused(s, l)
      BY <2>3, <3>0
    <3> QED BY <3>1, <3>2, <3>3, <3>4
  <2> HIDE DEF Good
  <2>4. 10 \in Good
    <3>1. \A n \in 0..10 : n \in Good
      BY <2>2, <2>3, Induction
    <3> QED BY <3>1
  <2>5. ~Going(s, 10 + 1, g[10])
    <3>1. ~Valid32(s, 10 + 1)
      BY NotEleven
    <3> QED BY <3>1 DEF Going
  <2>6. CASE Gone(s, g[10])
    BY <2>1, <2>6 DEF Gone, Varint32After, Result
  <2>7. CASE Refused(s, g[10])
    BY <2>1, <2>7 DEF Refused, Result
  <2> QED BY <2>4, <2>5, <2>6, <2>7 DEF Good
<1>6. \A j, k : Fits32(s, j) /\ Fits32(s, k) => j = k
  BY EndsOnce DEF Fits32
<1>7. CASE s.bytes_left = 0
  BY <1>2, <1>7
<1>8. CASE s.bytes_left # 0 /\ 7 \notin At(s, 1)
  BY <1>4, <1>6, <1>8
<1>9. CASE s.bytes_left # 0 /\ 7 \in At(s, 1)
  BY <1>5, <1>6, <1>9
<1> QED BY <1>7, <1>8, <1>9

\* The value of the varint at the start of the payload in the reference.
LEMMA ValueWide ==
    ASSUME NEW s, NEW k \in Nat, NEW w \in 0..128
    PROVE  Value(s, k, w) = Value(s, k, 128) \cap 0..(w - 1)
<1> DEFINE wide(i) == Shl(At(s, i) \cap 0..6, 7 * (i - 1), 128)
           short(i) == Shl(At(s, i) \cap 0..6, 7 * (i - 1), w)
<1>1. ASSUME NEW i \in 1..k PROVE short(i) = wide(i) \cap 0..(w - 1)
  BY DEF Shl
<1>2. ASSUME NEW x PROVE x \in Value(s, k, w) <=> x \in Value(s, k, 128) \cap 0..(w - 1)
  <2>1. x \in Value(s, k, w) <=> \E i \in 1..k : x \in short(i)
    BY DEF Value
  <2>2. x \in Value(s, k, 128) <=> \E i \in 1..k : x \in wide(i)
    BY DEF Value
  <2> HIDE DEF wide, short
  <2> QED BY <1>1, <2>1, <2>2
<1> QED BY <1>2

\* A bit of a group is a bit of the value,
LEMMA ValueBit ==
    ASSUME NEW s, NEW k \in 0..10, NEW i \in 1..k, NEW b \in At(s, i) \cap 0..6
    PROVE  b + 7 * (i - 1) \in Value(s, k, 128)
<1>1. b + 7 * (i - 1) \in Shl(At(s, i) \cap 0..6, 7 * (i - 1), 128)
  BY DEF Shl
<1> QED BY <1>1 DEF Value

\* and the value has no others.
LEMMA ValueBits ==
    ASSUME NEW s, NEW k \in 0..10, NEW w \in 0..128,
           \A i \in 1..k : \A b \in At(s, i) \cap 0..6 : b + 7 * (i - 1) < w
    PROVE  Value(s, k, 128) \subseteq 0..(w - 1)
<1>1. ASSUME NEW x \in Value(s, k, 128) PROVE x \in 0..(w - 1)
  <2>1. PICK i \in 1..k : x \in Shl(At(s, i) \cap 0..6, 7 * (i - 1), 128)
    BY DEF Value
  <2>2. PICK b \in At(s, i) \cap 0..6 : x = b + 7 * (i - 1)
    BY <2>1 DEF Shl
  <2> QED BY <2>2
<1> QED BY <1>1

\* A varint of 64 bits is one whose tenth byte has a single bit.
LEMMA Fits64Value ==
    ASSUME NEW s \in Stream, NEW n, Ends(s, n)
    PROVE  Fits64(s, n) <=> (n <= 10 /\ Value(s, n, 128) \subseteq 0..63)
<1>0. n \in Nat /\ n >= 1 /\ 7 \notin At(s, n) /\ s.bytes_left \in Nat
  BY StreamType DEF Ends
<1>1. ASSUME Fits64(s, n) PROVE Value(s, n, 128) \subseteq 0..63
  <2>1. n \in 0..10
    BY <1>0, <1>1 DEF Fits64
  <2>2. ASSUME NEW i \in 1..n, NEW b \in At(s, i) \cap 0..6 PROVE b + 7 * (i - 1) < 64
    <3>1. CASE i = 10
      <4>1. n = 10 /\ At(s, 10) \cap 1..7 = {}
        BY <1>1, <2>1, <3>1 DEF Fits64
      <4>2. b = 0
        BY <3>1, <4>1
      <4> QED BY <3>1, <4>2
    <3>2. CASE i # 10
      BY <2>1, <3>2
    <3> QED BY <3>1, <3>2
  <2> DEFINE w == 64
  <2>3. w \in 0..128 /\ w - 1 = 63
    OBVIOUS
  <2>4. \A i \in 1..n : \A b \in At(s, i) \cap 0..6 : b + 7 * (i - 1) < w
    BY <2>2
  <2>5. n \in 0..10
    BY <2>1
  <2> HIDE DEF w
  <2>6. Value(s, n, 128) \subseteq 0..(w - 1)
    BY <2>3, <2>4, <2>5, ValueBits
  <2> QED BY <2>3, <2>6
<1>2. ASSUME n <= 10, Value(s, n, 128) \subseteq 0..63 PROVE Fits64(s, n)
  <2>1. ASSUME n = 10 PROVE At(s, n) \cap 1..7 = {}
    <3>1. SUFFICES ASSUME NEW b \in At(s, n) \cap 1..7 PROVE FALSE
      OBVIOUS
    <3>2. b \in At(s, n) \cap 0..6 /\ n \in 0..10 /\ n \in 1..n
      BY <1>0, <2>1
    <3>3. b + 7 * (n - 1) \in Value(s, n, 128)
      BY <3>2, ValueBit
    <3>4. b + 7 * (n - 1) \in 0..63
      BY <1>2, <3>3
    <3> QED BY <2>1, <3>4
  <2> QED BY <1>2, <2>1 DEF Fits64
<1>3. Fits64(s, n) => n <= 10
  BY DEF Fits64
<1> QED BY <1>1, <1>2, <1>3

\* Every varint whose value has 32 bits is valid for pb_decode_varint32.
LEMMA Fits32Value ==
    ASSUME NEW s \in Stream, NEW n, Ends(s, n), n <= 10, Value(s, n, 128) \subseteq 0..31
    PROVE  Fits32(s, n)
<1>0. n \in Nat /\ n >= 1 /\ 7 \notin At(s, n) /\ s.bytes_left \in Nat /\ n \in 0..10
  <2>1. s.bytes_left \in Nat
    BY StreamType
  <2>2. n \in 1..s.bytes_left /\ 7 \notin At(s, n)
    BY DEF Ends
  <2> QED BY <2>1, <2>2
<1>1. ASSUME NEW i \in 2..n PROVE Valid32At(s, i)
  <2>1. i \in 1..n /\ i \in 2..10
    BY <1>0
  <2>2. ASSUME NEW b \in At(s, i) \cap 0..6 PROVE b + 7 * (i - 1) < 32
    <3>1. b + 7 * (i - 1) \in 0..31
      BY <1>0, <2>1, ValueBit
    <3> QED BY <3>1
  <2>3. CASE i < 5
    <3> DEFINE p == 7 * (i - 1)
    <3>1. p \in Int /\ p < 28 /\ p # 28 /\ ~(p >= 32)
      BY <2>1, <2>3
    <3> HIDE DEF p
    <3>2. ValidVarint32(At(s, i), p, Value(s, i - 1, 32))
      BY <3>1 DEF ValidVarint32
    <3> QED BY <3>2 DEF Valid32At, p
  <2>4. CASE i = 5
    <3>1. 7 * (i - 1) = 28 /\ ~(28 < 28) /\ ~(28 >= 32)
      BY <2>4
    <3>2. At(s, i) \cap 4..6 = {}
      <4> SUFFICES ASSUME NEW b \in At(s, i) \cap 4..6 PROVE FALSE
        OBVIOUS
      <4>1. b \in At(s, i) \cap 0..6
        OBVIOUS
      <4> QED BY <2>2, <3>1, <4>1
    <3> QED BY <3>1, <3>2 DEF Valid32At, ValidVarint32
  <2>5. CASE i > 5
    <3> DEFINE p == 7 * (i - 1)
    <3>1. p \in Int /\ ~(p < 28) /\ p # 28 /\ p >= 32 /\ p < 64
      BY <2>1, <2>5
    <3>2. At(s, i) \cap 0..6 = {}
      <4> SUFFICES ASSUME NEW b \in At(s, i) \cap 0..6 PROVE FALSE
        OBVIOUS
      <4> QED BY <2>2, <3>1
    <3> HIDE DEF p
    <3>3. ValidVarint32(At(s, i), p, Value(s, i - 1, 32))
      BY <3>1, <3>2 DEF ValidVarint32
    <3> QED BY <3>3 DEF Valid32At, p
  <2> QED BY <2>1, <2>3, <2>4, <2>5
<1> QED BY <1>1 DEF Fits32, Valid32

\* A stream over a whole buffer.
LEMMA BufferStream ==
    ASSUME NEW p \in Seq(Byte)
    PROVE  /\ pb_istream_from_buffer(p) \in Stream
           /\ pb_istream_from_buffer(p).bytes_left = Len(p)
           /\ \A i \in 1..Len(p) : At(pb_istream_from_buffer(p), i) = p[i]
           /\ \A k \in 0..Len(p) : Advance(pb_istream_from_buffer(p), k).pos = k
BY DEF pb_istream_from_buffer, Stream, At, Advance

\* The two decoders against the reference, for any payload.
LEMMA VarintReferenceHolds ==
    ASSUME payload \in Seq(Byte)
    PROVE  VarintReference
<1> DEFINE s     == pb_istream_from_buffer(payload)
           ends  == {i \in DOMAIN payload : 7 \notin payload[i]}
           n     == Min(ends)
           value == UNION {Shl(payload[i] \cap 0..6, 7 * (i - 1), 128) : i \in 1..n}
           r64   == pb_decode_varint(s)
           r32   == pb_decode_varint32(s)
<1>1. s \in Stream /\ s.bytes_left = Len(payload) /\ Len(payload) \in Nat /\ DOMAIN payload = 1..Len(payload)
  BY BufferStream
<1>2. \A i \in 1..Len(payload) : At(s, i) = payload[i]
  BY BufferStream
<1>3. \A k \in 0..Len(payload) : Advance(s, k).pos = k
  BY BufferStream
<1> HIDE DEF s
<1>4. ASSUME ends = {} PROVE ~r64.ok /\ ~r32.ok
  <2>1. \A k : ~Ends(s, k)
    BY <1>1, <1>2, <1>4 DEF Ends
  <2>2. r64 = Error /\ r32 = Error
    BY <1>1, <2>1, DecodeVarint, DecodeVarint32 DEF Fits64, Fits32
  <2> QED BY <2>2 DEF Error
<1>5. ASSUME ends # {}
      PROVE  /\ r64.ok <=> n <= 10 /\ value \subseteq 0..63
             /\ r64.ok => r64.v = value /\ r64.s.pos = n
             /\ n <= 10 /\ value \subseteq 0..31 => r32.ok
             /\ r32.ok => r32.v = value \cap 0..31 /\ r32.s.pos = n
  <2>1. n \in ends /\ \A y \in ends : n <= y
    <3>1. ends \in SUBSET Nat
      BY <1>1
    <3> HIDE DEF ends
    <3>2. PICK x \in ends : \A y \in ends : x <= y
      BY <1>5, <3>1, Least
    <3>3. n = CHOOSE z \in ends : \A y \in ends : z <= y
      BY DEF Min
    <3> QED BY <3>2, <3>3
  <2> HIDE DEF n
  <2>2. Ends(s, n) /\ n \in 1..Len(payload)
    <3>1. n \in 1..Len(payload) /\ 7 \notin At(s, n)
      BY <1>1, <1>2, <2>1
    <3>2. ASSUME NEW i \in 1..(n - 1) PROVE 7 \in At(s, i)
      <4>1. i \in 1..Len(payload) /\ ~(n <= i)
        BY <1>1, <3>1
      <4> QED BY <1>1, <1>2, <2>1, <4>1
    <3> QED BY <1>1, <3>1, <3>2 DEF Ends
  <2>3. value = Value(s, n, 128)
    <3>1. \A i \in 1..n : At(s, i) = payload[i]
      BY <1>1, <1>2, <2>2
    <3> QED BY <3>1 DEF Value
  <2>4. Value(s, n, 64) = value \cap 0..63 /\ Value(s, n, 32) = value \cap 0..31
    <3>1. n \in Nat /\ 64 \in 0..128 /\ 32 \in 0..128 /\ 64 - 1 = 63 /\ 32 - 1 = 31
      BY <2>2
    <3> HIDE DEF value
    <3>2. Value(s, n, 64) = Value(s, n, 128) \cap 0..(64 - 1)
      BY <3>1, ValueWide
    <3>3. Value(s, n, 32) = Value(s, n, 128) \cap 0..(32 - 1)
      BY <3>1, ValueWide
    <3> QED BY <2>3, <3>1, <3>2, <3>3
  <2>5. Advance(s, n).pos = n
    BY <1>3, <2>2
  <2> HIDE DEF value
  <2>6. Fits64(s, n) <=> (n <= 10 /\ value \subseteq 0..63)
    BY <1>1, <2>2, <2>3, Fits64Value
  <2>7. n <= 10 /\ value \subseteq 0..31 => Fits32(s, n)
    BY <1>1, <2>2, <2>3, Fits32Value
  <2>8. (r64 = Done(Advance(s, n), Value(s, n, 64)) /\ Fits64(s, n)) \/ (r64 = Error /\ ~Fits64(s, n))
    <3>1. \A k : Fits64(s, k) => k = n
      BY <2>2, EndsOnce DEF Fits64
    <3> QED BY <1>1, <3>1, DecodeVarint
  <2>9. (r32 = Done(Advance(s, n), Value(s, n, 32)) /\ Fits32(s, n)) \/ (r32 = Error /\ ~Fits32(s, n))
    <3>1. \A k : Fits32(s, k) => k = n
      BY <2>2, EndsOnce DEF Fits32
    <3> QED BY <1>1, <3>1, DecodeVarint32
  <2>10. \A v : Done(Advance(s, n), v).ok /\ Done(Advance(s, n), v).v = v /\ Done(Advance(s, n), v).s.pos = n
    BY <2>5 DEF Done
  <2>11. ~Error.ok
    BY DEF Error
  <2> HIDE DEF r64, r32
  <2>12. r64.ok <=> Fits64(s, n)
    BY <2>8, <2>10, <2>11
  <2>13. r32.ok <=> Fits32(s, n)
    BY <2>9, <2>10, <2>11
  <2>14. r64.ok => r64.v = Value(s, n, 64) /\ r64.s.pos = n
    BY <2>8, <2>10, <2>11
  <2>15. r32.ok => r32.v = Value(s, n, 32) /\ r32.s.pos = n
    BY <2>9, <2>10, <2>11
  <2>16. value \subseteq 0..63 => Value(s, n, 64) = value
    BY <2>4
  <2> QED BY <2>4, <2>6, <2>7, <2>12, <2>13, <2>14, <2>15, <2>16
<1>6. IF ends = {} THEN ~r64.ok /\ ~r32.ok
            ELSE /\ r64.ok <=> n <= 10 /\ value \subseteq 0..63
                 /\ r64.ok => r64.v = value /\ r64.s.pos = n
                 /\ n <= 10 /\ value \subseteq 0..31 => r32.ok
                 /\ r32.ok => r32.v = value \cap 0..31 /\ r32.s.pos = n
  <2> HIDE DEF ends, n, value, r64, r32
  <2> QED BY <1>4, <1>5
<1> QED BY <1>6 DEF VarintReference, s

-----------------------------------------------------------------------------
\* Numbers and sets of bits: ToBits and ToNat are inverse to one another.

\* The halves of a number.
Half(number, h) ==
    /\ h \in [0..16 -> Nat]
    /\ h[0] = number
    /\ \A n \in 1..16 : h[n] = h[n - 1] \div 2

\* The bits of a number are the parities of its halves.
LEMMA ToBitsHalf ==
    ASSUME NEW number \in Nat
    PROVE  \E h : Half(number, h) /\ ToBits(number) = {i \in 0..15 : h[i] % 2 = 1}
<1> DEFINE F == [l \in Nat |-> l \div 2]
           D(g) == [n \in 0..16 |-> IF n = 0 THEN number ELSE g[n - 1] \div 2]
           c == CHOOSE g : g = D(g)
<1>1. F \in [Nat -> Nat]
  OBVIOUS
<1>2. PICK g : Rounds(Nat, F, number, 16, g)
  <2> HIDE DEF F
  <2> QED BY <1>1, RoundsExist
<1>3. \A n \in 1..16 : g[n] = g[n - 1] \div 2
  <2>1. \A n \in 1..16 : n - 1 \in 0..16
    OBVIOUS
  <2> QED BY <1>2, <2>1 DEF Rounds
<1>4. g = D(g)
  BY <1>2, <1>3 DEF Rounds
<1>5. c = D(c)
  <2> HIDE DEF D
  <2> QED BY <1>4
<1> HIDE DEF c
<1>6. c[0] = number /\ \A n \in 1..16 : c[n] = c[n - 1] \div 2
  BY <1>5
<1>7. \A n \in 0..16 : c[n] \in Nat
  <2>1. \A n \in 1..16 : c[n - 1] \in Nat => c[n] \in Nat
    BY <1>6
  <2> QED BY <1>6, <2>1, StaysIn
<1>8. Half(number, c)
  BY <1>5, <1>6, <1>7 DEF Half
<1>9. ToBits(number) = {i \in 0..15 : c[i] % 2 = 1}
  BY DEF ToBits, c
<1> QED BY <1>8, <1>9

\* What the bits from the top down add up to.
Sum2(x, t) ==
    /\ t \in [0..16 -> Nat]
    /\ t[0] = 0
    /\ \A n \in 1..16 : t[n] = 2 * t[n - 1] + (IF 16 - n \in x THEN 1 ELSE 0)

\* ToNat adds the bits up from the top.
LEMMA ToNatSum ==
    ASSUME NEW x
    PROVE  \E t : Sum2(x, t) /\ ToNat(x) = IF x \subseteq 0..15 THEN t[16] ELSE TooLarge
<1> DEFINE F == [n \in 1..16 |-> [l \in Nat |-> 2 * l + (IF 16 - n \in x THEN 1 ELSE 0)]]
           D(g) == [n \in 0..16 |-> IF n = 0 THEN 0 ELSE 2 * g[n - 1] + (IF 16 - n \in x THEN 1 ELSE 0)]
           c == CHOOSE g : g = D(g)
<1>1. F \in [1..16 -> [Nat -> Nat]]
  OBVIOUS
<1>2. PICK g : Steps(Nat, F, 0, 16, g)
  <2> HIDE DEF F
  <2> QED BY <1>1, StepsExist
<1>3. \A n \in 1..16 : g[n] = 2 * g[n - 1] + (IF 16 - n \in x THEN 1 ELSE 0)
  <2>1. \A n \in 1..16 : n - 1 \in 0..16
    OBVIOUS
  <2> QED BY <1>2, <2>1 DEF Steps
<1>4. g = D(g)
  BY <1>2, <1>3 DEF Steps
<1>5. c = D(c)
  <2> HIDE DEF D
  <2> QED BY <1>4
<1> HIDE DEF c
<1>6. c[0] = 0 /\ \A n \in 1..16 : c[n] = 2 * c[n - 1] + (IF 16 - n \in x THEN 1 ELSE 0)
  BY <1>5
<1>7. \A n \in 0..16 : c[n] \in Nat
  <2>1. \A n \in 1..16 : c[n - 1] \in Nat => c[n] \in Nat
    BY <1>6
  <2> QED BY <1>6, <2>1, StaysIn
<1>8. Sum2(x, c)
  BY <1>5, <1>6, <1>7 DEF Sum2
<1>9. ToNat(x) = IF x \subseteq 0..15 THEN c[16] ELSE TooLarge
  BY DEF ToNat, c
<1> QED BY <1>8, <1>9

\* It gives a number,
LEMMA ToNatType == ASSUME NEW x PROVE ToNat(x) \in Nat
<1>1. PICK t : Sum2(x, t) /\ ToNat(x) = IF x \subseteq 0..15 THEN t[16] ELSE TooLarge
  BY ToNatSum
<1>2. t[16] \in Nat
  BY <1>1 DEF Sum2
<1> QED BY <1>1, <1>2 DEF TooLarge

\* and the sum for 16 bits.
LEMMA ToNatShort == ASSUME NEW x, x \subseteq 0..15 PROVE \E t : Sum2(x, t) /\ ToNat(x) = t[16]
<1>1. PICK t : Sum2(x, t) /\ ToNat(x) = IF x \subseteq 0..15 THEN t[16] ELSE TooLarge
  BY ToNatSum
<1>2. ToNat(x) = t[16]
  BY <1>1
<1> QED BY <1>1, <1>2

\* The halves one by one.
LEMMA HalfEach ==
    ASSUME NEW number \in Nat, NEW h, Half(number, h)
    PROVE  /\ h[0] = number
           /\ h[1] = h[0] \div 2 /\ h[2] = h[1] \div 2 /\ h[3] = h[2] \div 2 /\ h[4] = h[3] \div 2
           /\ h[5] = h[4] \div 2 /\ h[6] = h[5] \div 2 /\ h[7] = h[6] \div 2 /\ h[8] = h[7] \div 2
           /\ h[9] = h[8] \div 2 /\ h[10] = h[9] \div 2 /\ h[11] = h[10] \div 2 /\ h[12] = h[11] \div 2
           /\ h[13] = h[12] \div 2 /\ h[14] = h[13] \div 2 /\ h[15] = h[14] \div 2 /\ h[16] = h[15] \div 2
           /\ \A n \in 0..16 : h[n] \in Nat
BY DEF Half

\* After sixteen halvings nothing is left.
LEMMA HalvesEnd ==
    ASSUME NEW number \in Nat, number < TooLarge, NEW h, Half(number, h)
    PROVE  h[16] = 0
<1>1. h[1] \in Nat /\ h[2] \in Nat /\ h[3] \in Nat /\ h[4] \in Nat /\ h[5] \in Nat /\ h[6] \in Nat /\ h[7] \in Nat /\ h[8] \in Nat
      /\ h[9] \in Nat /\ h[10] \in Nat /\ h[11] \in Nat /\ h[12] \in Nat /\ h[13] \in Nat /\ h[14] \in Nat /\ h[15] \in Nat /\ h[16] \in Nat
  BY HalfEach
<1>2. h[4] < 4096
  BY <1>1, HalfEach DEF TooLarge
<1>3. h[8] < 256
  BY <1>1, <1>2, HalfEach
<1>4. h[12] < 16
  BY <1>1, <1>3, HalfEach
<1>5. h[13] = h[12] \div 2 /\ h[14] = h[13] \div 2 /\ h[15] = h[14] \div 2 /\ h[16] = h[15] \div 2
  BY HalfEach
<1>6. h[14] < 4
  BY <1>1, <1>4, <1>5
<1> QED BY <1>1, <1>5, <1>6

\* A number of 16 bits is written and read back.
LEMMA BitsRoundTrip ==
    ASSUME NEW number \in Nat, number < TooLarge
    PROVE  ToBits(number) \subseteq 0..15 /\ ToNat(ToBits(number)) = number
<1>1. PICK h : Half(number, h) /\ ToBits(number) = {i \in 0..15 : h[i] % 2 = 1}
  BY ToBitsHalf
<1>0. SUFFICES ASSUME NEW x, x = {i \in 0..15 : h[i] % 2 = 1}
               PROVE  x \subseteq 0..15 /\ ToNat(x) = number
  BY <1>1
<1>2. x = {i \in 0..15 : h[i] % 2 = 1}
  BY <1>0
<1>3. x \subseteq 0..15
  BY <1>2
<1>4. PICK t : Sum2(x, t) /\ ToNat(x) = t[16]
  BY <1>3, ToNatShort
<1> DEFINE Good == {n \in 0..16 : t[n] = h[16 - n]}
<1>5. 0 \in Good
  <2>1. 16 - 0 = 16
    OBVIOUS
  <2> QED BY <1>1, <1>4, <2>1, HalvesEnd DEF Sum2
<1>6. ASSUME NEW n \in 1..16, n - 1 \in Good PROVE n \in Good
  <2>1. 16 - (n - 1) = 17 - n /\ 16 - n \in 0..15 /\ 17 - n \in 1..16 /\ (17 - n) - 1 = 16 - n
    OBVIOUS
  <2>2. h[17 - n] = h[16 - n] \div 2 /\ h[16 - n] \in Nat
    BY <1>1, <2>1 DEF Half
  <2>3. t[n - 1] = h[17 - n]
    BY <1>6, <2>1
  <2>4. t[n] = 2 * t[n - 1] + (IF 16 - n \in x THEN 1 ELSE 0)
    BY <1>4 DEF Sum2
  <2>5. (16 - n \in x) <=> h[16 - n] % 2 = 1
    BY <1>2, <2>1
  <2>6. t[n] = h[16 - n]
    BY <2>2, <2>3, <2>4, <2>5
  <2> QED BY <2>6
<1> HIDE DEF Good
<1>7. \A n \in 0..16 : n \in Good
  BY <1>5, <1>6, Induction
<1>8. 16 \in Good
  BY <1>7
<1>9. t[16] = h[0]
  BY <1>8 DEF Good
<1> QED BY <1>1, <1>3, <1>4, <1>9 DEF Half

\* Small numbers have few bits.
LEMMA SmallBits ==
    ASSUME NEW number \in Nat
    PROVE  /\ number < 16 => ToBits(number) \subseteq 0..3
           /\ number < 8 => ToBits(number) \subseteq 0..2
<1>1. PICK h : Half(number, h) /\ ToBits(number) = {i \in 0..15 : h[i] % 2 = 1}
  BY ToBitsHalf
<1>2. h[1] \in Nat /\ h[2] \in Nat /\ h[3] \in Nat /\ h[4] \in Nat
  BY <1>1, HalfEach
<1>3. ASSUME NEW k \in 0..16, h[k] = 0, NEW n \in 0..15, n >= k PROVE h[n] = 0
  <2> DEFINE Good == {i \in 0..16 : i >= k => h[i] = 0}
  <2>1. 0 \in Good
    BY <1>3
  <2>2. ASSUME NEW i \in 1..16, i - 1 \in Good PROVE i \in Good
    <3>1. h[i] = h[i - 1] \div 2
      BY <1>1 DEF Half
    <3>2. 0 \div 2 = 0
      OBVIOUS
    <3> QED BY <1>3, <2>2, <3>1, <3>2
  <2> HIDE DEF Good
  <2>3. \A i \in 0..16 : i \in Good
    BY <2>1, <2>2, Induction
  <2>4. n \in Good
    BY <2>3
  <2> QED BY <1>3, <2>4 DEF Good
<1> DEFINE h1 == h[1]
           h2 == h[2]
           h3 == h[3]
           h4 == h[4]
<1>a. /\ h1 = number \div 2 /\ h2 = h1 \div 2 /\ h3 = h2 \div 2 /\ h4 = h3 \div 2
      /\ h1 \in Nat /\ h2 \in Nat /\ h3 \in Nat /\ h4 \in Nat
  BY <1>1, HalfEach
<1> HIDE DEF h1, h2, h3, h4
<1>4. ASSUME number < 16 PROVE h[4] = 0
  <2>1. h1 < 8
    BY <1>a, <1>4
  <2>2. h2 < 4
    BY <1>a, <2>1
  <2>3. h3 < 2
    BY <1>a, <2>2
  <2> QED BY <1>a, <2>3 DEF h4
<1>5. ASSUME number < 8 PROVE h[3] = 0
  <2>1. h1 < 4
    BY <1>a, <1>5
  <2>2. h2 < 2
    BY <1>a, <2>1
  <2> QED BY <1>a, <2>2 DEF h3
<1>6. ASSUME NEW k \in 0..15, h[k] = 0 PROVE ToBits(number) \subseteq 0..(k - 1)
  <2>1. SUFFICES ASSUME NEW n \in ToBits(number) PROVE n \in 0..(k - 1)
    OBVIOUS
  <2>2. n \in 0..15 /\ h[n] % 2 = 1 /\ k \in 0..16 /\ 0 % 2 # 1
    BY <1>1, <2>1
  <2>3. ~(n >= k)
    BY <1>3, <1>6, <2>2
  <2> QED BY <2>2, <2>3
<1>7. number < 16 => ToBits(number) \subseteq 0..(4 - 1)
  BY <1>4, <1>6
<1>8. number < 8 => ToBits(number) \subseteq 0..(3 - 1)
  BY <1>5, <1>6
<1>9. 4 - 1 = 3 /\ 3 - 1 = 2
  OBVIOUS
<1> QED BY <1>7, <1>8, <1>9

-----------------------------------------------------------------------------
\* Two streams with the same bytes ahead are read alike; fields that are skipped.

\* Stream t has all the bytes of s, and perhaps more behind them.
Agree(s, t) ==
    /\ s \in Stream /\ t \in Stream
    /\ s.bytes_left <= t.bytes_left
    /\ \A i \in 1..s.bytes_left : At(s, i) = At(t, i)

\* Two readers have taken the same bytes and found the same value.
Same(r, s, q, t) ==
    \E k \in 0..s.bytes_left :
        r.ok /\ q.ok /\ r.s = Advance(s, k) /\ q.s = Advance(t, k) /\ r.v = q.v

\* Reading j bytes and then k.
LEMMA AdvanceTwice ==
    ASSUME NEW s \in Stream, NEW j \in 0..s.bytes_left, NEW k \in 0..(s.bytes_left - j)
    PROVE  Advance(Advance(s, j), k) = Advance(s, j + k) /\ j + k \in 0..s.bytes_left
<1>1. s.bytes_left \in Nat /\ s.pos \in Nat
  BY StreamType
<1>2. (s.pos + j) + k = s.pos + (j + k) /\ (s.bytes_left - j) - k = s.bytes_left - (j + k)
  BY <1>1
<1> QED BY <1>1, <1>2 DEF Advance

\* Streams that agree still agree behind k bytes,
LEMMA AgreeAdvance ==
    ASSUME NEW s, NEW t, Agree(s, t), NEW k \in 0..s.bytes_left
    PROVE  /\ Agree(Advance(s, k), Advance(t, k))
           /\ Advance(s, k).bytes_left = s.bytes_left - k /\ k \in 0..t.bytes_left
<1>1. /\ s \in Stream /\ t \in Stream /\ s.bytes_left \in Nat /\ t.bytes_left \in Nat /\ s.pos \in Nat /\ t.pos \in Nat
      /\ s.bytes_left <= t.bytes_left /\ k \in 0..t.bytes_left
  BY StreamType DEF Agree
<1>2. Advance(s, k) \in Stream /\ Advance(t, k) \in Stream
  BY <1>1, AdvanceType
<1>3. Advance(s, k) = [buf |-> s.buf, pos |-> s.pos + k, bytes_left |-> s.bytes_left - k]
  BY DEF Advance
<1>4. Advance(t, k) = [buf |-> t.buf, pos |-> t.pos + k, bytes_left |-> t.bytes_left - k]
  BY DEF Advance
<1>5. ASSUME NEW i \in 1..(s.bytes_left - k) PROVE At(Advance(s, k), i) = At(Advance(t, k), i)
  <2>1. k + i \in 1..s.bytes_left /\ (s.pos + k) + i = s.pos + (k + i) /\ (t.pos + k) + i = t.pos + (k + i)
    BY <1>1
  <2>2. At(s, k + i) = At(t, k + i)
    BY <2>1 DEF Agree
  <2> QED BY <1>3, <1>4, <2>1, <2>2 DEF At
<1> QED BY <1>1, <1>2, <1>3, <1>4, <1>5 DEF Agree

\* hold the same groups,
LEMMA AgreeValue ==
    ASSUME NEW s, NEW t, Agree(s, t), NEW k \in 0..s.bytes_left, NEW w
    PROVE  Value(s, k, w) = Value(t, k, w)
<1>1. \A i \in 1..k : At(s, i) = At(t, i)
  <2>1. s.bytes_left \in Nat
    BY StreamType DEF Agree
  <2> QED BY <2>1 DEF Agree
<1> QED BY <1>1 DEF Value

\* and the same end of a varint.
LEMMA AgreeEnds ==
    ASSUME NEW s, NEW t, Agree(s, t), NEW k, Ends(s, k)
    PROVE  Ends(t, k) /\ k \in 1..s.bytes_left /\ k \in 0..s.bytes_left
<1>1. s.bytes_left \in Nat /\ t.bytes_left \in Nat
  BY StreamType DEF Agree
<1> QED BY <1>1 DEF Agree, Ends

\* Hence pb_decode_varint reads both alike,
LEMMA SameVarint ==
    ASSUME NEW s, NEW t, Agree(s, t), pb_decode_varint(s).ok
    PROVE  /\ Same(pb_decode_varint(s), s, pb_decode_varint(t), t)
           /\ pb_decode_varint(s).v \in SUBSET (0..63)
<1>1. s \in Stream /\ t \in Stream
  BY DEF Agree
<1>2. PICK k : Fits64(s, k)
  BY <1>1, DecodeVarint DEF Error
<1>3. Ends(t, k) /\ k \in 1..s.bytes_left /\ k \in 0..s.bytes_left /\ At(s, k) = At(t, k)
  <2>1. Ends(t, k) /\ k \in 1..s.bytes_left /\ k \in 0..s.bytes_left
    BY <1>2, AgreeEnds DEF Fits64
  <2> QED BY <2>1 DEF Agree
<1>4. Fits64(t, k)
  BY <1>2, <1>3 DEF Fits64
<1>5. pb_decode_varint(s) = Done(Advance(s, k), Value(s, k, 64)) /\ pb_decode_varint(t) = Done(Advance(t, k), Value(t, k, 64))
  BY <1>1, <1>2, <1>4, DecodeVarint
<1>6. Value(s, k, 64) = Value(t, k, 64)
  BY <1>3, AgreeValue
<1>7. Value(s, k, 64) \in SUBSET (0..63)
  BY DEF Value, Shl
<1> QED BY <1>3, <1>5, <1>6, <1>7 DEF Same, Done

\* and so does pb_decode_varint32.
LEMMA SameVarint32 ==
    ASSUME NEW s, NEW t, Agree(s, t), pb_decode_varint32(s).ok
    PROVE  Same(pb_decode_varint32(s), s, pb_decode_varint32(t), t)
<1>1. s \in Stream /\ t \in Stream
  BY DEF Agree
<1>2. PICK k : Fits32(s, k)
  BY <1>1, DecodeVarint32 DEF Error
<1>3. Ends(t, k) /\ k \in 1..s.bytes_left /\ k \in 0..s.bytes_left
  BY <1>2, AgreeEnds DEF Fits32
<1>4. Valid32(t, k)
  <2>1. ASSUME NEW i \in 2..k PROVE Valid32At(t, i)
    <3>1. i \in 1..s.bytes_left /\ i - 1 \in 0..s.bytes_left
      BY <1>1, <1>3, StreamType
    <3>2. At(s, i) = At(t, i) /\ Value(s, i - 1, 32) = Value(t, i - 1, 32)
      BY <3>1, AgreeValue DEF Agree
    <3>3. Valid32At(s, i)
      BY <1>2 DEF Fits32, Valid32
    <3> QED BY <3>2, <3>3 DEF Valid32At
  <2> QED BY <2>1 DEF Valid32
<1>5. pb_decode_varint32(s) = Done(Advance(s, k), Value(s, k, 32)) /\ pb_decode_varint32(t) = Done(Advance(t, k), Value(t, k, 32))
  BY <1>1, <1>2, <1>3, <1>4, DecodeVarint32 DEF Fits32
<1>6. Value(s, k, 32) = Value(t, k, 32)
  BY <1>3, AgreeValue
<1> QED BY <1>3, <1>5, <1>6 DEF Same, Done

\* A subsequence as a function.
LEMMA SubSeqIs ==
    ASSUME NEW S, NEW q \in Seq(S), NEW m \in 0..Len(q), NEW n \in 0..Len(q), m <= n
    PROVE  /\ SubSeq(q, m + 1, n) = [i \in 1..(n - m) |-> q[m + i]]
           /\ SubSeq(q, m + 1, n) \in Seq(S) /\ Len(SubSeq(q, m + 1, n)) = n - m
           /\ \A i \in 1..(n - m) : SubSeq(q, m + 1, n)[i] = q[m + i]
<1> DEFINE a == SubSeq(q, m + 1, n)
<1>1. \A i \in (m + 1)..n : q[i] \in S
  OBVIOUS
<1>2. a \in Seq(S) /\ Len(a) = (IF m + 1 <= n THEN n - (m + 1) + 1 ELSE 0)
      /\ \A i \in 1..(n - (m + 1) + 1) : a[i] = q[(m + 1) + i - 1]
  <2>1. m + 1 \in Int /\ n \in Int
    OBVIOUS
  <2> QED BY <1>1, <2>1, SubSeqProperties
<1>3. n - (m + 1) + 1 = n - m /\ (~(m + 1 <= n) => n - m = 0) /\ \A i \in 1..(n - m) : (m + 1) + i - 1 = m + i
  OBVIOUS
<1> HIDE DEF a
<1>4. Len(a) = n - m /\ \A i \in 1..(n - m) : a[i] = q[m + i]
  BY <1>2, <1>3
<1>5. a = [i \in 1..(n - m) |-> q[m + i]]
  BY <1>2, <1>4
<1> QED BY <1>2, <1>4, <1>5 DEF a

\* pb_read gives the next bytes.
LEMMA ReadBytes ==
    ASSUME NEW s \in Stream, NEW count \in Nat, count <= s.bytes_left
    PROVE  /\ pb_read(s, count) = Done(Advance(s, count), [i \in 1..count |-> At(s, i)])
           /\ count \in 0..s.bytes_left
<1>1. /\ s.buf \in Seq(Byte) /\ s.pos \in Nat /\ s.bytes_left \in Nat /\ s.pos + s.bytes_left <= Len(s.buf)
  BY StreamType
<1>2. SubSeq(s.buf, s.pos + 1, s.pos + count) = [i \in 1..count |-> At(s, i)]
  <2>1. s.pos \in 0..Len(s.buf) /\ s.pos + count \in 0..Len(s.buf) /\ s.pos <= s.pos + count
        /\ (s.pos + count) - s.pos = count
    BY <1>1
  <2>2. SubSeq(s.buf, s.pos + 1, s.pos + count) = [i \in 1..((s.pos + count) - s.pos) |-> s.buf[s.pos + i]]
    <3> DEFINE m == s.pos
               n == s.pos + count
    <3> HIDE DEF m, n
    <3>1. s.buf \in Seq(Byte) /\ m \in 0..Len(s.buf) /\ n \in 0..Len(s.buf) /\ m <= n
      BY <1>1, <2>1 DEF m, n
    <3>2. SubSeq(s.buf, m + 1, n) = [i \in 1..(n - m) |-> s.buf[m + i]]
      BY <3>1, SubSeqIs
    <3> QED BY <3>2 DEF m, n
  <2> QED BY <2>1, <2>2 DEF At
<1>3. ~(s.bytes_left < count)
  BY <1>1
<1>4. pb_read(s, count) = Done(Advance(s, count), SubSeq(s.buf, s.pos + 1, s.pos + count))
  BY <1>3, Zenon DEF pb_read
<1>5. count \in 0..s.bytes_left
  BY <1>1
<1> QED BY <1>2, <1>4, <1>5

\* pb_read reads streams that agree alike.
LEMMA SameRead ==
    ASSUME NEW s, NEW t, Agree(s, t), NEW count \in Nat, pb_read(s, count).ok
    PROVE  /\ Same(pb_read(s, count), s, pb_read(t, count), t)
           /\ count <= s.bytes_left
           /\ pb_read(s, count).v = [i \in 1..count |-> At(s, i)]
<1>1. s \in Stream /\ t \in Stream /\ s.bytes_left \in Nat /\ t.bytes_left \in Nat /\ s.bytes_left <= t.bytes_left
  BY StreamType DEF Agree
<1>2. count <= s.bytes_left /\ count <= t.bytes_left
  <2>1. ~(s.bytes_left < count)
    BY DEF pb_read, Error
  <2> QED BY <1>1, <2>1
<1>3. /\ pb_read(s, count) = Done(Advance(s, count), [i \in 1..count |-> At(s, i)])
      /\ pb_read(t, count) = Done(Advance(t, count), [i \in 1..count |-> At(t, i)])
      /\ count \in 0..s.bytes_left
  BY <1>1, <1>2, ReadBytes
<1>4. [i \in 1..count |-> At(s, i)] = [i \in 1..count |-> At(t, i)]
  <2>1. \A i \in 1..count : At(s, i) = At(t, i)
    BY <1>1, <1>2 DEF Agree
  <2> QED BY <2>1
<1> QED BY <1>2, <1>3, <1>4 DEF Same, Done

\* One reader behind another.
LEMMA SameThen ==
    ASSUME NEW s, NEW t, Agree(s, t), NEW a, NEW b, Same(a, s, b, t), NEW r, NEW q,
           Same(r, a.s, q, b.s)
    PROVE  Same(r, s, q, t)
<1>1. PICK j \in 0..s.bytes_left : a.s = Advance(s, j) /\ b.s = Advance(t, j)
  BY DEF Same
<1>2. s \in Stream /\ t \in Stream /\ s.bytes_left \in Nat /\ t.bytes_left \in Nat /\ s.bytes_left <= t.bytes_left
  BY StreamType DEF Agree
<1>3. Advance(s, j).bytes_left = s.bytes_left - j /\ j \in 0..t.bytes_left
  BY AgreeAdvance
<1>4. PICK k \in 0..(s.bytes_left - j) :
         r.ok /\ q.ok /\ r.s = Advance(Advance(s, j), k) /\ q.s = Advance(Advance(t, j), k) /\ r.v = q.v
  BY <1>1, <1>3 DEF Same
<1>5. k \in 0..(t.bytes_left - j)
  BY <1>2
<1>6. r.s = Advance(s, j + k) /\ q.s = Advance(t, j + k) /\ j + k \in 0..s.bytes_left
  BY <1>2, <1>3, <1>4, <1>5, AdvanceTwice
<1> QED BY <1>4, <1>6 DEF Same

\* What two readers that did the same leave behind.
LEMMA SameAgree ==
    ASSUME NEW s, NEW t, Agree(s, t), NEW a, NEW b, Same(a, s, b, t)
    PROVE  Agree(a.s, b.s) /\ a.ok /\ b.ok /\ a.v = b.v
BY AgreeAdvance DEF Same

SkipState == [ok : BOOLEAN, byte : Byte, s : Stream, v : {{}}]

\* A round of the loop of pb_skip_varint keeps the types.
LEMMA SkipRoundType ==
    ASSUME NEW l \in SkipState
    PROVE  SkipRound(l) \in SkipState
<1> DEFINE b == l.s.buf[l.s.pos + 1]
<1>1. l.s \in Stream
  BY DEF SkipState
<1>2. Failed(l) \in SkipState
  BY DEF Failed, SkipState
<1>3. CASE l.s.bytes_left = 0
  BY <1>1, <1>2, <1>3, ReadByte DEF SkipRound, Error
<1>4. CASE l.s.bytes_left # 0
  <2>1. pb_readbyte(l.s) = Done(Advance(l.s, 1), b) /\ b \in Byte
    BY <1>1, <1>4, ReadByte
  <2>2. Advance(l.s, 1) \in Stream
    <3>1. 1 \in 0..l.s.bytes_left
      BY <1>1, <1>4, StreamType
    <3> QED BY <1>1, <3>1, AdvanceType
  <2> HIDE DEF b
  <2>4. [ok |-> TRUE, byte |-> b, s |-> Advance(l.s, 1), v |-> {}] \in SkipState
    BY <2>1, <2>2 DEF SkipState
  <2> QED BY <1>2, <2>1, <2>4 DEF SkipRound, Done
<1> QED BY <1>3, <1>4

SkipStep(l) == IF More(l) THEN SkipRound(l) ELSE l
SkipFirst(s) == [ok |-> TRUE, byte |-> {7}, s |-> s, v |-> {}]

\* pb_skip_varint takes no more rounds than there are bytes, and one.
LEMMA SkipLoop ==
    ASSUME NEW s \in Stream
    PROVE  \E g \in [0..(s.bytes_left + 1) -> SkipState] :
              /\ g[0] = SkipFirst(s)
              /\ \A n \in 1..(s.bytes_left + 1) : g[n] = SkipStep(g[n - 1])
              /\ pb_skip_varint(s) = Result(g[s.bytes_left + 1])
<1> DEFINE m == s.bytes_left + 1
           F == [l \in SkipState |-> SkipStep(l)]
           D(g) == [n \in 0..m |-> IF n = 0 THEN SkipFirst(s) ELSE SkipStep(g[n - 1])]
           c == CHOOSE g : g = D(g)
<1>0. m \in Nat
  BY StreamType
<1>1. F \in [SkipState -> SkipState]
  BY SkipRoundType DEF SkipStep
<1>2. SkipFirst(s) \in SkipState
  BY DEF SkipFirst, SkipState, Byte
<1>10. pb_skip_varint(s) = Result(c[m])
  BY DEF pb_skip_varint, While, SkipFirst, SkipStep
<1> HIDE DEF m
<1>3. PICK g : Rounds(SkipState, F, SkipFirst(s), m, g)
  <2> HIDE DEF F
  <2> QED BY <1>0, <1>1, <1>2, RoundsExist
<1>4. \A n \in 1..m : g[n] = SkipStep(g[n - 1])
  <2>1. \A n \in 1..m : n - 1 \in 0..m
    BY <1>0
  <2> QED BY <1>3, <2>1 DEF Rounds
<1>5. g = D(g)
  <2>1. g \in [0..m -> SkipState] /\ g[0] = SkipFirst(s)
    BY <1>3 DEF Rounds
  <2>2. \A n \in 0..m : n # 0 => n \in 1..m
    BY <1>0
  <2> QED BY <1>4, <2>1, <2>2
<1>6. c = D(c)
  <2> HIDE DEF D
  <2> QED BY <1>5
<1> HIDE DEF c
<1>7. c[0] = SkipFirst(s) /\ \A n \in 1..m : c[n] = SkipStep(c[n - 1])
  <2>1. 0 \in 0..m /\ \A n \in 1..m : n \in 0..m /\ n # 0
    BY <1>0
  <2> QED BY <1>6, <2>1
<1>8. \A n \in 0..m : c[n] \in SkipState
  <2>1. \A n \in 1..m : c[n - 1] \in SkipState => c[n] \in SkipState
    BY <1>7, SkipRoundType DEF SkipStep
  <2>2. c[0] \in SkipState
    BY <1>2, <1>7
  <2> QED BY <1>0, <2>1, <2>2, StaysIn
<1>9. c \in [0..m -> SkipState]
  BY <1>6, <1>8
<1> QED BY <1>7, <1>9, <1>10 DEF m

\* The outcomes after n bytes.
SkipGoing(s, n, l) == Runs(s, n) /\ l.ok /\ 7 \in l.byte /\ l.s = Advance(s, n)
SkipGone(s, l) == \E k : Ends(s, k) /\ l.ok /\ 7 \notin l.byte /\ l.s = Advance(s, k)
SkipRefused(s, l) == ~l.ok /\ \A k : ~Ends(s, k)

\* One round of pb_skip_varint.
LEMMA SkipByte ==
    ASSUME NEW s \in Stream, NEW n \in Nat, NEW l \in SkipState, SkipGoing(s, n, l)
    PROVE  \/ SkipGoing(s, n + 1, SkipStep(l))
           \/ SkipGone(s, SkipStep(l))
           \/ SkipRefused(s, SkipStep(l))
<1> DEFINE r == pb_readbyte(l.s)
<1>1. l.ok /\ 7 \in l.byte /\ l.s = Advance(s, n) /\ Runs(s, n)
  BY DEF SkipGoing
<1>2. SkipStep(l) = SkipRound(l)
  BY <1>1 DEF SkipStep, More
<1>3. s.bytes_left \in Nat /\ n <= s.bytes_left
  BY <1>1, StreamType DEF Runs
<1>4. ~Failed(l).ok
  BY DEF Failed, SkipState
<1>5. CASE n = s.bytes_left
  <2>1. ~r.ok
    <3>1. Advance(s, n).bytes_left = 0
      BY <1>3, <1>5 DEF Advance
    <3> QED BY <1>1, <3>1 DEF pb_readbyte, Error
  <2>2. SkipRound(l) = Failed(l)
    <3> HIDE DEF r
    <3> QED BY <2>1 DEF SkipRound, r
  <2>3. \A k : ~Ends(s, k)
    <3> SUFFICES ASSUME NEW k, Ends(s, k) PROVE FALSE
      OBVIOUS
    <3>1. n < k
      BY <1>1, EndsRuns
    <3> QED BY <1>3, <1>5, <3>1 DEF Ends
  <2> QED BY <1>2, <1>4, <2>2, <2>3 DEF SkipRefused
<1>6. CASE n < s.bytes_left
  <2>1. r.ok /\ r.s = Advance(s, n + 1) /\ r.v = At(s, n + 1)
    BY <1>1, <1>6, ReadNext DEF Done
  <2>2. SkipRound(l) = [ok |-> TRUE, byte |-> r.v, s |-> r.s, v |-> {}]
    <3> HIDE DEF r
    <3> QED BY <2>1 DEF SkipRound, r
  <2>3. CASE 7 \in At(s, n + 1)
    <3>1. Runs(s, n + 1)
      BY <1>1, <1>6, <2>3, RunsNext
    <3> QED BY <1>2, <2>1, <2>2, <2>3, <3>1 DEF SkipGoing
  <2>4. CASE 7 \notin At(s, n + 1)
    <3>1. Ends(s, n + 1)
      BY <1>1, <1>6, <2>4, RunsNext
    <3> QED BY <1>2, <2>1, <2>2, <2>4, <3>1 DEF SkipGone
  <2> QED BY <2>3, <2>4
<1> QED BY <1>3, <1>5, <1>6

\* What pb_skip_varint returns: it skips a varint of any length.
LEMMA SkipVarint ==
    ASSUME NEW s \in Stream
    PROVE  /\ \A k : Ends(s, k) => pb_skip_varint(s) = Done(Advance(s, k), {})
           /\ (\A k : ~Ends(s, k)) => pb_skip_varint(s) = Error
<1> DEFINE m == s.bytes_left + 1
<1>0. m \in Nat /\ s.bytes_left \in Nat
  BY StreamType
<1>1. PICK g \in [0..m -> SkipState] :
              /\ g[0] = SkipFirst(s)
              /\ \A n \in 1..m : g[n] = SkipStep(g[n - 1])
              /\ pb_skip_varint(s) = Result(g[m])
  BY SkipLoop
<1>2. \A k : Runs(s, k) => k # m
  BY <1>0 DEF Runs
<1> HIDE DEF m
<1> DEFINE Good == {n \in 0..m : SkipGoing(s, n, g[n]) \/ SkipGone(s, g[n]) \/ SkipRefused(s, g[n])}
<1>3. 0 \in Good
  <2>1. Runs(s, 0) /\ Advance(s, 0) = s /\ 0 \in 0..m
    BY <1>0, AdvanceZero DEF Runs
  <2>2. SkipGoing(s, 0, g[0])
    BY <1>1, <2>1 DEF SkipGoing, SkipFirst
  <2> QED BY <2>1, <2>2
<1>4. ASSUME NEW n \in 1..m, n - 1 \in Good PROVE n \in Good
  <2> DEFINE l == g[n - 1]
  <2>0. n - 1 \in 0..m /\ (n - 1) + 1 = n /\ n - 1 \in Nat /\ n \in 0..m /\ l \in SkipState /\ g[n] = SkipStep(l)
    BY <1>0, <1>1
  <2>1. CASE SkipGoing(s, n - 1, l)
    BY <2>0, <2>1, SkipByte
  <2>2. CASE SkipGone(s, l)
    <3>1. g[n] = l
      BY <2>0, <2>2 DEF SkipStep, More, SkipGone
    <3> QED BY <2>0, <2>2, <3>1
  <2>3. CASE SkipRefused(s, l)
    <3>1. g[n] = l
      BY <2>0, <2>3 DEF SkipStep, More, SkipRefused
    <3> QED BY <2>0, <2>3, <3>1
  <2>4. SkipGoing(s, n - 1, l) \/ SkipGone(s, l) \/ SkipRefused(s, l)
    BY <1>4, <2>0
  <2> QED BY <2>1, <2>2, <2>3, <2>4
<1> HIDE DEF Good
<1>5. m \in Good
  <2>1. \A n \in 0..m : n \in Good
    BY <1>0, <1>3, <1>4, Induction
  <2> QED BY <1>0, <2>1
<1>6. ~SkipGoing(s, m, g[m])
  BY <1>2 DEF SkipGoing
<1>7. g[m] \in SkipState
  BY <1>0, <1>1
<1>8. CASE SkipGone(s, g[m])
  <2>1. PICK k : Ends(s, k) /\ g[m].ok /\ g[m].s = Advance(s, k)
    BY <1>8 DEF SkipGone
  <2>2. g[m].v = {}
    BY <1>7 DEF SkipState
  <2>3. pb_skip_varint(s) = Done(Advance(s, k), {})
    BY <1>1, <2>1, <2>2 DEF Result
  <2> QED BY <2>1, <2>3, EndsOnce
<1>9. CASE SkipRefused(s, g[m])
  BY <1>1, <1>9 DEF SkipRefused, Result
<1> QED BY <1>5, <1>6, <1>8, <1>9 DEF Good

\* A varint is skipped alike in streams that agree,
LEMMA SameSkipVarint ==
    ASSUME NEW s, NEW t, Agree(s, t), pb_skip_varint(s).ok
    PROVE  Same(pb_skip_varint(s), s, pb_skip_varint(t), t)
<1>1. s \in Stream /\ t \in Stream
  BY DEF Agree
<1>2. PICK k : Ends(s, k)
  BY <1>1, SkipVarint DEF Error
<1>3. Ends(t, k) /\ k \in 0..s.bytes_left
  BY <1>2, AgreeEnds
<1>4. pb_skip_varint(s) = Done(Advance(s, k), {}) /\ pb_skip_varint(t) = Done(Advance(t, k), {})
  BY <1>1, <1>2, <1>3, SkipVarint
<1> QED BY <1>3, <1>4 DEF Same, Done

\* so is a string,
LEMMA SameSkipString ==
    ASSUME NEW s, NEW t, Agree(s, t), pb_skip_string(s).ok
    PROVE  Same(pb_skip_string(s), s, pb_skip_string(t), t)
<1> DEFINE a == pb_decode_varint32(s)
           b == pb_decode_varint32(t)
<1>1. a.ok
  BY DEF pb_skip_string, Then, Error
<1>2. Same(a, s, b, t)
  BY <1>1, SameVarint32
<1>3. Agree(a.s, b.s) /\ b.ok /\ a.v = b.v
  BY <1>2, SameAgree
<1>4. pb_skip_string(s) = pb_read(a.s, ToNat(a.v)) /\ pb_skip_string(t) = pb_read(b.s, ToNat(a.v))
  BY <1>1, <1>3 DEF pb_skip_string, Then
<1> HIDE DEF a, b
<1>5. ToNat(a.v) \in Nat
  BY ToNatType
<1>6. Same(pb_skip_string(s), a.s, pb_skip_string(t), b.s)
  <2>1. pb_read(a.s, ToNat(a.v)).ok
    BY <1>4
  <2>2. Same(pb_read(a.s, ToNat(a.v)), a.s, pb_read(b.s, ToNat(a.v)), b.s)
    BY <1>3, <1>5, <2>1, SameRead
  <2> QED BY <1>4, <2>2
<1> QED BY <1>2, <1>6, SameThen

\* and so is a field of any wire type.
LEMMA SameSkip ==
    ASSUME NEW s, NEW t, Agree(s, t), NEW wt, pb_skip_field(s, wt).ok
    PROVE  Same(pb_skip_field(s, wt), s, pb_skip_field(t, wt), t)
<1>1. wt \in {PB_WT_VARINT, PB_WT_64BIT, PB_WT_STRING, PB_WT_32BIT}
  BY DEF pb_skip_field, Error, PB_WT_VARINT, PB_WT_64BIT, PB_WT_STRING, PB_WT_32BIT
<1>2. CASE wt = PB_WT_VARINT
  <2>1. \A x : pb_skip_field(x, wt) = pb_skip_varint(x)
    BY <1>2 DEF pb_skip_field, PB_WT_VARINT, PB_WT_64BIT, PB_WT_STRING, PB_WT_32BIT
  <2> QED BY <2>1, SameSkipVarint
<1>3. CASE wt = PB_WT_64BIT
  <2>1. \A x : pb_skip_field(x, wt) = pb_read(x, 8)
    BY <1>3 DEF pb_skip_field, PB_WT_VARINT, PB_WT_64BIT, PB_WT_STRING, PB_WT_32BIT
  <2>2. 8 \in Nat /\ pb_read(s, 8).ok
    BY <2>1
  <2>3. Same(pb_read(s, 8), s, pb_read(t, 8), t)
    BY <2>2, SameRead
  <2> QED BY <2>1, <2>3
<1>4. CASE wt = PB_WT_STRING
  <2>1. \A x : pb_skip_field(x, wt) = pb_skip_string(x)
    BY <1>4 DEF pb_skip_field, PB_WT_VARINT, PB_WT_64BIT, PB_WT_STRING, PB_WT_32BIT
  <2> QED BY <2>1, SameSkipString
<1>5. CASE wt = PB_WT_32BIT
  <2>1. \A x : pb_skip_field(x, wt) = pb_read(x, 4)
    BY <1>5 DEF pb_skip_field, PB_WT_VARINT, PB_WT_64BIT, PB_WT_STRING, PB_WT_32BIT
  <2>2. 4 \in Nat /\ pb_read(s, 4).ok
    BY <2>1
  <2>3. Same(pb_read(s, 4), s, pb_read(t, 4), t)
    BY <2>2, SameRead
  <2> QED BY <2>1, <2>3
<1> QED BY <1>1, <1>2, <1>3, <1>4, <1>5

-----------------------------------------------------------------------------
\* A plain field: singular, of a type without a submessage or a length.

\* The descriptors of the robot messages.
Plain(d) ==
    /\ Len(d) \in 1..15 /\ DOMAIN d = 1..Len(d)
    /\ \A i \in 1..Len(d) :
          /\ d[i].tag = i /\ d[i].htype = "SINGULAR" /\ d[i].data_size = 4
          /\ d[i].ltype \in {"UVARINT", "FIXED32"}

\* The tags of a plain descriptor are the numbers of its fields.
LEMMA PlainTags ==
    ASSUME NEW d, Plain(d)
    PROVE  /\ Tags(d) = 1..Len(d)
           /\ \A i \in 1..Len(d) : FieldOf(d, i) = d[i]
           /\ ZeroStruct(d) = [i \in 1..Len(d) |-> {}]
<1>1. Tags(d) = 1..Len(d)
  BY DEF Tags, Plain
<1>2. ASSUME NEW i \in 1..Len(d) PROVE FieldOf(d, i) = d[i]
  <2>1. \A j \in DOMAIN d : d[j].tag = i <=> j = i
    BY DEF Plain
  <2>2. i \in DOMAIN d
    BY DEF Plain
  <2>3. (CHOOSE j \in DOMAIN d : d[j].tag = i) = i
    BY <2>1, <2>2
  <2> QED BY <2>3 DEF FieldOf
<1>3. ASSUME NEW i \in 1..Len(d) PROVE pb_field_set_to_default(FieldOf(d, i)) = {}
  <2> DEFINE f == d[i]
  <2>1. f.htype = "SINGULAR" /\ f.ltype \in {"UVARINT", "FIXED32"}
    BY DEF Plain
  <2> HIDE DEF f
  <2>2. f.htype \notin {"REPEATED", "OPTIONAL"} /\ f.ltype # "SUBMESSAGE" /\ f.ltype \in Packable
        /\ f.ltype \notin {"BYTES", "STRING"} /\ f.ltype # "FIXED_LENGTH_BYTES"
    BY <2>1 DEF Packable
  <2>3. ZeroLeaf(f) = {}
    BY <2>2 DEF ZeroLeaf
  <2>4. ZeroElement(f) = {}
    BY <2>2, <2>3, Zenon DEF ZeroElement
  <2>5. pb_field_set_to_default(f) = {}
    BY <2>2, <2>4, Zenon DEF pb_field_set_to_default, SetToDefault
  <2> QED BY <1>2, <2>5 DEF f
<1>4. ZeroStruct(d) = [i \in 1..Len(d) |-> {}]
  BY <1>1, <1>3 DEF ZeroStruct
<1> QED BY <1>1, <1>2, <1>4

\* pb_field_iter_find finds the field with a tag wherever it starts.
LEMMA PlainFind ==
    ASSUME NEW d, Plain(d), NEW index \in 0..(Len(d) - 1), NEW tag \in Nat
    PROVE  pb_field_iter_find(d, index, tag) =
              IF tag \in 1..Len(d) THEN [found |-> TRUE, index |-> tag - 1]
              ELSE [found |-> FALSE, index |-> index]
<1> DEFINE visited == IF tag < index + 1 THEN 0..index ELSE 0..(Len(d) - 1)
           matches == {i \in visited : load_descriptor_values(d, i).tag = tag}
<1>1. Len(d) \in Nat /\ \A i \in 0..(Len(d) - 1) : load_descriptor_values(d, i).tag = i + 1
  BY DEF Plain, load_descriptor_values
<1>2. visited \subseteq 0..(Len(d) - 1)
  BY <1>1
<1>3. matches = {i \in visited : i + 1 = tag}
  BY <1>1, <1>2
<1>4. load_descriptor_values(d, index).tag = index + 1
  BY <1>1
<1>5. pb_field_iter_find(d, index, tag) =
        IF tag # index + 1 /\ (tag > largest_tag(d) \/ matches = {})
        THEN [found |-> FALSE, index |-> index]
        ELSE [found |-> TRUE, index |-> IF tag = index + 1 THEN index ELSE CHOOSE i \in matches : TRUE]
  BY <1>4 DEF pb_field_iter_find
<1>6. largest_tag(d) = Len(d)
  <2> DEFINE T == {d[i].tag : i \in DOMAIN d}
  <2>1. T = 1..Len(d)
    BY DEF Plain
  <2>2. largest_tag(d) = Max(T)
    BY DEF largest_tag
  <2>3. Len(d) \in 1..Len(d) /\ \A y \in 1..Len(d) : Len(d) >= y
    BY DEF Plain
  <2> HIDE DEF T
  <2>4. Max(T) = CHOOSE x \in T : \A y \in T : x >= y
    BY DEF Max
  <2>5. \A x \in T : (\A y \in T : x >= y) => x = Len(d)
    BY <1>1, <2>1, <2>3
  <2> QED BY <2>1, <2>2, <2>3, <2>4, <2>5
<1>7. CASE tag \notin 1..Len(d)
  <2>1. tag # index + 1 /\ matches = {}
    BY <1>1, <1>2, <1>3, <1>7
  <2> HIDE DEF matches
  <2> QED BY <1>5, <1>7, <2>1
<1>8. CASE tag \in 1..Len(d)
  <2>1. ~(tag > largest_tag(d)) /\ tag - 1 \in 0..(Len(d) - 1)
    BY <1>1, <1>6, <1>8
  <2>2. tag - 1 \in visited /\ (tag - 1) + 1 = tag /\ \A i \in visited : i + 1 = tag => i = tag - 1
    BY <1>1, <1>8, <2>1
  <2>3. matches = {tag - 1}
    BY <1>3, <2>2
  <2>4. (CHOOSE i \in matches : TRUE) = tag - 1
    BY <2>3
  <2>5. tag = index + 1 => index = tag - 1
    OBVIOUS
  <2>6. matches # {}
    BY <2>3
  <2> HIDE DEF matches
  <2> QED BY <1>5, <1>8, <2>1, <2>4, <2>5, <2>6
<1> QED BY <1>7, <1>8

-----------------------------------------------------------------------------
\* What stands behind a tag.
FieldBody(s, wt, d, tag) ==
    IF tag \notin 1..Len(d) THEN pb_skip_field(s, wt)
    ELSE IF wt \notin WireTypes(d[tag]) THEN Error
    ELSE IF d[tag].ltype = "UVARINT" THEN pb_dec_varint(s, d[tag]) ELSE pb_decode_fixed32(s)

\* A fixed word, a varint of 32 bits
LEMMA SameFixed ==
    ASSUME NEW s, NEW t, Agree(s, t), pb_decode_fixed32(s).ok
    PROVE  /\ Same(pb_decode_fixed32(s), s, pb_decode_fixed32(t), t)
           /\ pb_decode_fixed32(s).v \in SUBSET (0..31)
<1> DEFINE a == pb_read(s, 4)
           b == pb_read(t, 4)
<1>1. 4 \in Nat /\ a.ok
  BY DEF pb_decode_fixed32, DecodeFixed, Then, Error
<1>2. Same(a, s, b, t) /\ 4 <= s.bytes_left /\ a.v = [i \in 1..4 |-> At(s, i)]
  BY <1>1, SameRead
<1>3. b.ok /\ a.v = b.v
  BY <1>2, SameAgree
<1>4. pb_decode_fixed32(s) = Done(a.s, FromLittleEndian(a.v)) /\ pb_decode_fixed32(t) = Done(b.s, FromLittleEndian(a.v))
  BY <1>1, <1>3 DEF pb_decode_fixed32, DecodeFixed, Then
<1> HIDE DEF a, b
<1>5. Same(pb_decode_fixed32(s), s, pb_decode_fixed32(t), t)
  BY <1>2, <1>4 DEF Same, Done
<1>6. FromLittleEndian(a.v) \in SUBSET (0..31)
  <2>1. ASSUME NEW x \in FromLittleEndian(a.v) PROVE x \in 0..31
    <3>1. DOMAIN a.v = 1..4
      BY <1>2
    <3>2. PICK i \in 1..4 : x \in Shl(a.v[i], 8 * (i - 1), 64)
      BY <3>1 DEF FromLittleEndian
    <3>3. a.v[i] \in Byte
      <4>1. i \in 1..s.bytes_left /\ s \in Stream
        BY <1>2, StreamType DEF Agree
      <4>2. At(s, i) \in Byte
        BY <4>1, StreamType DEF At
      <4> QED BY <1>2, <4>2
    <3> QED BY <3>2, <3>3 DEF Shl, Byte
  <2> QED BY <2>1
<1> QED BY <1>4, <1>5, <1>6 DEF Done

\* (pb_dec_varint on a field of four bytes),
LEMMA SameUvarint ==
    ASSUME NEW s, NEW t, Agree(s, t), NEW f, f.ltype = "UVARINT", f.data_size = 4, pb_dec_varint(s, f).ok
    PROVE  /\ Same(pb_dec_varint(s, f), s, pb_dec_varint(t, f), t)
           /\ pb_dec_varint(s, f).v \in SUBSET (0..31)
<1> DEFINE a == pb_decode_varint(s)
           b == pb_decode_varint(t)
<1>0. f.ltype # "SVARINT" /\ 8 * f.data_size - 1 = 31
  OBVIOUS
<1>1. \A x : pb_dec_varint(x, f) = IF pb_decode_varint(x).ok
                                   THEN IF Fits(pb_decode_varint(x).v, f)
                                        THEN Done(pb_decode_varint(x).s, pb_decode_varint(x).v \cap 0..31)
                                        ELSE Error
                                   ELSE Error
  BY <1>0 DEF pb_dec_varint, Then
<1>2. a.ok /\ Fits(a.v, f)
  <2>1. ~Error.ok
    BY DEF Error
  <2>2. pb_dec_varint(s, f) # Error
    BY <2>1
  <2> QED BY <1>1, <2>2, Zenon
<1>3. Same(a, s, b, t)
  BY <1>2, SameVarint
<1>4. b.ok /\ a.v = b.v
  BY <1>3, SameAgree
<1>5. pb_dec_varint(s, f) = Done(a.s, a.v \cap 0..31) /\ pb_dec_varint(t, f) = Done(b.s, a.v \cap 0..31)
  BY <1>1, <1>2, <1>4
<1> HIDE DEF a, b
<1> QED BY <1>3, <1>5 DEF Same, Done

\* and whatever else stands behind a tag are read alike in streams that agree.
LEMMA SameBody ==
    ASSUME NEW s, NEW t, Agree(s, t), NEW d, Plain(d), NEW tag \in Nat, NEW wt, FieldBody(s, wt, d, tag).ok
    PROVE  /\ Same(FieldBody(s, wt, d, tag), s, FieldBody(t, wt, d, tag), t)
           /\ tag \in 1..Len(d) => FieldBody(s, wt, d, tag).v \in SUBSET (0..31)
<1>1. CASE tag \notin 1..Len(d)
  <2>1. \A x : FieldBody(x, wt, d, tag) = pb_skip_field(x, wt)
    BY <1>1 DEF FieldBody
  <2> QED BY <1>1, <2>1, SameSkip
<1>2. CASE tag \in 1..Len(d)
  <2>0. wt \in WireTypes(d[tag])
    BY <1>2 DEF FieldBody, Error
  <2>1. d[tag].data_size = 4 /\ d[tag].ltype \in {"UVARINT", "FIXED32"}
    BY <1>2 DEF Plain
  <2>2. CASE d[tag].ltype = "UVARINT"
    <3>1. \A x : FieldBody(x, wt, d, tag) = pb_dec_varint(x, d[tag])
      BY <1>2, <2>0, <2>2 DEF FieldBody
    <3> QED BY <2>1, <2>2, <3>1, SameUvarint
  <2>3. CASE d[tag].ltype # "UVARINT"
    <3>1. \A x : FieldBody(x, wt, d, tag) = pb_decode_fixed32(x)
      BY <1>2, <2>0, <2>3 DEF FieldBody
    <3> QED BY <3>1, SameFixed
  <2> QED BY <2>2, <2>3
<1> QED BY <1>1, <1>2

-----------------------------------------------------------------------------
\* One field of a stream: its tag and what FieldBody makes of the bytes behind it.
FieldBehind(s, d) ==
    FieldBody(pb_decode_tag(s).s, pb_decode_tag(s).wire_type, d, pb_decode_tag(s).tag)
FieldOk(s, d) == pb_decode_tag(s).ok /\ pb_decode_tag(s).tag # 0 /\ FieldBehind(s, d).ok
FieldRead(s, d, k, tag, v) ==
    /\ FieldOk(s, d)
    /\ pb_decode_tag(s).tag = tag
    /\ FieldBehind(s, d).s = Advance(s, k)
    /\ FieldBehind(s, d).v = v

\* A tag is a number.
LEMMA TagType == ASSUME NEW s, pb_decode_tag(s).ok PROVE pb_decode_tag(s).tag \in Nat
<1> DEFINE r == pb_decode_varint32(s)
<1>1. r.ok
  BY DEF pb_decode_tag, Then, Error
<1>2. pb_decode_tag(s) = [ok |-> TRUE, s |-> r.s, tag |-> ToNat(Shr(r.v, 3)), wire_type |-> ToNat(r.v \cap 0..2)]
  BY <1>1 DEF pb_decode_tag, Then
<1>3. ToNat(Shr(r.v, 3)) \in Nat
  BY ToNatType
<1> QED BY <1>2, <1>3

\* A field that one stream holds is read alike from any stream that begins with the same bytes.
LEMMA SameField ==
    ASSUME NEW s, NEW t, Agree(s, t), NEW d, Plain(d), FieldOk(s, d)
    PROVE  \E k \in 1..s.bytes_left, tag \in Nat \ {0} : \E v :
              /\ FieldRead(s, d, k, tag, v) /\ FieldRead(t, d, k, tag, v)
              /\ tag \in 1..Len(d) => v \in SUBSET (0..31)
<1> DEFINE a == pb_decode_varint32(s)
           b == pb_decode_varint32(t)
           p == pb_decode_tag(s)
           q == pb_decode_tag(t)
<1>0. s \in Stream /\ t \in Stream /\ s.bytes_left \in Nat /\ t.bytes_left \in Nat /\ s.bytes_left <= t.bytes_left
  BY StreamType DEF Agree
<1>1. a.ok
  BY DEF FieldOk, pb_decode_tag, Then, Error
<1>2. PICK j : Fits32(s, j)
  BY <1>0, <1>1, DecodeVarint32 DEF Error
<1>3. a.s = Advance(s, j) /\ j \in 1..s.bytes_left
  BY <1>0, <1>2, DecodeVarint32 DEF Done, Fits32, Ends
<1>4. Same(a, s, b, t)
  BY <1>1, SameVarint32
<1>5. Agree(a.s, b.s) /\ b.ok /\ a.v = b.v
  BY <1>4, SameAgree
<1>6. b.s = Advance(t, j)
  <2>1. PICK i \in 0..s.bytes_left : a.s = Advance(s, i) /\ b.s = Advance(t, i)
    BY <1>4 DEF Same
  <2>2. i = j
    <3>1. s.pos \in Nat /\ Advance(s, i).pos = s.pos + i /\ Advance(s, j).pos = s.pos + j
      BY <1>0, StreamType DEF Advance
    <3> QED BY <1>0, <1>3, <2>1, <3>1
  <2> QED BY <2>1, <2>2
<1>7. p = [ok |-> TRUE, s |-> a.s, tag |-> ToNat(Shr(a.v, 3)), wire_type |-> ToNat(a.v \cap 0..2)]
  BY <1>1 DEF pb_decode_tag, Then
<1>8. q = [ok |-> TRUE, s |-> b.s, tag |-> ToNat(Shr(a.v, 3)), wire_type |-> ToNat(a.v \cap 0..2)]
  BY <1>5 DEF pb_decode_tag, Then
<1> DEFINE tag == ToNat(Shr(a.v, 3))
           wt == ToNat(a.v \cap 0..2)
           f == FieldBody(a.s, wt, d, tag)
           e == FieldBody(b.s, wt, d, tag)
<1>9. tag \in Nat /\ tag # 0
  BY <1>7, ToNatType DEF FieldOk
<1>10. FieldBehind(s, d) = f /\ FieldBehind(t, d) = e /\ f.ok
  BY <1>7, <1>8 DEF FieldBehind, FieldOk
<1> HIDE DEF a, b, tag, wt
<1>11. Same(f, a.s, e, b.s) /\ (tag \in 1..Len(d) => f.v \in SUBSET (0..31))
  <2> HIDE DEF f, e
  <2> QED BY <1>5, <1>9, <1>10, SameBody DEF f, e
<1> HIDE DEF f, e
<1>12. PICK i \in 0..a.s.bytes_left : f.ok /\ e.ok /\ f.s = Advance(a.s, i) /\ e.s = Advance(b.s, i) /\ f.v = e.v
  BY <1>11 DEF Same
<1>13. a.s.bytes_left = s.bytes_left - j /\ j \in 0..s.bytes_left /\ j \in 0..t.bytes_left
  BY <1>0, <1>3 DEF Advance
<1>14. i \in 0..(s.bytes_left - j) /\ i \in 0..(t.bytes_left - j)
  BY <1>0, <1>12, <1>13
<1>15. f.s = Advance(s, j + i) /\ e.s = Advance(t, j + i) /\ j + i \in 1..s.bytes_left
  BY <1>0, <1>3, <1>6, <1>12, <1>13, <1>14, AdvanceTwice
<1>16. p.ok /\ q.ok /\ p.tag = tag /\ q.tag = tag
  BY <1>7, <1>8 DEF tag
<1> HIDE DEF p, q
<1>17. FieldRead(s, d, j + i, tag, f.v) /\ FieldRead(t, d, j + i, tag, f.v)
  BY <1>9, <1>10, <1>12, <1>15, <1>16 DEF FieldRead, FieldOk, p, q
<1> QED BY <1>9, <1>11, <1>15, <1>17

-----------------------------------------------------------------------------
\* The loop of pb_decode_inner over a payload of whole fields.

PlainStruct(d) == [1..Len(d) -> SUBSET (0..31)]
DecodeState(d) == [ok : BOOLEAN, s : Stream, index : 0..(Len(d) - 1), v : PlainStruct(d), fields_seen : SUBSET Nat]

\* What a field does to the struct.
Put(d, v, tag, x) == IF tag \in 1..Len(d) THEN [v EXCEPT ![tag] = x] ELSE v

FieldStep(l, d) == DecodeField(l, d, FlatDecode)

\* The field decoders on a plain field.
LEMMA PlainDecode ==
    ASSUME NEW s, NEW wt, NEW f, NEW data, f.htype = "SINGULAR", f.ltype \in {"UVARINT", "FIXED32"}
    PROVE  decode_static_field(s, wt, f, data, FlatDecode) =
              IF wt \notin WireTypes(f) THEN Error
              ELSE IF f.ltype = "UVARINT" THEN pb_dec_varint(s, f) ELSE pb_decode_fixed32(s)
<1> DEFINE b == decode_basic_field(s, wt, f, data, FlatDecode)
<1>1. decode_static_field(s, wt, f, data, FlatDecode) = IF b.ok THEN Done(b.s, b.v) ELSE Error
  <2>1. OldElement(f, data) = data
    BY DEF OldElement
  <2>2. ASSUME NEW x PROVE NewData(f, data, x) = x
    BY DEF NewData
  <2>3. decode_static_field(s, wt, f, data, FlatDecode)
          = Then(decode_basic_field(s, wt, f, OldElement(f, data), FlatDecode),
                 LAMBDA r : Done(r.s, NewData(f, data, r.v)))
    BY DEF decode_static_field
  <2>4. decode_static_field(s, wt, f, data, FlatDecode) = IF b.ok THEN Done(b.s, NewData(f, data, b.v)) ELSE Error
    BY <2>1, <2>3 DEF Then
  <2> QED BY <2>2, <2>4
<1>2. CASE wt \notin WireTypes(f)
  <2>1. b = Error
    BY <1>2 DEF decode_basic_field
  <2> QED BY <1>1, <1>2, <2>1 DEF Error
<1>3. CASE wt \in WireTypes(f) /\ f.ltype = "UVARINT"
  <2>1. b = pb_dec_varint(s, f)
    BY <1>3 DEF decode_basic_field
  <2>2. b = Error \/ \E t, x : b = Done(t, x)
    BY <2>1 DEF pb_dec_varint, Then
  <2>3. b = IF b.ok THEN Done(b.s, b.v) ELSE Error
    BY <2>2 DEF Done, Error
  <2> QED BY <1>1, <1>3, <2>1, <2>3
<1>4. CASE wt \in WireTypes(f) /\ f.ltype = "FIXED32"
  <2>1. b = pb_decode_fixed32(s)
    BY <1>4 DEF decode_basic_field
  <2>2. b = Error \/ \E t, x : b = Done(t, x)
    BY <2>1 DEF pb_decode_fixed32, DecodeFixed, Then
  <2>3. b = IF b.ok THEN Done(b.s, b.v) ELSE Error
    BY <2>2 DEF Done, Error
  <2> QED BY <1>1, <1>4, <2>1, <2>3
<1> QED BY <1>2, <1>3, <1>4

\* One round of the loop of pb_decode_inner.
LEMMA FieldStepIs ==
    ASSUME NEW d, Plain(d), NEW l \in DecodeState(d), NEW tag, tag = pb_decode_tag(l.s).tag
    PROVE  FieldStep(l, d) =
              IF ~FieldOk(l.s, d) THEN Failed(l)
              ELSE [ok |-> TRUE, s |-> FieldBehind(l.s, d).s,
                    index |-> IF tag \in 1..Len(d) THEN tag - 1 ELSE l.index,
                    v |-> Put(d, l.v, tag, FieldBehind(l.s, d).v),
                    fields_seen |-> IF tag \in 1..Len(d) THEN l.fields_seen \cup {tag} ELSE l.fields_seen]
<1> DEFINE t == pb_decode_tag(l.s)
           found == pb_field_iter_find(d, l.index, t.tag)
           field == load_descriptor_values(d, found.index)
           r == IF found.found
                THEN decode_static_field(t.s, t.wire_type, field, l.v[field.tag], FlatDecode)
                ELSE pb_skip_field(t.s, t.wire_type)
<1>1. FieldStep(l, d) =
        IF ~t.ok THEN Failed(l)
        ELSE IF t.tag = 0 THEN Failed(l)
        ELSE IF ~r.ok THEN Failed(l)
        ELSE IF ~found.found
        THEN [ok |-> TRUE, s |-> r.s, index |-> found.index, v |-> l.v, fields_seen |-> l.fields_seen]
        ELSE [ok |-> TRUE, s |-> r.s, index |-> found.index,
              v |-> [l.v EXCEPT ![field.tag] = r.v], fields_seen |-> l.fields_seen \cup {field.tag}]
  BY DEF FieldStep, DecodeField, DecodeTagged, DecodeFound, StoreField
<1>2. ASSUME t.ok, t.tag # 0 PROVE r = FieldBehind(l.s, d)
  <2>1. t.tag \in Nat
    BY <1>2, TagType
  <2>2. l.index \in 0..(Len(d) - 1)
    BY DEF DecodeState
  <2>3. found = IF t.tag \in 1..Len(d) THEN [found |-> TRUE, index |-> t.tag - 1]
                ELSE [found |-> FALSE, index |-> l.index]
    BY <2>1, <2>2, PlainFind
  <2>4. FieldBehind(l.s, d) = FieldBody(t.s, t.wire_type, d, t.tag)
    BY DEF FieldBehind
  <2>5. CASE t.tag \notin 1..Len(d)
    <3>1. ~found.found
      BY <2>3, <2>5
    <3> HIDE DEF found, t
    <3> QED BY <2>4, <2>5, <3>1 DEF FieldBody
  <2>6. CASE t.tag \in 1..Len(d)
    <3>1. found.found /\ found.index = t.tag - 1
      BY <2>3, <2>6
    <3>2. field = d[t.tag]
      <4>1. (t.tag - 1) + 1 = t.tag
        BY <2>1
      <4> QED BY <3>1, <4>1 DEF load_descriptor_values
    <3>3. d[t.tag].htype = "SINGULAR" /\ d[t.tag].ltype \in {"UVARINT", "FIXED32"}
      BY <2>6 DEF Plain
    <3>4. r = decode_static_field(t.s, t.wire_type, d[t.tag], l.v[field.tag], FlatDecode)
      <4> HIDE DEF found, t, field
      <4> QED BY <3>1, <3>2
    <3> HIDE DEF t, field, found, r
    <3>5. r = IF t.wire_type \notin WireTypes(d[t.tag]) THEN Error
              ELSE IF d[t.tag].ltype = "UVARINT" THEN pb_dec_varint(t.s, d[t.tag]) ELSE pb_decode_fixed32(t.s)
      BY <3>3, <3>4, PlainDecode
    <3> QED BY <2>4, <2>6, <3>5 DEF FieldBody
  <2> QED BY <2>5, <2>6
<1>3. ASSUME t.ok, t.tag # 0
      PROVE  /\ t.tag \in 1..Len(d) => found.found /\ found.index = tag - 1 /\ field.tag = tag
             /\ t.tag \notin 1..Len(d) => ~found.found /\ found.index = l.index
  <2>1. t.tag \in Nat
    BY <1>3, TagType
  <2>2. l.index \in 0..(Len(d) - 1)
    BY DEF DecodeState
  <2>3. found = IF t.tag \in 1..Len(d) THEN [found |-> TRUE, index |-> t.tag - 1]
                ELSE [found |-> FALSE, index |-> l.index]
    BY <2>1, <2>2, PlainFind
  <2>4. t.tag \in 1..Len(d) => d[t.tag].tag = t.tag /\ (t.tag - 1) + 1 = t.tag
    BY <2>1 DEF Plain
  <2>5. t.tag \in 1..Len(d) => found.found /\ found.index = tag - 1
    BY <2>3
  <2>6. t.tag \in 1..Len(d) => field.tag = tag
    BY <2>4, <2>5 DEF load_descriptor_values
  <2>7. t.tag \notin 1..Len(d) => ~found.found /\ found.index = l.index
    BY <2>3
  <2> QED BY <2>5, <2>6, <2>7
<1>4. t.tag = tag
  OBVIOUS
<1> HIDE DEF r, found, field
<1>5. FieldOk(l.s, d) <=> (t.ok /\ t.tag # 0 /\ r.ok)
  BY <1>2 DEF FieldOk
<1> HIDE DEF t
<1>6. CASE ~FieldOk(l.s, d)
  BY <1>1, <1>5, <1>6
<1>7. CASE FieldOk(l.s, d) /\ tag \in 1..Len(d)
  BY <1>1, <1>2, <1>3, <1>4, <1>5, <1>7 DEF Put
<1>8. CASE FieldOk(l.s, d) /\ tag \notin 1..Len(d)
  BY <1>1, <1>2, <1>3, <1>4, <1>5, <1>8 DEF Put
<1> QED BY <1>6, <1>7, <1>8

\* A field that is read, in a state of the loop.
LEMMA FieldStepGood ==
    ASSUME NEW d, Plain(d), NEW l \in DecodeState(d), NEW k, NEW tag, NEW x, FieldRead(l.s, d, k, tag, x)
    PROVE  FieldStep(l, d).ok /\ FieldStep(l, d).s = Advance(l.s, k) /\ FieldStep(l, d).v = Put(d, l.v, tag, x)
<1>1. FieldOk(l.s, d) /\ pb_decode_tag(l.s).tag = tag /\ FieldBehind(l.s, d).s = Advance(l.s, k)
      /\ FieldBehind(l.s, d).v = x
  BY DEF FieldRead
<1>2. FieldStep(l, d) = [ok |-> TRUE, s |-> FieldBehind(l.s, d).s,
                    index |-> IF tag \in 1..Len(d) THEN tag - 1 ELSE l.index,
                    v |-> Put(d, l.v, tag, FieldBehind(l.s, d).v),
                    fields_seen |-> IF tag \in 1..Len(d) THEN l.fields_seen \cup {tag} ELSE l.fields_seen]
  BY <1>1, FieldStepIs
<1> QED BY <1>1, <1>2

\* A round keeps the types, and fails when the field cannot be read.
LEMMA FieldStepType ==
    ASSUME NEW d, Plain(d), NEW l \in DecodeState(d)
    PROVE  /\ FieldStep(l, d) \in DecodeState(d)
           /\ ~FieldOk(l.s, d) => ~FieldStep(l, d).ok
<1> DEFINE tag == pb_decode_tag(l.s).tag
           b == FieldBehind(l.s, d)
<1>1. l.s \in Stream /\ l.index \in 0..(Len(d) - 1) /\ l.v \in PlainStruct(d) /\ l.fields_seen \in SUBSET Nat
  BY DEF DecodeState
<1>2. CASE ~FieldOk(l.s, d)
  <2>1. FieldStep(l, d) = Failed(l)
    BY <1>2, FieldStepIs
  <2> QED BY <2>1 DEF Failed, DecodeState
<1>3. CASE FieldOk(l.s, d)
  <2>1. FieldStep(l, d) = [ok |-> TRUE, s |-> b.s,
                    index |-> IF tag \in 1..Len(d) THEN tag - 1 ELSE l.index,
                    v |-> Put(d, l.v, tag, b.v),
                    fields_seen |-> IF tag \in 1..Len(d) THEN l.fields_seen \cup {tag} ELSE l.fields_seen]
    BY <1>3, FieldStepIs
  <2>2. Agree(l.s, l.s)
    BY <1>1, StreamType DEF Agree
  <2>3. PICK k \in 1..l.s.bytes_left, g \in Nat \ {0} : \E v : FieldRead(l.s, d, k, g, v) /\ (g \in 1..Len(d) => v \in SUBSET (0..31))
    BY <1>3, <2>2, SameField
  <2>4. g = tag /\ b.s = Advance(l.s, k) /\ (tag \in 1..Len(d) => b.v \in SUBSET (0..31))
    BY <2>3 DEF FieldRead
  <2>5. b.s \in Stream
    <3>1. k \in 0..l.s.bytes_left
      BY <1>1, StreamType
    <3> QED BY <1>1, <2>4, <3>1, AdvanceType
  <2>6. tag \in Nat /\ Len(d) \in Nat
    BY <2>4 DEF Plain
  <2> HIDE DEF tag, b
  <2>7. Put(d, l.v, tag, b.v) \in PlainStruct(d)
    BY <1>1, <2>4 DEF Put, PlainStruct
  <2>8. (IF tag \in 1..Len(d) THEN tag - 1 ELSE l.index) \in 0..(Len(d) - 1)
    BY <1>1, <2>6
  <2>9. (IF tag \in 1..Len(d) THEN l.fields_seen \cup {tag} ELSE l.fields_seen) \in SUBSET Nat
    BY <1>1, <2>6
  <2> QED BY <1>3, <2>1, <2>5, <2>7, <2>8, <2>9 DEF DecodeState
<1> QED BY <1>2, <1>3

DecodeStep(l, d) == IF BytesLeft(l) THEN FieldStep(l, d) ELSE l
DecodeFirst(s, struct) == [ok |-> TRUE, s |-> s, index |-> 0, v |-> struct, fields_seen |-> {}]

\* pb_decode_inner takes no more rounds than there are bytes.
LEMMA DecodeLoop ==
    ASSUME NEW d, Plain(d), NEW s \in Stream, NEW struct \in PlainStruct(d)
    PROVE  \E g \in [0..s.bytes_left -> DecodeState(d)] :
              /\ g[0] = DecodeFirst(s, struct)
              /\ \A n \in 1..s.bytes_left : g[n] = DecodeStep(g[n - 1], d)
              /\ pb_decode_inner(s, d, struct) = Result(g[s.bytes_left])
<1> DEFINE m == s.bytes_left
           S == DecodeState(d)
           F == [l \in S |-> DecodeStep(l, d)]
           D(g) == [n \in 0..m |-> IF n = 0 THEN DecodeFirst(s, struct) ELSE DecodeStep(g[n - 1], d)]
           c == CHOOSE g : g = D(g)
<1>0. m \in Nat
  BY StreamType
<1>1. F \in [S -> S]
  BY FieldStepType DEF DecodeStep
<1>2. DecodeFirst(s, struct) \in S
  BY DEF DecodeFirst, DecodeState, Plain
<1>10. pb_decode_inner(s, d, struct) = Result(c[m])
  <2> DEFINE end == While(BytesLeft, LAMBDA l : DecodeField(l, d, FlatDecode),
                     [ok |-> TRUE, s |-> s, index |-> 0, v |-> struct, fields_seen |-> {}], s.bytes_left)
             required == {tag \in Tags(d) : FieldOf(d, tag).htype = "REQUIRED"}
  <2>1. pb_decode_inner(s, d, struct) = IF required \subseteq end.fields_seen THEN Result(end) ELSE Error
    BY DEF pb_decode_inner, DecodeFields, RequiredSeen
  <2>2. required = {}
    <3>1. ASSUME NEW tag \in Tags(d) PROVE FieldOf(d, tag).htype # "REQUIRED"
      <4>1. tag \in 1..Len(d) /\ FieldOf(d, tag) = d[tag]
        BY PlainTags
      <4>2. d[tag].htype = "SINGULAR"
        BY <4>1 DEF Plain
      <4> QED BY <4>1, <4>2
    <3> QED BY <3>1
  <2>3. end = c[m]
    BY DEF While, DecodeFirst, DecodeStep, FieldStep
  <2> HIDE DEF end, required, c
  <2>4. required \subseteq end.fields_seen
    BY <2>2
  <2> QED BY <2>1, <2>3, <2>4
<1> HIDE DEF m
<1>3. PICK g : Rounds(S, F, DecodeFirst(s, struct), m, g)
  <2> HIDE DEF F, S
  <2> QED BY <1>0, <1>1, <1>2, RoundsExist
<1>4. \A n \in 1..m : g[n] = DecodeStep(g[n - 1], d)
  <2>1. \A n \in 1..m : n - 1 \in 0..m
    BY <1>0
  <2> QED BY <1>3, <2>1 DEF Rounds
<1>5. g = D(g)
  <2>1. g \in [0..m -> S] /\ g[0] = DecodeFirst(s, struct)
    BY <1>3 DEF Rounds
  <2>2. \A n \in 0..m : n # 0 => n \in 1..m
    BY <1>0
  <2> HIDE DEF S
  <2> QED BY <1>4, <2>1, <2>2
<1>6. c = D(c)
  <2> HIDE DEF D
  <2> QED BY <1>5
<1> HIDE DEF c
<1>7. c[0] = DecodeFirst(s, struct) /\ \A n \in 1..m : c[n] = DecodeStep(c[n - 1], d)
  <2>1. 0 \in 0..m /\ \A n \in 1..m : n \in 0..m /\ n # 0
    BY <1>0
  <2> QED BY <1>6, <2>1
<1>8. \A n \in 0..m : c[n] \in S
  <2>1. \A n \in 1..m : c[n - 1] \in S => c[n] \in S
    BY <1>7, FieldStepType DEF DecodeStep
  <2>2. c[0] \in S
    BY <1>2, <1>7
  <2> HIDE DEF S
  <2> QED BY <1>0, <2>1, <2>2, StaysIn
<1>9. c \in [0..m -> S]
  BY <1>6, <1>8
<1> QED BY <1>7, <1>9, <1>10 DEF m

-----------------------------------------------------------------------------
\* Exactly one field, and the fields a payload is made of.
IsField(d, q, tag, x) ==
    /\ q \in Seq(Byte) /\ Len(q) >= 1
    /\ FieldRead(pb_istream_from_buffer(q), d, Len(q), tag, x)

FieldAt(d, p, i, j, v, w) ==
    i < j /\ \E tag, x : IsField(d, SubSeq(p, i + 1, j), tag, x) /\ w = Put(d, v, tag, x)

Chain(d, p, m, b, v) ==
    /\ m \in Nat
    /\ b \in [0..m -> 0..Len(p)] /\ b[0] = 0 /\ b[m] = Len(p)
    /\ v \in [0..m -> PlainStruct(d)]
    /\ \A j \in 1..m : FieldAt(d, p, b[j - 1], b[j], v[j - 1], v[j])

\* A stream begins with at most one field.
LEMMA FieldReadOnce ==
    ASSUME NEW s \in Stream, NEW d, NEW j \in Int, NEW k \in Int, NEW f, NEW g, NEW x, NEW y,
           FieldRead(s, d, j, f, x), FieldRead(s, d, k, g, y)
    PROVE  j = k /\ f = g /\ x = y
<1>1. f = g /\ x = y /\ Advance(s, j) = Advance(s, k)
  BY DEF FieldRead
<1>2. s.pos \in Nat /\ Advance(s, j).pos = s.pos + j /\ Advance(s, k).pos = s.pos + k
  BY StreamType DEF Advance
<1> QED BY <1>1, <1>2

\* A stream into the first n bytes of a payload.
Behind(p, n, i) == Advance(pb_istream_from_buffer(SubSeq(p, 1, n)), i)

\* What is left of the first n bytes of a payload behind the first i.
LEMMA BehindIs ==
    ASSUME NEW p \in Seq(Byte), NEW n \in 0..Len(p), NEW i \in 0..n
    PROVE  /\ pb_istream_from_buffer(SubSeq(p, 1, n)) \in Stream
           /\ pb_istream_from_buffer(SubSeq(p, 1, n)).bytes_left = n
           /\ Behind(p, n, i) \in Stream
           /\ Behind(p, n, i).bytes_left = n - i
           /\ \A k \in 1..(n - i) : At(Behind(p, n, i), k) = p[i + k]
           /\ \A k \in 0..(n - i) : Advance(Behind(p, n, i), k) = Behind(p, n, i + k)
<1> DEFINE q == SubSeq(p, 1, n)
           s == pb_istream_from_buffer(q)
<1>1. q \in Seq(Byte) /\ Len(q) = n /\ \A k \in 1..n : q[k] = p[k]
  <2>1. 0 \in 0..Len(p) /\ 0 <= n /\ 0 + 1 = 1 /\ n - 0 = n
    OBVIOUS
  <2>2. SubSeq(p, 0 + 1, n) \in Seq(Byte) /\ Len(SubSeq(p, 0 + 1, n)) = n - 0
        /\ \A k \in 1..(n - 0) : SubSeq(p, 0 + 1, n)[k] = p[0 + k]
    BY <2>1, SubSeqIs
  <2> QED BY <2>1, <2>2
<1> HIDE DEF q
<1>2. s \in Stream /\ s.bytes_left = n
  BY <1>1, BufferStream
<1>3. \A k \in 1..n : At(s, k) = p[k]
  BY <1>1, BufferStream
<1> HIDE DEF s
<1>4. Behind(p, n, i) = Advance(s, i) /\ \A k : Behind(p, n, i + k) = Advance(s, i + k)
  BY DEF Behind, s, q
<1>5. i \in 0..s.bytes_left
  BY <1>2
<1>6. Advance(s, i) \in Stream /\ Advance(s, i) = [buf |-> s.buf, pos |-> s.pos + i, bytes_left |-> s.bytes_left - i]
  BY <1>2, <1>5, AdvanceType
<1>7. ASSUME NEW k \in 1..(n - i) PROVE At(Advance(s, i), k) = p[i + k]
  <2>1. i + k \in 1..n /\ s.pos \in Nat /\ (s.pos + i) + k = s.pos + (i + k)
    BY <1>2, StreamType
  <2>2. At(Advance(s, i), k) = At(s, i + k)
    BY <1>6, <2>1 DEF At
  <2> QED BY <1>3, <2>1, <2>2
<1>8. ASSUME NEW k \in 0..(n - i) PROVE Advance(Advance(s, i), k) = Advance(s, i + k)
  BY <1>2, <1>5, AdvanceTwice
<1> QED BY <1>2, <1>4, <1>6, <1>7, <1>8 DEF q, s

\* A field of the payload as far as it lies before the cut, and one that the cut runs through.
LEMMA FieldBefore ==
    ASSUME NEW d, Plain(d), NEW p \in Seq(Byte), NEW n \in 0..Len(p), NEW i \in 0..n, NEW j \in 0..Len(p), i < j,
           NEW tag, NEW x, IsField(d, SubSeq(p, i + 1, j), tag, x)
    PROVE  /\ j <= n => FieldRead(Behind(p, n, i), d, j - i, tag, x)
           /\ n < j => ~FieldOk(Behind(p, n, i), d)
<1> DEFINE q == SubSeq(p, i + 1, j)
           s == pb_istream_from_buffer(q)
           t == Behind(p, n, i)
<1>1. q \in Seq(Byte) /\ Len(q) = j - i /\ \A k \in 1..(j - i) : q[k] = p[i + k]
  <2>1. i \in 0..Len(p) /\ i <= j
    OBVIOUS
  <2> QED BY <2>1, SubSeqIs
<1>2. FieldRead(s, d, j - i, tag, x)
  BY <1>1 DEF IsField
<1> HIDE DEF q
<1>3. s \in Stream /\ s.bytes_left = j - i
  BY <1>1, BufferStream
<1>4. \A k \in 1..(j - i) : At(s, k) = p[i + k]
  BY <1>1, BufferStream
<1> HIDE DEF s
<1>5. t \in Stream /\ t.bytes_left = n - i /\ \A k \in 1..(n - i) : At(t, k) = p[i + k]
  BY BehindIs
<1> HIDE DEF t
<1>6. ASSUME j <= n PROVE FieldRead(t, d, j - i, tag, x)
  <2>1. Agree(s, t)
    <3>1. \A k \in 1..(j - i) : k \in 1..(n - i)
      BY <1>6
    <3>2. j - i <= n - i
      BY <1>6
    <3> QED BY <1>3, <1>4, <1>5, <3>1, <3>2 DEF Agree
  <2>2. FieldOk(s, d)
    BY <1>2 DEF FieldRead
  <2>3. PICK k \in 1..s.bytes_left, g \in Nat \ {0} : \E y : FieldRead(s, d, k, g, y) /\ FieldRead(t, d, k, g, y)
    BY <2>1, <2>2, SameField
  <2>4. PICK y : FieldRead(s, d, k, g, y) /\ FieldRead(t, d, k, g, y)
    BY <2>3
  <2>5. j - i \in Int /\ k \in Int
    OBVIOUS
  <2>6. k = j - i /\ g = tag /\ y = x
    BY <1>2, <1>3, <2>4, <2>5, FieldReadOnce
  <2> QED BY <2>4, <2>6
<1>7. ASSUME n < j, FieldOk(t, d) PROVE FALSE
  <2>1. Agree(t, s)
    <3>1. \A k \in 1..(n - i) : k \in 1..(j - i)
      BY <1>7
    <3>2. n - i <= j - i
      BY <1>7
    <3> QED BY <1>3, <1>4, <1>5, <3>1, <3>2 DEF Agree
  <2>3. PICK k \in 1..t.bytes_left, g \in Nat \ {0} : \E y : FieldRead(t, d, k, g, y) /\ FieldRead(s, d, k, g, y)
    BY <1>7, <2>1, SameField
  <2>4. PICK y : FieldRead(s, d, k, g, y)
    BY <2>3
  <2>5. j - i \in Int /\ k \in Int
    OBVIOUS
  <2>6. k = j - i
    BY <1>2, <1>3, <2>4, <2>5, FieldReadOnce
  <2> QED BY <1>5, <1>7, <2>3, <2>6
<1> QED BY <1>6, <1>7 DEF t

\* The first n bytes of a payload: they decode to what the fields before the
\* cut say, or the cut runs through a field and they are refused.
LEMMA CutDecodes ==
    ASSUME NEW d, Plain(d), NEW p \in Seq(Byte), NEW m, NEW b, NEW v, Chain(d, p, m, b, v), NEW n \in 0..Len(p),
           NEW r, r = pb_decode_inner(pb_istream_from_buffer(SubSeq(p, 1, n)), d, v[0])
    PROVE  \/ r.ok /\ \E j \in 0..m : b[j] = n /\ r.v = v[j]
           \/ ~r.ok /\ \E j \in 1..m : b[j - 1] < n /\ n < b[j]
<1> DEFINE s == pb_istream_from_buffer(SubSeq(p, 1, n))
<1>1. /\ m \in Nat /\ b \in [0..m -> 0..Len(p)] /\ b[0] = 0 /\ b[m] = Len(p)
      /\ v \in [0..m -> PlainStruct(d)]
      /\ \A j \in 1..m : FieldAt(d, p, b[j - 1], b[j], v[j - 1], v[j])
  BY DEF Chain
<1>2. s \in Stream /\ s.bytes_left = n /\ s = Behind(p, n, 0)
  <2>1. 0 \in 0..n
    OBVIOUS
  <2>2. s \in Stream /\ s.bytes_left = n
    BY <2>1, BehindIs
  <2> QED BY <2>2, AdvanceZero DEF Behind
<1>3. v[0] \in PlainStruct(d)
  BY <1>1
<1> HIDE DEF s
<1>4. PICK g \in [0..n -> DecodeState(d)] :
              /\ g[0] = DecodeFirst(s, v[0])
              /\ \A i \in 1..n : g[i] = DecodeStep(g[i - 1], d)
              /\ r = Result(g[n])
  BY <1>2, <1>3, DecodeLoop DEF s
<1> DEFINE A(i) == i <= m /\ i <= b[i] /\ b[i] <= n /\ g[i].ok /\ g[i].s = Behind(p, n, b[i]) /\ g[i].v = v[i]
           B(i) == ~g[i].ok /\ \E j \in 1..m : b[j - 1] < n /\ n < b[j]
           C(i) == g[i].ok /\ g[i].s.bytes_left = 0 /\ \E j \in 0..m : b[j] = n /\ g[i].v = v[j]
           Good == {i \in 0..n : A(i) \/ B(i) \/ C(i)}
<1>5. 0 \in Good
  BY <1>1, <1>2, <1>4 DEF DecodeFirst
<1>6. ASSUME NEW i \in 1..n, i - 1 \in Good PROVE i \in Good
  <2> DEFINE k == i - 1
             l == g[k]
  <2>1. k \in 0..n /\ k + 1 = i /\ k \in Nat /\ i \in 0..n /\ l \in DecodeState(d) /\ g[i] = DecodeStep(l, d) /\ n \in Nat
    BY <1>4
  <2>2. CASE B(k)
    <3>1. g[i] = l
      BY <2>1, <2>2 DEF DecodeStep, BytesLeft
    <3> QED BY <2>1, <2>2, <3>1
  <2>3. CASE C(k)
    <3>1. ~(0 > 0)
      OBVIOUS
    <3>2. g[i] = l
      BY <2>1, <2>3, <3>1 DEF DecodeStep, BytesLeft
    <3> QED BY <2>1, <2>3, <3>2
  <2>4. CASE A(k)
    <3>1. b[k] \in 0..n /\ k \in 0..m /\ l.ok /\ l.s = Behind(p, n, b[k]) /\ l.v = v[k]
      BY <1>1, <2>1, <2>4
    <3>2. l.s.bytes_left = n - b[k]
      BY <3>1, BehindIs
    <3>3. CASE b[k] = n
      <4>1. l.s.bytes_left = 0 /\ ~(0 > 0)
        BY <2>1, <3>2, <3>3
      <4>2. g[i] = l
        BY <2>1, <4>1 DEF DecodeStep, BytesLeft
      <4>3. C(i)
        BY <3>1, <3>3, <4>1, <4>2
      <4> QED BY <2>1, <4>3
    <3>4. CASE b[k] # n
      <4>1. b[k] < n /\ k # m
        BY <1>1, <2>1, <3>1, <3>4
      <4>2. i \in 1..m /\ i \in 0..m
        BY <1>1, <2>1, <3>1, <4>1
      <4>3. g[i] = FieldStep(l, d)
        <5>1. l.s.bytes_left > 0
          BY <2>1, <3>1, <3>2, <4>1
        <5> QED BY <2>1, <3>1, <5>1 DEF DecodeStep, BytesLeft
      <4>4. FieldAt(d, p, b[k], b[i], v[k], v[i]) /\ b[i] \in 0..Len(p)
        BY <1>1, <4>2
      <4>5. PICK tag, x : b[k] < b[i] /\ IsField(d, SubSeq(p, b[k] + 1, b[i]), tag, x) /\ v[i] = Put(d, v[k], tag, x)
        BY <4>4 DEF FieldAt
      <4>6. /\ b[i] <= n => FieldRead(l.s, d, b[i] - b[k], tag, x)
            /\ n < b[i] => ~FieldOk(l.s, d)
        BY <3>1, <4>4, <4>5, FieldBefore
      <4>7. CASE b[i] <= n
        <5>1. g[i].ok /\ g[i].s = Advance(l.s, b[i] - b[k]) /\ g[i].v = Put(d, l.v, tag, x)
          BY <2>1, <4>3, <4>6, <4>7, FieldStepGood
        <5>2. b[i] - b[k] \in 0..(n - b[k]) /\ b[k] + (b[i] - b[k]) = b[i] /\ i <= b[i]
          BY <2>1, <2>4, <3>1, <4>4, <4>5, <4>7
        <5>3. Advance(Behind(p, n, b[k]), b[i] - b[k]) = Behind(p, n, b[i])
          <6>1. Advance(Behind(p, n, b[k]), b[i] - b[k]) = Behind(p, n, b[k] + (b[i] - b[k]))
            BY <3>1, <5>2, BehindIs
          <6> QED BY <5>2, <6>1
        <5>4. A(i)
          BY <1>1, <3>1, <4>2, <4>5, <4>7, <5>1, <5>2, <5>3
        <5> QED BY <2>1, <5>4
      <4>8. CASE n < b[i]
        <5>1. ~g[i].ok
          BY <2>1, <4>3, <4>6, <4>8, FieldStepType
        <5>2. b[i - 1] < n
          BY <4>1
        <5>3. B(i)
          BY <4>2, <4>8, <5>1, <5>2
        <5> QED BY <2>1, <5>3
      <4> QED BY <2>1, <4>4, <4>7, <4>8
    <3> QED BY <3>3, <3>4
  <2>5. A(k) \/ B(k) \/ C(k)
    BY <1>6
  <2> QED BY <2>2, <2>3, <2>4, <2>5
<1> HIDE DEF Good
<1>7. n \in Good
  <2>0. n \in Nat
    OBVIOUS
  <2>1. \A i \in 0..n : i \in Good
    BY <1>5, <1>6, <2>0, Induction
  <2> QED BY <2>1
<1>8. CASE A(n)
  <2>1. n \in 0..m /\ b[n] = n
    BY <1>1, <1>8
  <2> QED BY <1>4, <1>8, <2>1 DEF Result, Done
<1>9. CASE B(n)
  BY <1>4, <1>9 DEF Result, Error
<1>10. CASE C(n)
  BY <1>4, <1>10 DEF Result, Done
<1> QED BY <1>7, <1>8, <1>9, <1>10 DEF Good

\* A whole payload.
LEMMA WholeDecodes ==
    ASSUME NEW d, Plain(d), NEW p \in Seq(Byte), NEW m, NEW b, NEW v, Chain(d, p, m, b, v),
           NEW r, r = pb_decode_inner(pb_istream_from_buffer(p), d, v[0])
    PROVE  r.ok /\ r.v = v[m]
<1>1. /\ m \in Nat /\ b \in [0..m -> 0..Len(p)] /\ b[0] = 0 /\ b[m] = Len(p)
      /\ \A j \in 1..m : FieldAt(d, p, b[j - 1], b[j], v[j - 1], v[j])
  BY DEF Chain
<1>2. Len(p) \in 0..Len(p) /\ SubSeq(p, 1, Len(p)) = p
  BY SubSeqFull
<1>3. \/ r.ok /\ \E j \in 0..m : b[j] = Len(p) /\ r.v = v[j]
      \/ ~r.ok /\ \E j \in 1..m : b[j - 1] < Len(p) /\ Len(p) < b[j]
  <2>1. r = pb_decode_inner(pb_istream_from_buffer(SubSeq(p, 1, Len(p))), d, v[0])
    BY <1>2
  <2> QED BY <1>2, <2>1, CutDecodes
<1>4. \A j \in 1..m : ~(Len(p) < b[j])
  BY <1>1
<1>5. PICK j \in 0..m : r.ok /\ b[j] = Len(p) /\ r.v = v[j]
  BY <1>3, <1>4
<1>6. j = m
  <2>1. SUFFICES ASSUME j # m PROVE FALSE
    OBVIOUS
  <2>2. j + 1 \in 1..m /\ (j + 1) - 1 = j
    BY <1>1, <2>1
  <2>3. b[j] < b[j + 1] /\ b[j + 1] \in 0..Len(p)
    BY <1>1, <2>2 DEF FieldAt
  <2> QED BY <1>5, <2>3
<1> QED BY <1>5, <1>6

-----------------------------------------------------------------------------
\* The varint encoder writes seven bits a byte and marks every byte but the last.

\* The k-th group of seven bits.
Group(x, k) == Shr(x, 7 * (k - 1)) \cap 0..6

\* A shift to the right,
LEMMA ShrIs ==
    ASSUME NEW x \in SUBSET Nat, NEW n \in Nat
    PROVE  /\ Shr(x, n) \in SUBSET Nat
           /\ \A b \in Nat : b \in Shr(x, n) <=> b + n \in x
<1>1. Shr(x, n) \in SUBSET Nat
  BY DEF Shr
<1>2. ASSUME NEW b \in Nat PROVE b \in Shr(x, n) <=> b + n \in x
  <2>1. ASSUME b \in Shr(x, n) PROVE b + n \in x
    <3>1. PICK i \in x : i >= n /\ b = i - n
      BY <2>1 DEF Shr
    <3>2. b + n = i
      BY <3>1
    <3> QED BY <3>2
  <2>2. ASSUME b + n \in x PROVE b \in Shr(x, n)
    <3>1. b + n >= n /\ (b + n) - n = b
      OBVIOUS
    <3> QED BY <2>2, <3>1 DEF Shr
  <2> QED BY <2>1, <2>2
<1> QED BY <1>1, <1>2

\* two of them,
LEMMA ShrShr ==
    ASSUME NEW x \in SUBSET Nat, NEW m \in Nat, NEW n \in Nat
    PROVE  Shr(Shr(x, m), n) = Shr(x, m + n)
<1>1. Shr(x, m) \in SUBSET Nat /\ Shr(Shr(x, m), n) \in SUBSET Nat /\ Shr(x, m + n) \in SUBSET Nat
  <2>1. Shr(x, m) \in SUBSET Nat
    BY ShrIs
  <2>2. Shr(Shr(x, m), n) \in SUBSET Nat
    BY <2>1, ShrIs
  <2>3. m + n \in Nat
    OBVIOUS
  <2> QED BY <2>1, <2>2, <2>3, ShrIs
<1>2. ASSUME NEW b \in Nat PROVE b \in Shr(Shr(x, m), n) <=> b \in Shr(x, m + n)
  <2>1. b + n \in Nat /\ (b + n) + m = b + (m + n) /\ m + n \in Nat
    OBVIOUS
  <2>2. b \in Shr(Shr(x, m), n) <=> b + n \in Shr(x, m)
    BY <1>1, ShrIs
  <2>3. b + n \in Shr(x, m) <=> (b + n) + m \in x
    BY <2>1, ShrIs
  <2>4. b \in Shr(x, m + n) <=> b + (m + n) \in x
    BY <2>1, ShrIs
  <2> QED BY <2>1, <2>2, <2>3, <2>4
<1> QED BY <1>1, <1>2

\* and one that shifts everything out.
LEMMA ShrBound ==
    ASSUME NEW w \in Nat, NEW x \in SUBSET (0..w), NEW n \in Nat
    PROVE  Shr(x, n) \in SUBSET (0..w) /\ (n > w => Shr(x, n) = {}) /\ x \in SUBSET Nat
<1>1. x \in SUBSET Nat
  OBVIOUS
<1>2. Shr(x, n) \in SUBSET Nat /\ \A b \in Nat : b \in Shr(x, n) <=> b + n \in x
  BY <1>1, ShrIs
<1>3. ASSUME NEW b \in Shr(x, n) PROVE b \in 0..w /\ ~(n > w)
  <2>1. b \in Nat /\ b + n \in 0..w
    BY <1>2
  <2> QED BY <2>1
<1> QED BY <1>1, <1>3

\* A group is a byte, with and without the bit that says that more follow.
LEMMA GroupType ==
    ASSUME NEW x, NEW k
    PROVE  Group(x, k) \in Byte /\ Group(x, k) \cup {7} \in Byte /\ Group(x, k) \subseteq 0..6 /\ 7 \notin Group(x, k)
BY DEF Group, Byte

-----------------------------------------------------------------------------
LowState == [buffer : Seq(Byte), byte : Byte, low : SUBSET (0..31), high : SUBSET (0..31)]

\* A round of the loop over the low word keeps the types.
LEMMA LowRoundType == ASSUME NEW l \in LowState PROVE LowRound(l) \in LowState
<1>1. l.buffer \in Seq(Byte) /\ l.byte \in Byte /\ l.low \in SUBSET (0..31) /\ l.high \in SUBSET (0..31)
  BY DEF LowState
<1>2. l.byte \cup {7} \in Byte /\ l.low \cap 0..6 \in Byte
  BY <1>1 DEF Byte
<1>3. Append(l.buffer, l.byte \cup {7}) \in Seq(Byte)
  BY <1>1, <1>2
<1>4. Shr(l.low, 7) \in SUBSET (0..31)
  BY <1>1, ShrBound
<1> QED BY <1>1, <1>2, <1>3, <1>4 DEF LowRound, LowState

LowStep(l) == IF LowLeft(l) THEN LowRound(l) ELSE l
LowFirst(low, high) == [buffer |-> <<>>, byte |-> low \cap 0..6, low |-> Shr(low, 7), high |-> high]
LowEnd(low, high) == While(LowLeft, LowRound, LowFirst(low, high), 4)

\* The loop over the low word takes four rounds at most.
LEMMA LowLoop ==
    ASSUME NEW low \in SUBSET (0..31), NEW high \in SUBSET (0..31)
    PROVE  \E g \in [0..4 -> LowState] :
              /\ g[0] = LowFirst(low, high)
              /\ \A n \in 1..4 : g[n] = LowStep(g[n - 1])
              /\ LowEnd(low, high) = g[4]
<1> DEFINE F == [l \in LowState |-> LowStep(l)]
           D(g) == [n \in 0..4 |-> IF n = 0 THEN LowFirst(low, high) ELSE LowStep(g[n - 1])]
           c == CHOOSE g : g = D(g)
<1>1. F \in [LowState -> LowState]
  BY LowRoundType DEF LowStep
<1>2. LowFirst(low, high) \in LowState
  <2>1. Shr(low, 7) \in SUBSET (0..31) /\ low \cap 0..6 \in Byte /\ <<>> \in Seq(Byte)
    BY ShrBound DEF Byte
  <2> QED BY <2>1 DEF LowFirst, LowState
<1>3. PICK g : Rounds(LowState, F, LowFirst(low, high), 4, g)
  <2> HIDE DEF F
  <2> QED BY <1>1, <1>2, RoundsExist
<1>4. \A n \in 1..4 : g[n] = LowStep(g[n - 1])
  <2>1. \A n \in 1..4 : n - 1 \in 0..4
    OBVIOUS
  <2> QED BY <1>3, <2>1 DEF Rounds
<1>5. g = D(g)
  BY <1>3, <1>4 DEF Rounds
<1>6. c = D(c)
  <2> HIDE DEF D
  <2> QED BY <1>5
<1>10. LowEnd(low, high) = c[4]
  BY DEF LowEnd, While, LowStep
<1> HIDE DEF c
<1>7. c[0] = LowFirst(low, high) /\ \A n \in 1..4 : c[n] = LowStep(c[n - 1])
  BY <1>6
<1>8. \A n \in 0..4 : c[n] \in LowState
  <2>1. \A n \in 1..4 : c[n - 1] \in LowState => c[n] \in LowState
    BY <1>7, LowRoundType DEF LowStep
  <2> QED BY <1>2, <1>7, <2>1, StaysIn
<1>9. c \in [0..4 -> LowState]
  BY <1>6, <1>8
<1> QED BY <1>7, <1>9, <1>10

\* The state after i groups of the low word.
LowIs(low, high, i, l) ==
    /\ Len(l.buffer) = i /\ \A k \in 1..i : l.buffer[k] = Group(low, k) \cup {7}
    /\ l.byte = Group(low, i + 1)
    /\ l.low = Shr(low, 7 * (i + 1))
    /\ l.high = high

\* A round writes the next group.
LEMMA LowNext ==
    ASSUME NEW low \in SUBSET (0..31), NEW high \in SUBSET (0..31), NEW i \in Nat, NEW l \in LowState,
           LowIs(low, high, i, l)
    PROVE  LowIs(low, high, i + 1, LowRound(l))
<1>1. /\ l.buffer \in Seq(Byte) /\ l.byte \in Byte /\ Len(l.buffer) = i
      /\ \A k \in 1..i : l.buffer[k] = Group(low, k) \cup {7}
      /\ l.byte = Group(low, i + 1) /\ l.low = Shr(low, 7 * (i + 1)) /\ l.high = high /\ low \in SUBSET Nat
  BY DEF LowState, LowIs
<1> DEFINE e == l.byte \cup {7}
           a == Append(l.buffer, e)
<1>2. e \in Byte /\ e = Group(low, i + 1) \cup {7}
  BY <1>1 DEF Byte
<1> HIDE DEF e
<1>3. Len(a) = i + 1 /\ a[i + 1] = e /\ \A k \in 1..i : a[k] = l.buffer[k]
  BY <1>1, <1>2, AppendProperties
<1>4. \A k \in 1..(i + 1) : a[k] = Group(low, k) \cup {7}
  <2>1. \A k \in 1..(i + 1) : k = i + 1 \/ k \in 1..i
    OBVIOUS
  <2> HIDE DEF a
  <2> QED BY <1>1, <1>2, <1>3, <2>1
<1>5. l.low \cap 0..6 = Group(low, (i + 1) + 1)
  <2>1. 7 * (((i + 1) + 1) - 1) = 7 * (i + 1)
    OBVIOUS
  <2> QED BY <1>1, <2>1 DEF Group
<1>6. Shr(l.low, 7) = Shr(low, 7 * ((i + 1) + 1))
  <2>1. 7 * ((i + 1) + 1) = 7 * (i + 1) + 7 /\ 7 * (i + 1) \in Nat
    OBVIOUS
  <2>2. Shr(Shr(low, 7 * (i + 1)), 7) = Shr(low, 7 * (i + 1) + 7)
    BY <1>1, <2>1, ShrShr
  <2> QED BY <1>1, <2>1, <2>2
<1>7. LowRound(l) = [buffer |-> a, byte |-> l.low \cap 0..6, low |-> Shr(l.low, 7), high |-> l.high]
  BY DEF LowRound, e
<1> HIDE DEF a
<1> QED BY <1>1, <1>3, <1>4, <1>5, <1>6, <1>7 DEF LowIs

\* Where the loop ends: behind four groups, or when nothing but zeros is left.
LEMMA LowDone ==
    ASSUME NEW low \in SUBSET (0..31), NEW high \in SUBSET (0..31)
    PROVE  /\ LowEnd(low, high) \in LowState
           /\ \E i \in 0..4 : LowIs(low, high, i, LowEnd(low, high)) /\ (i = 4 \/ (Shr(low, 7 * (i + 1)) = {} /\ high = {}))
<1>1. PICK g \in [0..4 -> LowState] :
              /\ g[0] = LowFirst(low, high)
              /\ \A n \in 1..4 : g[n] = LowStep(g[n - 1])
              /\ LowEnd(low, high) = g[4]
  BY LowLoop
<1> DEFINE Good == {n \in 0..4 : \E i \in 0..n : LowIs(low, high, i, g[n]) /\ (i = n \/ ~LowLeft(g[n]))}
<1>2. 0 \in Good
  <2>0. Shr(low, 0) = low
    <3>1. low \in SUBSET Nat /\ 0 \in Nat /\ \A b \in Nat : b + 0 = b
      OBVIOUS
    <3>2. Shr(low, 0) \in SUBSET Nat /\ \A b \in Nat : b \in Shr(low, 0) <=> b + 0 \in low
      BY <3>1, ShrIs
    <3> QED BY <3>1, <3>2
  <2>1. 7 * ((0 + 1) - 1) = 0 /\ 7 * (0 + 1) = 7 /\ Shr(low, 0) = low
    BY <2>0
  <2>2. Group(low, 0 + 1) = low \cap 0..6
    BY <2>1 DEF Group
  <2>3. LowIs(low, high, 0, g[0])
    BY <1>1, <2>1, <2>2 DEF LowIs, LowFirst
  <2> QED BY <2>3
<1>3. ASSUME NEW n \in 1..4, n - 1 \in Good PROVE n \in Good
  <2> DEFINE l == g[n - 1]
  <2>1. n - 1 \in 0..4 /\ n \in 0..4 /\ l \in LowState /\ g[n] = LowStep(l)
    BY <1>1
  <2>2. PICK i \in 0..(n - 1) : LowIs(low, high, i, l) /\ (i = n - 1 \/ ~LowLeft(l))
    BY <1>3
  <2>3. i \in Nat /\ i \in 0..n /\ (i = n - 1 => i + 1 = n /\ i + 1 \in 0..n)
    BY <2>2
  <2>4. CASE LowLeft(l)
    <3>1. g[n] = LowRound(l) /\ i = n - 1
      BY <2>1, <2>2, <2>4 DEF LowStep
    <3>2. LowIs(low, high, i + 1, g[n])
      BY <2>1, <2>2, <2>3, <3>1, LowNext
    <3> QED BY <2>1, <2>3, <3>1, <3>2
  <2>5. CASE ~LowLeft(l)
    <3>1. g[n] = l
      BY <2>1, <2>5 DEF LowStep
    <3> QED BY <2>1, <2>2, <2>3, <2>5, <3>1
  <2> QED BY <2>4, <2>5
<1> HIDE DEF Good
<1>4. 4 \in Good
  <2>1. \A n \in 0..4 : n \in Good
    BY <1>2, <1>3, Induction
  <2> QED BY <2>1
<1>5. PICK i \in 0..4 : LowIs(low, high, i, g[4]) /\ (i = 4 \/ ~LowLeft(g[4]))
  BY <1>4 DEF Good
<1>6. i = 4 \/ (Shr(low, 7 * (i + 1)) = {} /\ high = {})
  BY <1>5 DEF LowIs, LowLeft
<1>7. g[4] \in LowState
  BY <1>1
<1> QED BY <1>1, <1>5, <1>6, <1>7

HighState == [buffer : Seq(Byte), byte : Byte, high : SUBSET (0..31)]

\* A round of the loop over the high word keeps the types.
LEMMA HighRoundType == ASSUME NEW l \in HighState PROVE HighRound(l) \in HighState
<1>1. l.buffer \in Seq(Byte) /\ l.byte \in Byte /\ l.high \in SUBSET (0..31)
  BY DEF HighState
<1>2. l.byte \cup {7} \in Byte /\ l.high \cap 0..6 \in Byte
  BY <1>1 DEF Byte
<1>3. Append(l.buffer, l.byte \cup {7}) \in Seq(Byte)
  BY <1>1, <1>2
<1>4. Shr(l.high, 7) \in SUBSET (0..31)
  BY <1>1, ShrBound
<1> QED BY <1>1, <1>2, <1>3, <1>4 DEF HighRound, HighState

HighStep(l) == IF HighLeft(l) THEN HighRound(l) ELSE l
HighEnd(first) == While(HighLeft, HighRound, first, 5)

\* The loop over the high word takes five rounds at most.
LEMMA HighLoop ==
    ASSUME NEW first \in HighState
    PROVE  \E g \in [0..5 -> HighState] :
              /\ g[0] = first
              /\ \A n \in 1..5 : g[n] = HighStep(g[n - 1])
              /\ HighEnd(first) = g[5]
<1> DEFINE F == [l \in HighState |-> HighStep(l)]
           D(g) == [n \in 0..5 |-> IF n = 0 THEN first ELSE HighStep(g[n - 1])]
           c == CHOOSE g : g = D(g)
<1>1. F \in [HighState -> HighState]
  BY HighRoundType DEF HighStep
<1>3. PICK g : Rounds(HighState, F, first, 5, g)
  <2> HIDE DEF F
  <2> QED BY <1>1, RoundsExist
<1>4. \A n \in 1..5 : g[n] = HighStep(g[n - 1])
  <2>1. \A n \in 1..5 : n - 1 \in 0..5
    OBVIOUS
  <2> QED BY <1>3, <2>1 DEF Rounds
<1>5. g = D(g)
  BY <1>3, <1>4 DEF Rounds
<1>6. c = D(c)
  <2> HIDE DEF D
  <2> QED BY <1>5
<1>10. HighEnd(first) = c[5]
  BY DEF HighEnd, While, HighStep
<1> HIDE DEF c
<1>7. c[0] = first /\ \A n \in 1..5 : c[n] = HighStep(c[n - 1])
  BY <1>6
<1>8. \A n \in 0..5 : c[n] \in HighState
  <2>1. \A n \in 1..5 : c[n - 1] \in HighState => c[n] \in HighState
    BY <1>7, HighRoundType DEF HighStep
  <2> QED BY <1>7, <2>1, StaysIn
<1>9. c \in [0..5 -> HighState]
  BY <1>6, <1>8
<1> QED BY <1>7, <1>9, <1>10

\* It does nothing when the high word is zero.
LEMMA HighNone ==
    ASSUME NEW first \in HighState, first.high = {}
    PROVE  HighEnd(first) = first
<1>1. PICK g \in [0..5 -> HighState] :
              /\ g[0] = first
              /\ \A n \in 1..5 : g[n] = HighStep(g[n - 1])
              /\ HighEnd(first) = g[5]
  BY HighLoop
<1>2. \A n \in 1..5 : g[n - 1] \in {first} => g[n] \in {first}
  BY <1>1 DEF HighStep, HighLeft
<1>3. \A n \in 0..5 : g[n] \in {first}
  BY <1>1, <1>2, StaysIn
<1> QED BY <1>1, <1>3

\* The state after i groups of the high word, the first of which it shares with the low word.
HighIs(x, i, l) ==
    /\ Len(l.buffer) = 4 + i /\ \A k \in 1..(4 + i) : l.buffer[k] = Group(x, k) \cup {7}
    /\ l.byte = Group(x, 5 + i)
    /\ l.high = Shr(x, 35 + 7 * i)

\* A round writes the next group.
LEMMA HighNext ==
    ASSUME NEW x \in SUBSET (0..63), NEW i \in Nat, NEW l \in HighState, HighIs(x, i, l)
    PROVE  HighIs(x, i + 1, HighRound(l))
<1>1. /\ l.buffer \in Seq(Byte) /\ l.byte \in Byte /\ Len(l.buffer) = 4 + i
      /\ \A k \in 1..(4 + i) : l.buffer[k] = Group(x, k) \cup {7}
      /\ l.byte = Group(x, 5 + i) /\ l.high = Shr(x, 35 + 7 * i) /\ x \in SUBSET Nat
  BY DEF HighState, HighIs
<1> DEFINE e == l.byte \cup {7}
           a == Append(l.buffer, e)
<1>2. e \in Byte /\ e = Group(x, 5 + i) \cup {7}
  BY <1>1 DEF Byte
<1> HIDE DEF e
<1>3. Len(a) = (4 + i) + 1 /\ a[(4 + i) + 1] = e /\ \A k \in 1..(4 + i) : a[k] = l.buffer[k]
  BY <1>1, <1>2, AppendProperties
<1>0. (4 + i) + 1 = 4 + (i + 1) /\ (4 + i) + 1 = 5 + i
  OBVIOUS
<1>4. \A k \in 1..(4 + (i + 1)) : a[k] = Group(x, k) \cup {7}
  <2>1. \A k \in 1..(4 + (i + 1)) : k = 5 + i \/ k \in 1..(4 + i)
    OBVIOUS
  <2> HIDE DEF a
  <2> QED BY <1>0, <1>1, <1>2, <1>3, <2>1
<1>5. l.high \cap 0..6 = Group(x, 5 + (i + 1))
  <2>1. 7 * ((5 + (i + 1)) - 1) = 35 + 7 * i
    OBVIOUS
  <2> QED BY <1>1, <2>1 DEF Group
<1>6. Shr(l.high, 7) = Shr(x, 35 + 7 * (i + 1))
  <2>1. 35 + 7 * (i + 1) = (35 + 7 * i) + 7 /\ 35 + 7 * i \in Nat
    OBVIOUS
  <2>2. Shr(Shr(x, 35 + 7 * i), 7) = Shr(x, (35 + 7 * i) + 7)
    <3> DEFINE m == 35 + 7 * i
    <3>1. x \in SUBSET Nat /\ m \in Nat /\ 7 \in Nat
      BY <2>1
    <3> HIDE DEF m
    <3>2. Shr(Shr(x, m), 7) = Shr(x, m + 7)
      BY <3>1, ShrShr
    <3> QED BY <3>2 DEF m
  <2> QED BY <1>1, <2>1, <2>2
<1>7. HighRound(l) = [buffer |-> a, byte |-> l.high \cap 0..6, high |-> Shr(l.high, 7)]
  BY DEF HighRound, e
<1> HIDE DEF a
<1> QED BY <1>0, <1>1, <1>3, <1>4, <1>5, <1>6, <1>7 DEF HighIs

\* Where the loop ends: when nothing but zeros is left.
LEMMA HighDone ==
    ASSUME NEW x \in SUBSET (0..63), NEW first \in HighState, HighIs(x, 0, first)
    PROVE  /\ HighEnd(first) \in HighState
           /\ \E i \in 0..5 : HighIs(x, i, HighEnd(first)) /\ Shr(x, 35 + 7 * i) = {}
<1>1. PICK g \in [0..5 -> HighState] :
              /\ g[0] = first
              /\ \A n \in 1..5 : g[n] = HighStep(g[n - 1])
              /\ HighEnd(first) = g[5]
  BY HighLoop
<1> DEFINE Good == {n \in 0..5 : \E i \in 0..n : HighIs(x, i, g[n]) /\ (i = n \/ ~HighLeft(g[n]))}
<1>2. 0 \in Good
  BY <1>1
<1>3. ASSUME NEW n \in 1..5, n - 1 \in Good PROVE n \in Good
  <2> DEFINE l == g[n - 1]
  <2>1. n - 1 \in 0..5 /\ n \in 0..5 /\ l \in HighState /\ g[n] = HighStep(l)
    BY <1>1
  <2>2. PICK i \in 0..(n - 1) : HighIs(x, i, l) /\ (i = n - 1 \/ ~HighLeft(l))
    BY <1>3
  <2>3. i \in Nat /\ i \in 0..n /\ (i = n - 1 => i + 1 = n /\ i + 1 \in 0..n)
    BY <2>2
  <2>4. CASE HighLeft(l)
    <3>1. g[n] = HighRound(l) /\ i = n - 1
      BY <2>1, <2>2, <2>4 DEF HighStep
    <3>2. HighIs(x, i + 1, g[n])
      BY <2>1, <2>2, <2>3, <3>1, HighNext
    <3> QED BY <2>1, <2>3, <3>1, <3>2
  <2>5. CASE ~HighLeft(l)
    <3>1. g[n] = l
      BY <2>1, <2>5 DEF HighStep
    <3> QED BY <2>1, <2>2, <2>3, <2>5, <3>1
  <2> QED BY <2>4, <2>5
<1> HIDE DEF Good
<1>4. 5 \in Good
  <2>1. \A n \in 0..5 : n \in Good
    BY <1>2, <1>3, Induction
  <2> QED BY <2>1
<1>5. PICK i \in 0..5 : HighIs(x, i, g[5]) /\ (i = 5 \/ ~HighLeft(g[5]))
  BY <1>4 DEF Good
<1>6. Shr(x, 35 + 7 * i) = {}
  <2>1. CASE i = 5
    <3>1. 35 + 7 * i = 70 /\ 70 > 63 /\ 70 \in Nat /\ 63 \in Nat
      BY <2>1
    <3>2. Shr(x, 70) = {}
      <4> DEFINE w == 63
                 m == 70
      <4>1. w \in Nat /\ m \in Nat /\ m > w /\ x \in SUBSET (0..w)
        OBVIOUS
      <4> HIDE DEF w, m
      <4>2. Shr(x, m) = {}
        BY <4>1, ShrBound
      <4> QED BY <4>2 DEF m
    <3> QED BY <3>1, <3>2
  <2>2. CASE i # 5
    BY <1>5, <2>2 DEF HighIs, HighLeft
  <2> QED BY <2>1, <2>2
<1>7. g[5] \in HighState
  BY <1>1
<1> QED BY <1>1, <1>5, <1>6, <1>7

\* The varint of a value: its groups of seven bits, as many as it needs.
VarintIs(q, x, k) ==
    /\ q \in Seq(Byte) /\ Len(q) = k
    /\ \A i \in 1..(k - 1) : q[i] = Group(x, i) \cup {7}
    /\ q[k] = Group(x, k)
    /\ x \subseteq 0..(7 * k - 1)

\* The last group, without the mark, makes a varint of what was written.
LEMMA AppendVarint ==
    ASSUME NEW x \in SUBSET (0..63), NEW buffer \in Seq(Byte), NEW n \in Nat, Len(buffer) = n,
           \A i \in 1..n : buffer[i] = Group(x, i) \cup {7}, Shr(x, 7 * (n + 1)) = {}
    PROVE  VarintIs(Append(buffer, Group(x, n + 1)), x, n + 1)
<1> DEFINE e == Group(x, n + 1)
           a == Append(buffer, e)
<1>1. e \in Byte
  BY GroupType
<1> HIDE DEF e
<1>2. a \in Seq(Byte) /\ Len(a) = n + 1 /\ a[n + 1] = e /\ \A k \in 1..n : a[k] = buffer[k]
  BY <1>1, AppendProperties
<1>3. x \subseteq 0..(7 * (n + 1) - 1)
  <2>1. SUFFICES ASSUME NEW y \in x, ~(y \in 0..(7 * (n + 1) - 1)) PROVE FALSE
    OBVIOUS
  <2> DEFINE m == 7 * (n + 1)
  <2>2. y \in Nat /\ m \in Nat /\ y - m \in Nat /\ (y - m) + m = y /\ x \in SUBSET Nat
    BY <2>1
  <2> HIDE DEF m
  <2>3. y - m \in Shr(x, m)
    <3>1. y - m \in Shr(x, m) <=> (y - m) + m \in x
      BY <2>2, ShrIs
    <3> QED BY <2>2, <3>1
  <2> QED BY <2>3 DEF m
<1>4. (n + 1) - 1 = n
  OBVIOUS
<1> HIDE DEF a
<1>5. VarintIs(a, x, n + 1)
  BY <1>2, <1>3, <1>4 DEF VarintIs, e
<1> QED BY <1>5 DEF a, e

\* The first four groups lie in the low word.
LEMMA GroupLow ==
    ASSUME NEW x \in SUBSET (0..63), NEW k \in 1..4
    PROVE  Group(x \cap 0..31, k) = Group(x, k)
<1> DEFINE n == 7 * (k - 1)
           low == x \cap 0..31
<1>1. x \in SUBSET Nat /\ low \in SUBSET Nat /\ n \in Nat /\ n <= 21
  OBVIOUS
<1>2. ASSUME NEW b \in 0..6 PROVE b \in Shr(low, n) <=> b \in Shr(x, n)
  <2>1. b \in Nat /\ b + n \in 0..31
    BY <1>1
  <2> HIDE DEF n
  <2>2. (b \in Shr(x, n) <=> b + n \in x) /\ (b \in Shr(low, n) <=> b + n \in low)
    BY <1>1, <2>1, ShrIs
  <2> QED BY <2>1, <2>2
<1> QED BY <1>2 DEF Group

\* What pb_encode_varint_32 writes is the varint of the value.
LEMMA GroupsAre ==
    ASSUME NEW x \in SUBSET (0..63)
    PROVE  \E k \in 1..10 : VarintIs(Groups(x \cap 0..31, Shr(x, 32)), x, k)
<1> DEFINE low == x \cap 0..31
           high == Shr(x, 32)
           l == LowEnd(low, high)
           first == [buffer |-> l.buffer, high |-> Shr(high, 3), byte |-> l.byte \cup Shl(high \cap 0..2, 4, 8)]
           h == HighEnd(first)
<1>1. Groups(low, high) = Append(h.buffer, h.byte)
  BY DEF Groups, HighGroups, LastGroup, LowEnd, LowFirst, HighEnd
<1>2. low \in SUBSET (0..31) /\ high \in SUBSET (0..31) /\ x \in SUBSET Nat
  <2>1. x \in SUBSET Nat /\ 32 \in Nat
    OBVIOUS
  <2>2. high \in SUBSET Nat /\ \A b \in Nat : b \in high <=> b + 32 \in x
    BY <2>1, ShrIs
  <2>3. ASSUME NEW b \in high PROVE b \in 0..31
    <3>1. b \in Nat /\ b + 32 \in 0..63
      BY <2>2
    <3> QED BY <3>1
  <2> QED BY <2>1, <2>3
<1>3. PICK i \in 0..4 : LowIs(low, high, i, l) /\ (i = 4 \/ (Shr(low, 7 * (i + 1)) = {} /\ high = {}))
  BY <1>2, LowDone
<1>4. l \in LowState
  BY <1>2, LowDone
<1>5. l.buffer \in Seq(Byte) /\ Len(l.buffer) = i /\ (\A k \in 1..i : l.buffer[k] = Group(low, k) \cup {7})
      /\ l.byte = Group(low, i + 1)
  BY <1>3, <1>4 DEF LowState, LowIs
<1>6. \A k \in 1..i : l.buffer[k] = Group(x, k) \cup {7}
  <2>1. \A k \in 1..i : k \in 1..4
    OBVIOUS
  <2> QED BY <1>5, <2>1, GroupLow
<1>7. first \in HighState
  <2>1. Shr(high, 3) \in SUBSET (0..31)
    BY <1>2, ShrBound
  <2>2. l.byte \cup Shl(high \cap 0..2, 4, 8) \in Byte
    <3>1. Shl(high \cap 0..2, 4, 8) \in SUBSET (0..(8 - 1))
      BY ShlType
    <3>2. 8 - 1 = 7 /\ l.byte \in Byte
      <4>1. Group(low, i + 1) \in Byte
        BY GroupType
      <4> HIDE DEF low
      <4> QED BY <1>5, <4>1
    <3> QED BY <3>1, <3>2 DEF Byte
  <2> HIDE DEF l, high
  <2> QED BY <1>5, <2>1, <2>2 DEF HighState
<1> HIDE DEF l
<1>8. CASE high = {}
  <2>1. x = low
    <3>1. ASSUME NEW y \in x PROVE y \in 0..31
      <4>1. SUFFICES ASSUME ~(y \in 0..31) PROVE FALSE
        OBVIOUS
      <4>2. y \in Nat /\ y - 32 \in Nat /\ (y - 32) + 32 = y /\ 32 \in Nat
        BY <4>1
      <4>3. y - 32 \in high
        <5>1. y - 32 \in Shr(x, 32) <=> (y - 32) + 32 \in x
          BY <1>2, <4>2, ShrIs
        <5> QED BY <4>2, <5>1
      <4> QED BY <1>8, <4>3
    <3> QED BY <3>1
  <2>2. first.high = {} /\ first.buffer = l.buffer /\ first.byte = l.byte
    <3>1. Shr(high, 3) = {} /\ Shl(high \cap 0..2, 4, 8) = {}
      BY <1>8 DEF Shr, Shl
    <3> HIDE DEF high
    <3> QED BY <3>1
  <2> HIDE DEF first
  <2>3. h = first
    BY <1>7, <2>2, HighNone
  <2>4. Shr(x, 7 * (i + 1)) = {}
    <3>1. CASE i = 4
      <4>1. 7 * (i + 1) = 35 /\ 35 > 31 /\ 35 \in Nat /\ 31 \in Nat
        BY <3>1
      <4>2. Shr(low, 35) = {}
        BY <1>2, <4>1, ShrBound
      <4> QED BY <2>1, <4>1, <4>2
    <3>2. CASE i # 4
      <4> HIDE DEF low, high
      <4> QED BY <1>3, <2>1, <3>2
    <3> QED BY <3>1, <3>2
  <2>5. h.buffer = l.buffer /\ h.byte = Group(x, i + 1)
    BY <1>5, <2>1, <2>2, <2>3
  <2> HIDE DEF h, low, high
  <2>6. VarintIs(Append(l.buffer, Group(x, i + 1)), x, i + 1)
    <3>1. i \in Nat
      OBVIOUS
    <3> QED BY <1>5, <1>6, <2>4, <3>1, AppendVarint
  <2>7. i + 1 \in 1..10
    OBVIOUS
  <2> QED BY <1>1, <2>5, <2>6, <2>7 DEF low, high
<1>9. CASE high # {}
  <2>1. i = 4
    <3> HIDE DEF low, high
    <3> QED BY <1>3, <1>9
  <2>2. first.byte = Group(x, 5)
    <3>1. l.byte = Group(low, 5) /\ 7 * (5 - 1) = 28
      BY <1>5, <2>1
    <3>2. ASSUME NEW b \in Nat PROVE b \in l.byte \cup Shl(high \cap 0..2, 4, 8) <=> b \in Group(x, 5)
      <4>1. b \in l.byte <=> (b \in 0..6 /\ b + 28 \in low)
        <5>1. low \in SUBSET Nat /\ 28 \in Nat
          BY <1>2
        <5> HIDE DEF low
        <5>2. b \in Shr(low, 28) <=> b + 28 \in low
          BY <5>1, ShrIs
        <5> QED BY <3>1, <5>2 DEF Group
      <4>2. b \in Shl(high \cap 0..2, 4, 8) <=> (b \in 4..6 /\ b - 4 \in high)
        <5>1. ASSUME b \in Shl(high \cap 0..2, 4, 8) PROVE b \in 4..6 /\ b - 4 \in high
          <6>1. PICK a \in high \cap 0..2 : b = a + 4
            BY <5>1 DEF Shl
          <6>2. b - 4 = a /\ b \in 4..6
            BY <6>1
          <6> QED BY <6>1, <6>2
        <5>2. ASSUME b \in 4..6, b - 4 \in high PROVE b \in Shl(high \cap 0..2, 4, 8)
          <6>1. b - 4 \in high \cap 0..2 /\ b = (b - 4) + 4 /\ b \in 0..(8 - 1)
            BY <5>2
          <6> HIDE DEF high
          <6> QED BY <6>1 DEF Shl
        <5> QED BY <5>1, <5>2
      <4>3. b \in 4..6 => (b - 4 \in high <=> b + 28 \in x)
        <5>1. b \in 4..6 => b - 4 \in Nat /\ (b - 4) + 32 = b + 28 /\ 32 \in Nat
          OBVIOUS
        <5> QED BY <1>2, <5>1, ShrIs
      <4>4. b \in Group(x, 5) <=> (b \in 0..6 /\ b + 28 \in x)
        <5>1. 28 \in Nat
          OBVIOUS
        <5>2. b \in Shr(x, 28) <=> b + 28 \in x
          BY <1>2, <5>1, ShrIs
        <5> QED BY <3>1, <5>2 DEF Group
      <4>5. b + 28 \in low <=> (b + 28 \in x /\ b <= 3)
        OBVIOUS
      <4> HIDE DEF low, high
      <4>6. b \in 0..6 <=> (b <= 3 \/ b \in 4..6)
        OBVIOUS
      <4>7. b \in 4..6 => b \in 0..6
        OBVIOUS
      <4> QED BY <4>1, <4>2, <4>3, <4>4, <4>5, <4>6, <4>7
    <3>3. first.byte \in SUBSET Nat /\ Group(x, 5) \in SUBSET Nat
      <4>1. first.byte \in Byte /\ Group(x, 5) \in Byte
        BY <1>7, GroupType DEF HighState
      <4> QED BY <4>1 DEF Byte
    <3>4. first.byte = l.byte \cup Shl(high \cap 0..2, 4, 8)
      OBVIOUS
    <3> HIDE DEF first
    <3> QED BY <3>2, <3>3, <3>4
  <2>3. first.high = Shr(x, 35)
    <3>1. Shr(Shr(x, 32), 3) = Shr(x, 32 + 3)
      BY <1>2, ShrShr
    <3> QED BY <3>1
  <2>4. HighIs(x, 0, first)
    <3>1. 4 + 0 = 4 /\ 5 + 0 = 5 /\ 35 + 7 * 0 = 35 /\ first.buffer = l.buffer
      OBVIOUS
    <3> HIDE DEF first
    <3> QED BY <1>5, <1>6, <2>1, <2>2, <2>3, <3>1 DEF HighIs
  <2> HIDE DEF first
  <2>5. PICK j \in 0..5 : HighIs(x, j, h) /\ Shr(x, 35 + 7 * j) = {}
    BY <1>7, <2>4, HighDone
  <2>6. h \in HighState
    BY <1>7, <2>4, HighDone
  <2> HIDE DEF h
  <2> DEFINE n == 4 + j
  <2>7. n \in Nat /\ n + 1 \in 1..10 /\ 7 * (n + 1) = 35 + 7 * j /\ n + 1 = 5 + j
    OBVIOUS
  <2>8. h.buffer \in Seq(Byte) /\ Len(h.buffer) = n /\ (\A k \in 1..n : h.buffer[k] = Group(x, k) \cup {7})
        /\ h.byte = Group(x, n + 1)
    BY <2>5, <2>6, <2>7 DEF HighIs, HighState
  <2> HIDE DEF n
  <2>9. VarintIs(Append(h.buffer, Group(x, n + 1)), x, n + 1)
    BY <2>5, <2>7, <2>8, AppendVarint
  <2> HIDE DEF low, high
  <2> QED BY <1>1, <2>7, <2>8, <2>9 DEF low, high
<1> QED BY <1>8, <1>9

\* pb_decode_varint reads the varint of a value as that value.
LEMMA VarintBack ==
    ASSUME NEW x \in SUBSET (0..63), NEW k \in 1..10, NEW q, VarintIs(q, x, k),
           NEW t \in Stream, k <= t.bytes_left, \A i \in 1..k : At(t, i) = q[i]
    PROVE  pb_decode_varint(t) = Done(Advance(t, k), x)
<1>0. x \in SUBSET Nat /\ t.bytes_left \in Nat /\ k \in 1..k
  <2>1. t.bytes_left \in Nat
    BY StreamType
  <2>2. x \in SUBSET Nat /\ k \in 1..k
    OBVIOUS
  <2> QED BY <2>1, <2>2
<1>9. \A i \in 1..k : Group(x, i) \subseteq 0..6
  BY <1>0, GroupType
<1>1. \A i \in 1..k : At(t, i) \cap 0..6 = Group(x, i)
  <2>1. ASSUME NEW i \in 1..k PROVE At(t, i) \cap 0..6 = Group(x, i)
    <3>1. At(t, i) = Group(x, i) \/ At(t, i) = Group(x, i) \cup {7}
      <4>1. i = k \/ i \in 1..(k - 1)
        OBVIOUS
      <4> QED BY <4>1 DEF VarintIs
    <3>2. Group(x, i) \subseteq 0..6 /\ 7 \notin 0..6
      BY <1>9
    <3> QED BY <3>1, <3>2
  <2> QED BY <2>1
<1>2. Ends(t, k)
  <2>1. 7 \notin At(t, k)
    BY <1>0, <1>9 DEF VarintIs
  <2>2. ASSUME NEW i \in 1..(k - 1) PROVE 7 \in At(t, i)
    <3>1. i \in 1..k
      OBVIOUS
    <3> QED BY <3>1 DEF VarintIs
  <2>3. k \in 1..t.bytes_left
    BY <1>0
  <2> QED BY <2>1, <2>2, <2>3 DEF Ends
<1>3. \A i \in 1..k : \A b \in Nat : b \in Group(x, i) <=> (b \in 0..6 /\ b + 7 * (i - 1) \in x)
  <2>1. ASSUME NEW i \in 1..k, NEW b \in Nat PROVE b \in Group(x, i) <=> (b \in 0..6 /\ b + 7 * (i - 1) \in x)
    <3> DEFINE n == 7 * (i - 1)
    <3>1. n \in Nat
      OBVIOUS
    <3> HIDE DEF n
    <3>2. b \in Shr(x, n) <=> b + n \in x
      BY <1>0, <3>1, ShrIs
    <3> QED BY <3>2 DEF Group, n
  <2> QED BY <2>1
<1>4. Fits64(t, k)
  <2>1. ASSUME k = 10, NEW b \in At(t, k) \cap 1..7 PROVE FALSE
    <3>1. b # 7
      BY <1>2, <2>1 DEF Ends
    <3>2. b \in Nat /\ b \in At(t, k) \cap 0..6
      BY <2>1, <3>1
    <3>3. b \in Group(x, k)
      BY <1>0, <1>1, <3>2
    <3>4. b + 7 * (k - 1) \in x
      BY <1>0, <1>3, <3>2, <3>3
    <3>5. b + 7 * (k - 1) \in 0..63
      BY <3>4
    <3> QED BY <2>1, <3>5
  <2> QED BY <1>2, <2>1 DEF Fits64
<1>5. Value(t, k, 64) = x
  <2>1. ASSUME NEW y \in Value(t, k, 64) PROVE y \in x
    <3>1. PICK i \in 1..k : y \in Shl(At(t, i) \cap 0..6, 7 * (i - 1), 64)
      BY DEF Value
    <3>2. y \in Shl(Group(x, i), 7 * (i - 1), 64)
      BY <1>1, <3>1
    <3>3. PICK b \in Group(x, i) : y = b + 7 * (i - 1)
      BY <3>2 DEF Shl
    <3>4. b \in Nat
      <4>1. b \in 0..6
        BY <1>9, <3>3
      <4> QED BY <4>1
    <3> QED BY <1>3, <3>3, <3>4
  <2>2. ASSUME NEW y \in x PROVE y \in Value(t, k, 64)
    <3> DEFINE i == (y \div 7) + 1
               b == y % 7
    <3>0. y \in 0..63 /\ y \in 0..(7 * k - 1)
      BY DEF VarintIs
    <3>1. b \in 0..6 /\ i \in Int /\ y = b + 7 * (i - 1) /\ i >= 1
      BY <3>0
    <3>2. i \in 1..k
      BY <3>0, <3>1
    <3> HIDE DEF i, b
    <3>3. b \in Group(x, i)
      BY <1>3, <3>1, <3>2
    <3>4. b \in At(t, i) \cap 0..6
      BY <1>1, <3>2, <3>3
    <3>5. y \in Shl(At(t, i) \cap 0..6, 7 * (i - 1), 64)
      BY <3>0, <3>1, <3>4 DEF Shl
    <3> QED BY <3>2, <3>5 DEF Value
  <2> QED BY <2>1, <2>2
<1> QED BY <1>4, <1>5, DecodeVarint

\* The bytes that pb_encode_varint writes.
VarintBytes(x) == IF x \subseteq 0..6 THEN <<x>> ELSE Groups(x \cap 0..31, Shr(x, 32))

\* pb_encode_varint writes the varint of the value,
LEMMA VarintBytesAre ==
    ASSUME NEW x \in SUBSET (0..63)
    PROVE  \E k \in 1..10 : VarintIs(VarintBytes(x), x, k)
<1>1. CASE x \subseteq 0..6
  <2>1. Shr(x, 0) = x
    <3>1. x \in SUBSET Nat /\ 0 \in Nat /\ \A b \in Nat : b + 0 = b
      OBVIOUS
    <3>2. Shr(x, 0) \in SUBSET Nat /\ \A b \in Nat : b \in Shr(x, 0) <=> b + 0 \in x
      BY <3>1, ShrIs
    <3> QED BY <3>1, <3>2
  <2>2. 7 * (1 - 1) = 0 /\ 7 * 1 - 1 = 6 /\ 1 - 1 = 0 /\ 1 \in 1..10
    OBVIOUS
  <2>3. Group(x, 1) = x
    BY <1>1, <2>1, <2>2 DEF Group
  <2>4. x \in Byte
    BY <1>1 DEF Byte
  <2>5. <<x>> \in Seq(Byte) /\ Len(<<x>>) = 1 /\ <<x>>[1] = x
    BY <2>4
  <2>6. VarintIs(<<x>>, x, 1)
    BY <1>1, <2>2, <2>3, <2>5 DEF VarintIs
  <2> QED BY <1>1, <2>2, <2>6 DEF VarintBytes
<1>2. CASE ~(x \subseteq 0..6)
  BY <1>2, GroupsAre DEF VarintBytes
<1> QED BY <1>1, <1>2

\* in one pb_write.
LEMMA EncodeVarint ==
    ASSUME NEW o, NEW x
    PROVE  pb_encode_varint(o, x) = pb_write(o, VarintBytes(x))
BY DEF pb_encode_varint, pb_encode_varint_32, VarintBytes

\* pb_encode_varint and pb_decode_varint: every value of 64 bits is written as a
\* varint of at most ten bytes, and read back from any stream that begins with
\* these bytes, to the last byte and no further.
THEOREM VarintRoundTrip ==
    ASSUME NEW x \in SUBSET (0..63)
    PROVE  LET o == pb_encode_varint(PB_OSTREAM_SIZING, x)
               s == pb_istream_from_buffer(o.out)
           IN  /\ o.ok /\ bytes_written(o) \in 1..10
               /\ pb_decode_varint(s) = Done(Advance(s, bytes_written(o)), x)
<1> DEFINE q == VarintBytes(x)
           o == pb_encode_varint(PB_OSTREAM_SIZING, x)
           s == pb_istream_from_buffer(q)
<1>1. PICK k \in 1..10 : VarintIs(q, x, k)
  BY VarintBytesAre
<1>2. q \in Seq(Byte) /\ Len(q) = k
  BY <1>1 DEF VarintIs
<1>3. o.ok /\ o.out = q
  <2>1. PB_OSTREAM_SIZING.ok /\ PB_OSTREAM_SIZING.out = <<>> /\ PB_OSTREAM_SIZING.max_size = 65536
    BY DEF PB_OSTREAM_SIZING, pb_ostream_from_buffer, TooLarge
  <2>2. o = pb_write(PB_OSTREAM_SIZING, q)
    BY EncodeVarint
  <2> HIDE DEF q
  <2>3. <<>> \o q = q /\ Len(<<>>) = 0
    BY <1>2
  <2>4. ~(bytes_written(PB_OSTREAM_SIZING) + Len(q) > PB_OSTREAM_SIZING.max_size)
    BY <1>2, <2>1, <2>3 DEF bytes_written
  <2>5. pb_write(PB_OSTREAM_SIZING, q) = [ok |-> PB_OSTREAM_SIZING.ok, max_size |-> PB_OSTREAM_SIZING.max_size,
                                         out |-> PB_OSTREAM_SIZING.out \o q]
    BY <2>4 DEF pb_write
  <2> HIDE DEF o
  <2> QED BY <2>1, <2>2, <2>3, <2>5
<1> HIDE DEF q
<1>4. s \in Stream /\ s.bytes_left = k
  BY <1>2, BufferStream
<1>5. \A i \in 1..k : At(s, i) = q[i]
  BY <1>2, BufferStream
<1>6. pb_decode_varint(s) = Done(Advance(s, k), x)
  <2> HIDE DEF s
  <2>1. k <= s.bytes_left
    BY <1>4
  <2> QED BY <1>1, <1>4, <1>5, <2>1, VarintBack
<1> HIDE DEF o
<1>7. bytes_written(o) = k
  BY <1>2, <1>3 DEF bytes_written
<1> QED BY <1>3, <1>6, <1>7 DEF o

-----------------------------------------------------------------------------
\* The bytes of a field: its tag, and its value in little-endian order.

\* The first byte of a field whose tag is below 16.
TagByte(n, wt) == Shl(ToBits(n), 3, 64) \cup ToBits(wt)

\* The tag and the wire type share the byte without overlap.
LEMMA TagByteIs ==
    ASSUME NEW n \in 1..15, NEW wt \in 0..7
    PROVE  /\ TagByte(n, wt) \subseteq 0..6 /\ TagByte(n, wt) \in Byte /\ 7 \notin TagByte(n, wt)
           /\ ToNat(Shr(TagByte(n, wt), 3)) = n
           /\ ToNat(TagByte(n, wt) \cap 0..2) = wt
<1> DEFINE a == ToBits(n)
           c == ToBits(wt)
           B == TagByte(n, wt)
<1>1. n \in Nat /\ wt \in Nat /\ n < 16 /\ wt < 8
  OBVIOUS
<1>2. n < TooLarge /\ wt < TooLarge
  BY DEF TooLarge
<1>3. a \subseteq 0..3 /\ c \subseteq 0..2 /\ ToNat(a) = n /\ ToNat(c) = wt
  BY <1>1, <1>2, SmallBits, BitsRoundTrip
<1> HIDE DEF a, c
<1>4. B = Shl(a, 3, 64) \cup c
  BY DEF TagByte, a, c
<1> HIDE DEF B
<1>5. \A y : y \in Shl(a, 3, 64) <=> \E i \in a : y = i + 3
  <2>1. ASSUME NEW i \in a PROVE i + 3 \in 0..63
    BY <1>3
  <2>2. 64 - 1 = 63
    OBVIOUS
  <2> QED BY <2>1, <2>2 DEF Shl
<1>6. B \subseteq 0..6
  <2>1. ASSUME NEW i \in a PROVE i + 3 \in 0..6
    <3>1. i \in 0..3
      BY <1>3
    <3> QED BY <3>1
  <2>2. \A y \in 0..2 : y \in 0..6
    OBVIOUS
  <2> QED BY <1>3, <1>4, <1>5, <2>1, <2>2
<1>7. Shr(B, 3) = a
  <2>1. ASSUME NEW y \in Shr(B, 3) PROVE y \in a
    <3>1. PICK j \in B : j >= 3 /\ y = j - 3
      BY DEF Shr
    <3>2. j \notin c
      <4>1. ASSUME j \in c PROVE FALSE
        <5>1. j \in 0..2
          BY <1>3, <4>1
        <5> QED BY <3>1, <5>1
      <4> QED BY <4>1
    <3>3. PICK i \in a : j = i + 3
      BY <1>4, <1>5, <3>2
    <3> QED BY <1>3, <3>1, <3>3
  <2>2. ASSUME NEW y \in a PROVE y \in Shr(B, 3)
    <3>1. y + 3 \in B /\ y + 3 >= 3 /\ y = (y + 3) - 3
      BY <1>3, <1>4, <1>5
    <3> QED BY <3>1 DEF Shr
  <2> QED BY <2>1, <2>2
<1>8. B \cap 0..2 = c
  <2>1. ASSUME NEW y \in B \cap 0..2 PROVE y \in c
    <3>1. ASSUME NEW i \in a, y = i + 3 PROVE FALSE
      BY <1>3, <3>1
    <3> QED BY <1>4, <1>5, <3>1
  <2>2. c \subseteq B \cap 0..2
    BY <1>3, <1>4
  <2> QED BY <2>1, <2>2
<1>9. B \in Byte /\ 7 \notin B
  BY <1>6 DEF Byte
<1> QED BY <1>3, <1>6, <1>7, <1>8, <1>9 DEF B

\* Reading it back.
LEMMA TagBack ==
    ASSUME NEW s \in Stream, s.bytes_left >= 1, NEW n \in 1..15, NEW wt \in 0..7, At(s, 1) = TagByte(n, wt)
    PROVE  pb_decode_tag(s) = [ok |-> TRUE, s |-> Advance(s, 1), tag |-> n, wire_type |-> wt]
<1>0. s.bytes_left # 0
  BY StreamType
<1>1. pb_readbyte(s) = Done(Advance(s, 1), At(s, 1))
  BY <1>0, ReadByte DEF At
<1>2. pb_decode_varint32(s) = Done(Advance(s, 1), At(s, 1))
  <2>1. 7 \notin At(s, 1)
    BY TagByteIs
  <2> DEFINE b == pb_readbyte(s)
  <2>2. b.ok /\ b.s = Advance(s, 1) /\ b.v = At(s, 1)
    BY <1>1 DEF Done
  <2>3. pb_decode_varint32(s) = IF ~b.ok \/ 7 \notin b.v THEN b
           ELSE Result(While(More, Varint32Round, [ok |-> TRUE, byte |-> {7}, s |-> b.s,
                                                   bitpos |-> 7, v |-> b.v \cap 0..6], 10))
    BY Zenon DEF pb_decode_varint32
  <2> HIDE DEF b
  <2>4. pb_decode_varint32(s) = b
    BY <2>1, <2>2, <2>3
  <2> QED BY <1>1, <2>4 DEF b
<1>3. ToNat(Shr(At(s, 1), 3)) = n /\ ToNat(At(s, 1) \cap 0..2) = wt
  <2>1. ToNat(Shr(TagByte(n, wt), 3)) = n /\ ToNat(TagByte(n, wt) \cap 0..2) = wt
    BY TagByteIs
  <2> QED BY <2>1
<1> DEFINE r == pb_decode_varint32(s)
<1>4. r.ok /\ r.s = Advance(s, 1) /\ r.v = At(s, 1)
  BY <1>2 DEF Done
<1> HIDE DEF r
<1> QED BY <1>3, <1>4 DEF pb_decode_tag, Then, r

-----------------------------------------------------------------------------
\* Four bytes, little endian.
LEMMA LittleEndianIs ==
    ASSUME NEW x \in SUBSET Nat, NEW size \in Nat
    PROVE  /\ LittleEndian(x, size) \in Seq(Byte) /\ Len(LittleEndian(x, size)) = size
           /\ \A i \in 1..size : \A b \in Nat :
                 b \in LittleEndian(x, size)[i] <=> (b \in 0..7 /\ b + 8 * (i - 1) \in x)
<1>1. \A i \in 1..size : Shr(x, 8 * (i - 1)) \cap 0..7 \in Byte
  BY DEF Byte
<1>2. LittleEndian(x, size) \in Seq(Byte) /\ Len(LittleEndian(x, size)) = size
  BY <1>1 DEF LittleEndian
<1>3. ASSUME NEW i \in 1..size, NEW b \in Nat
      PROVE  b \in LittleEndian(x, size)[i] <=> (b \in 0..7 /\ b + 8 * (i - 1) \in x)
  <2> DEFINE n == 8 * (i - 1)
  <2>1. n \in Nat
    OBVIOUS
  <2>2. LittleEndian(x, size)[i] = Shr(x, n) \cap 0..7
    BY DEF LittleEndian
  <2> HIDE DEF n
  <2>3. b \in Shr(x, n) <=> b + n \in x
    BY <2>1, ShrIs
  <2> QED BY <2>2, <2>3 DEF n
<1> QED BY <1>2, <1>3

\* Putting the bytes together again.
LEMMA LittleEndianBack ==
    ASSUME NEW size \in 1..8, NEW x \in SUBSET (0..(8 * size - 1)), NEW q, q = LittleEndian(x, size)
    PROVE  FromLittleEndian(q) = x
<1>1. x \in SUBSET Nat /\ size \in Nat
  OBVIOUS
<1>2. Len(q) = size /\ DOMAIN q = 1..size
  BY <1>1, LittleEndianIs
<1>3. \A i \in 1..size : q[i] \in Byte
  BY <1>1, <1>2, LittleEndianIs
<1>4. \A i \in 1..size : \A b \in Nat : b \in q[i] <=> (b \in 0..7 /\ b + 8 * (i - 1) \in x)
  BY <1>1, LittleEndianIs
<1>5. ASSUME NEW y \in FromLittleEndian(q) PROVE y \in x
  <2>1. PICK i \in 1..size : y \in Shl(q[i], 8 * (i - 1), 64)
    BY <1>2 DEF FromLittleEndian
  <2>2. PICK b \in q[i] : y = b + 8 * (i - 1)
    BY <2>1 DEF Shl
  <2>3. b \in 0..7
    BY <1>3, <2>2 DEF Byte
  <2>4. b \in Nat
    BY <2>3
  <2> QED BY <1>4, <2>2, <2>4
<1>6. ASSUME NEW y \in x PROVE y \in FromLittleEndian(q)
  <2> DEFINE i == (y \div 8) + 1
             b == y % 8
  <2>1. y \in 0..(8 * size - 1) /\ y \in 0..63
    OBVIOUS
  <2>2. b \in 0..7 /\ i \in Int /\ y = b + 8 * (i - 1) /\ i >= 1
    BY <2>1
  <2>3. i \in 1..size
    BY <2>1, <2>2
  <2> HIDE DEF i, b
  <2>4. b \in Nat
    BY <2>2
  <2>5. b \in q[i]
    BY <1>4, <2>2, <2>3, <2>4
  <2>6. y \in Shl(q[i], 8 * (i - 1), 64)
    BY <2>1, <2>2, <2>5 DEF Shl
  <2> QED BY <1>2, <2>3, <2>6 DEF FromLittleEndian
<1> QED BY <1>5, <1>6

\* pb_decode_fixed32 reads the four bytes back.
LEMMA FixedBack ==
    ASSUME NEW x \in SUBSET (0..31), NEW t \in Stream, 4 <= t.bytes_left,
           \A i \in 1..4 : At(t, i) = LittleEndian(x, 4)[i]
    PROVE  pb_decode_fixed32(t) = Done(Advance(t, 4), x)
<1> DEFINE q == LittleEndian(x, 4)
<1>1. 4 \in Nat /\ 4 \in 1..8 /\ 8 * 4 - 1 = 31
  OBVIOUS
<1>2. pb_read(t, 4) = Done(Advance(t, 4), [i \in 1..4 |-> At(t, i)])
  BY <1>1, ReadBytes
<1>3. q = [i \in 1..4 |-> At(t, i)]
  BY DEF LittleEndian
<1>4. FromLittleEndian(q) = x
  <2> HIDE DEF q
  <2>1. x \in SUBSET (0..(8 * 4 - 1))
    BY <1>1
  <2> QED BY <1>1, <2>1, LittleEndianBack DEF q
<1> HIDE DEF q
<1> DEFINE r == pb_read(t, 4)
<1>5. r.ok /\ r.s = Advance(t, 4) /\ r.v = q
  BY <1>2, <1>3 DEF Done
<1> HIDE DEF r
<1> QED BY <1>4, <1>5 DEF pb_decode_fixed32, DecodeFixed, Then, r

\* pb_dec_varint reads the k bytes of q as x, wherever they stand.
ReadsAs(f, q, k, x) ==
    \A t \in Stream :
        k <= t.bytes_left /\ (\A i \in 1..k : At(t, i) = q[i]) => pb_dec_varint(t, f) = Done(Advance(t, k), x)

\* So it reads the varint of a value of 32 bits.
LEMMA UvarintBack ==
    ASSUME NEW x \in SUBSET (0..31), NEW k \in 1..10, NEW q, VarintIs(q, x, k), NEW f, f.ltype = "UVARINT", f.data_size = 4
    PROVE  ReadsAs(f, q, k, x)
<1> SUFFICES ASSUME NEW t \in Stream, k <= t.bytes_left, \A i \in 1..k : At(t, i) = q[i]
             PROVE  pb_dec_varint(t, f) = Done(Advance(t, k), x)
  BY DEF ReadsAs
<1>1. x \in SUBSET (0..63) /\ 8 * 4 - 1 = 31 /\ x \cap 0..31 = x /\ x \subseteq 0..31
  <2>1. x \in SUBSET (0..63) /\ 8 * 4 - 1 = 31
    OBVIOUS
  <2>2. x \cap 0..31 = x /\ x \subseteq 0..31
    OBVIOUS
  <2> QED BY <2>1, <2>2
<1>2. pb_decode_varint(t) = Done(Advance(t, k), x)
  BY <1>1, VarintBack
<1>3. Fits(x, f)
  BY <1>1 DEF Fits
<1> DEFINE r == pb_decode_varint(t)
<1>4. r.ok /\ r.s = Advance(t, k) /\ r.v = x
  BY <1>2 DEF Done
<1> HIDE DEF r
<1>5. (IF f.ltype = "SVARINT" THEN pb_decode_svarint(t) ELSE pb_decode_varint(t)) = r
  BY DEF r
<1> QED BY <1>1, <1>3, <1>4, <1>5 DEF pb_dec_varint, Then

-----------------------------------------------------------------------------
\* What is written for a field that is not zero, and what one field of a struct adds.
WireType(f) == IF f.ltype = "UVARINT" THEN 0 ELSE 5
Body(f, x) == IF f.ltype = "UVARINT" THEN VarintBytes(x) ELSE LittleEndian(x, 4)
FieldBytes(f, x) == <<TagByte(f.tag, WireType(f))>> \o Body(f, x)

\* Both kinds of a plain field: what is written is read back.
LEMMA BodyIs ==
    ASSUME NEW f, f.ltype \in {"UVARINT", "FIXED32"}, f.data_size = 4, NEW x \in SUBSET (0..31)
    PROVE  /\ Body(f, x) \in Seq(Byte) /\ Len(Body(f, x)) \in 1..10
           /\ \A t \in Stream :
                 /\ Len(Body(f, x)) <= t.bytes_left
                 /\ \A i \in 1..Len(Body(f, x)) : At(t, i) = Body(f, x)[i]
                 => (IF f.ltype = "UVARINT" THEN pb_dec_varint(t, f) ELSE pb_decode_fixed32(t))
                       = Done(Advance(t, Len(Body(f, x))), x)
<1>1. CASE f.ltype = "UVARINT"
  <2>1. Body(f, x) = VarintBytes(x)
    BY <1>1 DEF Body
  <2>2. x \in SUBSET (0..63)
    OBVIOUS
  <2>3. PICK k \in 1..10 : VarintIs(VarintBytes(x), x, k)
    BY <2>2, VarintBytesAre
  <2>4. Body(f, x) \in Seq(Byte) /\ Len(Body(f, x)) = k
    BY <2>1, <2>3 DEF VarintIs
  <2>5. \A t \in Stream :
           k <= t.bytes_left /\ (\A i \in 1..k : At(t, i) = Body(f, x)[i]) => pb_dec_varint(t, f) = Done(Advance(t, k), x)
    <3>1. ReadsAs(f, VarintBytes(x), k, x)
      BY <1>1, <2>3, UvarintBack
    <3> QED BY <2>1, <3>1, Zenon DEF ReadsAs
  <2> QED BY <1>1, <2>4, <2>5
<1>2. CASE f.ltype = "FIXED32"
  <2>1. Body(f, x) = LittleEndian(x, 4)
    BY <1>2 DEF Body
  <2>2. x \in SUBSET Nat /\ 4 \in Nat
    OBVIOUS
  <2>3. Body(f, x) \in Seq(Byte) /\ Len(Body(f, x)) = 4
    BY <2>1, <2>2, LittleEndianIs
  <2>4. \A t \in Stream :
           4 <= t.bytes_left /\ (\A i \in 1..4 : At(t, i) = Body(f, x)[i]) => pb_decode_fixed32(t) = Done(Advance(t, 4), x)
    BY <2>1, FixedBack
  <2> QED BY <1>2, <2>3, <2>4
<1> QED BY <1>1, <1>2

\* It is one field, with that tag and that value.
LEMMA FieldBytesAre ==
    ASSUME NEW d, Plain(d), NEW n \in 1..Len(d), NEW x \in SUBSET (0..31)
    PROVE  /\ IsField(d, FieldBytes(d[n], x), n, x)
           /\ FieldBytes(d[n], x) \in Seq(Byte) /\ Len(FieldBytes(d[n], x)) \in 2..11
<1> DEFINE f == d[n]
           B == TagByte(n, WireType(f))
           e == Body(f, x)
           q == FieldBytes(f, x)
           s == pb_istream_from_buffer(q)
           t == Advance(s, 1)
<1>1. f.tag = n /\ f.ltype \in {"UVARINT", "FIXED32"} /\ f.data_size = 4 /\ n \in 1..15 /\ Len(d) \in Nat
  BY DEF Plain
<1>2. WireType(f) \in 0..7
  BY DEF WireType
<1>3. B \in Byte
  BY <1>1, <1>2, TagByteIs
<1>4. e \in Seq(Byte) /\ Len(e) \in 1..10
  BY <1>1, BodyIs
<1>5. q = <<B>> \o e
  BY <1>1 DEF FieldBytes
<1> HIDE DEF q, B, e
<1>6. q \in Seq(Byte) /\ Len(q) = Len(e) + 1 /\ q[1] = B /\ \A i \in 1..Len(e) : q[1 + i] = e[i]
  BY <1>3, <1>4, <1>5
<1>7. s \in Stream /\ s.bytes_left = Len(q) /\ \A i \in 1..Len(q) : At(s, i) = q[i]
  BY <1>6, BufferStream
<1> HIDE DEF s
<1>8. pb_decode_tag(s) = [ok |-> TRUE, s |-> t, tag |-> n, wire_type |-> WireType(f)]
  <2>1. s.bytes_left >= 1 /\ At(s, 1) = TagByte(n, WireType(f))
    BY <1>4, <1>6, <1>7 DEF B
  <2> QED BY <1>1, <1>2, <1>7, <2>1, TagBack
<1>9. 1 \in 0..s.bytes_left
  BY <1>4, <1>6, <1>7
<1>10. t \in Stream /\ t.buf = s.buf /\ t.pos = s.pos + 1 /\ t.bytes_left = Len(e)
  <2>1. t \in Stream /\ t = [buf |-> s.buf, pos |-> s.pos + 1, bytes_left |-> s.bytes_left - 1]
    BY <1>7, <1>9, AdvanceType
  <2> QED BY <1>4, <1>6, <1>7, <2>1
<1>11. \A i \in 1..Len(e) : At(t, i) = e[i]
  <2>1. s.pos \in Nat
    BY <1>7, StreamType
  <2>2. ASSUME NEW i \in 1..Len(e) PROVE At(t, i) = e[i]
    <3>1. At(t, i) = At(s, 1 + i)
      <4>1. s.pos + 1 + i = s.pos + (1 + i)
        BY <1>4, <2>1
      <4> QED BY <1>10, <4>1 DEF At
    <3>2. 1 + i \in 1..Len(q)
      BY <1>4, <1>6
    <3> QED BY <1>6, <1>7, <3>1, <3>2
  <2> QED BY <2>2
<1>12. Advance(t, Len(e)) = Advance(s, Len(q))
  <2>1. s.pos \in Nat
    BY <1>7, StreamType
  <2> HIDE DEF t
  <2>2. t.pos + Len(e) = s.pos + Len(q) /\ t.bytes_left - Len(e) = s.bytes_left - Len(q)
    BY <1>4, <1>6, <1>7, <1>10, <2>1
  <2> QED BY <1>10, <2>2 DEF Advance
<1> HIDE DEF t
<1>13. FieldBody(t, WireType(f), d, n) = Done(Advance(t, Len(e)), x)
  <2>1. (IF f.ltype = "UVARINT" THEN pb_dec_varint(t, f) ELSE pb_decode_fixed32(t)) = Done(Advance(t, Len(e)), x)
    <3>1. Len(Body(f, x)) <= t.bytes_left /\ \A i \in 1..Len(Body(f, x)) : At(t, i) = Body(f, x)[i]
      BY <1>4, <1>10, <1>11 DEF e
    <3> HIDE DEF f
    <3> QED BY <1>1, <1>10, <3>1, BodyIs DEF e
  <2>2. WireType(f) \in WireTypes(f)
    BY <1>1 DEF WireType, WireTypes, PB_WT_VARINT, PB_WT_32BIT
  <2> HIDE DEF f
  <2> QED BY <2>1, <2>2 DEF FieldBody, f
<1>14. FieldBehind(s, d) = Done(Advance(s, Len(q)), x)
  BY <1>8, <1>12, <1>13 DEF FieldBehind
<1>15. FieldRead(s, d, Len(q), n, x)
  BY <1>1, <1>8, <1>14 DEF FieldRead, FieldOk, Done
<1>16. Len(q) \in 2..11 /\ Len(q) >= 1
  <2> DEFINE c == Len(e)
  <2>1. c \in 1..10 /\ Len(q) = c + 1
    BY <1>4, <1>6
  <2> HIDE DEF c
  <2>2. c + 1 \in 2..11 /\ c + 1 >= 1
    BY <2>1
  <2> QED BY <2>1, <2>2
<1>17. IsField(d, q, n, x)
  BY <1>6, <1>15, <1>16 DEF IsField, s
<1> QED BY <1>6, <1>16, <1>17 DEF q

-----------------------------------------------------------------------------
\* The loop of pb_encode over the fields of a structure.

\* Bytes written one after the other.
LEMMA Associative ==
    ASSUME NEW a \in Seq(Byte), NEW b \in Seq(Byte), NEW c \in Seq(Byte)
    PROVE  (a \o b) \o c = a \o (b \o c)
BY ConcatAssociative

\* Output streams.
OStream == [ok : BOOLEAN, max_size : Nat, out : Seq(Byte)]

\* pb_write appends, or fails when there is no room.
LEMMA WriteIs ==
    ASSUME NEW o \in OStream, o.ok, NEW q \in Seq(Byte), Len(q) > 0
    PROVE  /\ pb_write(o, q) \in OStream /\ pb_write(o, q).max_size = o.max_size
           /\ pb_write(o, q).ok <=> Len(o.out) + Len(q) <= o.max_size
           /\ pb_write(o, q).ok => pb_write(o, q).out = o.out \o q
<1>1. o.ok \in BOOLEAN /\ o.max_size \in Nat /\ o.out \in Seq(Byte) /\ Len(o.out) \in Nat /\ Len(q) \in Nat
  BY DEF OStream
<1>2. CASE Len(o.out) + Len(q) > o.max_size
  <2> DEFINE r == [o EXCEPT !.ok = FALSE]
  <2>1. pb_write(o, q) = r
    BY <1>2 DEF pb_write, EncodeError, bytes_written
  <2>2. r \in OStream /\ r.max_size = o.max_size /\ r.ok = FALSE
    BY DEF OStream
  <2> HIDE DEF r
  <2> QED BY <1>1, <1>2, <2>1, <2>2
<1>3. CASE ~(Len(o.out) + Len(q) > o.max_size)
  <2> DEFINE r == [ok |-> o.ok, max_size |-> o.max_size, out |-> o.out \o q]
  <2>1. pb_write(o, q) = r
    BY <1>3 DEF pb_write, bytes_written
  <2>2. o.out \o q \in Seq(Byte)
    BY <1>1
  <2>3. r \in OStream /\ r.max_size = o.max_size /\ r.ok = o.ok /\ r.out = o.out \o q
    BY <1>1, <2>2 DEF OStream
  <2> HIDE DEF r
  <2> QED BY <1>1, <1>3, <2>1, <2>3
<1> QED BY <1>2, <1>3

\* What a field of a struct adds to the output: a field that is zero adds nothing.
Enc(f, x) == IF x = {} THEN <<>> ELSE FieldBytes(f, x)

\* A field takes eleven bytes at most.
LEMMA EncIs ==
    ASSUME NEW d, Plain(d), NEW n \in 1..Len(d), NEW x \in SUBSET (0..31)
    PROVE  Enc(d[n], x) \in Seq(Byte) /\ Len(Enc(d[n], x)) \in 0..11
<1>1. CASE x = {}
  BY <1>1 DEF Enc
<1>2. CASE x # {}
  <2>1. FieldBytes(d[n], x) \in Seq(Byte) /\ Len(FieldBytes(d[n], x)) \in 2..11
    BY FieldBytesAre
  <2> QED BY <1>2, <2>1 DEF Enc
<1> QED BY <1>1, <1>2

\* The encoder of one plain field.
LEMMA PlainEncode ==
    ASSUME NEW f, f.htype = "SINGULAR", f.ltype \in {"UVARINT", "FIXED32"}, f.data_size = 4, f.tag \in 1..15,
           NEW o, NEW x
    PROVE  encode_field(o, f, x, FlatEncode) =
              IF x = {} THEN o
              ELSE LET tagged == pb_write(o, <<TagByte(f.tag, WireType(f))>>)
                   IN  IF tagged.ok THEN pb_write(tagged, Body(f, x)) ELSE tagged
<1> DEFINE tagged == pb_write(o, <<TagByte(f.tag, WireType(f))>>)
<1>1. pb_check_proto3_default_value(f, x) <=> x = {}
  BY DEF pb_check_proto3_default_value, IsDefault, Packable
<1>2. WireType(f) \in 0..7
  BY DEF WireType
<1>3. TagByte(f.tag, WireType(f)) \subseteq 0..6
  BY <1>2, TagByteIs
<1>4. pb_encode_tag_for_field(o, f) = pb_encode_tag(o, WireType(f), f.tag)
  BY DEF pb_encode_tag_for_field, WireType, PB_WT_VARINT, PB_WT_32BIT
<1>5. pb_encode_tag_for_field(o, f) = tagged
  BY <1>3, <1>4 DEF pb_encode_tag, pb_encode_varint, TagByte
<1> HIDE DEF tagged
<1>6. ASSUME NEW w PROVE (CASE f.ltype = "BOOL" -> pb_enc_bool(w, x)
          [] f.ltype \in {"VARINT", "UVARINT", "SVARINT"} -> pb_enc_varint(w, f, x)
          [] f.ltype \in {"FIXED32", "FIXED64"} -> pb_enc_fixed(w, f, x)
          [] f.ltype = "BYTES" -> pb_enc_bytes(w, f, x)
          [] f.ltype = "STRING" -> pb_enc_string(w, f, x)
          [] f.ltype = "SUBMESSAGE" -> pb_encode_submessage(w, f.submsg_desc, x, FlatEncode)
          [] f.ltype = "FIXED_LENGTH_BYTES" -> pb_encode_string(w, x)) = pb_write(w, Body(f, x))
  <2>1. CASE f.ltype = "UVARINT"
    BY <2>1, EncodeVarint DEF pb_enc_varint, Body
  <2>2. CASE f.ltype = "FIXED32"
    BY <2>2 DEF pb_enc_fixed, pb_encode_fixed32, Body
  <2> QED BY <2>1, <2>2
<1>7. encode_basic_field(o, f, x, FlatEncode) = IF tagged.ok THEN pb_write(tagged, Body(f, x)) ELSE tagged
  BY <1>5, <1>6 DEF encode_basic_field, IfOk
<1>8. encode_field(o, f, x, FlatEncode) = IF pb_check_proto3_default_value(f, x) THEN o
                                          ELSE encode_basic_field(o, f, x, FlatEncode)
  BY DEF encode_field, Missing
<1> QED BY <1>1, <1>7, <1>8 DEF tagged

EncodeOne(o, f, x) == encode_field(o, f, x, FlatEncode)

\* Some bytes are written, if there is room for them.
Appends(r, o, e) ==
    /\ r \in OStream /\ r.max_size = o.max_size
    /\ r.ok <=> Len(o.out) + Len(e) <= o.max_size
    /\ r.ok => r.out = o.out \o e

\* encode_field appends the bytes of the field, if there is room.
LEMMA EncodeFieldIs ==
    ASSUME NEW d, Plain(d), NEW n \in 1..Len(d), NEW x \in SUBSET (0..31),
           NEW o \in OStream, o.ok, Len(o.out) <= o.max_size,
           NEW r, r = EncodeOne(o, d[n], x)
    PROVE  Appends(r, o, Enc(d[n], x))
<1> USE DEF Appends
<1> DEFINE f == d[n]
           B == TagByte(f.tag, WireType(f))
           e == Body(f, x)
           tagged == pb_write(o, <<B>>)
<1>1. f.htype = "SINGULAR" /\ f.ltype \in {"UVARINT", "FIXED32"} /\ f.data_size = 4 /\ f.tag \in 1..15
  <2>1. f.htype = "SINGULAR" /\ f.ltype \in {"UVARINT", "FIXED32"} /\ f.data_size = 4 /\ f.tag = n
    BY DEF Plain
  <2>2. Len(d) \in 1..15
    BY DEF Plain
  <2>3. n \in 1..15
    BY <2>2
  <2> QED BY <2>1, <2>3
<1>2. r = IF x = {} THEN o ELSE IF tagged.ok THEN pb_write(tagged, e) ELSE tagged
  BY <1>1, PlainEncode DEF EncodeOne
<1>3. o.ok \in BOOLEAN /\ o.max_size \in Nat /\ o.out \in Seq(Byte) /\ Len(o.out) \in Nat
  BY DEF OStream
<1>4. CASE x = {}
  <2>1. r = o /\ Enc(f, x) = <<>>
    BY <1>2, <1>4 DEF Enc
  <2>2. Len(<<>>) = 0 /\ o.out \o <<>> = o.out
    BY <1>3
  <2> QED BY <1>3, <2>1, <2>2
<1>5. CASE x # {}
  <2>1. WireType(f) \in 0..7
    BY DEF WireType
  <2>2. B \in Byte
    BY <1>1, <2>1, TagByteIs
  <2>3. e \in Seq(Byte) /\ Len(e) \in 1..10
    BY <1>1, BodyIs
  <2>4. Enc(f, x) = <<B>> \o e
    BY <1>5 DEF Enc, FieldBytes
  <2> HIDE DEF B, e, f
  <2>5. <<B>> \in Seq(Byte) /\ Len(<<B>>) = 1 /\ Len(<<B>>) > 0 /\ Len(e) > 0 /\ Len(e) \in Nat
    <3>1. <<B>> \in Seq(Byte) /\ Len(<<B>>) = 1 /\ Len(<<B>>) > 0
      BY <2>2
    <3>2. \A i \in 1..10 : i > 0 /\ i \in Nat
      OBVIOUS
    <3>3. Len(e) > 0 /\ Len(e) \in Nat
      BY <2>3, <3>2
    <3> QED BY <3>1, <3>3
  <2> DEFINE a == Len(o.out)
             c == Len(e)
  <2>10. a \in Nat /\ c \in Nat /\ c > 0
    BY <1>3, <2>5
  <2>6. /\ tagged \in OStream /\ tagged.max_size = o.max_size
        /\ tagged.ok <=> Len(o.out) + 1 <= o.max_size
        /\ tagged.ok => tagged.out = o.out \o <<B>>
    BY <2>5, WriteIs
  <2> HIDE DEF tagged
  <2>7. Len(Enc(f, x)) = 1 + Len(e)
    BY <2>2, <2>3, <2>4
  <2>8. CASE ~tagged.ok
    <3>1. r = tagged
      BY <1>2, <1>5, <2>8
    <3>2. ~(a + Len(Enc(f, x)) <= o.max_size)
      <4>1. ~(a + 1 <= o.max_size) /\ Len(Enc(f, x)) = 1 + c
        BY <2>6, <2>7, <2>8
      <4> HIDE DEF a, c
      <4> QED BY <1>3, <2>10, <4>1
    <3> QED BY <2>6, <2>8, <3>1, <3>2 DEF f
  <2>9. CASE tagged.ok
    <3>1. r = pb_write(tagged, e)
      BY <1>2, <1>5, <2>9
    <3>2. /\ r \in OStream /\ r.max_size = tagged.max_size
          /\ r.ok <=> Len(tagged.out) + Len(e) <= tagged.max_size
          /\ r.ok => r.out = tagged.out \o e
      <4> HIDE DEF c
      <4>1. tagged \in OStream /\ tagged.ok /\ e \in Seq(Byte) /\ Len(e) > 0
        BY <2>3, <2>5, <2>6, <2>9
      <4>2. /\ pb_write(tagged, e) \in OStream /\ pb_write(tagged, e).max_size = tagged.max_size
            /\ pb_write(tagged, e).ok <=> Len(tagged.out) + Len(e) <= tagged.max_size
            /\ pb_write(tagged, e).ok => pb_write(tagged, e).out = tagged.out \o e
        BY <4>1, WriteIs
      <4> QED BY <3>1, <4>2
    <3>3. Len(tagged.out) = a + 1
      BY <1>3, <2>2, <2>5, <2>6, <2>9
    <3>4. r.ok <=> a + Len(Enc(f, x)) <= o.max_size
      <4>1. (r.ok <=> (a + 1) + c <= o.max_size) /\ Len(Enc(f, x)) = 1 + c
        BY <2>6, <2>7, <3>2, <3>3
      <4> HIDE DEF a, c
      <4>2. (a + 1) + c = a + (1 + c)
        BY <2>10
      <4> QED BY <4>1, <4>2
    <3>5. (o.out \o <<B>>) \o e = o.out \o Enc(f, x)
      <4>1. (o.out \o <<B>>) \o e = o.out \o (<<B>> \o e)
        <5> DEFINE q == <<B>>
        <5>1. q \in Seq(Byte) /\ o.out \in Seq(Byte) /\ e \in Seq(Byte)
          BY <1>3, <2>3, <2>5
        <5> HIDE DEF q
        <5>2. (o.out \o q) \o e = o.out \o (q \o e)
          BY <5>1, Associative
        <5> QED BY <5>2 DEF q
      <4> QED BY <2>4, <4>1
    <3> QED BY <2>6, <2>9, <3>2, <3>4, <3>5 DEF f
  <2> QED BY <2>8, <2>9
<1> QED BY <1>4, <1>5

\* What has been written after the first n fields of a struct.
Written(d, struct, w) ==
    /\ w \in [0..Len(d) -> Seq(Byte)]
    /\ w[0] = <<>>
    /\ \A n \in 1..Len(d) : w[n] = w[n - 1] \o Enc(d[n], struct[n])

\* There is such a sequence,
LEMMA WrittenExists ==
    ASSUME NEW d, Plain(d), NEW struct \in PlainStruct(d)
    PROVE  \E w : Written(d, struct, w)
<1> DEFINE m == Len(d)
           F == [n \in 1..m |-> [a \in Seq(Byte) |-> a \o Enc(d[n], struct[n])]]
<1>1. m \in Nat
  BY DEF Plain
<1>2. \A n \in 1..m : Enc(d[n], struct[n]) \in Seq(Byte)
  BY EncIs DEF PlainStruct
<1>3. F \in [1..m -> [Seq(Byte) -> Seq(Byte)]]
  BY <1>2
<1>4. <<>> \in Seq(Byte)
  OBVIOUS
<1>5. PICK w : Steps(Seq(Byte), F, <<>>, m, w)
  <2> HIDE DEF F, m
  <2> QED BY <1>1, <1>3, <1>4, StepsExist
<1>6. \A n \in 1..m : n - 1 \in 0..m
  BY <1>1
<1>7. \A n \in 1..m : w[n] = w[n - 1] \o Enc(d[n], struct[n])
  BY <1>5, <1>6 DEF Steps
<1> QED BY <1>5, <1>7 DEF Steps, Written

\* every field appends its bytes to it,
LEMMA WrittenNext ==
    ASSUME NEW d, Plain(d), NEW struct \in PlainStruct(d), NEW w, Written(d, struct, w), NEW n \in 1..Len(d)
    PROVE  /\ w[n - 1] \in Seq(Byte) /\ w[n] \in Seq(Byte) /\ struct[n] \in SUBSET (0..31)
           /\ Enc(d[n], struct[n]) \in Seq(Byte)
           /\ w[n] = w[n - 1] \o Enc(d[n], struct[n])
           /\ Len(w[n]) = Len(w[n - 1]) + Len(Enc(d[n], struct[n]))
           /\ Len(w[n - 1]) <= Len(w[n]) /\ Len(w[n]) <= Len(w[n - 1]) + 11
<1>1. Len(d) \in Nat
  BY DEF Plain
<1>2. n - 1 \in 0..Len(d) /\ n \in 0..Len(d)
  BY <1>1
<1>3. w[n - 1] \in Seq(Byte) /\ w[n] \in Seq(Byte) /\ struct[n] \in SUBSET (0..31)
  BY <1>2 DEF Written, PlainStruct
<1>4. Enc(d[n], struct[n]) \in Seq(Byte) /\ Len(Enc(d[n], struct[n])) \in 0..11
  BY <1>3, EncIs
<1>5. w[n] = w[n - 1] \o Enc(d[n], struct[n])
  BY DEF Written
<1> DEFINE a == w[n - 1]
           e == Enc(d[n], struct[n])
<1>6. a \in Seq(Byte) /\ e \in Seq(Byte) /\ w[n] = a \o e
  BY <1>3, <1>4, <1>5
<1> HIDE DEF a, e
<1>7. Len(w[n]) = Len(a) + Len(e) /\ Len(a) \in Nat
  BY <1>6
<1> DEFINE c == Len(e)
           b == Len(a)
<1>8. b \in Nat /\ c \in 0..11 /\ Len(w[n]) = b + c
  BY <1>4, <1>7 DEF e
<1> HIDE DEF b, c
<1>9. b <= b + c /\ b + c <= b + 11
  BY <1>8
<1> QED BY <1>3, <1>4, <1>5, <1>7, <1>8, <1>9 DEF a, e, b, c

\* and it stays short.
LEMMA WrittenSize ==
    ASSUME NEW d, Plain(d), NEW struct \in PlainStruct(d), NEW w, Written(d, struct, w)
    PROVE  \A n \in 0..Len(d) : w[n] \in Seq(Byte) /\ Len(w[n]) \in 0..(11 * n)
<1> DEFINE Good == {n \in 0..Len(d) : Len(w[n]) \in 0..(11 * n)}
<1>1. Len(d) \in Nat
  BY DEF Plain
<1>2. w[0] = <<>> /\ \A n \in 0..Len(d) : w[n] \in Seq(Byte)
  BY DEF Written
<1>3. 0 \in Good
  BY <1>1, <1>2
<1>4. ASSUME NEW n \in 1..Len(d), n - 1 \in Good PROVE n \in Good
  <2> DEFINE a == Len(w[n - 1])
             b == Len(w[n])
  <2>1. w[n] \in Seq(Byte) /\ a <= b /\ b <= a + 11
    BY WrittenNext
  <2>2. b \in Nat /\ a \in 0..(11 * (n - 1))
    BY <1>4, <2>1
  <2> HIDE DEF a, b
  <2>3. b \in 0..(11 * n)
    BY <2>1, <2>2
  <2>4. n \in 0..Len(d)
    BY <1>1
  <2> QED BY <2>3, <2>4 DEF b
<1> HIDE DEF Good
<1>5. \A n \in 0..Len(d) : n \in Good
  BY <1>1, <1>3, <1>4, Induction
<1> QED BY <1>2, <1>5 DEF Good

-----------------------------------------------------------------------------
\* The loop over the fields.
EncodeState(d) == [o : OStream, index : 0..(Len(d) - 1), more : BOOLEAN]
EncodeStep(l, d, struct) == IF FieldsLeft(l) THEN NextField(l, d, struct, FlatEncode) ELSE l
EncodeFirst(size) == [o |-> pb_ostream_from_buffer(size), index |-> 0, more |-> TRUE]

\* The state after n fields, unless the buffer was too small.
EncodeAfter(d, w, size, n, l) ==
    IF Len(w[n]) <= size
    THEN /\ l.o \in OStream /\ l.o.ok /\ l.o.out = w[n] /\ l.o.max_size = size
         /\ n < Len(d) => l.index = n /\ l.more = TRUE
    ELSE ~l.o.ok

\* A round of the loop writes the next field.
LEMMA EncodeNext ==
    ASSUME NEW d, Plain(d), NEW struct \in PlainStruct(d), NEW w, Written(d, struct, w), NEW size \in Nat,
           NEW n \in 1..Len(d), NEW l, EncodeAfter(d, w, size, n - 1, l)
    PROVE  EncodeAfter(d, w, size, n, EncodeStep(l, d, struct))
<1>0. Len(d) \in Nat /\ n \in Nat /\ n - 1 < Len(d)
  BY DEF Plain
<1>1. /\ w[n - 1] \in Seq(Byte) /\ w[n] \in Seq(Byte) /\ struct[n] \in SUBSET (0..31)
      /\ w[n] = w[n - 1] \o Enc(d[n], struct[n])
      /\ Len(w[n]) = Len(w[n - 1]) + Len(Enc(d[n], struct[n]))
      /\ Len(w[n - 1]) <= Len(w[n])
  BY WrittenNext
<1>2. CASE ~(Len(w[n - 1]) <= size)
  <2>1. ~l.o.ok
    BY <1>2 DEF EncodeAfter
  <2>2. EncodeStep(l, d, struct) = l
    BY <2>1 DEF EncodeStep, FieldsLeft
  <2>3. ~(Len(w[n]) <= size)
    <3> DEFINE a == Len(w[n - 1])
               b == Len(w[n])
    <3>0. a \in Nat /\ b \in Nat
      <4>1. w[n - 1] \in Seq(Byte) /\ w[n] \in Seq(Byte)
        BY <1>1
      <4> QED BY <4>1
    <3>1. a \in Nat /\ b \in Nat /\ a <= b /\ ~(a <= size)
      BY <1>1, <1>2, <3>0
    <3> HIDE DEF a, b
    <3>2. ~(b <= size)
      BY <3>1
    <3> QED BY <3>2 DEF b
  <2> QED BY <2>1, <2>2, <2>3 DEF EncodeAfter
<1>3. CASE Len(w[n - 1]) <= size
  <2>1. l.o \in OStream /\ l.o.ok /\ l.o.out = w[n - 1] /\ l.o.max_size = size /\ l.index = n - 1 /\ l.more = TRUE
    BY <1>0, <1>3 DEF EncodeAfter
  <2> DEFINE r == EncodeOne(l.o, d[n], struct[n])
             next == advance_iterator(d, n - 1)
             e == [o |-> r, index |-> next, more |-> next # 0]
  <2>2. EncodeStep(l, d, struct) = e
    <3>1. load_descriptor_values(d, l.index) = d[n] /\ d[n].tag = n
      <4>1. (n - 1) + 1 = n
        BY <1>0
      <4> QED BY <2>1, <4>1 DEF load_descriptor_values, Plain
    <3>2. FieldsLeft(l)
      BY <2>1 DEF FieldsLeft
    <3>3. EncodeStep(l, d, struct) = NextField(l, d, struct, FlatEncode)
      BY <3>2 DEF EncodeStep
    <3> QED BY <2>1, <3>1, <3>3 DEF NextField, EncodeOne
  <2>3. n < Len(d) => next = n /\ next # 0
    BY <1>0 DEF advance_iterator
  <2> HIDE DEF next
  <2>4. Len(l.o.out) <= l.o.max_size
    BY <1>3, <2>1
  <2>5. /\ r \in OStream /\ r.max_size = l.o.max_size
        /\ r.ok <=> Len(l.o.out) + Len(Enc(d[n], struct[n])) <= l.o.max_size
        /\ r.ok => r.out = l.o.out \o Enc(d[n], struct[n])
    <3> DEFINE x == struct[n]
               o == l.o
    <3>1. x \in SUBSET (0..31) /\ o \in OStream /\ o.ok /\ Len(o.out) <= o.max_size
      BY <1>1, <2>1, <2>4
    <3>2. r = EncodeOne(o, d[n], x)
      OBVIOUS
    <3> HIDE DEF r, x, o
    <3>3. Appends(r, o, Enc(d[n], x))
      BY <3>1, <3>2, EncodeFieldIs
    <3> QED BY <3>3 DEF x, o, Appends
  <2> HIDE DEF r
  <2>6. /\ r \in OStream /\ r.max_size = size
        /\ r.ok <=> Len(w[n]) <= size
        /\ r.ok => r.out = w[n]
    BY <1>1, <2>1, <2>5
  <2>7. e.o = r /\ e.index = next /\ e.more = (next # 0)
    OBVIOUS
  <2> HIDE DEF e
  <2>8. EncodeAfter(d, w, size, n, e)
    BY <2>3, <2>6, <2>7 DEF EncodeAfter
  <2> QED BY <2>2, <2>8
<1> QED BY <1>2, <1>3

\* A round keeps the types.
LEMMA EncodeStepType ==
    ASSUME NEW d, Plain(d), NEW struct \in PlainStruct(d), NEW l \in EncodeState(d), l.o.ok => Len(l.o.out) <= l.o.max_size
    PROVE  /\ EncodeStep(l, d, struct) \in EncodeState(d)
           /\ EncodeStep(l, d, struct).o.ok => Len(EncodeStep(l, d, struct).o.out) <= EncodeStep(l, d, struct).o.max_size
<1>1. CASE ~FieldsLeft(l)
  BY <1>1 DEF EncodeStep
<1>2. CASE FieldsLeft(l)
  <2> DEFINE n == l.index + 1
             o == l.o
             x == struct[n]
             r == EncodeOne(o, d[n], x)
             next == advance_iterator(d, l.index)
             e == [o |-> r, index |-> next, more |-> next # 0]
  <2>0. Len(d) \in Nat /\ Len(d) >= 1
    BY DEF Plain
  <2>1. l.index \in 0..(Len(d) - 1) /\ l.o \in OStream /\ l.o.ok
    BY <1>2 DEF EncodeState, FieldsLeft
  <2>2. n \in 1..Len(d)
    BY <2>0, <2>1
  <2>3. next \in 0..(Len(d) - 1)
    BY <2>0, <2>1 DEF advance_iterator
  <2>4. EncodeStep(l, d, struct) = e
    <3>1. load_descriptor_values(d, l.index) = d[n] /\ d[n].tag = n
      BY <2>2 DEF load_descriptor_values, Plain
    <3>2. EncodeStep(l, d, struct) = NextField(l, d, struct, FlatEncode)
      BY <1>2 DEF EncodeStep
    <3> HIDE DEF n
    <3> QED BY <3>1, <3>2 DEF NextField, EncodeOne
  <2> HIDE DEF n, next
  <2>5. x \in SUBSET (0..31)
    BY <2>2 DEF PlainStruct
  <2>6. o \in OStream /\ o.ok /\ Len(o.out) <= o.max_size
    BY <2>1
  <2>7. Appends(r, o, Enc(d[n], x))
    <3>1. r = EncodeOne(o, d[n], x)
      OBVIOUS
    <3> HIDE DEF r, o, x
    <3> QED BY <2>2, <2>5, <2>6, <3>1, EncodeFieldIs
  <2>8. Enc(d[n], x) \in Seq(Byte) /\ Len(Enc(d[n], x)) \in 0..11
    BY <2>2, <2>5, EncIs
  <2> DEFINE q == Enc(d[n], x)
  <2> HIDE DEF r, o, x, q
  <2>9. r \in OStream /\ (r.ok => Len(r.out) <= r.max_size)
    <3>1. q \in Seq(Byte) /\ o.out \in Seq(Byte)
      BY <2>6, <2>8 DEF OStream, q
    <3>2. Len(o.out \o q) = Len(o.out) + Len(q)
      BY <3>1
    <3>3. /\ r \in OStream /\ r.max_size = o.max_size /\ (r.ok <=> Len(o.out) + Len(q) <= o.max_size)
          /\ (r.ok => r.out = o.out \o q)
      BY <2>7 DEF Appends, q
    <3> QED BY <3>2, <3>3
  <2>10. e \in EncodeState(d) /\ e.o = r
    BY <2>3, <2>9 DEF EncodeState
  <2> HIDE DEF e
  <2> QED BY <2>4, <2>9, <2>10
<1> QED BY <1>1, <1>2

\* pb_encode takes one round per field.
LEMMA EncodeLoop ==
    ASSUME NEW d, Plain(d), NEW struct \in PlainStruct(d), NEW size \in Nat
    PROVE  \E g : /\ g[0] = EncodeFirst(size)
                  /\ \A n \in 1..Len(d) : g[n] = EncodeStep(g[n - 1], d, struct)
                  /\ pb_encode(pb_ostream_from_buffer(size), d, struct) = g[Len(d)].o
<1> DEFINE m == Len(d)
           S == {l \in EncodeState(d) : l.o.ok => Len(l.o.out) <= l.o.max_size}
           F == [l \in S |-> EncodeStep(l, d, struct)]
           D(g) == [n \in 0..m |-> IF n = 0 THEN EncodeFirst(size) ELSE EncodeStep(g[n - 1], d, struct)]
           c == CHOOSE g : g = D(g)
<1>0. m \in Nat /\ m >= 1
  BY DEF Plain
<1>1. F \in [S -> S]
  BY EncodeStepType
<1>2. EncodeFirst(size) \in S
  <2> DEFINE o == pb_ostream_from_buffer(size)
             l == [o |-> o, index |-> 0, more |-> TRUE]
  <2>1. o \in OStream /\ Len(o.out) <= o.max_size
    BY DEF pb_ostream_from_buffer, OStream
  <2> HIDE DEF o
  <2>2. l \in EncodeState(d) /\ l.o = o
    BY <1>0, <2>1 DEF EncodeState
  <2>3. l = EncodeFirst(size)
    BY DEF EncodeFirst, o
  <2> HIDE DEF l
  <2> QED BY <2>1, <2>2, <2>3
<1>10. pb_encode(pb_ostream_from_buffer(size), d, struct) = c[m].o
  <2>1. d # <<>>
    <3>1. Len(<<>>) = 0
      OBVIOUS
    <3> QED BY <1>0, <3>1
  <2>2. [o |-> pb_ostream_from_buffer(size), index |-> 0, more |-> d # <<>>] = EncodeFirst(size)
    BY <2>1 DEF EncodeFirst
  <2> DEFINE end == While(FieldsLeft, LAMBDA l : NextField(l, d, struct, FlatEncode), EncodeFirst(size), Len(d))
  <2>3. pb_encode(pb_ostream_from_buffer(size), d, struct) = end.o
    BY <2>2 DEF pb_encode, EncodeFields
  <2>4. end = c[m]
    BY DEF While, EncodeStep
  <2> HIDE DEF end, c
  <2> QED BY <2>3, <2>4
<1> HIDE DEF m
<1>3. PICK g : Rounds(S, F, EncodeFirst(size), m, g)
  <2> HIDE DEF F, S
  <2> QED BY <1>0, <1>1, <1>2, RoundsExist
<1>4. \A n \in 1..m : g[n] = EncodeStep(g[n - 1], d, struct)
  <2>1. \A n \in 1..m : n - 1 \in 0..m
    BY <1>0
  <2> QED BY <1>3, <2>1 DEF Rounds
<1>5. g = D(g)
  <2>1. g \in [0..m -> S] /\ g[0] = EncodeFirst(size)
    BY <1>3 DEF Rounds
  <2>2. \A n \in 0..m : n # 0 => n \in 1..m
    BY <1>0
  <2> HIDE DEF S
  <2> QED BY <1>4, <2>1, <2>2
<1>6. c = D(c)
  <2> HIDE DEF D
  <2> QED BY <1>5
<1> HIDE DEF c
<1>7. c[0] = EncodeFirst(size) /\ \A n \in 1..m : c[n] = EncodeStep(c[n - 1], d, struct)
  <2>1. 0 \in 0..m /\ \A n \in 1..m : n \in 0..m /\ n # 0
    BY <1>0
  <2> QED BY <1>6, <2>1
<1> QED BY <1>7, <1>10 DEF m

\* pb_encode: what is written is the fields that are not zero, in the order
\* of the descriptor, and it succeeds exactly when they fit.
LEMMA EncodeIs ==
    ASSUME NEW d, Plain(d), NEW struct \in PlainStruct(d), NEW size \in Nat, NEW w, Written(d, struct, w),
           NEW r, r = pb_encode(pb_ostream_from_buffer(size), d, struct)
    PROVE  /\ r.ok <=> Len(w[Len(d)]) <= size
           /\ r.ok => r.out = w[Len(d)]
<1> DEFINE m == Len(d)
<1>0. m \in Nat
  BY DEF Plain
<1>1. PICK g : /\ g[0] = EncodeFirst(size)
               /\ \A n \in 1..m : g[n] = EncodeStep(g[n - 1], d, struct)
               /\ pb_encode(pb_ostream_from_buffer(size), d, struct) = g[m].o
  BY EncodeLoop
<1> DEFINE Good == {n \in 0..m : EncodeAfter(d, w, size, n, g[n])}
<1>2. 0 \in Good
  <2> DEFINE o == pb_ostream_from_buffer(size)
  <2>1. o \in OStream /\ o.ok /\ o.out = <<>> /\ o.max_size = size
    BY DEF pb_ostream_from_buffer, OStream
  <2> HIDE DEF o
  <2>2. g[0].o = o /\ g[0].index = 0 /\ g[0].more = TRUE
    BY <1>1 DEF EncodeFirst, o
  <2>3. w[0] = <<>>
    BY DEF Written
  <2>4. Len(w[0]) <= size
    BY <2>3
  <2>5. EncodeAfter(d, w, size, 0, g[0])
    BY <2>1, <2>2, <2>3, <2>4 DEF EncodeAfter
  <2> QED BY <1>0, <2>5
<1>3. ASSUME NEW n \in 1..m, n - 1 \in Good PROVE n \in Good
  <2>1. EncodeAfter(d, w, size, n - 1, g[n - 1])
    BY <1>3
  <2>2. EncodeAfter(d, w, size, n, EncodeStep(g[n - 1], d, struct))
    BY <2>1, EncodeNext
  <2>3. n \in 0..m
    BY <1>0
  <2> QED BY <1>1, <2>2, <2>3
<1> HIDE DEF Good
<1>4. \A n \in 0..m : n \in Good
  BY <1>0, <1>2, <1>3, Induction
<1>5. m \in 0..m
  BY <1>0
<1>6. EncodeAfter(d, w, size, m, g[m])
  BY <1>4, <1>5 DEF Good
<1> QED BY <1>1, <1>6 DEF EncodeAfter

-----------------------------------------------------------------------------
\* Merging a structure into another, field by field.

\* The merge of plain structs: of two values the later one that is not zero.
LastOf(d, old, new) == [i \in 1..Len(d) |-> IF new[i] = {} THEN old[i] ELSE new[i]]

\* The merge of two plain structs,
LEMMA PlainMerge ==
    ASSUME NEW d, Plain(d), NEW old \in PlainStruct(d), NEW new \in PlainStruct(d)
    PROVE  /\ Merge(d, old, new) = LastOf(d, old, new)
           /\ Merge(d, old, new) \in PlainStruct(d)
<1>1. Tags(d) = 1..Len(d) /\ \A i \in 1..Len(d) : FieldOf(d, i) = d[i]
  BY PlainTags
<1>2. ASSUME NEW i \in 1..Len(d) PROVE MergeData(d[i], old[i], new[i], FlatMerge) = IF new[i] = {} THEN old[i] ELSE new[i]
  <2>1. d[i].htype = "SINGULAR" /\ d[i].ltype \in {"UVARINT", "FIXED32"}
    BY DEF Plain
  <2>2. ZeroElement(d[i]) = {}
    BY <2>1 DEF ZeroElement, ZeroLeaf, Packable
  <2> QED BY <2>1, <2>2 DEF MergeData
<1>3. Merge(d, old, new) = [i \in 1..Len(d) |-> IF new[i] = {} THEN old[i] ELSE new[i]]
  BY <1>1, <1>2 DEF Merge, MergeStructs
<1> QED BY <1>3 DEF PlainStruct, LastOf

\* The merge with the first fields of a struct.
FirstOf(d, old, new, n) == [i \in 1..Len(d) |-> IF i <= n /\ new[i] # {} THEN new[i] ELSE old[i]]

\* and with the first n fields of the second.
LEMMA PlainMergeFirst ==
    ASSUME NEW d, Plain(d), NEW old \in PlainStruct(d), NEW new \in PlainStruct(d), NEW n \in 0..Len(d)
    PROVE  /\ MergeFirst(d, old, new, n, 0) = FirstOf(d, old, new, n)
           /\ MergeFirst(d, old, new, n, 0) \in PlainStruct(d)
<1>1. Tags(d) = 1..Len(d)
  BY PlainTags
<1>2. ASSUME NEW i \in 1..Len(d) PROVE (CHOOSE j \in DOMAIN d : d[j].tag = i) = i
  BY DEF Plain
<1>3. ASSUME NEW i \in 1..Len(d) PROVE MergeData(d[i], old[i], new[i], FlatMerge) = IF new[i] # {} THEN new[i] ELSE old[i]
  <2>1. d[i].htype = "SINGULAR" /\ d[i].ltype \in {"UVARINT", "FIXED32"}
    BY DEF Plain
  <2>2. ZeroElement(d[i]) = {}
    BY <2>1 DEF ZeroElement, ZeroLeaf, Packable
  <2> QED BY <2>1, <2>2 DEF MergeData
<1>4. \A i \in 1..Len(d) : d[i].htype # "REPEATED"
  BY DEF Plain
<1>5. \A i \in 1..Len(d) : i \in Int /\ n \in Int
  BY DEF Plain
<1>6. ASSUME NEW i \in 1..Len(d) PROVE
         (LET index == CHOOSE j \in DOMAIN d : d[j].tag = i
          IN  CASE index <= n -> MergeData(d[index], old[i], new[i], FlatMerge)
                [] index = n + 1 /\ d[index].htype = "REPEATED" /\ d[index].ltype \notin Packable
                     -> old[i] \o SubSeq(new[i], 1, Min({0, Len(new[i])}))
                [] OTHER -> old[i]) = IF i <= n /\ new[i] # {} THEN new[i] ELSE old[i]
  <2>1. CASE i <= n
    BY <1>2, <1>3, <1>4, <2>1
  <2>2. CASE ~(i <= n)
    BY <1>2, <1>4, <2>2
  <2> QED BY <2>1, <2>2
<1>7. MergeFirst(d, old, new, n, 0) = [i \in 1..Len(d) |-> IF i <= n /\ new[i] # {} THEN new[i] ELSE old[i]]
  BY <1>1, <1>6 DEF MergeFirst
<1> QED BY <1>7 DEF PlainStruct, FirstOf

\* One more field.
LEMMA MergeFirstNext ==
    ASSUME NEW d, Plain(d), NEW old \in PlainStruct(d), NEW new \in PlainStruct(d), NEW n \in 1..Len(d)
    PROVE  MergeFirst(d, old, new, n, 0) =
              IF new[n] = {} THEN MergeFirst(d, old, new, n - 1, 0)
              ELSE Put(d, MergeFirst(d, old, new, n - 1, 0), n, new[n])
<1> DEFINE a == MergeFirst(d, old, new, n - 1, 0)
           c == MergeFirst(d, old, new, n, 0)
<1>0. Len(d) \in Nat
  BY DEF Plain
<1>1. n - 1 \in 0..Len(d) /\ n \in 0..Len(d) /\ \A i \in 1..Len(d) : i <= n <=> (i = n \/ i <= n - 1)
  BY <1>0
<1>2. a = [i \in 1..Len(d) |-> IF i <= n - 1 /\ new[i] # {} THEN new[i] ELSE old[i]]
  <2>1. a = FirstOf(d, old, new, n - 1)
    BY <1>1, PlainMergeFirst
  <2> QED BY <2>1 DEF FirstOf
<1>3. c = [i \in 1..Len(d) |-> IF i <= n /\ new[i] # {} THEN new[i] ELSE old[i]]
  <2>1. c = FirstOf(d, old, new, n)
    BY <1>1, PlainMergeFirst
  <2> QED BY <2>1 DEF FirstOf
<1> HIDE DEF a, c
<1>4. CASE new[n] = {}
  <2>1. c = a
    BY <1>1, <1>2, <1>3, <1>4
  <2> QED BY <1>4, <2>1 DEF a, c
<1>5. CASE new[n] # {}
  <2>1. ~(n <= n - 1)
    BY <1>0
  <2>2. c = [a EXCEPT ![n] = new[n]]
    BY <1>1, <1>2, <1>3, <1>5, <2>1
  <2> QED BY <1>5, <2>2 DEF a, c, Put
<1> QED BY <1>4, <1>5

\* With no field, and with all of them.
LEMMA MergeFirstEnds ==
    ASSUME NEW d, Plain(d), NEW old \in PlainStruct(d), NEW new \in PlainStruct(d)
    PROVE  /\ MergeFirst(d, old, new, 0, 0) = old
           /\ MergeFirst(d, old, new, Len(d), 0) = Merge(d, old, new)
<1>0. Len(d) \in Nat /\ 0 \in 0..Len(d) /\ Len(d) \in 0..Len(d)
  BY DEF Plain
<1>1. \A i \in 1..Len(d) : ~(i <= 0) /\ i <= Len(d)
  BY <1>0
<1>2. MergeFirst(d, old, new, 0, 0) = [i \in 1..Len(d) |-> IF i <= 0 /\ new[i] # {} THEN new[i] ELSE old[i]]
  <2>1. MergeFirst(d, old, new, 0, 0) = FirstOf(d, old, new, 0)
    BY <1>0, PlainMergeFirst
  <2> QED BY <2>1 DEF FirstOf
<1>3. MergeFirst(d, old, new, Len(d), 0) = [i \in 1..Len(d) |-> IF i <= Len(d) /\ new[i] # {} THEN new[i] ELSE old[i]]
  <2>1. MergeFirst(d, old, new, Len(d), 0) = FirstOf(d, old, new, Len(d))
    BY <1>0, PlainMergeFirst
  <2> QED BY <2>1 DEF FirstOf
<1>4. Merge(d, old, new) = [i \in 1..Len(d) |-> IF new[i] = {} THEN old[i] ELSE new[i]]
  <2>1. Merge(d, old, new) = LastOf(d, old, new)
    BY PlainMerge
  <2> QED BY <2>1 DEF LastOf
<1>5. old = [i \in 1..Len(d) |-> old[i]]
  BY DEF PlainStruct
<1>6. MergeFirst(d, old, new, 0, 0) = old
  BY <1>1, <1>2, <1>5
<1>7. MergeFirst(d, old, new, Len(d), 0) = Merge(d, old, new)
  BY <1>1, <1>3, <1>4
<1> QED BY <1>6, <1>7

-----------------------------------------------------------------------------
\* The merge of several structs.
Merged(d, structs, g) ==
    /\ g \in [0..Len(structs) -> PlainStruct(d)]
    /\ g[0] = ZeroStruct(d)
    /\ \A n \in 1..Len(structs) : g[n] = Merge(d, g[n - 1], structs[n])

\* MergeAll goes through the structs in their order.
LEMMA MergeAllIs ==
    ASSUME NEW d, Plain(d), NEW structs \in Seq(PlainStruct(d))
    PROVE  \E g : Merged(d, structs, g) /\ MergeAll(d, structs) = g[Len(structs)]
<1> DEFINE m == Len(structs)
           S == PlainStruct(d)
           F == [n \in 1..m |-> [a \in S |-> Merge(d, a, structs[n])]]
           D(g) == [n \in 0..m |-> IF n = 0 THEN ZeroStruct(d) ELSE Merge(d, g[n - 1], structs[n])]
           c == CHOOSE g : g = D(g)
<1>0. m \in Nat /\ \A n \in 1..m : structs[n] \in S
  OBVIOUS
<1>1. F \in [1..m -> [S -> S]]
  <2>1. ASSUME NEW n \in 1..m, NEW a \in S PROVE Merge(d, a, structs[n]) \in S
    BY <1>0, PlainMerge
  <2> QED BY <2>1
<1>2. ZeroStruct(d) \in S
  BY PlainTags DEF PlainStruct
<1>3. MergeAll(d, structs) = c[m]
  BY DEF MergeAll
<1> HIDE DEF m
<1>4. PICK g : Steps(S, F, ZeroStruct(d), m, g)
  <2> HIDE DEF F, S
  <2> QED BY <1>0, <1>1, <1>2, StepsExist
<1>5. \A n \in 1..m : g[n] = Merge(d, g[n - 1], structs[n])
  <2>1. \A n \in 1..m : n - 1 \in 0..m
    BY <1>0
  <2> QED BY <1>4, <2>1 DEF Steps
<1>6. g = D(g)
  <2>1. g \in [0..m -> S] /\ g[0] = ZeroStruct(d)
    BY <1>4 DEF Steps
  <2>2. \A n \in 0..m : n # 0 => n \in 1..m
    BY <1>0
  <2> HIDE DEF S
  <2> QED BY <1>5, <2>1, <2>2
<1>7. c = D(c)
  <2> HIDE DEF D
  <2> QED BY <1>6
<1> HIDE DEF c
<1>8. c[0] = ZeroStruct(d) /\ \A n \in 1..m : c[n] = Merge(d, c[n - 1], structs[n])
  <2>1. 0 \in 0..m /\ \A n \in 1..m : n \in 0..m /\ n # 0
    BY <1>0
  <2> QED BY <1>7, <2>1
<1>9. \A n \in 0..m : c[n] \in S
  <2>1. \A n \in 1..m : c[n - 1] \in S => c[n] \in S
    BY <1>0, <1>8, PlainMerge
  <2>2. c[0] \in S
    BY <1>2, <1>8
  <2> HIDE DEF S
  <2> QED BY <1>0, <2>1, <2>2, StaysIn
<1>10. c \in [0..m -> S]
  BY <1>7, <1>9
<1> QED BY <1>3, <1>8, <1>10 DEF Merged, m

\* Its result is a struct,
LEMMA MergeAllType ==
    ASSUME NEW d, Plain(d), NEW structs \in Seq(PlainStruct(d))
    PROVE  MergeAll(d, structs) \in PlainStruct(d)
<1>1. PICK g : Merged(d, structs, g) /\ MergeAll(d, structs) = g[Len(structs)]
  BY MergeAllIs
<1>2. Len(structs) \in 0..Len(structs)
  OBVIOUS
<1> QED BY <1>1, <1>2 DEF Merged

\* zero without any,
LEMMA MergeAllNone ==
    ASSUME NEW d, Plain(d)
    PROVE  MergeAll(d, <<>>) = ZeroStruct(d)
<1>1. <<>> \in Seq(PlainStruct(d)) /\ Len(<<>>) = 0
  OBVIOUS
<1>2. PICK g : Merged(d, <<>>, g) /\ MergeAll(d, <<>>) = g[Len(<<>>)]
  BY <1>1, MergeAllIs
<1> QED BY <1>1, <1>2 DEF Merged

\* and a further struct is merged into it.
LEMMA MergeAllNext ==
    ASSUME NEW d, Plain(d), NEW structs \in Seq(PlainStruct(d)), NEW x \in PlainStruct(d)
    PROVE  MergeAll(d, Append(structs, x)) = Merge(d, MergeAll(d, structs), x)
<1> DEFINE m == Len(structs)
           longer == Append(structs, x)
<1>1. m \in Nat /\ longer \in Seq(PlainStruct(d)) /\ Len(longer) = m + 1 /\ longer[m + 1] = x
      /\ \A n \in 1..m : longer[n] = structs[n]
  OBVIOUS
<1> HIDE DEF longer
<1>2. PICK g : Merged(d, structs, g) /\ MergeAll(d, structs) = g[m]
  BY MergeAllIs
<1>3. PICK h : Merged(d, longer, h) /\ MergeAll(d, longer) = h[Len(longer)]
  BY <1>1, MergeAllIs
<1>4. \A n \in 1..(m + 1) : h[n] = Merge(d, h[n - 1], longer[n])
  BY <1>1, <1>3 DEF Merged
<1> HIDE DEF m
<1> DEFINE Good == {n \in 0..m : g[n] = h[n]}
<1>5. 0 \in Good
  BY <1>1, <1>2, <1>3 DEF Merged
<1>6. ASSUME NEW n \in 1..m, n - 1 \in Good PROVE n \in Good
  <2>1. n \in 0..m /\ n \in 1..(m + 1)
    BY <1>1
  <2>2. g[n] = Merge(d, g[n - 1], structs[n])
    BY <1>2 DEF Merged, m
  <2> QED BY <1>1, <1>4, <1>6, <2>1, <2>2
<1> HIDE DEF Good
<1>7. \A n \in 0..m : n \in Good
  BY <1>1, <1>5, <1>6, Induction
<1>8. m \in 0..m /\ m + 1 \in 1..(m + 1) /\ (m + 1) - 1 = m
  BY <1>1
<1>9. g[m] = h[m]
  BY <1>7, <1>8 DEF Good
<1>10. h[m + 1] = Merge(d, h[m], x)
  BY <1>1, <1>4, <1>8
<1> QED BY <1>1, <1>2, <1>3, <1>9, <1>10 DEF longer

-----------------------------------------------------------------------------
\* What a payload carries: its decoding whole, and the options when it is cut off.

\* The parts of two sequences that are joined.
LEMMA SubSeqConcat ==
    ASSUME NEW S, NEW p \in Seq(S), NEW q \in Seq(S)
    PROVE  /\ p \o q \in Seq(S) /\ Len(p \o q) = Len(p) + Len(q)
           /\ \A i, j \in 0..Len(p) : i <= j => SubSeq(p \o q, i + 1, j) = SubSeq(p, i + 1, j)
           /\ SubSeq(p \o q, Len(p) + 1, Len(p) + Len(q)) = q
<1> DEFINE r == p \o q
           a == Len(p)
           c == Len(q)
<1>1. r \in Seq(S) /\ Len(r) = a + c /\ a \in Nat /\ c \in Nat
  OBVIOUS
<1>2. (\A i \in 1..a : r[i] = p[i]) /\ \A i \in 1..c : r[a + i] = q[i]
  OBVIOUS
<1>3. q = [i \in 1..c |-> q[i]]
  OBVIOUS
<1>4. ASSUME NEW i \in 0..a, NEW j \in 0..a, i <= j PROVE SubSeq(r, i + 1, j) = SubSeq(p, i + 1, j)
  <2>1. SubSeq(p, i + 1, j) = [k \in 1..(j - i) |-> p[i + k]]
    <3> HIDE DEF r
    <3> QED BY <1>4, SubSeqIs
  <2> HIDE DEF r, a, c
  <2>2. i \in 0..Len(r) /\ j \in 0..Len(r)
    BY <1>1
  <2>3. SubSeq(r, i + 1, j) = [k \in 1..(j - i) |-> r[i + k]]
    BY <1>1, <1>4, <2>2, SubSeqIs
  <2>4. \A k \in 1..(j - i) : i + k \in 1..a
    BY <1>1
  <2> QED BY <1>2, <2>1, <2>3, <2>4
<1>5. SubSeq(r, a + 1, a + c) = q
  <2> HIDE DEF r, a, c
  <2>1. a \in 0..Len(r) /\ a + c \in 0..Len(r) /\ a <= a + c /\ (a + c) - a = c
    BY <1>1
  <2>2. SubSeq(r, a + 1, a + c) = [k \in 1..((a + c) - a) |-> r[a + k]]
    BY <1>1, <2>1, SubSeqIs
  <2> QED BY <1>2, <1>3, <2>1, <2>2
<1> QED BY <1>1, <1>4, <1>5

\* One more field at the end of a payload.
LEMMA ChainField ==
    ASSUME NEW d, Plain(d), NEW p \in Seq(Byte), NEW m, NEW b, NEW v, Chain(d, p, m, b, v),
           NEW q, NEW tag, NEW x, IsField(d, q, tag, x), NEW last \in PlainStruct(d), last = Put(d, v[m], tag, x)
    PROVE  Chain(d, p \o q, m + 1, [j \in 0..(m + 1) |-> IF j = m + 1 THEN Len(p \o q) ELSE b[j]],
                 [j \in 0..(m + 1) |-> IF j = m + 1 THEN last ELSE v[j]])
<1> DEFINE r == p \o q
           c == [j \in 0..(m + 1) |-> IF j = m + 1 THEN Len(r) ELSE b[j]]
           w == [j \in 0..(m + 1) |-> IF j = m + 1 THEN last ELSE v[j]]
<1>1. q \in Seq(Byte) /\ Len(q) >= 1
  BY DEF IsField
<1>2. r \in Seq(Byte) /\ Len(r) = Len(p) + Len(q)
      /\ (\A i, j \in 0..Len(p) : i <= j => SubSeq(r, i + 1, j) = SubSeq(p, i + 1, j))
      /\ SubSeq(r, Len(p) + 1, Len(p) + Len(q)) = q
  BY <1>1, SubSeqConcat
<1>3. m \in Nat /\ b \in [0..m -> 0..Len(p)] /\ b[0] = 0 /\ b[m] = Len(p) /\ v \in [0..m -> PlainStruct(d)]
      /\ \A j \in 1..m : FieldAt(d, p, b[j - 1], b[j], v[j - 1], v[j])
  BY DEF Chain
<1>4. Len(p) \in Nat /\ Len(q) \in Nat /\ Len(r) \in Nat /\ Len(p) < Len(r)
  <2> HIDE DEF r
  <2>1. Len(p) \in Nat /\ Len(q) \in Nat
    BY <1>1
  <2> QED BY <1>1, <1>2, <2>1
<1>5. 0 \in 0..(m + 1) /\ m \in 0..(m + 1) /\ m + 1 \in 0..(m + 1) /\ 0 # m + 1 /\ m # m + 1 /\ m \in 0..m
      /\ \A j \in 0..(m + 1) : j # m + 1 => j \in 0..m
  BY <1>3
<1> HIDE DEF r
<1>6. c \in [0..(m + 1) -> 0..Len(r)]
  <2>1. Len(r) \in 0..Len(r) /\ \A i \in 0..Len(p) : i \in 0..Len(r)
    BY <1>4
  <2> QED BY <1>3, <1>5, <2>1
<1>7. c[0] = 0 /\ c[m + 1] = Len(r) /\ c[m] = Len(p)
  BY <1>3, <1>5
<1>8. w \in [0..(m + 1) -> PlainStruct(d)]
  BY <1>3, <1>5
<1>9. w[m + 1] = last /\ w[m] = v[m]
  BY <1>5
<1>10. ASSUME NEW j \in 1..(m + 1) PROVE FieldAt(d, r, c[j - 1], c[j], w[j - 1], w[j])
  <2>1. CASE j = m + 1
    <3>1. (m + 1) - 1 = m
      BY <1>3
    <3>2. IsField(d, SubSeq(r, Len(p) + 1, Len(r)), tag, x)
      BY <1>2
    <3>3. FieldAt(d, r, Len(p), Len(r), v[m], last)
      BY <1>4, <3>2 DEF FieldAt
    <3> QED BY <1>7, <1>9, <2>1, <3>1, <3>3
  <2>2. CASE j # m + 1
    <3>1. j \in 1..m /\ j - 1 \in 0..(m + 1) /\ j \in 0..(m + 1) /\ j - 1 # m + 1 /\ j - 1 \in 0..m /\ j \in 0..m
      BY <1>3, <2>2
    <3>2. c[j - 1] = b[j - 1] /\ c[j] = b[j] /\ w[j - 1] = v[j - 1] /\ w[j] = v[j]
      BY <2>2, <3>1
    <3> HIDE DEF c, w
    <3>3. FieldAt(d, p, b[j - 1], b[j], v[j - 1], v[j])
      BY <1>3, <3>1
    <3> DEFINE i == b[j - 1]
               k == b[j]
    <3>4. i \in 0..Len(p) /\ k \in 0..Len(p)
      BY <1>3, <3>1
    <3> HIDE DEF i, k
    <3>5. i < k /\ \E t, y : IsField(d, SubSeq(p, i + 1, k), t, y) /\ v[j] = Put(d, v[j - 1], t, y)
      BY <3>3 DEF FieldAt, i, k
    <3>6. i <= k
      BY <1>4, <3>4, <3>5
    <3>7. SubSeq(r, i + 1, k) = SubSeq(p, i + 1, k)
      BY <1>2, <3>4, <3>6
    <3>8. FieldAt(d, r, i, k, v[j - 1], v[j])
      BY <3>5, <3>7 DEF FieldAt
    <3> QED BY <3>2, <3>8 DEF i, k
  <2> QED BY <2>1, <2>2
<1> HIDE DEF c, w
<1>11. m + 1 \in Nat
  BY <1>3
<1>12. Chain(d, r, m + 1, c, w)
  BY <1>6, <1>7, <1>8, <1>10, <1>11 DEF Chain
<1> QED BY <1>12 DEF r, c, w

-----------------------------------------------------------------------------
\* A payload of whole fields that reads as last, and as a struct in S after
\* each of its fields.
Reads(d, p, S, last) ==
    /\ p \in Seq(Byte)
    /\ \E m, b, v : /\ Chain(d, p, m, b, v)
                    /\ v[0] = ZeroStruct(d) /\ v[m] = last
                    /\ \A j \in 0..m : v[j] \in S

\* The empty payload reads as zero.
LEMMA ReadsNone ==
    ASSUME NEW d, Plain(d), NEW S, ZeroStruct(d) \in S
    PROVE  Reads(d, <<>>, S, ZeroStruct(d))
<1> DEFINE b == [j \in 0..0 |-> 0]
           v == [j \in 0..0 |-> ZeroStruct(d)]
<1>1. ZeroStruct(d) \in PlainStruct(d)
  BY PlainTags DEF PlainStruct
<1>2. <<>> \in Seq(Byte) /\ Len(<<>>) = 0
  OBVIOUS
<1>3. b \in [0..0 -> 0..0] /\ b[0] = 0 /\ v \in [0..0 -> PlainStruct(d)] /\ v[0] = ZeroStruct(d)
  BY <1>1
<1> HIDE DEF b, v
<1>4. 0 \in Nat /\ 1..0 = {} /\ 0..0 = {0}
  OBVIOUS
<1>5. Chain(d, <<>>, 0, b, v)
  BY <1>2, <1>3, <1>4 DEF Chain
<1>6. \A j \in 0..0 : v[j] \in S
  BY <1>3, <1>4
<1> QED BY <1>2, <1>3, <1>5, <1>6 DEF Reads

\* A field behind a payload.
LEMMA ReadsField ==
    ASSUME NEW d, Plain(d), NEW p, NEW S, NEW last, Reads(d, p, S, last), NEW q, NEW tag, NEW x, IsField(d, q, tag, x),
           NEW next \in PlainStruct(d), next = Put(d, last, tag, x), next \in S
    PROVE  Reads(d, p \o q, S, next)
<1>1. p \in Seq(Byte) /\ q \in Seq(Byte)
  BY DEF Reads, IsField
<1>2. PICK m, b, v : Chain(d, p, m, b, v) /\ v[0] = ZeroStruct(d) /\ v[m] = last /\ \A j \in 0..m : v[j] \in S
  BY DEF Reads
<1> DEFINE c == [j \in 0..(m + 1) |-> IF j = m + 1 THEN Len(p \o q) ELSE b[j]]
           w == [j \in 0..(m + 1) |-> IF j = m + 1 THEN next ELSE v[j]]
<1>3. Chain(d, p \o q, m + 1, c, w)
  BY <1>1, <1>2, ChainField
<1>4. m \in Nat
  BY <1>2 DEF Chain
<1>5. w[0] = ZeroStruct(d) /\ w[m + 1] = next /\ \A j \in 0..(m + 1) : w[j] \in S
  <2>1. 0 \in 0..(m + 1) /\ m + 1 \in 0..(m + 1) /\ 0 # m + 1 /\ \A j \in 0..(m + 1) : j # m + 1 => j \in 0..m
    BY <1>4
  <2> QED BY <1>2, <2>1
<1> HIDE DEF c, w
<1>6. p \o q \in Seq(Byte)
  BY <1>1
<1> QED BY <1>3, <1>5, <1>6 DEF Reads

\* More options are allowed.
LEMMA ReadsMore ==
    ASSUME NEW d, NEW p, NEW S, NEW last, Reads(d, p, S, last), NEW T, S \subseteq T
    PROVE  Reads(d, p, T, last)
BY DEF Reads

\* What it reads as is an option.
LEMMA ReadsLast ==
    ASSUME NEW d, NEW p, NEW S, NEW last, Reads(d, p, S, last)
    PROVE  last \in S /\ last \in PlainStruct(d) /\ p \in Seq(Byte)
<1>1. PICK m, b, v : Chain(d, p, m, b, v) /\ v[0] = ZeroStruct(d) /\ v[m] = last /\ \A j \in 0..m : v[j] \in S
  BY DEF Reads
<1>2. m \in Nat /\ v \in [0..m -> PlainStruct(d)]
  BY <1>1 DEF Chain
<1>3. m \in 0..m
  BY <1>2
<1> QED BY <1>1, <1>2, <1>3 DEF Reads

\* What Deserialize makes of it, and of its first n bytes.
LEMMA ReadsWhole ==
    ASSUME NEW d, Plain(d), NEW p, NEW S, NEW last, Reads(d, p, S, last), NEW r, r = DeserializeMsg(d, p)
    PROVE  r.ok /\ r.v = last
<1>1. p \in Seq(Byte)
  BY DEF Reads
<1>2. PICK m, b, v : Chain(d, p, m, b, v) /\ v[0] = ZeroStruct(d) /\ v[m] = last /\ \A j \in 0..m : v[j] \in S
  BY DEF Reads
<1>3. r = pb_decode_inner(pb_istream_from_buffer(p), d, v[0])
  BY <1>2 DEF DeserializeMsg, pb_decode
<1> QED BY <1>1, <1>2, <1>3, WholeDecodes

\* The first n bytes are refused or read as one of the options.
LEMMA ReadsCut ==
    ASSUME NEW d, Plain(d), NEW p, NEW S, NEW last, Reads(d, p, S, last), NEW n \in 0..Len(p),
           NEW r, r = DeserializeMsg(d, SubSeq(p, 1, n)), r.ok
    PROVE  r.v \in S
<1>1. p \in Seq(Byte)
  BY DEF Reads
<1>2. PICK m, b, v : Chain(d, p, m, b, v) /\ v[0] = ZeroStruct(d) /\ v[m] = last /\ \A j \in 0..m : v[j] \in S
  BY DEF Reads
<1>3. r = pb_decode_inner(pb_istream_from_buffer(SubSeq(p, 1, n)), d, v[0])
  BY <1>2 DEF DeserializeMsg, pb_decode
<1>4. \/ r.ok /\ \E j \in 0..m : b[j] = n /\ r.v = v[j]
      \/ ~r.ok /\ \E j \in 1..m : b[j - 1] < n /\ n < b[j]
  BY <1>1, <1>2, <1>3, CutDecodes
<1> QED BY <1>2, <1>4

\* A struct behind it.
LEMMA ReadsStruct ==
    ASSUME NEW d, Plain(d), NEW p, NEW S, NEW last, Reads(d, p, S, last), NEW struct \in PlainStruct(d),
           NEW w, Written(d, struct, w), \A n \in 0..Len(d) : MergeFirst(d, last, struct, n, 0) \in S
    PROVE  Reads(d, p \o w[Len(d)], S, Merge(d, last, struct))
<1> DEFINE M(n) == MergeFirst(d, last, struct, n, 0)
           Good == {n \in 0..Len(d) : Reads(d, p \o w[n], S, M(n))}
<1>0. Len(d) \in Nat /\ 0 \in 0..Len(d) /\ Len(d) \in 0..Len(d)
  BY DEF Plain
<1>1. p \in Seq(Byte) /\ last \in PlainStruct(d)
  BY ReadsLast
<1>2. 0 \in Good
  <2>1. w[0] = <<>> /\ p \o <<>> = p
    BY <1>1 DEF Written
  <2>2. M(0) = last
    BY <1>1, MergeFirstEnds
  <2> QED BY <1>0, <2>1, <2>2
<1>3. ASSUME NEW n \in 1..Len(d), n - 1 \in Good PROVE n \in Good
  <2>0. n \in 0..Len(d) /\ n - 1 \in 0..Len(d)
    BY <1>0
  <2> DEFINE a == w[n - 1]
             x == struct[n]
             e == Enc(d[n], x)
  <2>1. a \in Seq(Byte) /\ w[n] \in Seq(Byte) /\ x \in SUBSET (0..31) /\ e \in Seq(Byte) /\ w[n] = a \o e
    BY WrittenNext
  <2>2. Reads(d, p \o a, S, M(n - 1))
    BY <1>3
  <2>3. p \o w[n] = (p \o a) \o e
    <3> HIDE DEF a, e
    <3>1. (p \o a) \o e = p \o (a \o e)
      BY <1>1, <2>1, Associative
    <3> QED BY <2>1, <3>1
  <2>4. M(n) = IF x = {} THEN M(n - 1) ELSE Put(d, M(n - 1), n, x)
    BY <1>1, MergeFirstNext
  <2>5. M(n) \in S /\ M(n) \in PlainStruct(d)
    BY <1>1, <2>0, PlainMergeFirst
  <2>6. CASE x = {}
    <3>1. e = <<>>
      BY <2>6 DEF Enc
    <3>2. p \o a \in Seq(Byte)
      <4> HIDE DEF a
      <4> QED BY <1>1, <2>1
    <3>3. (p \o a) \o <<>> = p \o a
      <4> DEFINE q == p \o a
      <4> HIDE DEF q
      <4>1. q \o <<>> = q
        BY <3>2 DEF q
      <4> QED BY <4>1 DEF q
    <3>4. Reads(d, p \o w[n], S, M(n))
      BY <2>2, <2>3, <2>4, <2>6, <3>1, <3>3
    <3> QED BY <2>0, <3>4
  <2>7. CASE x # {}
    <3>1. e = FieldBytes(d[n], x)
      BY <2>7 DEF Enc
    <3>2. IsField(d, e, n, x)
      BY <2>1, <3>1, FieldBytesAre
    <3>3. M(n) = Put(d, M(n - 1), n, x)
      BY <2>4, <2>7
    <3> DEFINE q == p \o a
               old == M(n - 1)
               next == M(n)
    <3>4. Reads(d, q, S, old) /\ next = Put(d, old, n, x) /\ next \in S /\ next \in PlainStruct(d)
      BY <2>2, <2>5, <3>3
    <3> HIDE DEF q, old, next, e, x
    <3>5. Reads(d, q \o e, S, next)
      BY <3>2, <3>4, ReadsField
    <3>6. Reads(d, p \o w[n], S, M(n))
      BY <2>3, <3>5 DEF q, next
    <3> QED BY <2>0, <3>6
  <2> QED BY <2>6, <2>7
<1> HIDE DEF Good
<1>4. \A n \in 0..Len(d) : n \in Good
  BY <1>0, <1>2, <1>3, Induction
<1>5. M(Len(d)) = Merge(d, last, struct)
  BY <1>1, MergeFirstEnds
<1>6. Reads(d, p \o w[Len(d)], S, M(Len(d)))
  BY <1>0, <1>4 DEF Good
<1> QED BY <1>5, <1>6

-----------------------------------------------------------------------------
\* The two robot messages are plain; sizing pass, serialisation and acceptance.

IsConcat(S, r, p, m, q, n) ==
    r \in Seq(S) /\ Len(r) = m + n /\ (\A i \in 1..m : r[i] = p[i]) /\ (\A i \in 1..n : r[m + i] = q[i])

\* The elements of two sequences that are joined.
LEMMA ConcatElements ==
    ASSUME NEW S, NEW p \in Seq(S), NEW q \in Seq(S), NEW m \in Nat, NEW n \in Nat, Len(p) = m, Len(q) = n
    PROVE  IsConcat(S, p \o q, p, m, q, n)
BY DEF IsConcat

\* The messages of this program are plain.
LEMMA CommandPlain == Plain(RobotCommandMsg_fields)
<1> DEFINE u == <<PB_FIELD(1, "SINGULAR", "UVARINT", 4, 1, <<>>)>>
           f == [i \in 1..6 |-> PB_FIELD(i + 1, "SINGULAR", "FIXED32", 4, 1, <<>>)]
           d == u \o f
           S == {PB_FIELD(1, "SINGULAR", "UVARINT", 4, 1, <<>>)} \cup {f[i] : i \in 1..6}
<1>1. u \in Seq(S) /\ Len(u) = 1 /\ u[1] = PB_FIELD(1, "SINGULAR", "UVARINT", 4, 1, <<>>)
  OBVIOUS
<1>2. f \in Seq(S) /\ Len(f) = 6 /\ \A i \in 1..6 : f[i] = PB_FIELD(i + 1, "SINGULAR", "FIXED32", 4, 1, <<>>)
  OBVIOUS
<1>3. RobotCommandMsg_fields = d
  BY DEF RobotCommandMsg_fields
<1> HIDE DEF u, f, S
<1>4. d \in Seq(S) /\ Len(d) = 7 /\ d[1] = u[1] /\ \A i \in 1..6 : d[1 + i] = f[i]
  <2>1. 1 \in Nat /\ 6 \in Nat /\ 1 + 6 = 7 /\ 1 \in 1..1
    OBVIOUS
  <2>2. d \in Seq(S) /\ Len(d) = 1 + 6 /\ (\A i \in 1..1 : d[i] = u[i]) /\ \A i \in 1..6 : d[1 + i] = f[i]
    <3>1. IsConcat(S, d, u, 1, f, 6)
      BY <1>1, <1>2, <2>1, ConcatElements
    <3> HIDE DEF d
    <3> QED BY <3>1 DEF IsConcat
  <2> HIDE DEF d
  <2> QED BY <2>1, <2>2
<1> HIDE DEF d
<1>5. DOMAIN d = 1..Len(d) /\ Len(d) \in 1..15
  BY <1>4
<1>6. ASSUME NEW i \in 1..7
      PROVE  d[i].tag = i /\ d[i].htype = "SINGULAR" /\ d[i].data_size = 4 /\ d[i].ltype \in {"UVARINT", "FIXED32"}
  <2>1. CASE i = 1
    BY <1>1, <1>4, <2>1 DEF PB_FIELD
  <2>2. CASE i # 1
    <3>1. i - 1 \in 1..6 /\ 1 + (i - 1) = i /\ (i - 1) + 1 = i
      BY <2>2
    <3>2. d[i] = PB_FIELD(i, "SINGULAR", "FIXED32", 4, 1, <<>>)
      BY <1>2, <1>4, <3>1
    <3> QED BY <3>2 DEF PB_FIELD
  <2> QED BY <2>1, <2>2
<1> QED BY <1>3, <1>4, <1>5, <1>6 DEF Plain

\* The response as well.
LEMMA ResponsePlain == Plain(RobotResponseMsg_fields)
<1> DEFINE u == <<PB_FIELD(1, "SINGULAR", "UVARINT", 4, 1, <<>>)>>
           f == [i \in 1..3 |-> PB_FIELD(i + 1, "SINGULAR", "FIXED32", 4, 1, <<>>)]
           v == [i \in 1..2 |-> PB_FIELD(i + 4, "SINGULAR", "UVARINT", 4, 1, <<>>)]
           e == u \o f
           d == e \o v
           S == {PB_FIELD(1, "SINGULAR", "UVARINT", 4, 1, <<>>)} \cup {f[i] : i \in 1..3} \cup {v[i] : i \in 1..2}
<1>1. u \in Seq(S) /\ Len(u) = 1 /\ u[1] = PB_FIELD(1, "SINGULAR", "UVARINT", 4, 1, <<>>)
  OBVIOUS
<1>2. f \in Seq(S) /\ Len(f) = 3 /\ \A i \in 1..3 : f[i] = PB_FIELD(i + 1, "SINGULAR", "FIXED32", 4, 1, <<>>)
  OBVIOUS
<1>3. v \in Seq(S) /\ Len(v) = 2 /\ \A i \in 1..2 : v[i] = PB_FIELD(i + 4, "SINGULAR", "UVARINT", 4, 1, <<>>)
  OBVIOUS
<1>4. RobotResponseMsg_fields = d
  BY DEF RobotResponseMsg_fields
<1> HIDE DEF u, f, v, S
<1>5. e \in Seq(S) /\ Len(e) = 4 /\ e[1] = u[1] /\ \A i \in 1..3 : e[1 + i] = f[i]
  <2>1. 1 \in Nat /\ 3 \in Nat /\ 1 + 3 = 4 /\ 1 \in 1..1
    OBVIOUS
  <2>2. e \in Seq(S) /\ Len(e) = 1 + 3 /\ (\A i \in 1..1 : e[i] = u[i]) /\ \A i \in 1..3 : e[1 + i] = f[i]
    <3>1. IsConcat(S, e, u, 1, f, 3)
      BY <1>1, <1>2, <2>1, ConcatElements
    <3> HIDE DEF e
    <3> QED BY <3>1 DEF IsConcat
  <2> HIDE DEF e
  <2> QED BY <2>1, <2>2
<1> HIDE DEF e
<1>6. d \in Seq(S) /\ Len(d) = 6 /\ (\A i \in 1..4 : d[i] = e[i]) /\ \A i \in 1..2 : d[4 + i] = v[i]
  <2>1. 4 \in Nat /\ 2 \in Nat /\ 4 + 2 = 6
    OBVIOUS
  <2>2. d \in Seq(S) /\ Len(d) = 4 + 2 /\ (\A i \in 1..4 : d[i] = e[i]) /\ \A i \in 1..2 : d[4 + i] = v[i]
    <3>1. IsConcat(S, d, e, 4, v, 2)
      BY <1>3, <1>5, <2>1, ConcatElements
    <3> HIDE DEF d
    <3> QED BY <3>1 DEF IsConcat
  <2> HIDE DEF d
  <2> QED BY <2>1, <2>2
<1> HIDE DEF d
<1>7. DOMAIN d = 1..Len(d) /\ Len(d) \in 1..15
  BY <1>6
<1>8. ASSUME NEW i \in 1..6
      PROVE  d[i].tag = i /\ d[i].htype = "SINGULAR" /\ d[i].data_size = 4 /\ d[i].ltype \in {"UVARINT", "FIXED32"}
  <2>1. CASE i = 1
    BY <1>1, <1>5, <1>6, <2>1 DEF PB_FIELD
  <2>2. CASE i \in 2..4
    <3>1. i \in 1..4 /\ i - 1 \in 1..3 /\ 1 + (i - 1) = i /\ (i - 1) + 1 = i
      BY <2>2
    <3>2. d[i] = PB_FIELD(i, "SINGULAR", "FIXED32", 4, 1, <<>>)
      BY <1>2, <1>5, <1>6, <3>1
    <3> QED BY <3>2 DEF PB_FIELD
  <2>3. CASE i \in 5..6
    <3>1. i - 4 \in 1..2 /\ 4 + (i - 4) = i /\ (i - 4) + 4 = i
      BY <2>3
    <3>2. d[i] = PB_FIELD(i, "SINGULAR", "UVARINT", 4, 1, <<>>)
      BY <1>3, <1>6, <3>1
    <3> QED BY <3>2 DEF PB_FIELD
  <2> QED BY <2>1, <2>2, <2>3
<1> QED BY <1>4, <1>6, <1>7, <1>8 DEF Plain

\* Hence both types.
LEMMA RobotPlain == ASSUME NEW d \in RobotTypes PROVE Plain(d)
BY CommandPlain, ResponsePlain DEF RobotTypes

-----------------------------------------------------------------------------
\* What is written without a limit, and with the buffer of the program.
LEMMA SizingIs ==
    ASSUME NEW d, Plain(d), NEW struct \in PlainStruct(d), NEW w, Written(d, struct, w),
           NEW o, o = pb_encode(PB_OSTREAM_SIZING, d, struct)
    PROVE  o.ok /\ o.out = w[Len(d)] /\ bytes_written(o) = Len(w[Len(d)])
           /\ w[Len(d)] \in Seq(Byte) /\ Len(w[Len(d)]) < TooLarge
<1>1. Len(d) \in 1..15 /\ Len(d) \in 0..Len(d)
  <2>1. Len(d) \in 1..15
    BY DEF Plain
  <2> QED BY <2>1
<1>2. w[Len(d)] \in Seq(Byte) /\ Len(w[Len(d)]) \in 0..(11 * Len(d))
  BY <1>1, WrittenSize
<1>3. TooLarge \in Nat /\ 165 < TooLarge
  BY DEF TooLarge
<1> DEFINE a == Len(w[Len(d)])
<1>4. a \in 0..(11 * Len(d))
  BY <1>2
<1> HIDE DEF a
<1>5. a < TooLarge /\ a <= TooLarge
  <2> DEFINE n == Len(d)
  <2>1. n \in 1..15 /\ a \in 0..(11 * n)
    BY <1>1, <1>4
  <2> HIDE DEF n
  <2>2. a \in Nat /\ a <= 165
    BY <2>1
  <2> QED BY <1>3, <2>2
<1>6. o = pb_encode(pb_ostream_from_buffer(TooLarge), d, struct)
  BY DEF PB_OSTREAM_SIZING
<1>7. (o.ok <=> a <= TooLarge) /\ (o.ok => o.out = w[Len(d)])
  BY <1>3, <1>6, EncodeIs DEF a
<1> QED BY <1>2, <1>5, <1>7 DEF bytes_written, a

\* Serialize...Msg writes what fits and nothing otherwise.
LEMMA SerializeIs ==
    ASSUME NEW d, Plain(d), NEW struct \in PlainStruct(d), NEW w, Written(d, struct, w)
    PROVE  SerializeMsg(d, struct) = IF Len(w[Len(d)]) <= PROTOBUF_BUFFER_SIZE THEN w[Len(d)] ELSE <<>>
<1> DEFINE r == pb_encode(pb_ostream_from_buffer(PROTOBUF_BUFFER_SIZE), d, struct)
<1>1. PROTOBUF_BUFFER_SIZE \in Nat
  BY MessagesAssumption
<1>2. SerializeMsg(d, struct) = IF r.ok THEN r.out ELSE <<>>
  BY DEF SerializeMsg, Serialized
<1> HIDE DEF r
<1>3. r = pb_encode(pb_ostream_from_buffer(PROTOBUF_BUFFER_SIZE), d, struct)
  BY DEF r
<1>4. (r.ok <=> Len(w[Len(d)]) <= PROTOBUF_BUFFER_SIZE) /\ (r.ok => r.out = w[Len(d)])
  BY <1>1, <1>3, EncodeIs
<1> QED BY <1>2, <1>4

\* The two passes, one for the size and one for the bytes, agree.
LEMMA SentIs ==
    ASSUME NEW d, Plain(d), NEW struct \in PlainStruct(d), NEW w, Written(d, struct, w)
    PROVE  /\ Sent(d, struct) <=> Len(w[Len(d)]) <= PROTOBUF_BUFFER_SIZE
           /\ Sent(d, struct) => SerializeMsg(d, struct) = w[Len(d)]
           /\ ~Sent(d, struct) => SerializeMsg(d, struct) = <<>>
<1> DEFINE o == pb_encode(PB_OSTREAM_SIZING, d, struct)
<1>1. o = pb_encode(PB_OSTREAM_SIZING, d, struct)
  OBVIOUS
<1>2. Sent(d, struct) <=> (o.ok /\ bytes_written(o) <= PROTOBUF_BUFFER_SIZE)
  BY DEF Sent
<1> HIDE DEF o
<1>3. o.ok /\ bytes_written(o) = Len(w[Len(d)])
  BY <1>1, SizingIs
<1>4. SerializeMsg(d, struct) = IF Len(w[Len(d)]) <= PROTOBUF_BUFFER_SIZE THEN w[Len(d)] ELSE <<>>
  BY SerializeIs
<1> QED BY <1>2, <1>3, <1>4

\* A struct alone: it is written as a payload that reads as the struct.
LEMMA StructReads ==
    ASSUME NEW d, Plain(d), NEW struct \in PlainStruct(d), NEW w, Written(d, struct, w)
    PROVE  Reads(d, w[Len(d)], PlainStruct(d), struct)
<1> DEFINE zero == ZeroStruct(d)
           q == w[Len(d)]
<1>1. zero \in PlainStruct(d) /\ zero = [i \in 1..Len(d) |-> {}]
  BY PlainTags DEF PlainStruct
<1>2. Reads(d, <<>>, PlainStruct(d), zero)
  BY <1>1, ReadsNone
<1>3. \A n \in 0..Len(d) : MergeFirst(d, zero, struct, n, 0) \in PlainStruct(d)
  BY <1>1, PlainMergeFirst
<1>4. Merge(d, zero, struct) = struct
  <2> HIDE DEF zero
  <2>1. Merge(d, zero, struct) = [i \in 1..Len(d) |-> IF struct[i] = {} THEN zero[i] ELSE struct[i]]
    <3>1. Merge(d, zero, struct) = LastOf(d, zero, struct)
      BY <1>1, PlainMerge
    <3> QED BY <3>1 DEF LastOf
  <2>2. struct = [i \in 1..Len(d) |-> struct[i]]
    BY DEF PlainStruct
  <2>3. \A i \in 1..Len(d) : zero[i] = {}
    BY <1>1
  <2> QED BY <2>1, <2>2, <2>3
<1> HIDE DEF zero
<1>5. Reads(d, <<>> \o q, PlainStruct(d), Merge(d, zero, struct))
  BY <1>2, <1>3, ReadsStruct
<1>6. q \in Seq(Byte)
  <2>1. Len(d) \in 0..Len(d)
    BY DEF Plain
  <2> QED BY <2>1, WrittenSize
<1> HIDE DEF q
<1>7. <<>> \o q = q
  BY <1>6
<1> QED BY <1>4, <1>5, <1>7 DEF q

\* What Deserialize accepts is a struct of the type.
LEMMA AcceptedType ==
    ASSUME NEW d, Plain(d), NEW p \in Seq(Byte), NEW r, r = DeserializeMsg(d, p), r.ok
    PROVE  r.v \in PlainStruct(d)
<1> DEFINE s == pb_istream_from_buffer(p)
           zero == ZeroStruct(d)
<1>1. s \in Stream
  BY BufferStream
<1>2. zero \in PlainStruct(d)
  BY PlainTags DEF PlainStruct
<1>3. r = pb_decode_inner(s, d, zero)
  BY DEF DeserializeMsg, pb_decode
<1> HIDE DEF s, zero
<1>4. s.bytes_left \in Nat
  BY <1>1, StreamType
<1>5. PICK g \in [0..s.bytes_left -> DecodeState(d)] : pb_decode_inner(s, d, zero) = Result(g[s.bytes_left])
  BY <1>1, <1>2, DecodeLoop
<1> DEFINE l == g[s.bytes_left]
<1>6. l \in DecodeState(d)
  BY <1>4
<1>7. r = Result(l)
  BY <1>3, <1>5
<1> HIDE DEF l
<1>8. l.ok
  BY <1>7 DEF Result, Error
<1>9. r.v = l.v
  BY <1>7, <1>8 DEF Result, Done
<1> QED BY <1>6, <1>9 DEF DecodeState

\* A plain struct is written and read back as it was.
LEMMA RoundTrips ==
    ASSUME NEW d, Plain(d), NEW struct \in PlainStruct(d),
           NEW r, r = DeserializeMsg(d, pb_encode(PB_OSTREAM_SIZING, d, struct).out)
    PROVE  r.ok /\ r.v = struct
<1> DEFINE o == pb_encode(PB_OSTREAM_SIZING, d, struct)
<1>1. PICK w : Written(d, struct, w)
  BY WrittenExists
<1>2. o = pb_encode(PB_OSTREAM_SIZING, d, struct)
  OBVIOUS
<1> HIDE DEF o
<1>3. o.out = w[Len(d)]
  BY <1>1, <1>2, SizingIs
<1>4. Reads(d, o.out, PlainStruct(d), struct)
  BY <1>1, <1>3, StructReads
<1>5. r = DeserializeMsg(d, o.out)
  BY DEF o
<1> QED BY <1>4, <1>5, ReadsWhole

-----------------------------------------------------------------------------
\* The steps of the specification on the part of the invariant about robot messages.

\* What a payload that was cut off may be taken for.
CutOptions(d, ps) ==
    {s \in PlainStruct(d) :
        \E k \in 0..Len(ps) :
            \/ s = MergeAll(d, SubSeq(ps, 1, k))
            \/ k < Len(ps) /\ \E fields \in 0..Len(d), n \in 0..2 :
                   s = MergeFirst(d, MergeAll(d, SubSeq(ps, 1, k)), ps[k + 1], fields, n)}

\* The beginnings of a sequence that has grown.
LEMMA SubSeqAppend ==
    ASSUME NEW S, NEW ps \in Seq(S), NEW x \in S
    PROVE  /\ Append(ps, x) \in Seq(S) /\ Len(Append(ps, x)) = Len(ps) + 1
           /\ Append(ps, x)[Len(ps) + 1] = x /\ \A k \in 1..Len(ps) : Append(ps, x)[k] = ps[k]
           /\ \A k \in 0..Len(ps) : SubSeq(Append(ps, x), 1, k) = SubSeq(ps, 1, k)
           /\ SubSeq(ps, 1, Len(ps)) = ps
<1> DEFINE longer == Append(ps, x)
<1>1. /\ longer \in Seq(S) /\ Len(longer) = Len(ps) + 1 /\ Len(ps) \in Nat
      /\ longer[Len(ps) + 1] = x /\ \A k \in 1..Len(ps) : longer[k] = ps[k]
  OBVIOUS
<1> HIDE DEF longer
<1>2. ASSUME NEW k \in 0..Len(ps) PROVE SubSeq(longer, 1, k) = SubSeq(ps, 1, k)
  <2>1. 0 \in 0..Len(ps) /\ 0 \in 0..Len(longer) /\ k \in 0..Len(longer) /\ 0 <= k /\ 0 + 1 = 1 /\ k - 0 = k
    BY <1>1
  <2>2. SubSeq(longer, 0 + 1, k) = [i \in 1..(k - 0) |-> longer[0 + i]]
    BY <1>1, <2>1, SubSeqIs
  <2>3. SubSeq(ps, 0 + 1, k) = [i \in 1..(k - 0) |-> ps[0 + i]]
    BY <2>1, SubSeqIs
  <2>4. \A i \in 1..k : 0 + i = i /\ i \in 1..Len(ps)
    BY <1>1
  <2> QED BY <1>1, <2>1, <2>2, <2>3, <2>4
<1>3. SubSeq(ps, 1, Len(ps)) = ps
  OBVIOUS
<1> QED BY <1>1, <1>2, <1>3 DEF longer

\* Nothing is an option from the start.
LEMMA OptionsNone ==
    ASSUME NEW d, Plain(d)
    PROVE  ZeroStruct(d) \in CutOptions(d, <<>>)
<1>1. SubSeq(<<>>, 1, 0) = <<>> /\ Len(<<>>) = 0 /\ 0 \in 0..0
  OBVIOUS
<1>2. MergeAll(d, SubSeq(<<>>, 1, 0)) = ZeroStruct(d)
  BY <1>1, MergeAllNone
<1>3. ZeroStruct(d) \in PlainStruct(d)
  BY PlainTags DEF PlainStruct
<1> QED BY <1>1, <1>2, <1>3 DEF CutOptions

\* A further struct keeps the options, and adds one for each of its fields.
LEMMA OptionsNext ==
    ASSUME NEW d, Plain(d), NEW ps \in Seq(PlainStruct(d)), NEW x \in PlainStruct(d)
    PROVE  /\ CutOptions(d, ps) \subseteq CutOptions(d, Append(ps, x))
           /\ \A n \in 0..Len(d) : MergeFirst(d, MergeAll(d, ps), x, n, 0) \in CutOptions(d, Append(ps, x))
<1> DEFINE longer == Append(ps, x)
           m == Len(ps)
<1>1. /\ longer \in Seq(PlainStruct(d)) /\ Len(longer) = m + 1
      /\ longer[m + 1] = x /\ (\A k \in 1..m : longer[k] = ps[k])
      /\ (\A k \in 0..m : SubSeq(longer, 1, k) = SubSeq(ps, 1, k))
      /\ SubSeq(ps, 1, m) = ps
  BY SubSeqAppend
<1>2. m \in Nat
  OBVIOUS
<1> HIDE DEF longer
<1>3. ASSUME NEW s \in CutOptions(d, ps) PROVE s \in CutOptions(d, longer)
  <2>1. s \in PlainStruct(d)
    BY DEF CutOptions
  <2>2. PICK k \in 0..m : \/ s = MergeAll(d, SubSeq(ps, 1, k))
                          \/ k < m /\ \E fields \in 0..Len(d), n \in 0..2 :
                                s = MergeFirst(d, MergeAll(d, SubSeq(ps, 1, k)), ps[k + 1], fields, n)
    BY DEF CutOptions
  <2> HIDE DEF m
  <2>3. k \in 0..Len(longer) /\ k < Len(longer) /\ (k < m => k + 1 \in 1..m)
    BY <1>1, <1>2
  <2>4. SubSeq(longer, 1, k) = SubSeq(ps, 1, k) /\ (k < m => longer[k + 1] = ps[k + 1])
    BY <1>1, <2>3
  <2>5. CASE s = MergeAll(d, SubSeq(ps, 1, k))
    BY <2>1, <2>3, <2>4, <2>5 DEF CutOptions
  <2>6. CASE k < m /\ \E fields \in 0..Len(d), n \in 0..2 :
                         s = MergeFirst(d, MergeAll(d, SubSeq(ps, 1, k)), ps[k + 1], fields, n)
    BY <2>1, <2>3, <2>4, <2>6 DEF CutOptions
  <2> QED BY <2>2, <2>5, <2>6
<1>4. ASSUME NEW n \in 0..Len(d) PROVE MergeFirst(d, MergeAll(d, ps), x, n, 0) \in CutOptions(d, longer)
  <2> DEFINE s == MergeFirst(d, MergeAll(d, ps), x, n, 0)
  <2>1. MergeAll(d, ps) \in PlainStruct(d)
    BY MergeAllType
  <2>2. s \in PlainStruct(d)
    BY <2>1, PlainMergeFirst
  <2> HIDE DEF m
  <2>3. m \in 0..Len(longer) /\ m < Len(longer) /\ 0 \in 0..2 /\ m \in 0..m
    BY <1>1, <1>2
  <2>4. s = MergeFirst(d, MergeAll(d, SubSeq(longer, 1, m)), longer[m + 1], n, 0)
    BY <1>1, <2>3
  <2> HIDE DEF s
  <2>5. s \in CutOptions(d, longer)
    BY <2>2, <2>3, <2>4 DEF CutOptions
  <2> QED BY <2>5 DEF s
<1> QED BY <1>3, <1>4 DEF longer

-----------------------------------------------------------------------------
\* A foreign field changes nothing.
LEMMA ForeignIs ==
    ASSUME NEW bytes \in Foreign, NEW d \in Descriptors, d \in RobotTypes
    PROVE  bytes \in Seq(Byte) /\ \E tag, x : IsField(d, bytes, tag, x) /\ tag \notin 1..Len(d)
<1> DEFINE s == pb_istream_from_buffer(bytes)
           t == pb_decode_tag(s)
<1>0. Plain(d)
  BY RobotPlain
<1>1. IsForeign(bytes)
  BY MessagesAssumption
<1>2. /\ bytes \in Seq(Byte) /\ t.ok /\ t.tag # 0 /\ t.tag \notin Tags(d)
      /\ pb_skip_field(t.s, t.wire_type).ok /\ pb_skip_field(t.s, t.wire_type).s.bytes_left = 0
  BY <1>1 DEF IsForeign
<1>3. t.tag \notin 1..Len(d)
  BY <1>0, <1>2, PlainTags
<1>4. s \in Stream /\ s.bytes_left = Len(bytes)
  BY <1>2, BufferStream
<1> HIDE DEF s
<1>5. FieldBehind(s, d) = pb_skip_field(t.s, t.wire_type)
  BY <1>3 DEF FieldBehind, FieldBody
<1>6. FieldOk(s, d)
  BY <1>2, <1>5 DEF FieldOk
<1>7. Agree(s, s)
  <2>1. s.bytes_left \in Nat
    BY <1>4, StreamType
  <2> QED BY <1>4, <2>1 DEF Agree
<1>8. PICK k \in 1..s.bytes_left, tag \in Nat \ {0} : \E v : FieldRead(s, d, k, tag, v)
  BY <1>0, <1>6, <1>7, SameField
<1>9. PICK v : FieldRead(s, d, k, tag, v)
  BY <1>8
<1>10. tag = t.tag /\ FieldBehind(s, d).s = Advance(s, k)
  BY <1>9 DEF FieldRead
<1>11. Advance(s, k).bytes_left = 0
  BY <1>2, <1>5, <1>10
<1>12. s.bytes_left \in Nat
  BY <1>4, StreamType
<1>13. k = s.bytes_left
  <2>1. Advance(s, k).bytes_left = s.bytes_left - k
    BY DEF Advance
  <2> QED BY <1>11, <1>12, <2>1
<1>14. IsField(d, bytes, tag, v)
  <2>1. Len(bytes) >= 1 /\ k = Len(bytes)
    BY <1>4, <1>12, <1>13
  <2> QED BY <1>2, <1>9, <2>1 DEF IsField, s
<1> QED BY <1>2, <1>3, <1>10, <1>14

-----------------------------------------------------------------------------
\* The invariant.  A payload of one of this program's types consists of whole
\* fields, or is the beginning of one that does.
Carries(d, ps, p) == Reads(d, p, CutOptions(d, ps), MergeAll(d, ps))

RobotInv(d, ps, p, o, r) ==
    /\ ps \in Seq(PlainStruct(d))
    /\ p \in Seq(Byte)
    /\ o = "whole" => Carries(d, ps, p)
    /\ o = "cut" => \E q : Carries(d, ps, q) /\ \E n \in 0..Len(q) : p = SubSeq(q, 1, n)
    /\ r = Waiting \/ r = DeserializeMsg(d, p)

\* An empty datagram.
LEMMA NothingYet == ASSUME NEW d \in RobotTypes PROVE RobotInv(d, <<>>, <<>>, "whole", Waiting)
<1>1. Plain(d)
  BY RobotPlain
<1>2. Carries(d, <<>>, <<>>)
  BY <1>1, OptionsNone, MergeAllNone, ReadsNone DEF Carries
<1> QED BY <1>2 DEF RobotInv

\* Serialize: a further message, or nothing when it does not fit.
LEMMA OneMore ==
    ASSUME NEW d \in RobotTypes, NEW ps, NEW p, RobotInv(d, ps, p, "whole", Waiting), NEW struct \in PlainStruct(d)
    PROVE  RobotInv(d, IF Sent(d, struct) THEN Append(ps, struct) ELSE ps, p \o SerializeMsg(d, struct), "whole", Waiting)
<1>0. Plain(d)
  BY RobotPlain
<1>1. ps \in Seq(PlainStruct(d)) /\ p \in Seq(Byte) /\ Carries(d, ps, p)
  BY DEF RobotInv
<1>2. ps \in Seq(PlainStruct(d))
  BY <1>1
<1>3. PICK w : Written(d, struct, w)
  BY <1>0, WrittenExists
<1> DEFINE q == w[Len(d)]
<1>4. (Sent(d, struct) => SerializeMsg(d, struct) = q) /\ (~Sent(d, struct) => SerializeMsg(d, struct) = <<>>)
  BY <1>0, <1>3, SentIs
<1>5. CASE ~Sent(d, struct)
  <2>1. p \o <<>> = p
    BY <1>1
  <2> QED BY <1>4, <1>5, <2>1
<1>6. CASE Sent(d, struct)
  <2> DEFINE longer == Append(ps, struct)
             S == CutOptions(d, longer)
             last == MergeAll(d, ps)
  <2>1. CutOptions(d, ps) \subseteq S /\ \A n \in 0..Len(d) : MergeFirst(d, last, struct, n, 0) \in S
    BY <1>0, <1>2, OptionsNext
  <2>2. MergeAll(d, longer) = Merge(d, last, struct)
    BY <1>0, <1>2, MergeAllNext
  <2>3. longer \in Seq(PlainStruct(d))
    BY <1>2
  <2>5. Reads(d, p, CutOptions(d, ps), last)
    BY <1>1 DEF Carries
  <2> HIDE DEF longer, S, last, q
  <2>6. Reads(d, p, S, last)
    BY <2>1, <2>5, ReadsMore
  <2>7. Reads(d, p \o q, S, Merge(d, last, struct))
    BY <1>0, <1>3, <2>1, <2>6, ReadsStruct DEF q
  <2>8. Carries(d, longer, p \o q)
    BY <2>2, <2>7 DEF Carries, S
  <2>9. p \o q \in Seq(Byte)
    BY <2>7 DEF Reads
  <2>10. RobotInv(d, longer, p \o q, "whole", Waiting)
    BY <2>3, <2>8, <2>9 DEF RobotInv
  <2> QED BY <1>4, <1>6, <2>10 DEF longer
<1> QED BY <1>5, <1>6

\* AddForeign.
LEMMA ForeignMore ==
    ASSUME NEW d \in RobotTypes, d \in Descriptors, NEW ps, NEW p, RobotInv(d, ps, p, "whole", Waiting),
           NEW bytes \in Foreign
    PROVE  RobotInv(d, ps, p \o bytes, "whole", Waiting)
<1>0. Plain(d)
  BY RobotPlain
<1>1. ps \in Seq(PlainStruct(d)) /\ p \in Seq(Byte) /\ Carries(d, ps, p)
  BY DEF RobotInv
<1>2. PICK tag, x : IsField(d, bytes, tag, x) /\ tag \notin 1..Len(d)
  BY ForeignIs
<1> DEFINE S == CutOptions(d, ps)
           last == MergeAll(d, ps)
<1>3. Reads(d, p, S, last)
  BY <1>1 DEF Carries
<1> HIDE DEF S, last
<1>4. last \in S /\ last \in PlainStruct(d)
  BY <1>3, ReadsLast
<1>5. last = Put(d, last, tag, x)
  BY <1>2 DEF Put
<1>6. Reads(d, p \o bytes, S, last)
  BY <1>0, <1>2, <1>3, <1>4, <1>5, ReadsField
<1>7. Carries(d, ps, p \o bytes) /\ p \o bytes \in Seq(Byte)
  BY <1>6 DEF Carries, S, last, Reads
<1> QED BY <1>1, <1>7 DEF RobotInv

\* Cut.
LEMMA CutOff ==
    ASSUME NEW d \in RobotTypes, NEW ps, NEW p, RobotInv(d, ps, p, "whole", Waiting), NEW n \in 0..(Len(p) - 1)
    PROVE  RobotInv(d, ps, SubSeq(p, 1, n), "cut", Waiting)
<1>1. ps \in Seq(PlainStruct(d)) /\ p \in Seq(Byte) /\ Carries(d, ps, p)
  BY DEF RobotInv
<1>2. n \in 0..Len(p) /\ 0 \in 0..Len(p) /\ 0 <= n /\ 0 + 1 = 1
  BY <1>1
<1>3. SubSeq(p, 0 + 1, n) \in Seq(Byte)
  BY <1>1, <1>2, SubSeqIs
<1>4. SubSeq(p, 1, n) \in Seq(Byte)
  BY <1>2, <1>3
<1> QED BY <1>1, <1>2, <1>4 DEF RobotInv

-----------------------------------------------------------------------------
\* The inductive invariant, and the theorems about one datagram.

\* The inductive invariant.
MessagesInv ==
    /\ desc \in Descriptors
    /\ parts \in Seq(Structs(desc)) /\ Len(parts) <= MaxParts
    /\ foreign \in 0..MaxForeign
    /\ origin \in {"whole", "cut", "noise"}
    /\ origin = "noise" => payload \in Seq(Byte)
    /\ desc \in RobotTypes => RobotInv(desc, parts, payload, origin, received)

\* The structs that are sent are plain.
LEMMA StructsPlain ==
    ASSUME NEW d \in Descriptors, d \in RobotTypes, NEW struct \in Structs(d)
    PROVE  struct \in PlainStruct(d)
<1>1. Plain(d)
  BY RobotPlain
<1>2. Tags(d) = 1..Len(d)
  BY <1>1, PlainTags
<1>3. struct \in [Tags(d) -> SUBSET (0..31)]
  BY MessagesAssumption
<1> QED BY <1>2, <1>3 DEF PlainStruct

\* It holds first,
LEMMA FirstInv == Init => MessagesInv
<1> SUFFICES ASSUME Init PROVE MessagesInv
  OBVIOUS
<1>1. desc \in Descriptors /\ parts = <<>> /\ foreign = 0 /\ payload = <<>> /\ origin = "whole" /\ received = Waiting
  BY DEF Init
<1>2. MaxParts \in Nat /\ MaxForeign \in Nat
  BY MessagesAssumption
<1>3. parts \in Seq(Structs(desc)) /\ Len(parts) <= MaxParts /\ foreign \in 0..MaxForeign
  BY <1>1, <1>2
<1>4. desc \in RobotTypes => RobotInv(desc, parts, payload, origin, received)
  BY <1>1, NothingYet
<1> QED BY <1>1, <1>3, <1>4 DEF MessagesInv

\* every action keeps it,
LEMMA StepInv == MessagesInv /\ [Next]_vars => MessagesInv'
<1> SUFFICES ASSUME MessagesInv, [Next]_vars PROVE MessagesInv'
  OBVIOUS
<1>0. MaxParts \in Nat /\ MaxForeign \in Nat
  BY MessagesAssumption
<1>1. /\ desc \in Descriptors /\ parts \in Seq(Structs(desc)) /\ Len(parts) <= MaxParts /\ foreign \in 0..MaxForeign
      /\ origin \in {"whole", "cut", "noise"} /\ (origin = "noise" => payload \in Seq(Byte))
      /\ (desc \in RobotTypes => RobotInv(desc, parts, payload, origin, received))
  BY DEF MessagesInv
<1>2. ASSUME NEW struct \in Structs(desc), Serialize(struct) PROVE MessagesInv'
  <2>1. /\ origin = "whole" /\ received = Waiting /\ Len(parts) < MaxParts
        /\ payload' = payload \o SerializeMsg(desc, struct)
        /\ parts' = (IF Sent(desc, struct) THEN Append(parts, struct) ELSE parts)
        /\ desc' = desc /\ foreign' = foreign /\ origin' = origin /\ received' = received
    BY <1>2 DEF Serialize
  <2>2. parts' \in Seq(Structs(desc)) /\ Len(parts') <= MaxParts
    <3>1. CASE Sent(desc, struct)
      <4>1. parts' = Append(parts, struct)
        BY <2>1, <3>1
      <4>2. parts' \in Seq(Structs(desc)) /\ Len(parts') = Len(parts) + 1 /\ Len(parts) \in Nat
        BY <1>1, <4>1
      <4> QED BY <1>0, <2>1, <4>2
    <3>2. CASE ~Sent(desc, struct)
      BY <1>1, <2>1, <3>2
    <3> QED BY <3>1, <3>2
  <2>3. desc \in RobotTypes => RobotInv(desc, parts', payload', "whole", Waiting)
    <3> SUFFICES ASSUME desc \in RobotTypes PROVE RobotInv(desc, parts', payload', "whole", Waiting)
      OBVIOUS
    <3>1. struct \in PlainStruct(desc)
      BY <1>1, StructsPlain
    <3>2. RobotInv(desc, parts, payload, "whole", Waiting)
      BY <1>1, <2>1
    <3>3. RobotInv(desc, IF Sent(desc, struct) THEN Append(parts, struct) ELSE parts,
                   payload \o SerializeMsg(desc, struct), "whole", Waiting)
      BY <3>1, <3>2, OneMore
    <3> QED BY <2>1, <3>3
  <2> QED BY <1>1, <2>1, <2>2, <2>3 DEF MessagesInv
<1>3. ASSUME NEW bytes \in Foreign, AddForeign(bytes) PROVE MessagesInv'
  <2>1. /\ origin = "whole" /\ received = Waiting /\ foreign < MaxForeign
        /\ payload' = payload \o bytes /\ foreign' = foreign + 1
        /\ desc' = desc /\ parts' = parts /\ origin' = origin /\ received' = received
    BY <1>3 DEF AddForeign
  <2>2. foreign' \in 0..MaxForeign
    BY <1>0, <1>1, <2>1
  <2>3. desc \in RobotTypes => RobotInv(desc, parts, payload', "whole", Waiting)
    BY <1>1, <2>1, ForeignMore
  <2> QED BY <1>1, <2>1, <2>2, <2>3 DEF MessagesInv
<1>4. ASSUME NEW n \in 0..(Len(payload) - 1), Cut(n) PROVE MessagesInv'
  <2>1. /\ origin = "whole" /\ received = Waiting /\ payload' = SubSeq(payload, 1, n) /\ origin' = "cut"
        /\ desc' = desc /\ parts' = parts /\ foreign' = foreign /\ received' = received
    BY <1>4 DEF Cut
  <2>2. desc \in RobotTypes => RobotInv(desc, parts, payload', "cut", Waiting)
    BY <1>1, <2>1, CutOff
  <2> QED BY <1>1, <2>1, <2>2 DEF MessagesInv
<1>5. ASSUME NEW byte \in NoiseBytes, Noise(byte) PROVE MessagesInv'
  <2>1. /\ received = Waiting /\ parts = <<>> /\ (origin = "noise" \/ payload = <<>>)
        /\ payload' = Append(payload, byte) /\ origin' = "noise"
        /\ desc' = desc /\ parts' = parts /\ foreign' = foreign /\ received' = received
    BY <1>5 DEF Noise
  <2>2. byte \in Byte
    BY MessagesAssumption
  <2>3. payload \in Seq(Byte)
    <3>1. <<>> \in Seq(Byte)
      OBVIOUS
    <3>2. origin = "noise" \/ payload = <<>>
      BY <2>1
    <3>3. origin = "noise" => payload \in Seq(Byte)
      BY <1>1
    <3> QED BY <3>1, <3>2, <3>3
  <2>4. payload' \in Seq(Byte)
    BY <2>1, <2>2, <2>3
  <2>5. desc \in RobotTypes => RobotInv(desc, parts, payload', "noise", Waiting)
    BY <1>1, <2>4 DEF RobotInv
  <2> QED BY <1>1, <2>1, <2>4, <2>5 DEF MessagesInv
<1>6. ASSUME Deserialize PROVE MessagesInv'
  <2>1. /\ received' = DeserializeMsg(desc, payload)
        /\ desc' = desc /\ parts' = parts /\ foreign' = foreign /\ payload' = payload /\ origin' = origin
    BY <1>6 DEF Deserialize
  <2>2. desc \in RobotTypes => RobotInv(desc, parts, payload, origin, received')
    BY <1>1, <2>1 DEF RobotInv
  <2> QED BY <1>1, <2>1, <2>2 DEF MessagesInv
<1>7. ASSUME NextDatagram PROVE MessagesInv'
  <2>1. /\ desc' \in Descriptors /\ parts' = <<>> /\ foreign' = 0 /\ payload' = <<>> /\ origin' = "whole"
        /\ received' = Waiting
    BY <1>7 DEF NextDatagram
  <2>2. parts' \in Seq(Structs(desc')) /\ Len(parts') <= MaxParts /\ foreign' \in 0..MaxForeign
    BY <1>0, <2>1
  <2>3. desc' \in RobotTypes => RobotInv(desc', parts', payload', origin', received')
    BY <2>1, NothingYet
  <2> QED BY <2>1, <2>2, <2>3 DEF MessagesInv
<1>8. CASE UNCHANGED vars
  <2>1. /\ desc' = desc /\ parts' = parts /\ foreign' = foreign /\ payload' = payload /\ origin' = origin
        /\ received' = received
    BY <1>8 DEF vars
  <2> QED BY <1>1, <2>1 DEF MessagesInv
<1> QED BY <1>2, <1>3, <1>4, <1>5, <1>6, <1>7, <1>8 DEF Next

\* and so it holds always.
LEMMA AlwaysInv == Spec => []MessagesInv
BY FirstInv, StepInv, PTL DEF Spec

\* A plain struct lies within the C struct: its integers have 32 bits.
LEMMA PlainHolds ==
    ASSUME NEW d, Plain(d), NEW struct \in PlainStruct(d)
    PROVE  Holds(d, struct)
<1>1. Tags(d) = 1..Len(d) /\ \A i \in 1..Len(d) : FieldOf(d, i) = d[i]
  BY PlainTags
<1>2. DOMAIN struct = Tags(d)
  BY <1>1 DEF PlainStruct
<1>3. ASSUME NEW tag \in Tags(d), NEW field, field = FieldOf(d, tag) PROVE DataFits(field, struct[tag], FlatHolds)
  <2>1. field.htype = "SINGULAR" /\ field.ltype \in Packable /\ field.data_size = 4
    BY <1>1, <1>3 DEF Plain, Packable
  <2>2. struct[tag] \in SUBSET (0..31)
    BY <1>1 DEF PlainStruct
  <2>3. struct[tag] \subseteq 0..(8 * field.data_size - 1)
    BY <2>1, <2>2
  <2>4. ElementFits(field, struct[tag], FlatHolds)
    BY <2>1, <2>3 DEF ElementFits, Packable
  <2> QED BY <2>1, <2>4 DEF DataFits
<1> QED BY <1>2, <1>3 DEF Holds, StructFits

\* The variables of the specification keep their types while the message is
\* one of the program's own: at most MaxParts messages, all of the type, bytes
\* of eight bits, and whenever pb_decode accepts a payload, whatever bytes it
\* was given, values that lie within the C struct of the type.
THEOREM MessageTypes == Spec => [](desc \in RobotTypes => TypeOK)
<1>1. MessagesInv => (desc \in RobotTypes => TypeOK)
  <2> SUFFICES ASSUME MessagesInv, desc \in RobotTypes PROVE TypeOK
    OBVIOUS
  <2>1. /\ desc \in Descriptors /\ parts \in Seq(Structs(desc)) /\ Len(parts) <= MaxParts /\ foreign \in 0..MaxForeign
        /\ origin \in {"whole", "cut", "noise"} /\ RobotInv(desc, parts, payload, origin, received)
    BY DEF MessagesInv
  <2>2. Plain(desc)
    BY RobotPlain
  <2>3. payload \in Seq(Byte) /\ (received = Waiting \/ received = DeserializeMsg(desc, payload))
    BY <2>1 DEF RobotInv
  <2>4. ASSUME received.ok PROVE Holds(desc, received.v)
    <3>1. received = DeserializeMsg(desc, payload)
      BY <2>3, <2>4 DEF Waiting
    <3>2. received.v \in PlainStruct(desc)
      BY <2>2, <2>3, <2>4, <3>1, AcceptedType
    <3> QED BY <2>2, <3>2, PlainHolds
  <2>5. \A i \in DOMAIN payload : payload[i] \subseteq 0..7
    BY <2>3 DEF Byte
  <2>6. \A i \in DOMAIN parts : parts[i] \in Structs(desc)
    BY <2>1
  <2> QED BY <2>1, <2>4, <2>5, <2>6 DEF TypeOK
<1> QED BY <1>1, AlwaysInv, PTL

\* Deserialize...Msg accepts every payload of robot messages that arrives whole
\* and gives the merge of what Serialize...Msg wrote: pb_encode and pb_decode
\* agree on tags, wire types and bytes for every value of the fields, zeros that
\* are not written come back as zeros, and foreign fields between them are
\* skipped without a trace.
THEOREM RobotWholeDecodes == Spec => [](desc \in RobotTypes => WholeDecodesToMerge)
<1>1. MessagesInv => (desc \in RobotTypes => WholeDecodesToMerge)
  <2> SUFFICES ASSUME MessagesInv, desc \in RobotTypes, origin = "whole", received # Waiting
               PROVE  LET merged == MergeAll(desc, parts)
                          complete == parts = <<>> => \A i \in DOMAIN desc : desc[i].htype # "REQUIRED"
                      IN  IF Holds(desc, merged) /\ complete
                          THEN received.ok /\ received.v = merged
                          ELSE ~received.ok
    BY DEF WholeDecodesToMerge
  <2> DEFINE merged == MergeAll(desc, parts)
  <2>1. RobotInv(desc, parts, payload, origin, received)
    BY DEF MessagesInv
  <2>2. Plain(desc)
    BY RobotPlain
  <2>3. Reads(desc, payload, CutOptions(desc, parts), merged) /\ received = DeserializeMsg(desc, payload)
    BY <2>1 DEF RobotInv, Carries
  <2>4. received.ok /\ received.v = merged
    BY <2>2, <2>3, ReadsWhole
  <2>5. \A i \in DOMAIN desc : desc[i].htype = "SINGULAR"
    BY <2>2 DEF Plain
  <2>6. Holds(desc, merged)
    <3>1. merged \in PlainStruct(desc)
      <4> HIDE DEF merged
      <4> QED BY <2>3, ReadsLast
    <3> QED BY <2>2, <3>1, PlainHolds
  <2> QED BY <2>4, <2>5, <2>6
<1> QED BY <1>1, AlwaysInv, PTL

\* A payload of robot messages that was cut off at any byte, as happens when
\* stored_commands is changed during a send, is refused by pb_decode or gives
\* the fields in front of the cut: no field has a value that was never sent.
THEOREM RobotCutIsFieldPrefix == Spec => [](desc \in RobotTypes => CutIsFieldPrefix)
<1>1. MessagesInv => (desc \in RobotTypes => CutIsFieldPrefix)
  <2> SUFFICES ASSUME MessagesInv, desc \in RobotTypes, origin = "cut", received.ok
               PROVE  \E k \in 0..Len(parts) :
                         LET before == MergeAll(desc, SubSeq(parts, 1, k))
                         IN  \/ received.v = before
                             \/ k < Len(parts) /\ \E fields \in 0..Len(desc), n \in 0..2 :
                                    received.v = MergeFirst(desc, before, parts[k + 1], fields, n)
    BY DEF CutIsFieldPrefix
  <2>1. RobotInv(desc, parts, payload, origin, received)
    BY DEF MessagesInv
  <2>2. Plain(desc)
    BY RobotPlain
  <2>3. received = DeserializeMsg(desc, payload)
    BY <2>1 DEF RobotInv, Waiting
  <2>4. PICK q : Carries(desc, parts, q) /\ \E n \in 0..Len(q) : payload = SubSeq(q, 1, n)
    BY <2>1 DEF RobotInv
  <2>5. PICK n \in 0..Len(q) : payload = SubSeq(q, 1, n)
    BY <2>4
  <2>6. Reads(desc, q, CutOptions(desc, parts), MergeAll(desc, parts))
    BY <2>4 DEF Carries
  <2>7. received = DeserializeMsg(desc, SubSeq(q, 1, n))
    BY <2>3, <2>5
  <2>8. received.v \in CutOptions(desc, parts)
    BY <2>2, <2>6, <2>7, ReadsCut
  <2> QED BY <2>8 DEF CutOptions
<1> QED BY <1>1, AlwaysInv, PTL

\* Whatever bytes pb_decode has accepted as a robot message, noise included,
\* pb_encode writes the struct in a form that pb_decode reads as the same struct.
THEOREM AcceptedAlwaysRoundTrips == Spec => []AcceptedRoundTrips
<1>1. MessagesInv => AcceptedRoundTrips
  <2> SUFFICES ASSUME MessagesInv, received.ok, desc \in RobotTypes
               PROVE  LET again == DeserializeMsg(desc, pb_encode(PB_OSTREAM_SIZING, desc, received.v).out)
                      IN  again.ok /\ again.v = received.v
    BY DEF AcceptedRoundTrips
  <2>1. RobotInv(desc, parts, payload, origin, received)
    BY DEF MessagesInv
  <2>2. Plain(desc)
    BY RobotPlain
  <2>3. payload \in Seq(Byte) /\ received = DeserializeMsg(desc, payload)
    BY <2>1 DEF RobotInv, Waiting
  <2>4. received.v \in PlainStruct(desc)
    BY <2>2, <2>3, AcceptedType
  <2> QED BY <2>2, <2>4, RoundTrips
<1> QED BY <1>1, AlwaysInv, PTL

\* pb_decode_varint and pb_decode_varint32 read noise of any length as the
\* definition of a varint says: the same end, the same value, and a failure
\* exactly where there is no varint of 64 bits (of 32 bits: at most there).
THEOREM VarintsAreRead == Spec => []VarintReference
<1>1. MessagesInv => VarintReference
  <2> SUFFICES ASSUME MessagesInv PROVE VarintReference
    OBVIOUS
  <2>1. CASE origin = "noise"
    <3>1. payload \in Seq(Byte)
      BY <2>1 DEF MessagesInv
    <3> QED BY <3>1, VarintReferenceHolds
  <2>2. CASE origin # "noise"
    BY <2>2 DEF VarintReference
  <2> QED BY <2>1, <2>2
<1> QED BY <1>1, AlwaysInv, PTL

-----------------------------------------------------------------------------
\* Frames: a length in front of every command, back to back in one buffer.

\* A frame, and taking it off the front.
LEMMA FrameIs ==
    ASSUME NEW q \in Seq(Byte), Len(q) < TooLarge
    PROVE  \E h \in Seq(Byte) : Len(h) = 2 /\ Frame(q) = h \o q /\ ToNat(FromLittleEndian(h)) = Len(q)
<1> DEFINE n == Len(q)
           x == ToBits(n)
           h == LittleEndian(x, 2)
<1>1. n \in Nat /\ n < TooLarge
  OBVIOUS
<1> HIDE DEF n
<1>2. x \subseteq 0..15 /\ ToNat(x) = n
  BY <1>1, BitsRoundTrip
<1> HIDE DEF x
<1>3. 2 \in Nat /\ 2 \in 1..8 /\ 8 * 2 - 1 = 15 /\ x \in SUBSET Nat
  <2>1. 2 \in Nat /\ 2 \in 1..8 /\ 8 * 2 - 1 = 15
    OBVIOUS
  <2>2. x \in SUBSET Nat
    BY <1>2
  <2> QED BY <2>1, <2>2
<1>4. h \in Seq(Byte) /\ Len(h) = 2
  BY <1>3, LittleEndianIs
<1>5. x \in SUBSET (0..(8 * 2 - 1))
  BY <1>2, <1>3
<1>6. FromLittleEndian(h) = x
  BY <1>3, <1>5, LittleEndianBack
<1> HIDE DEF h
<1>7. Frame(q) = h \o q
  BY DEF Frame, h, x, n
<1> QED BY <1>2, <1>4, <1>6, <1>7 DEF n

\* Taking it off the front gives back the message and what is behind it.
LEMMA TakeFrameIs ==
    ASSUME NEW q \in Seq(Byte), Len(q) < TooLarge, NEW tail \in Seq(Byte), NEW l, l.rest = Frame(q) \o tail
    PROVE  TakeFrame(l) = [rest |-> tail, frames |-> Append(l.frames, q)] /\ l.rest # <<>>
           /\ l.rest \in Seq(Byte) /\ Len(l.rest) >= Len(tail) + 1
<1>1. PICK h \in Seq(Byte) : Len(h) = 2 /\ Frame(q) = h \o q /\ ToNat(FromLittleEndian(h)) = Len(q)
  BY FrameIs
<1> DEFINE e == h \o q
           r == e \o tail
           n == Len(q)
<1>2. n \in Nat
  OBVIOUS
<1>3. /\ e \in Seq(Byte) /\ Len(e) = Len(h) + n
      /\ (\A i, j \in 0..Len(h) : i <= j => SubSeq(e, i + 1, j) = SubSeq(h, i + 1, j))
      /\ SubSeq(e, Len(h) + 1, Len(h) + n) = q
  BY SubSeqConcat
<1> HIDE DEF e
<1>4. /\ r \in Seq(Byte) /\ Len(r) = Len(e) + Len(tail)
      /\ (\A i, j \in 0..Len(e) : i <= j => SubSeq(r, i + 1, j) = SubSeq(e, i + 1, j))
      /\ SubSeq(r, Len(e) + 1, Len(e) + Len(tail)) = tail
  BY <1>3, SubSeqConcat
<1>5. l.rest = r
  BY <1>1 DEF e
<1> HIDE DEF r, n
<1>6. Len(e) = 2 + n /\ Len(tail) \in Nat
  BY <1>1, <1>3
<1>7. SubSeq(r, 1, 2) = h
  <2>1. 0 \in 0..Len(e) /\ 2 \in 0..Len(e) /\ 0 \in 0..Len(h) /\ 2 \in 0..Len(h) /\ 0 <= 2 /\ 0 + 1 = 1
    BY <1>1, <1>2, <1>6
  <2>2. SubSeq(r, 0 + 1, 2) = SubSeq(e, 0 + 1, 2) /\ SubSeq(e, 0 + 1, 2) = SubSeq(h, 0 + 1, 2)
    BY <1>3, <1>4, <2>1
  <2>3. SubSeq(h, 1, 2) = h
    <3>1. SubSeq(h, 1, Len(h)) = h
      OBVIOUS
    <3> QED BY <1>1, <3>1
  <2> QED BY <2>1, <2>2, <2>3
<1>8. SubSeq(r, 3, 2 + n) = q
  <2>1. 2 \in 0..Len(e) /\ 2 + n \in 0..Len(e) /\ 2 <= 2 + n /\ 2 + 1 = 3
    BY <1>2, <1>6
  <2>2. SubSeq(r, 2 + 1, 2 + n) = SubSeq(e, 2 + 1, 2 + n)
    BY <1>4, <2>1
  <2>3. SubSeq(e, 2 + 1, 2 + n) = q
    BY <1>1, <1>3
  <2> QED BY <2>1, <2>2, <2>3
<1>9. SubSeq(r, 3 + n, Len(r)) = tail
  <2>1. 3 + n = Len(e) + 1 /\ Len(r) = Len(e) + Len(tail)
    BY <1>2, <1>4, <1>6
  <2> QED BY <1>4, <2>1
<1>10. Len(r) >= Len(tail) + 1 /\ Len(r) # 0
  <2> DEFINE a == Len(tail)
  <2>1. Len(r) = (2 + n) + a /\ a \in Nat
    BY <1>4, <1>6
  <2> HIDE DEF a
  <2> QED BY <1>2, <2>1 DEF a
<1>11. r # <<>>
  <2>1. Len(<<>>) = 0
    OBVIOUS
  <2> QED BY <1>10, <2>1
<1>12. ToNat(FromLittleEndian(SubSeq(l.rest, 1, 2))) = n
  BY <1>1, <1>5, <1>7 DEF n
<1>13. TakeFrame(l) = [rest |-> tail, frames |-> Append(l.frames, q)]
  BY <1>5, <1>8, <1>9, <1>12 DEF TakeFrame
<1> QED BY <1>4, <1>5, <1>10, <1>11, <1>13

-----------------------------------------------------------------------------
\* What is left of the datagram behind the first n messages.
Rests(q, m, t) ==
    /\ t \in [0..m -> Seq(Byte)] /\ t[m] = <<>>
    /\ \A n \in 1..m : t[n - 1] = Frame(q[n]) \o t[n]

\* The frames of the first n messages.
Stored(q, m, a) ==
    /\ a \in [0..m -> Seq(Byte)] /\ a[0] = <<>>
    /\ \A n \in 1..m : a[n] = a[n - 1] \o Frame(q[n])

\* A frame is a sequence of bytes.
LEMMA FrameType ==
    ASSUME NEW q \in Seq(Byte), Len(q) < TooLarge
    PROVE  Frame(q) \in Seq(Byte)
<1>1. PICK h \in Seq(Byte) : Frame(q) = h \o q
  BY FrameIs
<1> QED BY <1>1

\* The datagram is such a sequence of rests.
LEMMA RestsExist ==
    ASSUME NEW m \in Nat, NEW q, \A n \in 1..m : q[n] \in Seq(Byte) /\ Len(q[n]) < TooLarge,
           NEW a, Stored(q, m, a)
    PROVE  \E t : Rests(q, m, t) /\ t[0] = a[m]
<1> DEFINE F == [k \in 1..m |-> [z \in Seq(Byte) |-> Frame(q[m + 1 - k]) \o z]]
<1>0. \A n \in 1..m : Frame(q[n]) \in Seq(Byte)
  BY FrameType
<1>1. F \in [1..m -> [Seq(Byte) -> Seq(Byte)]]
  <2>1. ASSUME NEW k \in 1..m, NEW z \in Seq(Byte) PROVE Frame(q[m + 1 - k]) \o z \in Seq(Byte)
    <3>1. m + 1 - k \in 1..m
      OBVIOUS
    <3>2. Frame(q[m + 1 - k]) \in Seq(Byte)
      BY <1>0, <3>1
    <3> QED BY <3>2
  <2> QED BY <2>1
<1>2. <<>> \in Seq(Byte)
  OBVIOUS
<1>3. PICK u : Steps(Seq(Byte), F, <<>>, m, u)
  <2> HIDE DEF F
  <2> QED BY <1>1, <1>2, StepsExist
<1>4. u \in [0..m -> Seq(Byte)] /\ u[0] = <<>>
  BY <1>3 DEF Steps
<1>5. \A k \in 1..m : u[k] = Frame(q[m + 1 - k]) \o u[k - 1]
  <2>1. \A k \in 1..m : k - 1 \in 0..m
    OBVIOUS
  <2> QED BY <1>3, <1>4, <2>1 DEF Steps
<1> HIDE DEF F
<1> DEFINE t == [n \in 0..m |-> u[m - n]]
<1>6. t \in [0..m -> Seq(Byte)] /\ t[m] = <<>> /\ t[0] = u[m]
  <2>1. \A n \in 0..m : m - n \in 0..m
    OBVIOUS
  <2>2. m \in 0..m /\ 0 \in 0..m /\ m - m = 0 /\ m - 0 = m
    OBVIOUS
  <2> QED BY <1>4, <2>1, <2>2
<1>7. ASSUME NEW n \in 1..m PROVE t[n - 1] = Frame(q[n]) \o t[n]
  <2> DEFINE k == m + 1 - n
  <2>1. k \in 1..m /\ m - (n - 1) = k /\ m - n = k - 1 /\ m + 1 - k = n /\ n - 1 \in 0..m /\ n \in 0..m
    OBVIOUS
  <2> HIDE DEF k
  <2>2. t[n - 1] = u[k] /\ t[n] = u[k - 1]
    BY <2>1
  <2> QED BY <1>5, <2>1, <2>2
<1> HIDE DEF t
<1>8. Rests(q, m, t)
  BY <1>6, <1>7 DEF Rests
<1> DEFINE Good == {k \in 0..m : a[m] = a[m - k] \o t[m - k]}
<1>9. a \in [0..m -> Seq(Byte)] /\ a[0] = <<>> /\ \A n \in 1..m : a[n] = a[n - 1] \o Frame(q[n])
  BY DEF Stored
<1>10. 0 \in Good
  <2>1. m - 0 = m /\ m \in 0..m /\ 0 \in 0..m
    OBVIOUS
  <2>2. a[m] \o <<>> = a[m]
    <3>1. a[m] \in Seq(Byte)
      BY <1>9, <2>1
    <3> QED BY <3>1
  <2> QED BY <1>6, <2>1, <2>2
<1>11. ASSUME NEW k \in 1..m, k - 1 \in Good PROVE k \in Good
  <2> DEFINE n == m - (k - 1)
  <2>1. n \in 1..m /\ m - k = n - 1 /\ k \in 0..m /\ n \in 0..m /\ n - 1 \in 0..m
    OBVIOUS
  <2>2. a[m] = a[n] \o t[n]
    BY <1>11
  <2> HIDE DEF n
  <2> DEFINE b == a[n - 1]
             f == Frame(q[n])
             c == t[n]
  <2>3. b \in Seq(Byte) /\ f \in Seq(Byte) /\ c \in Seq(Byte) /\ a[n] = b \o f /\ t[n - 1] = f \o c
    BY <1>0, <1>6, <1>7, <1>9, <2>1
  <2> HIDE DEF b, f, c
  <2>4. (b \o f) \o c = b \o (f \o c)
    BY <2>3, Associative
  <2>5. a[m] = a[n - 1] \o t[n - 1]
    BY <2>2, <2>3, <2>4 DEF b, c
  <2> QED BY <2>1, <2>5
<1> HIDE DEF Good
<1>12. \A k \in 0..m : k \in Good
  BY <1>10, <1>11, Induction
<1>13. a[m] = a[0] \o t[0]
  <2>1. m \in 0..m /\ m - m = 0
    OBVIOUS
  <2>2. m \in Good
    BY <1>12, <2>1
  <2> QED BY <2>1, <2>2 DEF Good
<1>14. t[0] \in Seq(Byte)
  <2>1. 0 \in 0..m
    OBVIOUS
  <2> QED BY <1>6, <2>1
<1>15. <<>> \o t[0] = t[0]
  BY <1>14
<1> QED BY <1>8, <1>9, <1>13, <1>15

\* Every frame takes a byte at least.
LEMMA RestsLong ==
    ASSUME NEW m \in Nat, NEW q, \A n \in 1..m : q[n] \in Seq(Byte) /\ Len(q[n]) < TooLarge,
           NEW t, Rests(q, m, t)
    PROVE  t[0] \in Seq(Byte) /\ Len(t[0]) >= m
<1> DEFINE Good == {k \in 0..m : Len(t[m - k]) >= k}
<1>1. t \in [0..m -> Seq(Byte)] /\ t[m] = <<>> /\ \A n \in 1..m : t[n - 1] = Frame(q[n]) \o t[n]
  BY DEF Rests
<1>2. 0 \in Good
  <2>1. m - 0 = m /\ 0 \in 0..m /\ Len(<<>>) = 0
    OBVIOUS
  <2> QED BY <1>1, <2>1
<1>3. ASSUME NEW k \in 1..m, k - 1 \in Good PROVE k \in Good
  <2> DEFINE n == m - (k - 1)
             l == [rest |-> t[n - 1], frames |-> <<>>]
  <2>1. n \in 1..m /\ m - k = n - 1 /\ k \in 0..m /\ n \in 0..m /\ n - 1 \in 0..m
    OBVIOUS
  <2>2. Len(t[n]) >= k - 1
    BY <1>3
  <2> HIDE DEF n
  <2>3. t[n] \in Seq(Byte) /\ q[n] \in Seq(Byte) /\ Len(q[n]) < TooLarge
    BY <1>1, <2>1
  <2>4. l.rest = Frame(q[n]) \o t[n] /\ l.rest = t[n - 1]
    BY <1>1, <2>1
  <2> HIDE DEF l
  <2>5. Len(l.rest) >= Len(t[n]) + 1 /\ l.rest \in Seq(Byte)
    BY <2>3, <2>4, TakeFrameIs
  <2>6. Len(l.rest) >= k
    <3> DEFINE b == Len(l.rest)
               c == Len(t[n])
    <3>1. b \in Nat /\ c \in Nat /\ b >= c + 1 /\ c >= k - 1
      BY <2>2, <2>3, <2>5
    <3> HIDE DEF b, c
    <3>2. b >= k
      BY <3>1
    <3> QED BY <3>2 DEF b
  <2>7. Len(t[m - k]) >= k
    BY <2>1, <2>4, <2>6
  <2> QED BY <2>1, <2>7
<1> HIDE DEF Good
<1>4. \A k \in 0..m : k \in Good
  BY <1>2, <1>3, Induction
<1>5. m \in 0..m /\ m - m = 0 /\ 0 \in 0..m
  OBVIOUS
<1>6. Len(t[m - m]) >= m
  BY <1>4, <1>5 DEF Good
<1> QED BY <1>1, <1>5, <1>6

\* The state of the base station after n frames.
Unframed(q, t, n) == [rest |-> t[n], frames |-> [i \in 1..n |-> q[i]]]
UnframeStep(l) == IF FrameLeft(l) THEN TakeFrame(l) ELSE l

\* A round takes the next frame, until nothing is left.
LEMMA UnframeNext ==
    ASSUME NEW m \in Nat, NEW q, \A n \in 1..m : q[n] \in Seq(Byte) /\ Len(q[n]) < TooLarge,
           NEW t, Rests(q, m, t)
    PROVE  /\ \A n \in 1..m : UnframeStep(Unframed(q, t, n - 1)) = Unframed(q, t, n)
           /\ UnframeStep(Unframed(q, t, m)) = Unframed(q, t, m)
<1>1. t \in [0..m -> Seq(Byte)] /\ t[m] = <<>> /\ \A n \in 1..m : t[n - 1] = Frame(q[n]) \o t[n]
  BY DEF Rests
<1>2. ASSUME NEW n \in 1..m PROVE UnframeStep(Unframed(q, t, n - 1)) = Unframed(q, t, n)
  <2> DEFINE l == Unframed(q, t, n - 1)
             f == [i \in 1..(n - 1) |-> q[i]]
  <2>1. l.rest = t[n - 1] /\ l.frames = f
    BY DEF Unframed
  <2>2. q[n] \in Seq(Byte) /\ Len(q[n]) < TooLarge /\ t[n] \in Seq(Byte)
    <3>1. n \in 0..m
      OBVIOUS
    <3> QED BY <1>1, <3>1
  <2>3. l.rest = Frame(q[n]) \o t[n]
    BY <1>1, <2>1
  <2> HIDE DEF l
  <2>4. TakeFrame(l) = [rest |-> t[n], frames |-> Append(l.frames, q[n])] /\ l.rest # <<>>
    BY <2>2, <2>3, TakeFrameIs
  <2>5. Append(f, q[n]) = [i \in 1..n |-> q[i]]
    <3>1. f \in Seq(Seq(Byte)) /\ Len(f) = n - 1
      <4>1. n - 1 \in Nat /\ \A i \in 1..(n - 1) : q[i] \in Seq(Byte)
        OBVIOUS
      <4> QED BY <4>1
    <3>2. \A i \in 1..(n - 1) : f[i] = q[i]
      OBVIOUS
    <3> DEFINE b == Append(f, q[n])
    <3> HIDE DEF f
    <3>3. b \in Seq(Seq(Byte)) /\ Len(b) = n /\ b[n] = q[n] /\ \A i \in 1..(n - 1) : b[i] = f[i]
      BY <2>2, <3>1
    <3> HIDE DEF b
    <3>4. b = [i \in 1..n |-> b[i]]
      BY <3>3
    <3>5. \A i \in 1..n : i = n \/ i \in 1..(n - 1)
      OBVIOUS
    <3>6. \A i \in 1..n : b[i] = q[i]
      BY <3>2, <3>3, <3>5
    <3>7. b = [i \in 1..n |-> q[i]]
      BY <3>4, <3>6
    <3> QED BY <3>7 DEF b
  <2>6. UnframeStep(l) = [rest |-> t[n], frames |-> [i \in 1..n |-> q[i]]]
    BY <2>1, <2>4, <2>5 DEF UnframeStep, FrameLeft
  <2> QED BY <2>6 DEF Unframed, l
<1>3. UnframeStep(Unframed(q, t, m)) = Unframed(q, t, m)
  <2>1. Unframed(q, t, m).rest = <<>>
    BY <1>1 DEF Unframed
  <2> QED BY <2>1 DEF UnframeStep, FrameLeft
<1> QED BY <1>2, <1>3

\* All frames are found, and nothing else.
LEMMA UnframeIs ==
    ASSUME NEW m \in Nat, NEW q, \A n \in 1..m : q[n] \in Seq(Byte) /\ Len(q[n]) < TooLarge,
           NEW t, Rests(q, m, t)
    PROVE  Unframe(t[0]) = [i \in 1..m |-> q[i]]
<1> DEFINE k == Len(t[0])
           T(n) == Unframed(q, t, n)
           S == {T(n) : n \in 0..m}
           F == [l \in S |-> UnframeStep(l)]
           first == [rest |-> t[0], frames |-> <<>>]
           D(g) == [n \in 0..k |-> IF n = 0 THEN first ELSE UnframeStep(g[n - 1])]
           c == CHOOSE g : g = D(g)
<1>0. k \in Nat /\ k >= m
  BY RestsLong
<1>1. \A n \in 1..m : UnframeStep(T(n - 1)) = T(n)
  BY UnframeNext
<1>2. UnframeStep(T(m)) = T(m)
  BY UnframeNext
<1>3. F \in [S -> S]
  <2>1. ASSUME NEW n \in 0..m PROVE UnframeStep(T(n)) \in S
    <3>1. CASE n = m
      BY <1>2, <3>1
    <3>2. CASE n # m
      <4>1. n + 1 \in 1..m /\ (n + 1) - 1 = n /\ n + 1 \in 0..m
        BY <3>2
      <4>2. UnframeStep(T((n + 1) - 1)) = T(n + 1)
        BY <1>1, <4>1
      <4> QED BY <4>1, <4>2
    <3> QED BY <3>1, <3>2
  <2> QED BY <2>1
<1>4. first = T(0)
  <2>1. [i \in 1..0 |-> q[i]] = <<>>
    OBVIOUS
  <2> QED BY <2>1 DEF Unframed
<1>5. Unframe(t[0]) = c[k].frames
  BY DEF Unframe, While, UnframeStep
<1> HIDE DEF T, first, k
<1>6. first \in S
  BY <1>4
<1>7. PICK g : Rounds(S, F, first, k, g)
  <2> HIDE DEF F, S
  <2> QED BY <1>0, <1>3, <1>6, RoundsExist
<1>8. \A n \in 1..k : g[n] = UnframeStep(g[n - 1])
  <2>1. \A n \in 1..k : n - 1 \in 0..k
    BY <1>0
  <2> QED BY <1>7, <2>1 DEF Rounds
<1>9. g = D(g)
  <2>1. g \in [0..k -> S] /\ g[0] = first
    BY <1>7 DEF Rounds
  <2>2. \A n \in 0..k : n # 0 => n \in 1..k
    BY <1>0
  <2> HIDE DEF S
  <2> QED BY <1>8, <2>1, <2>2
<1>10. c = D(c)
  <2> HIDE DEF D
  <2> QED BY <1>9
<1> HIDE DEF c
<1>11. c[0] = first /\ \A n \in 1..k : c[n] = UnframeStep(c[n - 1])
  <2>1. 0 \in 0..k /\ \A n \in 1..k : n \in 0..k /\ n # 0
    BY <1>0
  <2> QED BY <1>10, <2>1
<1> DEFINE Good == {n \in 0..m : c[n] = T(n)}
<1>12. 0 \in Good
  BY <1>4, <1>11
<1>13. ASSUME NEW n \in 1..m, n - 1 \in Good PROVE n \in Good
  <2>1. n \in 1..k /\ n \in 0..m
    BY <1>0
  <2>2. c[n - 1] = T(n - 1)
    BY <1>13
  <2> QED BY <1>1, <1>11, <2>1, <2>2
<1> HIDE DEF Good
<1>14. \A n \in 0..m : n \in Good
  BY <1>12, <1>13, Induction
<1>15. c[m] = T(m)
  <2>1. m \in 0..m
    OBVIOUS
  <2> QED BY <1>14, <2>1 DEF Good
<1>16. c[k] = c[m]
  <2>1. m \in 0..k
    BY <1>0
  <2>2. \A n \in 1..k : c[n - 1] = c[m] => c[n] = c[m]
    BY <1>2, <1>11, <1>15
  <2> QED BY <1>0, <2>1, <2>2, Settles
<1>17. T(m).frames = [i \in 1..m |-> q[i]]
  BY DEF T, Unframed
<1> QED BY <1>5, <1>15, <1>16, <1>17

-----------------------------------------------------------------------------
\* The messages of the datagram.
Bodies(d, ps) == [n \in 1..Len(ps) |-> SerializeMsg(d, ps[n])]

\* Each is short enough for its length prefix, and reads as its struct or is
\* empty.
LEMMA BodiesAre ==
    ASSUME NEW d, Plain(d), NEW ps \in Seq(PlainStruct(d)), NEW n \in 1..Len(ps)
    PROVE  /\ Bodies(d, ps)[n] \in Seq(Byte) /\ Len(Bodies(d, ps)[n]) < TooLarge
           /\ Sent(d, ps[n]) => \A r : r = DeserializeMsg(d, Bodies(d, ps)[n]) => r.ok /\ r.v = ps[n]
           /\ ~Sent(d, ps[n]) => Bodies(d, ps)[n] = <<>>
<1> DEFINE x == ps[n]
<1>1. x \in PlainStruct(d)
  OBVIOUS
<1>2. Bodies(d, ps)[n] = SerializeMsg(d, x)
  BY DEF Bodies
<1> HIDE DEF x
<1>3. PICK w : Written(d, x, w)
  BY <1>1, WrittenExists
<1>4. (Sent(d, x) => SerializeMsg(d, x) = w[Len(d)]) /\ (~Sent(d, x) => SerializeMsg(d, x) = <<>>)
  BY <1>1, <1>3, SentIs
<1>5. w[Len(d)] \in Seq(Byte) /\ Len(w[Len(d)]) < TooLarge
  BY <1>1, <1>3, SizingIs
<1>6. Reads(d, w[Len(d)], PlainStruct(d), x)
  BY <1>1, <1>3, StructReads
<1>7. ASSUME NEW r, r = DeserializeMsg(d, w[Len(d)]) PROVE r.ok /\ r.v = x
  BY <1>6, <1>7, ReadsWhole
<1>8. <<>> \in Seq(Byte) /\ Len(<<>>) < TooLarge
  BY DEF TooLarge
<1>9. SerializeMsg(d, x) \in Seq(Byte) /\ Len(SerializeMsg(d, x)) < TooLarge
  BY <1>4, <1>5, <1>8
<1> QED BY <1>2, <1>4, <1>7, <1>9 DEF x

\* stored_commands is the frames of the messages one after the other.
LEMMA StoredIs ==
    ASSUME NEW d, Plain(d), NEW ps \in Seq(PlainStruct(d))
    PROVE  \E a : Stored(Bodies(d, ps), Len(ps), a) /\ StoredCommands(d, ps) = a[Len(ps)]
<1> DEFINE m == Len(ps)
           S == Seq(Byte)
           q == Bodies(d, ps)
           F == [n \in 1..m |-> [z \in S |-> z \o Frame(q[n])]]
           D(g) == [n \in 0..m |-> IF n = 0 THEN <<>> ELSE g[n - 1] \o Frame(SerializeMsg(d, ps[n]))]
           c == CHOOSE g : g = D(g)
<1>0. m \in Nat
  OBVIOUS
<1>1. \A n \in 1..m : q[n] = SerializeMsg(d, ps[n])
  BY DEF Bodies
<1>2. \A n \in 1..m : Frame(q[n]) \in S
  BY BodiesAre, FrameType
<1> HIDE DEF q
<1>3. F \in [1..m -> [S -> S]]
  BY <1>2
<1>4. <<>> \in S
  OBVIOUS
<1>5. StoredCommands(d, ps) = c[m]
  BY DEF StoredCommands
<1> HIDE DEF m
<1>6. PICK g : Steps(S, F, <<>>, m, g)
  <2> HIDE DEF F, S
  <2> QED BY <1>0, <1>3, <1>4, StepsExist
<1>7. \A n \in 1..m : g[n] = g[n - 1] \o Frame(SerializeMsg(d, ps[n]))
  <2>1. \A n \in 1..m : n - 1 \in 0..m
    BY <1>0
  <2> QED BY <1>1, <1>6, <2>1 DEF Steps
<1>8. g = D(g)
  <2>1. g \in [0..m -> S] /\ g[0] = <<>>
    BY <1>6 DEF Steps
  <2>2. \A n \in 0..m : n # 0 => n \in 1..m
    BY <1>0
  <2> HIDE DEF S
  <2> QED BY <1>7, <2>1, <2>2
<1>9. c = D(c)
  <2> HIDE DEF D
  <2> QED BY <1>8
<1> HIDE DEF c
<1>10. c[0] = <<>> /\ \A n \in 1..m : c[n] = c[n - 1] \o Frame(SerializeMsg(d, ps[n]))
  <2>1. 0 \in 0..m /\ \A n \in 1..m : n \in 0..m /\ n # 0
    BY <1>0
  <2> QED BY <1>9, <2>1
<1>11. \A n \in 1..m : c[n] = c[n - 1] \o Frame(q[n])
  BY <1>1, <1>10
<1>12. \A n \in 0..m : c[n] \in S
  <2>1. \A n \in 1..m : c[n - 1] \in S => c[n] \in S
    <3>1. ASSUME NEW n \in 1..m, c[n - 1] \in S PROVE c[n] \in S
      <4> DEFINE y == c[n - 1]
                 f == Frame(q[n])
      <4>1. y \in Seq(Byte) /\ f \in Seq(Byte) /\ c[n] = y \o f
        BY <1>2, <1>11, <3>1
      <4> HIDE DEF y, f
      <4> QED BY <4>1
    <3> QED BY <3>1
  <2>2. c[0] \in S
    BY <1>4, <1>10
  <2> HIDE DEF S
  <2> QED BY <1>0, <2>1, <2>2, StaysIn
<1>13. c \in [0..m -> S]
  BY <1>9, <1>12
<1>14. Stored(q, m, c)
  BY <1>10, <1>11, <1>13 DEF Stored
<1> QED BY <1>5, <1>14 DEF q, m

\* The frames of any number of commands are taken off as they were put together.
LEMMA FramesOfCommands ==
    ASSUME NEW d, Plain(d), NEW ps \in Seq(PlainStruct(d)), NEW frames, frames = Unframe(StoredCommands(d, ps))
    PROVE  FramesAre(d, ps, frames)
<1> DEFINE m == Len(ps)
           q == Bodies(d, ps)
<1>1. m \in Nat
  OBVIOUS
<1>2. \A n \in 1..m : q[n] \in Seq(Byte) /\ Len(q[n]) < TooLarge
  BY BodiesAre
<1>3. PICK a : Stored(q, m, a) /\ StoredCommands(d, ps) = a[m]
  BY StoredIs
<1>4. PICK t : Rests(q, m, t) /\ t[0] = a[m]
  <2> HIDE DEF q, m
  <2> QED BY <1>1, <1>2, <1>3, RestsExist
<1>5. frames = [i \in 1..m |-> q[i]]
  <2>1. Unframe(t[0]) = [i \in 1..m |-> q[i]]
    <3> HIDE DEF q, m
    <3> QED BY <1>1, <1>2, <1>4, UnframeIs
  <2> QED BY <1>3, <1>4, <2>1
<1>6. ASSUME NEW i \in 1..m
      PROVE  IF Sent(d, ps[i]) THEN LET r == DeserializeMsg(d, q[i]) IN r.ok /\ r.v = ps[i] ELSE q[i] = <<>>
  BY BodiesAre
<1> HIDE DEF q
<1>7. Len(frames) = m /\ DOMAIN frames = 1..m /\ \A i \in 1..m : frames[i] = q[i]
  <2> HIDE DEF m
  <2> QED BY <1>1, <1>5
<1> QED BY <1>6, <1>7 DEF FramesAre

\* SetRobotCommands puts the length in front of each command.  Taking the frames
\* off one after the other gives as many as there were commands, and the k-th
\* decodes to the k-th command, for any number of commands and any values: the
\* command of zeros with its empty serialisation, and commands behind one that
\* pb_encode has refused, included.
THEOREM RobotFramesSeparate == Spec => [](desc \in RobotTypes => FramesSeparate)
<1>1. MessagesInv => (desc \in RobotTypes => FramesSeparate)
  <2> SUFFICES ASSUME MessagesInv, desc \in RobotTypes, NEW first \in Structs(desc)
               PROVE  FramesAre(desc, <<first>> \o parts, Unframe(StoredCommands(desc, <<first>> \o parts)))
    BY DEF FramesSeparate
  <2>1. parts \in Seq(PlainStruct(desc)) /\ desc \in Descriptors
    BY DEF MessagesInv, RobotInv
  <2>2. first \in PlainStruct(desc)
    BY <2>1, StructsPlain
  <2>3. <<first>> \o parts \in Seq(PlainStruct(desc))
    BY <2>1, <2>2
  <2>4. Plain(desc)
    BY RobotPlain
  <2> QED BY <2>3, <2>4, FramesOfCommands
<1> QED BY <1>1, AlwaysInv, PTL

-----------------------------------------------------------------------------
\* Times of the network cycle, unsigned numbers of 32 bits.

\* All that the proofs need of the numbers.
LEMMA ClockRange ==
    /\ TwoTo31 \in Nat /\ TwoTo32 \in Nat /\ TwoTo32 = 2 * TwoTo31
    /\ TwoTo31 > 100000
BY SMT DEF TwoTo31, TwoTo32

\* Of all multiples of M only 0 lies strictly between -M and M.
LEMMA Multiples ==
    ASSUME NEW M \in Nat, M > 0, NEW k \in Int, 0 - M < k * M, k * M < M
    PROVE  k = 0
<1>1. CASE k >= 1
  <2>1. k * M >= 1 * M
    BY <1>1, SMT
  <2> QED BY <2>1, SMT
<1>2. CASE k <= 0 - 1
  <2>1. k * M <= (0 - 1) * M
    BY <1>2, SMT
  <2> QED BY <2>1, SMT
<1> QED BY <1>1, <1>2, SMT

\* A number is its quotient times M and its remainder.
LEMMA Division ==
    ASSUME NEW M \in Nat, M > 0, NEW x \in Int
    PROVE  x % M \in 0..(M - 1) /\ x \div M \in Int /\ x = M * (x \div M) + (x % M)
<1>1. x % M \in 0..(M - 1)
  BY SMT
<1>2. x \div M \in Int
  BY SMT
<1>3. x = M * (x \div M) + (x % M)
  BY SMT
<1> QED BY <1>1, <1>2, <1>3

\* A wrapped value is the value, up to a multiple of 2^32.
LEMMA WrapIs ==
    ASSUME NEW x \in Int
    PROVE  Wrap(x) \in UInt32 /\ \E k \in Int : Wrap(x) = x + k * TwoTo32
<1> DEFINE d == x \div TwoTo32
           r == x % TwoTo32
<1>0. TwoTo32 \in Nat /\ TwoTo32 > 0
  BY ClockRange, SMT
<1>1. r \in 0..(TwoTo32 - 1) /\ d \in Int /\ x = TwoTo32 * d + r
  BY <1>0, Division, Zenon
<1> HIDE DEF d, r
<1>2. r = x + (0 - d) * TwoTo32 /\ 0 - d \in Int
  BY <1>1, ClockRange, SMT
<1>3. Wrap(x) = r
  BY DEF Wrap, r
<1> QED BY <1>1, <1>2, <1>3, SMT DEF UInt32

\* It is the only such value in range.
LEMMA WrapUnique ==
    ASSUME NEW x \in Int, NEW y \in UInt32, NEW k \in Int, y = x + k * TwoTo32
    PROVE  Wrap(x) = y
<1>1. PICK j \in Int : Wrap(x) = x + j * TwoTo32
  BY WrapIs
<1>2. Wrap(x) \in UInt32
  BY WrapIs
<1>3. k - j \in Int /\ (k - j) * TwoTo32 = y - Wrap(x)
  BY <1>1, ClockRange, SMT DEF UInt32
<1>4. 0 - TwoTo32 < (k - j) * TwoTo32 /\ (k - j) * TwoTo32 < TwoTo32
  BY <1>2, <1>3, ClockRange, SMT DEF UInt32
<1>5. k - j = 0
  BY <1>3, <1>4, Multiples, ClockRange
<1> QED BY <1>1, <1>5, SMT

-----------------------------------------------------------------------------
\* ToDeviceTime undoes ToHostTime for every offset, also when the sum wraps.
THEOREM HostTimeRoundTrip ==
    \A device_time \in UInt32, offset \in Int32 :
        /\ ToHostTime(device_time, offset) \in UInt32
        /\ ToDeviceTime(ToHostTime(device_time, offset), offset) = device_time
<1> SUFFICES ASSUME NEW t \in UInt32, NEW offset \in Int32
             PROVE  /\ ToHostTime(t, offset) \in UInt32
                    /\ ToDeviceTime(ToHostTime(t, offset), offset) = t
  OBVIOUS
<1>1. t \in Int /\ offset \in Int /\ t + offset \in Int
  BY ClockRange, SMT DEF UInt32, Int32
<1>2. PICK k \in Int : Wrap(t + offset) = t + offset + k * TwoTo32
  BY <1>1, WrapIs
<1>3. Wrap(t + offset) \in UInt32
  BY <1>1, WrapIs
<1>4. Wrap(t + offset) - offset \in Int
  BY <1>1, <1>3, ClockRange, SMT DEF UInt32
<1>5. t = (Wrap(t + offset) - offset) + (0 - k) * TwoTo32 /\ 0 - k \in Int
  BY <1>1, <1>2, ClockRange, SMT
<1>6. Wrap(Wrap(t + offset) - offset) = t
  BY <1>4, <1>5, WrapUnique
<1> QED BY <1>3, <1>6 DEF ToHostTime, ToDeviceTime

\* TimeDiff gives the true distance of two times that are less than half the
\* range of the clock apart, in either direction and across the wrap.
THEOREM DiffIsExact ==
    \A time \in UInt32, distance \in Int32 : TimeDiff(Wrap(time + distance), time) = distance
<1> SUFFICES ASSUME NEW time \in UInt32, NEW distance \in Int32
             PROVE  TimeDiff(Wrap(time + distance), time) = distance
  OBVIOUS
<1>1. time \in Int /\ distance \in Int /\ time + distance \in Int
  BY ClockRange, SMT DEF UInt32, Int32
<1>2. PICK k \in Int : Wrap(time + distance) = time + distance + k * TwoTo32
  BY <1>1, WrapIs
<1>3. Wrap(time + distance) \in Int /\ Wrap(time + distance) - time \in Int
  BY <1>1, WrapIs, ClockRange, SMT DEF UInt32
<1>4. CASE distance >= 0
  <2>1. distance \in UInt32
    BY <1>4, ClockRange, SMT DEF UInt32, Int32
  <2>2. distance = (Wrap(time + distance) - time) + (0 - k) * TwoTo32 /\ 0 - k \in Int
    BY <1>1, <1>2, ClockRange, SMT
  <2>3. Wrap(Wrap(time + distance) - time) = distance
    BY <1>3, <2>1, <2>2, WrapUnique
  <2>4. AsInt32(distance) = distance
    BY ClockRange, SMT DEF AsInt32, Int32
  <2> QED BY <2>3, <2>4 DEF TimeDiff
<1>5. CASE distance < 0
  <2> DEFINE y == distance + TwoTo32
  <2>1. y \in UInt32
    BY <1>5, ClockRange, SMT DEF UInt32, Int32
  <2>2. y = (Wrap(time + distance) - time) + (1 - k) * TwoTo32 /\ 1 - k \in Int
    BY <1>1, <1>2, ClockRange, SMT
  <2>3. Wrap(Wrap(time + distance) - time) = y
    <3> HIDE DEF y
    <3> QED BY <1>3, <2>1, <2>2, WrapUnique
  <2>4. AsInt32(y) = distance
    BY <1>5, ClockRange, SMT DEF AsInt32, Int32
  <2> QED BY <2>3, <2>4 DEF TimeDiff
<1> QED BY <1>1, <1>4, <1>5, SMT

-----------------------------------------------------------------------------
\* Sums may be wrapped at every step or once.
LEMMA WrapOfSum ==
    ASSUME NEW x \in Int, NEW y \in Int PROVE Wrap(Wrap(x) + y) = Wrap(x + y)
<1>1. PICK k \in Int : Wrap(x) = x + k * TwoTo32
  BY WrapIs
<1>2. PICK j \in Int : Wrap(x + y) = x + y + j * TwoTo32
  BY WrapIs
<1>3. Wrap(x) \in Int /\ Wrap(x) + y \in Int /\ Wrap(x + y) \in UInt32
  BY WrapIs, ClockRange, SMT DEF UInt32
<1>4. Wrap(x + y) = (Wrap(x) + y) + (j - k) * TwoTo32 /\ j - k \in Int
  BY <1>1, <1>2, ClockRange, SMT
<1> QED BY <1>3, <1>4, WrapUnique

\* Where the slots are, counted from the start of the cycle.
LEMMA SlotOffsets ==
    ASSUME NEW start \in UInt32, NEW num_robots \in 1..6, NEW i \in 1..7
    PROVE  /\ Into(start, GetBeaconStartTime(start)) = 0
           /\ Into(start, GetUdpStartTime(start)) = 2000
           /\ Into(start, GetRobotCommandStartTime(start, i)) = 7000 + 2000 * (i - 1)
           /\ Into(start, GetRobotResponseStartTime(num_robots, start, i))
                 = 7000 + 2000 * num_robots + 2000 * (i - 1)
<1> DEFINE command == 7000 + 2000 * (i - 1)
           response == 7000 + 2000 * num_robots + 2000 * (i - 1)
<1>1. start \in Int /\ command \in Int /\ response \in Int /\ 2000 * num_robots \in Int
  BY ClockRange, SMT DEF UInt32
<1>2. 0 \in Int32 /\ 2000 \in Int32 /\ command \in Int32 /\ response \in Int32
  BY ClockRange, SMT DEF Int32
<1>3. Wrap(start + 0) = start
  <2>1. start = (start + 0) + 0 * TwoTo32 /\ start + 0 \in Int
    BY <1>1, ClockRange, SMT
  <2> QED BY <2>1, WrapUnique
<1>4. GetUdpStartTime(start) = Wrap(start + 2000)
  BY SMT DEF GetUdpStartTime, GetBeaconStartTime, beacon_time, to_us
<1>5. ASSUME NEW n \in Int
      PROVE  GetRobotCommandStartTime(start, n) = Wrap(start + (7000 + 2000 * (n - 1)))
  <2>1. Wrap(start + 2000) \in Int
    BY <1>1, WrapIs, ClockRange, SMT DEF UInt32
  <2>2. Wrap(start + 2000) + udp_time + robot_command_time * (n - 1)
           = Wrap(start + 2000) + (5000 + 2000 * (n - 1))
    BY <2>1, SMT DEF udp_time, robot_command_time, to_us
  <2>3. Wrap(Wrap(start + 2000) + (5000 + 2000 * (n - 1)))
           = Wrap((start + 2000) + (5000 + 2000 * (n - 1)))
    <3>1. start + 2000 \in Int /\ 5000 + 2000 * (n - 1) \in Int
      BY <1>1, SMT
    <3> QED BY <3>1, WrapOfSum
  <2>4. (start + 2000) + (5000 + 2000 * (n - 1)) = start + (7000 + 2000 * (n - 1))
    BY <1>1, SMT
  <2> QED BY <1>4, <2>2, <2>3, <2>4 DEF GetRobotCommandStartTime
<1>6. GetRobotCommandStartTime(start, i) = Wrap(start + command)
  BY <1>5
<1>7. GetRobotResponseStartTime(num_robots, start, i) = Wrap(start + response)
  <2>1. GetRobotCommandStartTime(start, num_robots + 1) = Wrap(start + (7000 + 2000 * num_robots))
    <3>1. num_robots + 1 \in Int /\ 7000 + 2000 * ((num_robots + 1) - 1) = 7000 + 2000 * num_robots
      BY SMT
    <3> QED BY <1>5, <3>1
  <2>2. robot_response_time * (i - 1) = 2000 * (i - 1)
    BY SMT DEF robot_response_time, to_us
  <2>3. Wrap(Wrap(start + (7000 + 2000 * num_robots)) + 2000 * (i - 1))
           = Wrap((start + (7000 + 2000 * num_robots)) + 2000 * (i - 1))
    <3>1. start + (7000 + 2000 * num_robots) \in Int /\ 2000 * (i - 1) \in Int
      BY <1>1, SMT
    <3> QED BY <3>1, WrapOfSum
  <2>4. (start + (7000 + 2000 * num_robots)) + 2000 * (i - 1) = start + response
    BY <1>1, SMT
  <2> QED BY <2>1, <2>2, <2>3, <2>4 DEF GetRobotResponseStartTime
<1> HIDE DEF command, response
<1>8. /\ TimeDiff(start, start) = 0
      /\ TimeDiff(Wrap(start + 2000), start) = 2000
      /\ TimeDiff(Wrap(start + command), start) = command
      /\ TimeDiff(Wrap(start + response), start) = response
  BY <1>2, <1>3, DiffIsExact
<1> QED BY <1>4, <1>6, <1>7, <1>8 DEF Into, GetBeaconStartTime, command, response

\* The slots of a network cycle follow one another without overlap and end
\* with the cycle, as a station sees them that compares its clock with the
\* start of the cycle; also in the cycle in which the clock wraps.
THEOREM SlotsAreDisjoint ==
    ASSUME NEW num_robots, FitsCycle(num_robots), NEW start \in UInt32,
           NEW i \in 1..num_robots, NEW j \in 1..num_robots
    PROVE  /\ Into(start, GetBeaconStartTime(start)) + beacon_time <= Into(start, GetUdpStartTime(start))
           /\ Into(start, GetUdpStartTime(start)) + udp_time
                 <= Into(start, GetRobotCommandStartTime(start, i))
           /\ i < j => Into(start, GetRobotCommandStartTime(start, i)) + robot_command_time
                          <= Into(start, GetRobotCommandStartTime(start, j))
           /\ Into(start, GetRobotCommandStartTime(start, i)) + robot_command_time
                 <= Into(start, GetRobotResponseStartTime(num_robots, start, j))
           /\ i < j => Into(start, GetRobotResponseStartTime(num_robots, start, i)) + robot_response_time
                          <= Into(start, GetRobotResponseStartTime(num_robots, start, j))
           /\ Into(start, GetRobotResponseStartTime(num_robots, start, j)) + robot_response_time
                 <= network_cycle_time
<1>1. num_robots \in 1..6 /\ 7000 + 4000 * num_robots <= 40000
  BY SMT DEF FitsCycle, beacon_time, udp_time, robot_command_time, robot_response_time,
     network_cycle_time, to_us
<1>2. i \in 1..7 /\ j \in 1..7
  BY <1>1, SMT
<1>3. /\ Into(start, GetBeaconStartTime(start)) = 0
      /\ Into(start, GetUdpStartTime(start)) = 2000
      /\ Into(start, GetRobotCommandStartTime(start, i)) = 7000 + 2000 * (i - 1)
      /\ Into(start, GetRobotCommandStartTime(start, j)) = 7000 + 2000 * (j - 1)
  BY <1>1, <1>2, SlotOffsets
<1>4. /\ Into(start, GetRobotResponseStartTime(num_robots, start, i))
            = 7000 + 2000 * num_robots + 2000 * (i - 1)
      /\ Into(start, GetRobotResponseStartTime(num_robots, start, j))
            = 7000 + 2000 * num_robots + 2000 * (j - 1)
  BY <1>1, <1>2, SlotOffsets
<1>5. /\ beacon_time = 2000 /\ udp_time = 5000 /\ robot_command_time = 2000
      /\ robot_response_time = 2000 /\ network_cycle_time = 40000
  BY SMT DEF beacon_time, udp_time, robot_command_time, robot_response_time, network_cycle_time, to_us
<1> QED BY <1>1, <1>3, <1>4, <1>5, SMT
=============================================================================
