-------------------------- MODULE SkeletonPoolProofs --------------------------
(***************************************************************************)
(* Proofs about SkeletonPool for any parent lists, any number of joints up *)
(* to Inf, of frames and of joints of a nested graph, any stride and any   *)
(* settings of the pools.                                                  *)
(* First the graphs: walks, the breadth-first search, the Floyd-Warshall   *)
(* loop, trees. Then the invariant SoundInv, one part for each loop of the *)
(* program: validation, anchors, segments, assignment, pooled graph,       *)
(* refusals, features. Last what a contracted skeleton is: its cells hang  *)
(* together, so that they make a tree. Induction is by the least number    *)
(* outside a set.                                                          *)
(***************************************************************************)
EXTENDS SkeletonPool, FiniteSetTheorems, WellFoundedInduction, TLAPS

(* Induction over the numbers, from the least number outside a set.        *)
LEMMA StrongInduction ==
  ASSUME NEW S, \A n \in Nat : (\A m \in 0 .. (n - 1) : m \in S) => n \in S
  PROVE  \A n \in Nat : n \in S
<1> DEFINE Out == {n \in Nat : n \notin S}
<1>1. SUFFICES ASSUME Out # {} PROVE FALSE
  OBVIOUS
<1>2. PICK x \in Out : \A y \in Out : ~ (<<y, x>> \in OpToRel(<, Nat))
  BY <1>1, WFMin, NatLessThanWellFounded
<1>3. \A m \in 0 .. (x - 1) : m \in S
  <2>1. SUFFICES ASSUME NEW m \in 0 .. (x - 1), m \notin S PROVE FALSE
    OBVIOUS
  <2>2. m \in Out /\ <<m, x>> \in OpToRel(<, Nat)
    BY <2>1 DEF OpToRel
  <2> QED BY <1>2, <2>2
<1> QED BY <1>3

(* Plain induction, with a set for the property.                           *)
LEMMA Induction ==
  ASSUME NEW S, 0 \in S, \A n \in Nat : n \in S => n + 1 \in S
  PROVE  \A n \in Nat : n \in S
<1>1. ASSUME NEW n \in Nat, \A m \in 0 .. (n - 1) : m \in S PROVE n \in S
  <2>1. CASE n = 0 BY <2>1
  <2>2. CASE n # 0
    <3>1. n - 1 \in Nat /\ n - 1 \in 0 .. (n - 1) /\ (n - 1) + 1 = n
      BY <2>2
    <3> QED BY <1>1, <3>1
  <2> QED BY <2>1, <2>2
<1> QED BY <1>1, StrongInduction

(* A set of numbers that is not empty has a least one.                     *)
LEMMA LeastOf ==
  ASSUME NEW S \in SUBSET Nat, S # {}
  PROVE  \E m \in S : \A n \in S : m <= n
<1> DEFINE Not == {n \in Nat : n \notin S}
<1>1. SUFFICES ASSUME ~ \E m \in S : \A n \in S : m <= n PROVE FALSE
  OBVIOUS
<1>2. ASSUME NEW n \in Nat, \A m \in 0 .. (n - 1) : m \in Not PROVE n \in Not
  <2>1. SUFFICES ASSUME n \in S PROVE FALSE
    OBVIOUS
  <2>2. PICK k2 \in S : ~ (n <= k2)
    BY <1>1, <2>1
  <2>3. k2 \in 0 .. (n - 1)
    BY <2>2
  <2> QED BY <1>2, <2>3
<1> HIDE DEF Not
<1>3. \A n \in Nat : n \in Not
  BY <1>2, StrongInduction
<1> QED BY <1>3 DEF Not

(* A finite set of numbers in ascending order.                             *)
LEMMA SortedFacts ==
  ASSUME NEW S \in SUBSET Int, IsFiniteSet(S)
  PROVE  /\ Cardinality(S) \in Nat
         /\ Sorted(S) \in [1 .. Cardinality(S) -> S]
         /\ Sorted(S) \in Seq(S)
         /\ Len(Sorted(S)) = Cardinality(S)
         /\ \A x \in S : \E i \in 1 .. Cardinality(S) : Sorted(S)[i] = x
         /\ \A i, j \in 1 .. Cardinality(S) : i < j => Sorted(S)[i] < Sorted(S)[j]
         /\ ElementsOf(Sorted(S)) = S
<1> DEFINE n == Cardinality(S)
           below(x) == {y \in S : y < x}
           rank == [x \in S |-> Cardinality(below(x)) + 1]
           list == Sorted(S)
<1>1. n \in Nat
  BY FS_CardinalityType
<1>2. ASSUME NEW x \in S
      PROVE  IsFiniteSet(below(x)) /\ Cardinality(below(x)) \in 0 .. (n - 1)
  <2>1. below(x) \in SUBSET (S \ {x})
    OBVIOUS
  <2>2. IsFiniteSet(S \ {x}) /\ Cardinality(S \ {x}) = n - 1
    BY FS_RemoveElement
  <2>3. IsFiniteSet(below(x)) /\ Cardinality(below(x)) <= n - 1
    BY <2>1, <2>2, FS_Subset
  <2>4. Cardinality(below(x)) \in Nat
    BY <2>3, FS_CardinalityType
  <2> QED BY <1>1, <2>3, <2>4
<1>3. ASSUME NEW x \in S, NEW y \in S, x < y
      PROVE  Cardinality(below(x)) < Cardinality(below(y))
  <2>0. x \in Int /\ y \in Int /\ S \subseteq Int
    OBVIOUS
  <2>1. below(x) \in SUBSET below(y) /\ x \in below(y) /\ x \notin below(x)
    <3>1. \A z \in S : z < x => z < y
      BY <2>0, <1>3
    <3>2. below(x) \subseteq below(y)
      BY <3>1
    <3>3. x \in below(y)
      BY <1>3
    <3>4. x \notin below(x)
      BY <2>0
    <3> QED BY <3>2, <3>3, <3>4
  <2>2. below(x) # below(y)
    BY <2>1
  <2>3. /\ Cardinality(below(x)) <= Cardinality(below(y))
        /\ Cardinality(below(y)) = Cardinality(below(x)) => below(y) = below(x)
    BY <1>2, <2>1, FS_Subset
  <2>4. Cardinality(below(x)) \in Nat /\ Cardinality(below(y)) \in Nat
    BY <1>1, <1>2
  <2> QED BY <2>2, <2>3, <2>4
<1>4. rank \in [S -> 1 .. n]
  BY <1>1, <1>2
<1>5. ASSUME NEW x \in S, NEW y \in S, Cardinality(below(x)) = Cardinality(below(y))
      PROVE  x = y
  <2>1. ~ (x < y) /\ ~ (y < x)
    BY <1>1, <1>2, <1>3, <1>5
  <2> QED BY <2>1
<1>6. \A x, y \in S : rank[x] = rank[y] => x = y
  BY <1>1, <1>2, <1>5
<1> HIDE DEF rank
<1>7. rank \in Injection(S, 1 .. n)
  BY <1>4, <1>6 DEF Injection, IsInjective
<1>8. IsFiniteSet(1 .. n) /\ Cardinality(1 .. n) = n
  BY <1>1, FS_Interval
<1>9. rank \in Surjection(S, 1 .. n)
  BY <1>7, <1>8, FS_Injection
<1>10. \A i \in 1 .. n : \E x \in S : Cardinality(below(x)) = i - 1
  <2>1. \A i \in 1 .. n : \E x \in S : rank[x] = i
    BY <1>9 DEF Surjection
  <2>2. \A x \in S : Cardinality(below(x)) \in Int /\ rank[x] = Cardinality(below(x)) + 1
    BY <1>1, <1>2 DEF rank
  <2> HIDE DEF below
  <2> QED BY <2>1, <2>2
<1>11. list = [i \in 1 .. n |-> CHOOSE x \in S : Cardinality(below(x)) = i - 1]
  BY DEF Sorted
<1> HIDE DEF list
<1>12. ASSUME NEW i \in 1 .. n PROVE list[i] \in S /\ Cardinality(below(list[i])) = i - 1
  <2>1. list[i] = CHOOSE x \in S : Cardinality(below(x)) = i - 1
    BY <1>11
  <2> QED BY <2>1, <1>10
<1>13. list \in [1 .. n -> S]
  BY <1>11, <1>12
<1>14. Len(list) = n /\ list \in Seq(S)
  BY <1>1, <1>13
<1>15. ASSUME NEW x \in S PROVE \E i \in 1 .. n : list[i] = x
  <2>1. Cardinality(below(x)) + 1 \in 1 .. n
    BY <1>1, <1>2
  <2>2. Cardinality(below(list[Cardinality(below(x)) + 1])) = Cardinality(below(x))
    BY <1>1, <1>2, <1>12, <2>1
  <2> QED BY <1>5, <1>12, <2>1, <2>2
<1>16. ASSUME NEW i \in 1 .. n, NEW j \in 1 .. n, i < j PROVE list[i] < list[j]
  <2>1. SUFFICES ASSUME ~ (list[i] < list[j]) PROVE FALSE
    OBVIOUS
  <2>2. list[i] \in Int /\ list[j] \in Int
    BY <1>12
  <2>3. list[j] = list[i] \/ list[j] < list[i]
    BY <2>1, <2>2
  <2>4. Cardinality(below(list[j])) <= Cardinality(below(list[i]))
    <3>1. CASE list[j] = list[i]
      BY <1>1, <1>2, <1>12, <3>1
    <3>2. CASE list[j] < list[i]
      <4>1. Cardinality(below(list[j])) < Cardinality(below(list[i]))
        BY <1>3, <1>12, <3>2
      <4> QED BY <1>1, <1>2, <1>12, <4>1
    <3> QED BY <2>3, <3>1, <3>2
  <2> QED BY <1>1, <1>12, <1>16, <2>4
<1>17. ElementsOf(list) = S
  <2>1. ElementsOf(list) = {list[i] : i \in 1 .. n}
    BY <1>14 DEF ElementsOf
  <2> QED BY <1>12, <1>15, <2>1
<1> QED BY <1>1, <1>13, <1>14, <1>15, <1>16, <1>17 DEF list
-----------------------------------------------------------------------------
(* Walks of a graph.                                                       *)

(* A walk of n edges from v to w whose other nodes are in Through.         *)
Walk(E, Through, v, w, n) ==
  \E p : /\ p = [i \in 0 .. n |-> p[i]]
         /\ p[0] = v /\ p[n] = w
         /\ \A i \in 1 .. n : /\ <<p[i - 1], p[i]>> \in E
                              /\ p[i - 1] = v \/ p[i - 1] \in Through

Near(E, Through, v, w, m) == \E n \in 0 .. m : Walk(E, Through, v, w, n)

(* A walk without an edge stays, and a longer one has a last edge.         *)
LEMMA WalkNone ==
  ASSUME NEW E, NEW Through, NEW v, NEW w
  PROVE  Walk(E, Through, v, w, 0) <=> v = w
<1>1. ASSUME v = w PROVE Walk(E, Through, v, w, 0)
  <2> DEFINE p == [i \in 0 .. 0 |-> v]
  <2>1. p = [i \in 0 .. 0 |-> p[i]] /\ p[0] = v /\ p[0] = w
    BY <1>1
  <2> HIDE DEF p
  <2>2. \A i \in 1 .. 0 : /\ <<p[i - 1], p[i]>> \in E
                          /\ p[i - 1] = v \/ p[i - 1] \in Through
    OBVIOUS
  <2> QED BY <2>1, <2>2 DEF Walk
<1>2. ASSUME Walk(E, Through, v, w, 0) PROVE v = w
  BY <1>2 DEF Walk
<1> QED BY <1>1, <1>2

(* One edge more, at the end of the walk.                                  *)
LEMMA WalkStep ==
  ASSUME NEW E, NEW Through, NEW v, NEW w, NEW n \in Nat
  PROVE  Walk(E, Through, v, w, n + 1)
           <=> \E x : Walk(E, Through, v, x, n) /\ <<x, w>> \in E /\ (x = v \/ x \in Through)
<1>1. ASSUME Walk(E, Through, v, w, n + 1)
      PROVE  \E x : Walk(E, Through, v, x, n) /\ <<x, w>> \in E /\ (x = v \/ x \in Through)
  <2>1. PICK p : /\ p = [i \in 0 .. n + 1 |-> p[i]]
                 /\ p[0] = v /\ p[n + 1] = w
                 /\ \A i \in 1 .. n + 1 : /\ <<p[i - 1], p[i]>> \in E
                                          /\ p[i - 1] = v \/ p[i - 1] \in Through
    BY <1>1 DEF Walk
  <2> DEFINE q == [i \in 0 .. n |-> p[i]]
  <2>2. \A i \in 0 .. n : q[i] = p[i]
    OBVIOUS
  <2>3. q = [i \in 0 .. n |-> q[i]] /\ q[0] = v /\ q[n] = p[n]
    BY <2>1
  <2>4. ASSUME NEW i \in 1 .. n
        PROVE  <<q[i - 1], q[i]>> \in E /\ (q[i - 1] = v \/ q[i - 1] \in Through)
    <3>1. i \in 0 .. n /\ i - 1 \in 0 .. n /\ i \in 1 .. n + 1
      OBVIOUS
    <3> HIDE DEF q
    <3> QED BY <2>1, <2>2, <3>1
  <2>5. Walk(E, Through, v, p[n], n)
    <3> HIDE DEF q
    <3> QED BY <2>3, <2>4 DEF Walk
  <2>6. (n + 1) - 1 = n /\ n + 1 \in 1 .. n + 1
    OBVIOUS
  <2>7. <<p[n], w>> \in E /\ (p[n] = v \/ p[n] \in Through)
    BY <2>1, <2>6
  <2> QED BY <2>5, <2>7
<1>2. ASSUME NEW x, Walk(E, Through, v, x, n), <<x, w>> \in E, x = v \/ x \in Through
      PROVE  Walk(E, Through, v, w, n + 1)
  <2>1. PICK p : /\ p = [i \in 0 .. n |-> p[i]]
                 /\ p[0] = v /\ p[n] = x
                 /\ \A i \in 1 .. n : /\ <<p[i - 1], p[i]>> \in E
                                      /\ p[i - 1] = v \/ p[i - 1] \in Through
    BY <1>2 DEF Walk
  <2> DEFINE q == [i \in 0 .. n + 1 |-> IF i <= n THEN p[i] ELSE w]
  <2>2. (\A i \in 0 .. n : q[i] = p[i]) /\ q[n + 1] = w /\ q = [i \in 0 .. n + 1 |-> q[i]]
    OBVIOUS
  <2> HIDE DEF q
  <2>3. ASSUME NEW i \in 1 .. n + 1
        PROVE  <<q[i - 1], q[i]>> \in E /\ (q[i - 1] = v \/ q[i - 1] \in Through)
    <3>1. CASE i = n + 1
      <4>1. i - 1 = n /\ n \in 0 .. n
        BY <3>1
      <4> QED BY <1>2, <2>1, <2>2, <3>1, <4>1
    <3>2. CASE i \in 1 .. n
      <4>1. i - 1 \in 0 .. n /\ i \in 0 .. n
        BY <3>2
      <4> QED BY <2>1, <2>2, <3>2, <4>1
    <3> QED BY <3>1, <3>2
  <2>4. q[0] = v
    <3>1. 0 \in 0 .. n
      OBVIOUS
    <3> QED BY <2>1, <2>2, <3>1
  <2> QED BY <2>2, <2>3, <2>4 DEF Walk
<1> QED BY <1>1, <1>2

(* No edge leads to the node itself only.                                  *)
LEMMA NearZero ==
  ASSUME NEW E, NEW Through, NEW v, NEW w
  PROVE  Near(E, Through, v, w, 0) <=> v = w
<1>1. \A n \in 0 .. 0 : n = 0
  OBVIOUS
<1>2. 0 \in 0 .. 0
  OBVIOUS
<1> QED BY <1>1, <1>2, WalkNone DEF Near

(* One edge more leads to what the last nodes that may be gone through     *)
(* have edges to.                                                          *)
LEMMA NearNext ==
  ASSUME NEW E, NEW Through, NEW v, NEW w, NEW m \in Nat
  PROVE  Near(E, Through, v, w, m + 1)
           <=> \/ Near(E, Through, v, w, m)
               \/ \E x : /\ Near(E, Through, v, x, m)
                         /\ <<x, w>> \in E /\ (x = v \/ x \in Through)
<1>1. ASSUME Near(E, Through, v, w, m + 1), ~ Near(E, Through, v, w, m)
      PROVE  \E x : Near(E, Through, v, x, m) /\ <<x, w>> \in E /\ (x = v \/ x \in Through)
  <2>1. PICK n \in 0 .. (m + 1) : Walk(E, Through, v, w, n)
    BY <1>1 DEF Near
  <2>2. n = m + 1
    BY <1>1, <2>1 DEF Near
  <2>3. PICK x : Walk(E, Through, v, x, m) /\ <<x, w>> \in E /\ (x = v \/ x \in Through)
    BY <2>1, <2>2, WalkStep
  <2>4. m \in 0 .. m
    OBVIOUS
  <2> QED BY <2>3, <2>4 DEF Near
<1>2. ASSUME Near(E, Through, v, w, m) PROVE Near(E, Through, v, w, m + 1)
  BY <1>2 DEF Near
<1>3. ASSUME NEW x, Near(E, Through, v, x, m), <<x, w>> \in E, x = v \/ x \in Through
      PROVE  Near(E, Through, v, w, m + 1)
  <2>1. PICK n \in 0 .. m : Walk(E, Through, v, x, n)
    BY <1>3 DEF Near
  <2>2. Walk(E, Through, v, w, n + 1)
    BY <1>3, <2>1, WalkStep
  <2>3. n + 1 \in 0 .. (m + 1)
    OBVIOUS
  <2> QED BY <2>2, <2>3 DEF Near
<1> QED BY <1>1, <1>2, <1>3

(* More edges, or more nodes to go through, reach no less.                 *)
LEMMA NearGrows ==
  ASSUME NEW E, NEW Through, NEW More, Through \subseteq More, NEW v, NEW w,
         NEW m \in Nat, NEW n \in Nat, m <= n, Near(E, Through, v, w, m)
  PROVE  Near(E, More, v, w, n)
<1>1. PICK i \in 0 .. m : Walk(E, Through, v, w, i)
  BY DEF Near
<1>2. Walk(E, More, v, w, i)
  BY <1>1 DEF Walk
<1>3. i \in 0 .. n
  OBVIOUS
<1> QED BY <1>2, <1>3 DEF Near

(* A walk does not leave the nodes of the graph.                           *)
LEMMA NearInside ==
  ASSUME NEW V, NEW E, E \subseteq V \X V, NEW Through, NEW v \in V, NEW w, NEW m \in Nat,
         Near(E, Through, v, w, m)
  PROVE  w \in V
<1>1. PICK n \in 0 .. m : Walk(E, Through, v, w, n)
  BY DEF Near
<1>2. CASE n = 0
  BY <1>1, <1>2, WalkNone
<1>3. CASE n # 0
  <2>1. n - 1 \in Nat /\ (n - 1) + 1 = n
    BY <1>3
  <2>2. Walk(E, Through, v, w, (n - 1) + 1)
    BY <1>1, <2>1
  <2>3. \E x : Walk(E, Through, v, x, n - 1) /\ <<x, w>> \in E /\ (x = v \/ x \in Through)
    BY <2>1, <2>2, WalkStep
  <2> QED BY <2>3
<1> QED BY <1>2, <1>3

(* One walk after another.                                                 *)
LEMMA NearJoin ==
  ASSUME NEW E, NEW Through, NEW v, NEW x, NEW w, NEW m \in Nat, NEW n \in Nat,
         Near(E, Through, v, x, m), Near(E, Through, x, w, n), x = v \/ x \in Through
  PROVE  Near(E, Through, v, w, m + n)
<1> DEFINE G == {i \in Nat : \A y : Near(E, Through, x, y, i) => Near(E, Through, v, y, m + i)}
<1>1. 0 \in G
  BY NearZero
<1>2. ASSUME NEW i \in Nat, i \in G PROVE i + 1 \in G
  <2>1. SUFFICES ASSUME NEW y, Near(E, Through, x, y, i + 1)
                 PROVE  Near(E, Through, v, y, m + (i + 1))
    OBVIOUS
  <2>2. m + i \in Nat /\ m + (i + 1) = (m + i) + 1
    OBVIOUS
  <2>3. CASE Near(E, Through, x, y, i)
    <3>1. Near(E, Through, v, y, m + i)
      BY <1>2, <2>3
    <3> QED BY <2>2, <3>1, NearNext
  <2>4. ASSUME NEW z, Near(E, Through, x, z, i), <<z, y>> \in E, z = x \/ z \in Through
        PROVE  Near(E, Through, v, y, m + (i + 1))
    <3>1. Near(E, Through, v, z, m + i)
      BY <1>2, <2>4
    <3>2. z = v \/ z \in Through
      BY <2>4
    <3> QED BY <2>2, <2>4, <3>1, <3>2, NearNext
  <2> QED BY <2>1, <2>3, <2>4, NearNext
<1>3. \A i \in Nat : i \in G => i + 1 \in G
  BY <1>2
<1> HIDE DEF G
<1>4. n \in G
  BY <1>1, <1>3, Induction
<1> QED BY <1>4 DEF G

(* In a finite graph a walk that reaches a node can do with fewer edges    *)
(* than there are nodes: each further edge reaches a new node, or none.    *)
LEMMA NearSaturates ==
  ASSUME NEW V, IsFiniteSet(V), NEW E, E \subseteq V \X V, NEW Through, NEW v \in V,
         NEW w, NEW m \in Nat, Near(E, Through, v, w, m)
  PROVE  Cardinality(V) - 1 \in Nat /\ Near(E, Through, v, w, Cardinality(V) - 1)
<1> DEFINE N == Cardinality(V) - 1
           L(i) == {x \in V : Near(E, Through, v, x, i)}
           G == {i \in Nat : Cardinality(L(i)) >= i + 1 \/ L(i + 1) = L(i)}
<1>1. N \in Nat
  <2>1. Cardinality(V) \in Nat /\ Cardinality(V) # 0
    BY FS_CardinalityType, FS_EmptySet
  <2> QED BY <2>1
<1>2. \A i \in Nat : IsFiniteSet(L(i)) /\ Cardinality(L(i)) \in Nat /\ L(i) \subseteq L(i + 1)
  <2> TAKE i \in Nat
  <2>1. L(i) \subseteq V
    OBVIOUS
  <2>2. IsFiniteSet(L(i))
    BY <2>1, FS_Subset
  <2>3. L(i) \subseteq L(i + 1)
    BY NearNext
  <2> HIDE DEF L
  <2> QED BY <2>2, <2>3, FS_CardinalityType
<1>3. ASSUME NEW i \in Nat, L(i + 1) = L(i) PROVE L((i + 1) + 1) = L(i + 1)
  <2>1. ASSUME NEW x \in V, Near(E, Through, v, x, (i + 1) + 1)
        PROVE Near(E, Through, v, x, i + 1)
    <3>1. SUFFICES ASSUME ~ Near(E, Through, v, x, i + 1) PROVE FALSE
      OBVIOUS
    <3>0. i + 1 \in Nat
      OBVIOUS
    <3>2. PICK y : Near(E, Through, v, y, i + 1) /\ <<y, x>> \in E /\ (y = v \/ y \in Through)
      BY <2>1, <3>0, <3>1, NearNext
    <3>3. y \in V
      BY <3>2
    <3>4. Near(E, Through, v, y, i)
      BY <1>3, <3>2, <3>3
    <3> QED BY <3>1, <3>2, <3>4, NearNext
  <2>2. L(i + 1) \subseteq L((i + 1) + 1)
    <3>1. i + 1 \in Nat
      OBVIOUS
    <3> HIDE DEF L
    <3> QED BY <1>2, <3>1
  <2> QED BY <2>1, <2>2
<1>4. 0 \in G
  <2>1. v \in L(0)
    BY NearZero
  <2>2. Cardinality(L(0)) # 0
    <3> HIDE DEF L
    <3> QED BY <2>1, <1>2, FS_EmptySet
  <2> HIDE DEF L
  <2> QED BY <1>2, <2>2
<1>5. ASSUME NEW i \in Nat, i \in G PROVE i + 1 \in G
  <2>1. CASE L(i + 1) = L(i)
    BY <1>3, <2>1
  <2>2. CASE L(i + 1) # L(i) /\ Cardinality(L(i)) >= i + 1
    <3> HIDE DEF L
    <3>1. L(i) \in SUBSET L(i + 1) /\ IsFiniteSet(L(i + 1))
      BY <1>2
    <3>2. Cardinality(L(i)) <= Cardinality(L(i + 1)) /\ Cardinality(L(i + 1)) # Cardinality(L(i))
      BY <2>2, <3>1, FS_Subset
    <3>3. Cardinality(L(i)) \in Nat /\ Cardinality(L(i + 1)) \in Nat
      BY <1>2
    <3> QED BY <2>2, <3>2, <3>3
  <2> HIDE DEF L
  <2> QED BY <1>5, <2>1, <2>2
<1>6. N \in G
  <2> HIDE DEF N, G
  <2>1. \A i \in Nat : i \in G => i + 1 \in G
    BY <1>5
  <2> QED BY <1>1, <1>4, <2>1, Induction
<1>7. L(N + 1) = L(N)
  <2>1. CASE L(N + 1) = L(N)
    BY <2>1
  <2>2. CASE Cardinality(L(N)) >= N + 1
    <3>1. L(N) \in SUBSET V /\ L(N + 1) \in SUBSET V /\ L(N) \subseteq L(N + 1)
      BY <1>1, <1>2
    <3>2. Cardinality(V) \in Nat /\ Cardinality(L(N)) \in Nat
      BY <1>1, <1>2, FS_CardinalityType
    <3> HIDE DEF L
    <3>3. Cardinality(L(N)) <= Cardinality(V) /\ (Cardinality(V) = Cardinality(L(N)) => V = L(N))
      BY <3>1, FS_Subset
    <3>4. V = L(N)
      BY <2>2, <3>2, <3>3
    <3> QED BY <3>1, <3>4
  <2> HIDE DEF L
  <2> QED BY <1>6, <2>1, <2>2
<1> DEFINE H == {i \in Nat : L(N + i) = L(N) /\ L((N + i) + 1) = L(N + i)}
<1>8. \A i \in Nat : i \in H
  <2>1. 0 \in H
    <3>1. N + 0 = N
      BY <1>1
    <3> HIDE DEF L, N
    <3> QED BY <1>7, <3>1
  <2>2. ASSUME NEW i \in Nat, i \in H PROVE i + 1 \in H
    <3> HIDE DEF L, N
    <3>1. N + i \in Nat /\ N + (i + 1) = (N + i) + 1
      BY <1>1
    <3>2. L(N + i) = L(N) /\ L((N + i) + 1) = L(N + i)
      BY <2>2
    <3>3. L(((N + i) + 1) + 1) = L((N + i) + 1)
      BY <1>3, <3>1, <3>2
    <3> QED BY <3>1, <3>2, <3>3
  <2>3. \A i \in Nat : i \in H => i + 1 \in H
    BY <2>2
  <2> HIDE DEF H
  <2> QED BY <2>1, <2>3, Induction
<1>9. w \in V
  BY NearInside
<1>10. CASE m <= N
  BY <1>1, <1>10, NearGrows
<1>11. CASE m > N
  <2>1. m - N \in Nat /\ N + (m - N) = m
    BY <1>1, <1>11
  <2>2. L(m) = L(N)
    <3> HIDE DEF L, N
    <3>1. m - N \in H
      BY <1>8, <2>1
    <3> QED BY <2>1, <3>1
  <2>3. w \in L(m)
    BY <1>9
  <2> QED BY <1>1, <2>2, <2>3
<1> QED BY <1>1, <1>10, <1>11

(* The layers of the breadth-first search.                                 *)
Ring(E, Through, v, B) ==
  B \cup {e[2] : e \in {x \in E : x[1] \in B /\ (x[1] = v \/ x[1] \in Through)}}

BallRow(E, Through, v, b, m) ==
  IF m = 0 THEN << {v} >> ELSE Append(b[m - 1], Ring(E, Through, v, b[m - 1][m]))

Layer(E, V, Through, v, m) == {w \in V : Near(E, Through, v, w, m)}

(* The nodes in reach of m + 1 edges are the next ring of those in reach   *)
(* of m.                                                                   *)
LEMMA LayerStep ==
  ASSUME NEW V, NEW E, E \subseteq V \X V, NEW Through, NEW v \in V
  PROVE  /\ Layer(E, V, Through, v, 0) = {v}
         /\ \A m \in Nat : Layer(E, V, Through, v, m + 1)
                             = Ring(E, Through, v, Layer(E, V, Through, v, m))
<1>1. Layer(E, V, Through, v, 0) = {v}
  BY NearZero DEF Layer
<1>2. ASSUME NEW m \in Nat
      PROVE  Layer(E, V, Through, v, m + 1) = Ring(E, Through, v, Layer(E, V, Through, v, m))
  <2> DEFINE B == Layer(E, V, Through, v, m)
  <2>1. ASSUME NEW w, w \in Layer(E, V, Through, v, m + 1) PROVE w \in Ring(E, Through, v, B)
    <3>1. w \in V /\ Near(E, Through, v, w, m + 1)
      BY <2>1 DEF Layer
    <3>2. CASE Near(E, Through, v, w, m)
      BY <3>1, <3>2 DEF Ring, Layer
    <3>3. ASSUME NEW x, Near(E, Through, v, x, m), <<x, w>> \in E, x = v \/ x \in Through
          PROVE  w \in Ring(E, Through, v, B)
      <4>1. x \in B
        BY <3>3 DEF Layer
      <4> DEFINE e == <<x, w>>
      <4>2. e[1] = x /\ e[2] = w
        OBVIOUS
      <4> HIDE DEF B, e
      <4>3. e \in E
        BY <3>3 DEF e
      <4>4. e \in {y \in E : y[1] \in B /\ (y[1] = v \/ y[1] \in Through)}
        BY <3>3, <4>1, <4>2, <4>3
      <4> QED BY <4>2, <4>4 DEF Ring
    <3> QED BY <3>1, <3>2, <3>3, NearNext
  <2>2. ASSUME NEW w \in Ring(E, Through, v, B) PROVE w \in Layer(E, V, Through, v, m + 1)
    <3>1. CASE w \in B
      BY <3>1, NearNext DEF Layer
    <3>2. CASE w \notin B
      <4>1. PICK e \in E : e[1] \in B /\ (e[1] = v \/ e[1] \in Through) /\ w = e[2]
        BY <3>2 DEF Ring
      <4>2. e = <<e[1], w>> /\ w \in V
        BY <4>1
      <4>3. Near(E, Through, v, e[1], m)
        BY <4>1 DEF Layer
      <4>4. <<e[1], w>> \in E
        BY <4>2
      <4>5. Near(E, Through, v, w, m + 1)
        BY <4>1, <4>3, <4>4, NearNext
      <4> QED BY <4>2, <4>5 DEF Layer
    <3> QED BY <3>1, <3>2
  <2> QED BY <2>1, <2>2
<1> QED BY <1>1, <1>2

(* The balls of the search are these layers.                               *)
LEMMA BallsAre ==
  ASSUME NEW V, IsFiniteSet(V), NEW E, E \subseteq V \X V, NEW Through, NEW v \in V
  PROVE  /\ Cardinality(V) \in Nat
         /\ Balls(E, V, Through, v)
              = [i \in 1 .. Cardinality(V) + 1 |-> Layer(E, V, Through, v, i - 1)]
<1> DEFINE N == Cardinality(V)
           F(b) == [m \in 0 .. N |-> BallRow(E, Through, v, b, m)]
           C == CHOOSE b : b = F(b)
           Row(m) == [i \in 1 .. m + 1 |-> Layer(E, V, Through, v, i - 1)]
           R == [m \in 0 .. N |-> Row(m)]
<1>1. N \in Nat
  BY FS_CardinalityType
<1>2. Row(0) = << {v} >>
  <2>1. \A i \in 1 .. 0 + 1 : Layer(E, V, Through, v, i - 1) = {v}
    BY LayerStep
  <2> QED BY <2>1
<1>3. ASSUME NEW m \in Nat
      PROVE  Append(Row(m), Ring(E, Through, v, Row(m)[m + 1])) = Row(m + 1)
  <2> DEFINE B == Ring(E, Through, v, Row(m)[m + 1])
  <2>1. Row(m)[m + 1] = Layer(E, V, Through, v, m)
    OBVIOUS
  <2>2. B = Layer(E, V, Through, v, m + 1)
    <3> HIDE DEF Row
    <3> QED BY <2>1, LayerStep
  <2>3. Row(m) \in Seq(SUBSET V) /\ Len(Row(m)) = m + 1
    BY DEF Layer
  <2>4. \A i \in 1 .. m + 1 : Row(m)[i] = Layer(E, V, Through, v, i - 1)
    OBVIOUS
  <2> HIDE DEF B
  <2>5. Append(Row(m), B) = [i \in 1 .. (m + 1) + 1 |-> IF i = (m + 1) + 1 THEN B ELSE Row(m)[i]]
    BY <2>3
  <2>6. ((m + 1) + 1) - 1 = m + 1
    OBVIOUS
  <2>7. \A i \in 1 .. (m + 1) + 1 :
          (IF i = (m + 1) + 1 THEN B ELSE Row(m)[i]) = Layer(E, V, Through, v, i - 1)
    BY <2>2, <2>4, <2>6
  <2> QED BY <2>5, <2>7 DEF B
<1>4. R = F(R)
  <2>1. ASSUME NEW m \in 0 .. N PROVE R[m] = BallRow(E, Through, v, R, m)
    <3>1. CASE m = 0
      BY <1>2, <3>1 DEF BallRow
    <3>2. CASE m # 0
      <4>1. m - 1 \in 0 .. N /\ m - 1 \in Nat /\ (m - 1) + 1 = m /\ R[m - 1] = Row(m - 1)
        BY <1>1, <3>2
      <4>2. Append(Row(m - 1), Ring(E, Through, v, Row(m - 1)[m])) = Row(m)
        <5> HIDE DEF Row
        <5> QED BY <1>3, <4>1
      <4>3. R[m] = Row(m)
        OBVIOUS
      <4> HIDE DEF R, Row
      <4> QED BY <3>2, <4>1, <4>2, <4>3 DEF BallRow
    <3> QED BY <3>1, <3>2
  <2> QED BY <2>1
<1>5. C = F(C)
  <2> HIDE DEF F
  <2> QED BY <1>4
<1>6. Balls(E, V, Through, v) = C[N]
  BY DEF Balls, BallRow, Ring
<1>7. \A m \in 0 .. N : C[m] = BallRow(E, Through, v, C, m)
  <2> HIDE DEF C
  <2> QED BY <1>5
<1> DEFINE G == {m \in Nat : m <= N => C[m] = Row(m)}
<1>8. 0 \in G
  <2> HIDE DEF C, Row
  <2> QED BY <1>1, <1>2, <1>7 DEF BallRow
<1>9. ASSUME NEW m \in Nat, m \in G PROVE m + 1 \in G
  <2>1. SUFFICES ASSUME m + 1 <= N PROVE C[m + 1] = Row(m + 1)
    OBVIOUS
  <2>2. m + 1 \in 0 .. N /\ (m + 1) - 1 = m /\ m + 1 # 0
    BY <1>1, <2>1
  <2>3. C[m] = Row(m)
    BY <1>1, <1>9, <2>1
  <2> HIDE DEF C, Row
  <2>4. C[m + 1] = Append(C[m], Ring(E, Through, v, C[m][m + 1]))
    BY <1>7, <2>2 DEF BallRow
  <2> QED BY <1>3, <2>3, <2>4
<1>10. N \in G
  <2> HIDE DEF G
  <2>1. \A m \in Nat : m \in G => m + 1 \in G
    BY <1>9
  <2> QED BY <1>1, <1>8, <2>1, Induction
<1> HIDE DEF C
<1> QED BY <1>1, <1>6, <1>10

(* The hops to a node are the edges of a shortest walk to it.              *)
Shortest(E, Through, v, w, h) ==
  h \in Nat /\ Near(E, Through, v, w, h) /\ \A m \in Nat : Near(E, Through, v, w, m) => h <= m

(* Where a walk leads, a shortest one does,                                *)
LEMMA ShortestExists ==
  ASSUME NEW E, NEW Through, NEW v, NEW w, NEW m \in Nat, Near(E, Through, v, w, m)
  PROVE  \E h \in 0 .. m : Shortest(E, Through, v, w, h)
<1> DEFINE S == {n \in Nat : Near(E, Through, v, w, n)}
<1>1. PICK h \in S : \A n \in S : h <= n
  <2>1. S \in SUBSET Nat /\ S # {}
    OBVIOUS
  <2> HIDE DEF S
  <2> QED BY <2>1, LeastOf
<1> QED BY <1>1 DEF Shortest

(* and all shortest ones are as long.                                      *)
LEMMA ShortestUnique ==
  ASSUME NEW E, NEW Through, NEW v, NEW w, NEW g, NEW h,
         Shortest(E, Through, v, w, g), Shortest(E, Through, v, w, h)
  PROVE  g = h
<1>1. g <= h /\ h <= g /\ g \in Nat /\ h \in Nat
  BY DEF Shortest
<1> QED BY <1>1

(* The search of the model finds the shortest walks, and Inf where there   *)
(* is none.                                                                *)
LEMMA HopsAre ==
  ASSUME NEW V, IsFiniteSet(V), NEW E, E \subseteq V \X V, NEW Through, NEW v \in V, NEW w \in V,
         NEW h, h = HopsThrough(E, V, Through, v)[w]
  PROVE  /\ Cardinality(V) - 1 \in Nat
         /\ \/ h \in 0 .. (Cardinality(V) - 1) /\ Shortest(E, Through, v, w, h)
            \/ h = Inf /\ \A m \in Nat : ~ Near(E, Through, v, w, m)
<1> DEFINE N == Cardinality(V)
           balls == Balls(E, V, Through, v)
           L(i) == Layer(E, V, Through, v, i)
           missed == {i \in 1 .. N + 1 : w \notin L(i - 1)}
<1>1. N \in Nat /\ N - 1 \in Nat
  <2>1. Near(E, Through, v, v, 0)
    BY NearZero
  <2> QED BY <2>1, NearSaturates, FS_CardinalityType
<1>2. balls = [i \in 1 .. N + 1 |-> L(i - 1)]
  BY BallsAre
<1>3. Len(balls) = N + 1 /\ balls[N + 1] = L(N)
  <2> HIDE DEF balls, L
  <2>1. N + 1 \in 1 .. N + 1 /\ (N + 1) - 1 = N
    BY <1>1
  <2>2. DOMAIN balls = 1 .. N + 1 /\ N + 1 \in Nat
    BY <1>1, <1>2
  <2>3. Len(balls) = N + 1
    <3>1. balls = [i \in 1 .. N + 1 |-> balls[i]]
      BY <1>2
    <3> QED BY <2>2, <3>1
  <2> QED BY <1>2, <2>1, <2>3
<1>4. h = IF w \in L(N) THEN Cardinality(missed) ELSE Inf
  <2> HIDE DEF balls, L, N
  <2>1. HopsThrough(E, V, Through, v) =
          [x \in V |-> IF x \in balls[Len(balls)]
                       THEN Cardinality({m \in 1 .. Len(balls) : x \notin balls[m]}) ELSE Inf]
    BY DEF HopsThrough, balls
  <2>2. {m \in 1 .. Len(balls) : w \notin balls[m]} = missed
    BY <1>2, <1>3
  <2> QED BY <1>3, <2>1, <2>2
<1>5. CASE w \in L(N)
  <2>1. Near(E, Through, v, w, N)
    BY <1>5 DEF Layer
  <2>2. Near(E, Through, v, w, N - 1)
    BY <1>1, <2>1, NearSaturates
  <2>3. PICK g \in 0 .. (N - 1) : Shortest(E, Through, v, w, g)
    BY <1>1, <2>2, ShortestExists
  <2>4. missed = 1 .. g
    <3>1. ASSUME NEW i \in 1 .. N + 1 PROVE w \in L(i - 1) <=> g <= i - 1
      <4>1. i - 1 \in Nat /\ g \in Nat
        BY <1>1
      <4>2. g <= i - 1 => Near(E, Through, v, w, i - 1)
        BY <2>3, <4>1, NearGrows DEF Shortest
      <4>3. Near(E, Through, v, w, i - 1) => g <= i - 1
        BY <2>3, <4>1 DEF Shortest
      <4> QED BY <4>2, <4>3 DEF Layer
    <3> HIDE DEF L
    <3>2. \A i \in 1 .. N + 1 : i \in missed <=> i <= g
      BY <1>1, <3>1
    <3> QED BY <1>1, <3>2
  <2>5. Cardinality(missed) = g
    <3>1. g \in Nat
      BY <1>1
    <3> HIDE DEF missed
    <3>2. Cardinality(1 .. g) = IF 1 > g THEN 0 ELSE g - 1 + 1
      BY <3>1, FS_Interval
    <3>3. Cardinality(1 .. g) = g
      BY <3>1, <3>2
    <3> QED BY <2>4, <3>3
  <2> QED BY <1>1, <1>4, <1>5, <2>3, <2>5
<1>6. CASE w \notin L(N)
  <2>1. ASSUME NEW m \in Nat, Near(E, Through, v, w, m) PROVE FALSE
    <3>1. Near(E, Through, v, w, N - 1)
      BY <2>1, NearSaturates
    <3>2. Near(E, Through, v, w, N)
      BY <1>1, <3>1, NearGrows
    <3> QED BY <1>6, <3>2 DEF Layer
  <2> QED BY <1>1, <1>4, <1>6, <2>1
<1> QED BY <1>5, <1>6

(* The same, with the hops told from Inf.                                  *)
LEMMA HopsType ==
  ASSUME NEW V, IsFiniteSet(V), Cardinality(V) <= Inf, NEW E, E \subseteq V \X V, NEW Through,
         NEW v \in V, NEW w \in V
  PROVE  LET h == HopsThrough(E, V, Through, v)[w]
         IN  /\ h \in Nat /\ (h = Inf \/ h < Cardinality(V)) /\ (h # Inf => h < Inf)
             /\ h # Inf => Shortest(E, Through, v, w, h)
             /\ h = Inf => \A m \in Nat : ~ Near(E, Through, v, w, m)
<1> DEFINE h == HopsThrough(E, V, Through, v)[w]
<1> HIDE DEF h
<1>1. /\ Cardinality(V) - 1 \in Nat
      /\ \/ h \in 0 .. (Cardinality(V) - 1) /\ Shortest(E, Through, v, w, h)
         \/ h = Inf /\ \A m \in Nat : ~ Near(E, Through, v, w, m)
  BY HopsAre DEF h
<1>2. Cardinality(V) \in Nat
  BY FS_CardinalityType
<1> QED BY <1>1, <1>2 DEF h, Inf

(* Nodes outside the graph do not matter to go through.                    *)
LEMMA NearThroughSame ==
  ASSUME NEW V, NEW E, E \subseteq V \X V, NEW A, NEW B, A \cap V = B \cap V, NEW v \in V,
         NEW w, NEW m \in Nat, Near(E, A, v, w, m)
  PROVE  Near(E, B, v, w, m)
<1>1. PICK n \in 0 .. m : Walk(E, A, v, w, n)
  BY DEF Near
<1>2. Walk(E, B, v, w, n)
  <2>1. PICK p : /\ p = [i \in 0 .. n |-> p[i]]
                 /\ p[0] = v /\ p[n] = w
                 /\ \A i \in 1 .. n : /\ <<p[i - 1], p[i]>> \in E
                                      /\ p[i - 1] = v \/ p[i - 1] \in A
    BY <1>1 DEF Walk
  <2>2. \A i \in 1 .. n : p[i - 1] \in V
    BY <2>1
  <2>3. \A i \in 1 .. n : p[i - 1] = v \/ p[i - 1] \in B
    BY <2>1, <2>2
  <2> QED BY <2>1, <2>3 DEF Walk
<1> QED BY <1>1, <1>2 DEF Near

(* A walk that may go through one more node goes there at most once.       *)
LEMMA NearThroughOne ==
  ASSUME NEW E, NEW A, NEW c, NEW v, NEW w, NEW n \in Nat, Near(E, A \cup {c}, v, w, n)
  PROVE  \/ Near(E, A, v, w, n)
         \/ \E a, b \in Nat : a + b <= n /\ Near(E, A, v, c, a) /\ Near(E, A, c, w, b)
<1> DEFINE Split(y, i) ==
             \/ Near(E, A, v, y, i)
             \/ \E a, b \in Nat : a + b <= i /\ Near(E, A, v, c, a) /\ Near(E, A, c, y, b)
           G == {i \in Nat : \A y : Near(E, A \cup {c}, v, y, i) => Split(y, i)}
<1>1. 0 \in G
  <2>1. \A y : Near(E, A \cup {c}, v, y, 0) => Near(E, A, v, y, 0)
    BY NearZero
  <2> QED BY <2>1
<1>2. ASSUME NEW i \in Nat, i \in G, NEW y, Near(E, A \cup {c}, v, y, i + 1)
      PROVE  Split(y, i + 1)
  <2>1. ASSUME NEW x, Split(x, i), x = v \/ x \in A \cup {c}, <<x, y>> \in E
        PROVE  Split(y, i + 1)
    <3>1. CASE Near(E, A, v, x, i) /\ (x = v \/ x \in A)
      BY <2>1, <3>1, NearNext
    <3>2. CASE Near(E, A, v, x, i) /\ x = c
      <4>1. Near(E, A, c, y, 0 + 1)
        <5>1. Near(E, A, c, c, 0)
          BY NearZero
        <5> QED BY <2>1, <3>2, <5>1, NearNext
      <4>2. i + (0 + 1) <= i + 1
        OBVIOUS
      <4> QED BY <3>2, <4>1, <4>2
    <3>3. CASE ~ Near(E, A, v, x, i)
      <4>1. PICK a \in Nat : \E b \in Nat : a + b <= i /\ Near(E, A, v, c, a)
                /\ Near(E, A, c, x, b)
        BY <2>1, <3>3
      <4>2. PICK b \in Nat : a + b <= i /\ Near(E, A, v, c, a) /\ Near(E, A, c, x, b)
        BY <4>1
      <4>3. CASE x = c \/ x \in A
        <5>1. Near(E, A, c, y, b + 1)
          BY <2>1, <4>2, <4>3, NearNext
        <5>2. b + 1 \in Nat /\ a + (b + 1) <= i + 1
          BY <4>2
        <5> QED BY <4>2, <5>1, <5>2
      <4>4. CASE x = v
        <5>1. Near(E, A, v, v, i)
          <6>1. Near(E, A, v, v, 0)
            BY NearZero
          <6> QED BY <6>1, NearGrows
        <5> QED BY <3>3, <4>4, <5>1
      <4> QED BY <2>1, <4>3, <4>4
    <3> QED BY <2>1, <3>1, <3>2, <3>3
  <2>2. CASE Near(E, A \cup {c}, v, y, i)
    <3>1. Split(y, i)
      BY <1>2, <2>2
    <3>2. CASE Near(E, A, v, y, i)
      BY <3>2, NearNext
    <3>3. CASE \E a, b \in Nat : a + b <= i /\ Near(E, A, v, c, a) /\ Near(E, A, c, y, b)
      <4>1. \A a, b \in Nat : a + b <= i => a + b <= i + 1
        OBVIOUS
      <4> QED BY <3>3, <4>1
    <3> QED BY <3>1, <3>2, <3>3
  <2>3. CASE ~ Near(E, A \cup {c}, v, y, i)
    <3>1. PICK x : /\ Near(E, A \cup {c}, v, x, i)
                   /\ <<x, y>> \in E /\ (x = v \/ x \in A \cup {c})
      <4> HIDE DEF Split
      <4> QED BY <1>2, <2>3, NearNext
    <3>2. Split(x, i)
      BY <1>2, <3>1
    <3> HIDE DEF Split
    <3> QED BY <2>1, <3>1, <3>2
  <2> QED BY <2>2, <2>3
<1>3. \A i \in Nat : i \in G => i + 1 \in G
  <2> HIDE DEF Split
  <2> QED BY <1>2
<1> HIDE DEF G
<1>4. n \in G
  BY <1>1, <1>3, Induction
<1> QED BY <1>4 DEF G

(* Without inner nodes there are only edges.                               *)
LEMMA NearEdge ==
  ASSUME NEW E, NEW v, NEW w
  PROVE  /\ Near(E, {}, v, w, 1) <=> v = w \/ <<v, w>> \in E
         /\ \A m \in Nat : Near(E, {}, v, w, m) => Near(E, {}, v, w, 1)
<1>1. ASSUME NEW y PROVE Near(E, {}, v, y, 1) <=> v = y \/ <<v, y>> \in E
  <2>1. Near(E, {}, v, y, 0 + 1)
          <=> \/ Near(E, {}, v, y, 0)
              \/ \E x : Near(E, {}, v, x, 0) /\ <<x, y>> \in E /\ (x = v \/ x \in {})
    BY NearNext
  <2>2. (\E x : Near(E, {}, v, x, 0) /\ <<x, y>> \in E /\ (x = v \/ x \in {}))
          <=> <<v, y>> \in E
    BY NearZero
  <2>3. 0 + 1 = 1
    OBVIOUS
  <2> QED BY <2>1, <2>2, <2>3, NearZero
<1> DEFINE G == {i \in Nat : \A y : Near(E, {}, v, y, i) => Near(E, {}, v, y, 1)}
<1>2. 0 \in G
  <2>1. ASSUME NEW y, Near(E, {}, v, y, 0) PROVE Near(E, {}, v, y, 1)
    <3>1. v = y
      BY <2>1, NearZero
    <3> QED BY <1>1, <3>1
  <2> QED BY <2>1
<1>3. ASSUME NEW i \in Nat, i \in G PROVE i + 1 \in G
  <2>1. SUFFICES ASSUME NEW y, Near(E, {}, v, y, i + 1) PROVE Near(E, {}, v, y, 1)
    OBVIOUS
  <2>2. CASE Near(E, {}, v, y, i)
    BY <1>3, <2>2
  <2>3. CASE ~ Near(E, {}, v, y, i)
    <3>1. PICK x : Near(E, {}, v, x, i) /\ <<x, y>> \in E /\ (x = v \/ x \in {})
      BY SMTT(30), <2>1, <2>3, NearNext
    <3>2. <<v, y>> \in E
      BY <3>1
    <3> QED BY <1>1, <3>2
  <2> QED BY <2>2, <2>3
<1>4. \A i \in Nat : i \in G => i + 1 \in G
  BY <1>3
<1> HIDE DEF G
<1>5. \A i \in Nat : i \in G
  BY <1>2, <1>4, Induction
<1> QED BY <1>1, <1>5 DEF G

(* A walk of an undirected graph can be walked back.                       *)
LEMMA NearBack ==
  ASSUME NEW V, NEW E, E \subseteq V \X V, \A e \in E : <<e[2], e[1]>> \in E,
         NEW A, V \subseteq A, NEW v \in V, NEW w, NEW m \in Nat, Near(E, A, v, w, m)
  PROVE  Near(E, A, w, v, m)
<1> DEFINE G == {i \in Nat : \A y : Near(E, A, v, y, i) => Near(E, A, y, v, i)}
<1>1. 0 \in G
  BY NearZero
<1>2. ASSUME NEW i \in Nat, i \in G PROVE i + 1 \in G
  <2>1. SUFFICES ASSUME NEW y, Near(E, A, v, y, i + 1) PROVE Near(E, A, y, v, i + 1)
    OBVIOUS
  <2>2. CASE Near(E, A, v, y, i)
    BY <1>2, <2>2, NearNext
  <2>3. ASSUME NEW x, Near(E, A, v, x, i), <<x, y>> \in E PROVE Near(E, A, y, v, i + 1)
    <3>1. Near(E, A, x, v, i)
      BY <1>2, <2>3
    <3>2. <<y, x>> \in E /\ x \in A
      BY <2>3
    <3>3. Near(E, A, y, x, 0 + 1)
      <4>1. Near(E, A, y, y, 0)
        BY NearZero
      <4> QED BY <3>2, <4>1, NearNext
    <3>4. Near(E, A, y, v, (0 + 1) + i)
      BY <3>1, <3>2, <3>3, NearJoin
    <3>5. (0 + 1) + i = i + 1
      OBVIOUS
    <3> QED BY <3>4, <3>5
  <2> QED BY <2>1, <2>2, <2>3, NearNext
<1>3. \A i \in Nat : i \in G => i + 1 \in G
  BY <1>2
<1> HIDE DEF G
<1>4. m \in G
  BY <1>1, <1>3, Induction
<1> QED BY <1>4 DEF G
-----------------------------------------------------------------------------
(* The Floyd-Warshall loop.                                                *)

(* What is as long as a shortest walk is what the search finds.            *)
LEMMA HopsOf ==
  ASSUME NEW V, IsFiniteSet(V), Cardinality(V) <= Inf, NEW E, E \subseteq V \X V, NEW Through,
         NEW v \in V, NEW w \in V, NEW h,
         \/ Shortest(E, Through, v, w, h)
         \/ h = Inf /\ \A m \in Nat : ~ Near(E, Through, v, w, m)
  PROVE  HopsThrough(E, V, Through, v)[w] = h
<1> DEFINE g == HopsThrough(E, V, Through, v)[w]
<1>1. /\ g \in Nat /\ (g # Inf => Shortest(E, Through, v, w, g))
      /\ g = Inf => \A m \in Nat : ~ Near(E, Through, v, w, m)
  BY HopsType
<1> HIDE DEF g
<1>2. CASE Shortest(E, Through, v, w, h)
  <2>1. h \in Nat /\ Near(E, Through, v, w, h)
    BY <1>2 DEF Shortest
  <2>2. g # Inf
    BY <1>1, <2>1
  <2> QED BY <1>1, <1>2, <2>2, ShortestUnique DEF g
<1>3. CASE h = Inf /\ \A m \in Nat : ~ Near(E, Through, v, w, m)
  <2>1. ~ Shortest(E, Through, v, w, g)
    BY <1>3 DEF Shortest
  <2> QED BY <1>1, <1>3, <2>1 DEF g
<1> QED BY <1>2, <1>3

(* What the loop holds before pivot m.                                     *)
Exact(E, N, V, m) ==
  [p \in N \X N |-> IF p[1] \in V /\ p[2] \in V
                    THEN HopsThrough(E, V, 0 .. (m - 1), p[1])[p[2]] ELSE Inf]

(* Before the first pivot it holds the edges.                              *)
LEMMA ExactStart ==
  ASSUME NEW V, IsFiniteSet(V), Cardinality(V) <= Inf, NEW E, E \subseteq V \X V, NEW N
  PROVE  FloydStart(E, N, V) = Exact(E, N, V, 0)
<1>1. ASSUME NEW v \in V, NEW w \in V
      PROVE  HopsThrough(E, V, 0 .. (0 - 1), v)[w]
               = IF v = w THEN 0 ELSE IF <<v, w>> \in E THEN 1 ELSE Inf
  <2>0. 0 .. (0 - 1) = {}
    OBVIOUS
  <2>1. CASE v = w
    <3>1. Shortest(E, {}, v, w, 0)
      BY <2>1, NearZero DEF Shortest
    <3> QED BY <2>0, <2>1, <3>1, HopsOf
  <2>2. CASE v # w /\ <<v, w>> \in E
    <3>1. Near(E, {}, v, w, 1) /\ ~ Near(E, {}, v, w, 0)
      BY <2>2, NearEdge, NearZero
    <3>2. Shortest(E, {}, v, w, 1)
      <4>1. ASSUME NEW m \in Nat, Near(E, {}, v, w, m) PROVE 1 <= m
        <5>1. m # 0
          BY <3>1, <4>1
        <5> QED BY <5>1
      <4> QED BY <3>1, <4>1 DEF Shortest
    <3> QED BY <2>0, <2>2, <3>2, HopsOf
  <2>3. CASE v # w /\ <<v, w>> \notin E
    <3>1. \A m \in Nat : ~ Near(E, {}, v, w, m)
      BY <2>3, NearEdge
    <3> QED BY <2>0, <2>3, <3>1, HopsOf
  <2> QED BY <2>1, <2>2, <2>3
<1> DEFINE Begin(p) == IF ~ (p[1] \in V /\ p[2] \in V) THEN Inf
                       ELSE IF p[1] = p[2] THEN 0 ELSE IF p \in E THEN 1 ELSE Inf
           End(p) == IF p[1] \in V /\ p[2] \in V
                     THEN HopsThrough(E, V, 0 .. (0 - 1), p[1])[p[2]] ELSE Inf
<1>2. ASSUME NEW p \in N \X N PROVE Begin(p) = End(p)
  <2>1. p = <<p[1], p[2]>>
    OBVIOUS
  <2>2. CASE p[1] \in V /\ p[2] \in V
    BY <1>1, <2>1, <2>2
  <2>3. CASE ~ (p[1] \in V /\ p[2] \in V)
    BY <2>3
  <2> QED BY <2>2, <2>3
<1>3. FloydStart(E, N, V) = [p \in N \X N |-> Begin(p)]
  BY DEF FloydStart
<1>4. Exact(E, N, V, 0) = [p \in N \X N |-> End(p)]
  BY DEF Exact
<1> HIDE DEF Begin, End
<1> QED BY <1>2, <1>3, <1>4

(* The arithmetic of one pivot.                                            *)
LEMMA PivotHops ==
  ASSUME NEW V, IsFiniteSet(V), Cardinality(V) <= Inf, NEW E, E \subseteq V \X V, NEW A,
         NEW c \in V, NEW v \in V, NEW w \in V
  PROVE  LET a == HopsThrough(E, V, A, v)[c]
             b == HopsThrough(E, V, A, c)[w]
             d == HopsThrough(E, V, A, v)[w]
         IN  HopsThrough(E, V, A \cup {c}, v)[w]
               = IF a # Inf /\ b # Inf /\ a + b < d THEN a + b ELSE d
<1> DEFINE a == HopsThrough(E, V, A, v)[c]
           b == HopsThrough(E, V, A, c)[w]
           d == HopsThrough(E, V, A, v)[w]
           h == HopsThrough(E, V, A \cup {c}, v)[w]
           r == IF a # Inf /\ b # Inf /\ a + b < d THEN a + b ELSE d
<1> SUFFICES h = r
  OBVIOUS
<1>0. Inf \in Nat
  BY DEF Inf
<1>1. /\ a \in Nat /\ (a # Inf => Shortest(E, A, v, c, a))
      /\ a = Inf => \A m \in Nat : ~ Near(E, A, v, c, m)
  BY HopsType
<1>2. /\ b \in Nat /\ (b # Inf => Shortest(E, A, c, w, b))
      /\ b = Inf => \A m \in Nat : ~ Near(E, A, c, w, m)
  BY HopsType
<1>3. /\ d \in Nat /\ (d # Inf => d < Inf /\ Shortest(E, A, v, w, d))
      /\ d = Inf => \A m \in Nat : ~ Near(E, A, v, w, m)
  BY HopsType
<1>4. /\ h \in Nat /\ (h # Inf => h < Inf /\ Shortest(E, A \cup {c}, v, w, h))
      /\ h = Inf => \A m \in Nat : ~ Near(E, A \cup {c}, v, w, m)
  BY HopsType
<1> HIDE DEF a, b, d, h
<1>5. A \subseteq A \cup {c}
  OBVIOUS
<1>6. ASSUME a # Inf, b # Inf PROVE Near(E, A \cup {c}, v, w, a + b)
  <2>1. Near(E, A, v, c, a) /\ Near(E, A, c, w, b)
    BY <1>1, <1>2, <1>6 DEF Shortest
  <2>2. Near(E, A \cup {c}, v, c, a) /\ Near(E, A \cup {c}, c, w, b)
    BY <1>1, <1>2, <1>5, <2>1, NearGrows
  <2>3. c \in A \cup {c}
    OBVIOUS
  <2> QED BY <1>1, <1>2, <2>2, <2>3, NearJoin
<1>7. ASSUME d # Inf PROVE Near(E, A \cup {c}, v, w, d)
  <2>1. Near(E, A, v, w, d)
    BY <1>3, <1>7 DEF Shortest
  <2> QED BY <1>3, <1>5, <2>1, NearGrows
<1>8. CASE h = Inf
  <2>1. d = Inf
    BY <1>3, <1>4, <1>7, <1>8
  <2>2. ~ (a # Inf /\ b # Inf)
    <3>1. a + b \in Nat
      BY <1>1, <1>2
    <3> QED BY <1>4, <1>6, <1>8, <3>1
  <2> QED BY <1>8, <2>1, <2>2
<1>9. CASE h # Inf
  <2>1. Near(E, A \cup {c}, v, w, h)
    BY <1>4, <1>9 DEF Shortest
  <2>2. d # Inf => h <= d
    BY <1>3, <1>4, <1>7, <1>9 DEF Shortest
  <2>3. a # Inf /\ b # Inf => h <= a + b
    <3>1. a + b \in Nat
      BY <1>1, <1>2
    <3> QED BY <1>4, <1>6, <1>9, <3>1 DEF Shortest
  <2>4. CASE Near(E, A, v, w, h)
    <3>1. d # Inf /\ d <= h
      BY <1>3, <1>4, <2>4 DEF Shortest
    <3> QED BY <1>1, <1>2, <1>3, <1>4, <2>2, <2>3, <3>1
  <2>5. CASE ~ Near(E, A, v, w, h)
    <3>1. \E i, j \in Nat : i + j <= h /\ Near(E, A, v, c, i) /\ Near(E, A, c, w, j)
      BY <1>4, <2>1, <2>5, NearThroughOne
    <3>2. PICK i \in Nat : \E j \in Nat : i + j <= h /\ Near(E, A, v, c, i) /\ Near(E, A, c, w, j)
      BY <3>1
    <3>3. PICK j \in Nat : i + j <= h /\ Near(E, A, v, c, i) /\ Near(E, A, c, w, j)
      BY <3>2
    <3>4. a # Inf /\ a <= i /\ b # Inf /\ b <= j
      BY <1>1, <1>2, <3>3 DEF Shortest
    <3>5. a + b <= h
      BY <1>1, <1>2, <1>4, <3>3, <3>4
    <3>6. a + b = h
      BY <1>1, <1>2, <1>4, <2>3, <3>4, <3>5
    <3>7. d # h
      <4>1. d # Inf => Near(E, A, v, w, d)
        BY <1>3 DEF Shortest
      <4> QED BY <1>9, <2>5, <4>1
    <3>8. h < d
      BY <1>0, <1>3, <1>4, <1>9, <2>2, <3>7
    <3> QED BY <3>4, <3>6, <3>8
  <2> QED BY <2>4, <2>5
<1> QED BY <1>8, <1>9
(* A node outside the graph is no pivot.                                   *)
LEMMA HopsSame ==
  ASSUME NEW V, IsFiniteSet(V), Cardinality(V) <= Inf, NEW E, E \subseteq V \X V,
         NEW A, NEW B, A \cap V = B \cap V, NEW v \in V, NEW w \in V
  PROVE  HopsThrough(E, V, A, v)[w] = HopsThrough(E, V, B, v)[w]
<1> DEFINE g == HopsThrough(E, V, A, v)[w]
<1>1. /\ g \in Nat /\ (g # Inf => Shortest(E, A, v, w, g))
      /\ g = Inf => \A m \in Nat : ~ Near(E, A, v, w, m)
  BY HopsType
<1> HIDE DEF g
<1>2. \A m \in Nat : Near(E, A, v, w, m) <=> Near(E, B, v, w, m)
  BY NearThroughSame
<1>3. \/ Shortest(E, B, v, w, g)
      \/ g = Inf /\ \A m \in Nat : ~ Near(E, B, v, w, m)
  BY <1>1, <1>2 DEF Shortest
<1>4. HopsThrough(E, V, B, v)[w] = g
  <2>1. CASE Shortest(E, B, v, w, g)
    BY <2>1, HopsOf
  <2>2. CASE g = Inf /\ \A m \in Nat : ~ Near(E, B, v, w, m)
    BY <2>2, HopsOf
  <2> QED BY <1>3, <2>1, <2>2
<1> QED BY <1>4 DEF g

(* One pivot takes the loop from what it holds to what it holds next.      *)
LEMMA ExactStep ==
  ASSUME NEW V, IsFiniteSet(V), Cardinality(V) <= Inf, NEW E, E \subseteq V \X V,
         NEW N, NEW m \in Nat, m \in N
  PROVE  FloydPivot(Exact(E, N, V, m), m) = Exact(E, N, V, m + 1)
<1> DEFINE X == Exact(E, N, V, m)
           Here(p) == IF p[1] \in V /\ p[2] \in V
                      THEN HopsThrough(E, V, 0 .. (m - 1), p[1])[p[2]] ELSE Inf
           Then(p) == IF p[1] \in V /\ p[2] \in V
                      THEN HopsThrough(E, V, 0 .. ((m + 1) - 1), p[1])[p[2]] ELSE Inf
           Pivot(a, b, d) == IF a # Inf /\ b # Inf /\ a + b < d THEN a + b ELSE d
<1>1. X = [p \in N \X N |-> Here(p)]
  BY DEF Exact
<1>2. Exact(E, N, V, m + 1) = [p \in N \X N |-> Then(p)]
  BY DEF Exact
<1>3. FloydPivot(X, m) = [p \in N \X N |-> Pivot(X[<<p[1], m>>], X[<<m, p[2]>>], X[p])]
  <2> HIDE DEF X, Here
  <2>1. DOMAIN X = N \X N
    BY <1>1
  <2> QED BY <2>1 DEF FloydPivot
<1>4. 0 .. ((m + 1) - 1) = (0 .. (m - 1)) \cup {m}
  OBVIOUS
<1>5. ASSUME NEW v \in N, NEW w \in N
      PROVE  Pivot(X[<<v, m>>], X[<<m, w>>], X[<<v, w>>]) = Then(<<v, w>>)
  <2> DEFINE a == X[<<v, m>>]
             b == X[<<m, w>>]
             d == X[<<v, w>>]
  <2>1. a = Here(<<v, m>>) /\ b = Here(<<m, w>>) /\ d = Here(<<v, w>>)
    <3> HIDE DEF X, Here
    <3>1. <<v, m>> \in N \X N /\ <<m, w>> \in N \X N /\ <<v, w>> \in N \X N
      OBVIOUS
    <3> QED BY <1>1, <3>1
  <2> HIDE DEF X
  <2>2. CASE v \in V /\ w \in V /\ m \in V
    <3>1. /\ a = HopsThrough(E, V, 0 .. (m - 1), v)[m]
          /\ b = HopsThrough(E, V, 0 .. (m - 1), m)[w]
          /\ d = HopsThrough(E, V, 0 .. (m - 1), v)[w]
      BY <2>1, <2>2
    <3> HIDE DEF a, b, d
    <3> DEFINE A == 0 .. (m - 1)
    <3>0. /\ a = HopsThrough(E, V, A, v)[m] /\ b = HopsThrough(E, V, A, m)[w]
          /\ d = HopsThrough(E, V, A, v)[w]
      BY <3>1
    <3> HIDE DEF A
    <3>8. HopsThrough(E, V, A \cup {m}, v)[w]
            = IF a # Inf /\ b # Inf /\ a + b < d THEN a + b ELSE d
      <4>1. m \in V /\ v \in V /\ w \in V
        BY <2>2
      <4> HIDE DEF Pivot, Then, Here
      <4>2. LET x == HopsThrough(E, V, A, v)[m]
                y == HopsThrough(E, V, A, m)[w]
                z == HopsThrough(E, V, A, v)[w]
            IN  HopsThrough(E, V, A \cup {m}, v)[w]
                  = IF x # Inf /\ y # Inf /\ x + y < z THEN x + y ELSE z
        BY <4>1, PivotHops
      <4> QED BY <3>0, <4>2
    <3>5. HopsThrough(E, V, A \cup {m}, v)[w] = Pivot(a, b, d)
      BY <3>8
    <3>2. HopsThrough(E, V, (0 .. (m - 1)) \cup {m}, v)[w] = Pivot(a, b, d)
      BY <3>5 DEF A
    <3>3. Then(<<v, w>>) = HopsThrough(E, V, (0 .. (m - 1)) \cup {m}, v)[w]
      BY <2>2, <1>4
    <3> QED BY <3>2, <3>3 DEF a, b, d
  <2>3. CASE v \in V /\ w \in V /\ m \notin V
    <3>1. a = Inf /\ d = HopsThrough(E, V, 0 .. (m - 1), v)[w]
      BY <2>1, <2>3
    <3>2. (0 .. (m - 1)) \cap V = (0 .. ((m + 1) - 1)) \cap V
      BY <1>4, <2>3
    <3> DEFINE A == 0 .. (m - 1)
               B == 0 .. ((m + 1) - 1)
    <3>6. A \cap V = B \cap V
      BY <3>2
    <3> HIDE DEF A, B
    <3>7. HopsThrough(E, V, A, v)[w] = HopsThrough(E, V, B, v)[w]
      BY <2>3, <3>6, HopsSame
    <3>3. HopsThrough(E, V, 0 .. (m - 1), v)[w] = HopsThrough(E, V, 0 .. ((m + 1) - 1), v)[w]
      BY <3>7 DEF A, B
    <3>4. Then(<<v, w>>) = HopsThrough(E, V, 0 .. ((m + 1) - 1), v)[w]
      BY <2>3
    <3> HIDE DEF a, b, d, Then
    <3>5. Pivot(a, b, d) = d
      BY <3>1
    <3> QED BY <3>1, <3>3, <3>4, <3>5 DEF a, b, d
  <2>4. CASE ~ (v \in V /\ w \in V)
    <3>1. Then(<<v, w>>) = Inf /\ d = Inf /\ (a = Inf \/ b = Inf)
      BY <2>1, <2>4
    <3> HIDE DEF a, b, d, Then
    <3>2. Pivot(a, b, d) = d
      BY <3>1
    <3> QED BY <3>1, <3>2 DEF a, b, d
  <2> QED BY <2>2, <2>3, <2>4
<1>6. \A p \in N \X N : Pivot(X[<<p[1], m>>], X[<<m, p[2]>>], X[p]) = Then(p)
  <2> HIDE DEF X, Then, Pivot
  <2>1. \A p \in N \X N : p = <<p[1], p[2]>> /\ p[1] \in N /\ p[2] \in N
    OBVIOUS
  <2> TAKE p \in N \X N
  <2>2. p = <<p[1], p[2]>> /\ p[1] \in N /\ p[2] \in N
    BY <2>1
  <2>3. Pivot(X[<<p[1], m>>], X[<<m, p[2]>>], X[<<p[1], p[2]>>]) = Then(<<p[1], p[2]>>)
    BY <1>5, <2>2
  <2> QED BY <2>2, <2>3
<1> HIDE DEF X, Then, Pivot
<1> QED BY <1>2, <1>3, <1>6 DEF X

(* So the recomputed distances are those the loop ends with.               *)
LEMMA RecomputedIs ==
  ASSUME NEW V, IsFiniteSet(V), Cardinality(V) <= Inf, NEW E, E \subseteq V \X V,
         NEW n \in Nat, NEW N, N = 0 .. (n - 1)
  PROVE  Recomputed(E, N, V) = Exact(E, N, V, n)
<1> DEFINE Row(f, m) == IF m = 0 THEN FloydStart(E, N, V)
                        ELSE CHOOSE d \in {FloydPivot(e, m - 1) : e \in {f[m - 1]}} : TRUE
           F(f) == [m \in 0 .. n |-> Row(f, m)]
           C == CHOOSE f : f = F(f)
           R == [m \in 0 .. n |-> Exact(E, N, V, m)]
<1>1. Cardinality(N) = n
  <2>1. Cardinality(0 .. (n - 1)) = IF 0 > n - 1 THEN 0 ELSE (n - 1) - 0 + 1
    BY FS_Interval
  <2> QED BY <2>1
<1>2. Recomputed(E, N, V) = C[n]
  BY <1>1 DEF Recomputed
<1>3. ASSUME NEW f, NEW m \in 0 .. n, m # 0 PROVE Row(f, m) = FloydPivot(f[m - 1], m - 1)
  <2> DEFINE x == FloydPivot(f[m - 1], m - 1)
  <2>1. {FloydPivot(e, m - 1) : e \in {f[m - 1]}} = {x}
    OBVIOUS
  <2> HIDE DEF x
  <2>2. Row(f, m) = CHOOSE d \in {x} : TRUE
    BY <1>3, <2>1
  <2> HIDE DEF Row
  <2> QED BY <2>2 DEF x
<1>4. R = F(R)
  <2>1. ASSUME NEW m \in 0 .. n PROVE R[m] = Row(R, m)
    <3>0. R[m] = Exact(E, N, V, m)
      OBVIOUS
    <3>1. CASE m = 0
      <4>1. Row(R, m) = FloydStart(E, N, V)
        BY <3>1
      <4> HIDE DEF R, Row
      <4> QED BY <3>0, <3>1, <4>1, ExactStart
    <3>2. CASE m # 0
      <4>1. m - 1 \in 0 .. n /\ m - 1 \in Nat /\ (m - 1) + 1 = m /\ m - 1 \in N
        BY <3>2
      <4>2. R[m - 1] = Exact(E, N, V, m - 1)
        BY <4>1
      <4> HIDE DEF R, Row
      <4>3. FloydPivot(Exact(E, N, V, m - 1), m - 1) = Exact(E, N, V, (m - 1) + 1)
        BY <4>1, ExactStep
      <4> QED BY <1>3, <3>0, <3>2, <4>1, <4>2, <4>3
    <3> QED BY <3>1, <3>2
  <2> HIDE DEF Row
  <2> QED BY <2>1
<1>5. C = F(C)
  <2> HIDE DEF F
  <2> QED BY <1>4
<1>6. \A m \in 0 .. n : C[m] = Row(C, m)
  <2> HIDE DEF C, Row
  <2> QED BY <1>5
<1> DEFINE G == {m \in Nat : m <= n => C[m] = Exact(E, N, V, m)}
<1>7. 0 \in G
  <2>1. Row(C, 0) = FloydStart(E, N, V)
    OBVIOUS
  <2>2. 0 \in 0 .. n
    OBVIOUS
  <2> HIDE DEF C, Row
  <2> QED BY <1>6, <2>1, <2>2, ExactStart
<1>8. ASSUME NEW m \in Nat, m \in G PROVE m + 1 \in G
  <2>1. SUFFICES ASSUME m + 1 <= n PROVE C[m + 1] = Exact(E, N, V, m + 1)
    OBVIOUS
  <2>2. m + 1 \in 0 .. n /\ (m + 1) - 1 = m /\ m + 1 # 0 /\ m \in N
    BY <2>1
  <2>3. C[m] = Exact(E, N, V, m)
    BY <1>8, <2>1
  <2> HIDE DEF C, Row
  <2>4. C[m + 1] = FloydPivot(C[m], m)
    BY <1>3, <1>6, <2>2
  <2> QED BY <2>2, <2>3, <2>4, ExactStep
<1>9. n \in G
  <2> HIDE DEF G
  <2>1. \A m \in Nat : m \in G => m + 1 \in G
    BY <1>8
  <2> QED BY <1>7, <2>1, Induction
<1> HIDE DEF C
<1> QED BY <1>2, <1>9
-----------------------------------------------------------------------------
(* Root-first trees.                                                       *)

Tree(p, n) == n \in Nat \ {0} /\ p \in [0 .. (n - 1) -> Int] /\ RootFirst(p)

(* The parents of a root-first tree are lower joints.                      *)
LEMMA TreeFacts ==
  ASSUME NEW p, NEW n, Tree(p, n)
  PROVE  /\ Joints(p) = 0 .. (n - 1) /\ 0 \in Joints(p) /\ p[0] = -1
         /\ IsFiniteSet(Joints(p)) /\ Cardinality(Joints(p)) = n
         /\ \A i \in Joints(p) : i \in Nat /\ p[i] \in Int
         /\ \A i \in Joints(p) : i # 0 => p[i] \in Joints(p) /\ p[i] < i /\ p[i] >= 0
         /\ \A i \in Joints(p) : p[i] \in Joints(p) => i # 0
         /\ \A i, j \in Joints(p) : i \in Children(p, j) => j < i /\ i # 0
<1>1. Joints(p) = 0 .. (n - 1) /\ 0 \in Joints(p) /\ p[0] = -1
  BY DEF Tree, Joints, RootFirst
<1>2. IsFiniteSet(Joints(p)) /\ Cardinality(Joints(p)) = n
  <2>0. n \in Nat /\ n > 0
    BY DEF Tree
  <2>1. Cardinality(0 .. (n - 1)) = IF 0 > n - 1 THEN 0 ELSE (n - 1) - 0 + 1
    BY <2>0, FS_Interval
  <2>2. IsFiniteSet(0 .. (n - 1))
    BY <2>0, FS_Interval
  <2>3. Cardinality(0 .. (n - 1)) = n
    BY <2>0, <2>1
  <2> QED BY <1>1, <2>2, <2>3
<1>3. \A i \in Joints(p) : i \in Nat /\ p[i] \in Int
  BY <1>1 DEF Tree
<1>4. \A i \in Joints(p) : i # 0 => p[i] \in Joints(p) /\ p[i] < i /\ p[i] >= 0
  <2> TAKE i \in Joints(p)
  <2> HAVE i # 0
  <2>1. p[i] \in 0 .. (i - 1)
    BY DEF Tree, RootFirst
  <2>2. i \in 0 .. (n - 1) /\ n \in Nat
    BY <1>1 DEF Tree
  <2> QED BY <1>1, <2>1, <2>2
<1>5. \A i \in Joints(p) : p[i] \in Joints(p) => i # 0
  BY <1>1, <1>3
<1>6. \A i, j \in Joints(p) : i \in Children(p, j) => j < i /\ i # 0
  BY <1>4, <1>5 DEF Children
<1> QED BY <1>1, <1>2, <1>3, <1>4, <1>5, <1>6

(* Its adjacency is undirected, without loops.                             *)
LEMMA AdjacencyFacts ==
  ASSUME NEW p, NEW n, Tree(p, n)
  PROVE  /\ Adjacency(p) \subseteq Joints(p) \X Joints(p)
         /\ \A x, y : <<x, y>> \in Adjacency(p)
                        <=> x \in Joints(p) /\ y \in Joints(p) /\ (p[x] = y \/ p[y] = x)
         /\ \A x \in Joints(p) : x # 0 => <<x, p[x]>> \in Adjacency(p)
         /\ \A e \in Adjacency(p) : e[1] # e[2] /\ <<e[2], e[1]>> \in Adjacency(p)
<1> DEFINE child == {c \in Joints(p) : p[c] >= 0}
           E == Adjacency(p)
<1>1. \A c \in child : c \in Joints(p) /\ c # 0 /\ p[c] \in Joints(p) /\ p[c] < c
  BY TreeFacts
<1>2. \A c \in Joints(p) : p[c] \in Joints(p) => c \in child
  BY TreeFacts
<1>3. \A e : e \in E <=> \E c \in child : e = <<c, p[c]>> \/ e = <<p[c], c>>
  BY DEF Adjacency
<1> HIDE DEF child, E
<1>4. E \subseteq Joints(p) \X Joints(p)
  BY <1>1, <1>3
<1>5. ASSUME NEW x, NEW y
      PROVE  <<x, y>> \in E <=> x \in Joints(p) /\ y \in Joints(p) /\ (p[x] = y \/ p[y] = x)
  <2>1. ASSUME <<x, y>> \in E
        PROVE  x \in Joints(p) /\ y \in Joints(p) /\ (p[x] = y \/ p[y] = x)
    <3>1. PICK c \in child : <<x, y>> = <<c, p[c]>> \/ <<x, y>> = <<p[c], c>>
      BY <1>3, <2>1
    <3>2. (x = c /\ y = p[c]) \/ (x = p[c] /\ y = c)
      BY <3>1
    <3> QED BY <1>1, <3>2
  <2>2. ASSUME x \in Joints(p), y \in Joints(p), p[x] = y PROVE <<x, y>> \in E
    BY <1>2, <1>3, <2>2
  <2>3. ASSUME x \in Joints(p), y \in Joints(p), p[y] = x PROVE <<x, y>> \in E
    BY <1>2, <1>3, <2>3
  <2> QED BY <2>1, <2>2, <2>3
<1>6. ASSUME NEW e \in E PROVE e[1] # e[2] /\ <<e[2], e[1]>> \in E
  <2>1. PICK c \in child : e = <<c, p[c]>> \/ e = <<p[c], c>>
    BY <1>3
  <2>2. c # p[c] /\ <<c, p[c]>> \in E /\ <<p[c], c>> \in E
    <3>1. c \in Int /\ p[c] \in Int
      BY <1>1, TreeFacts
    <3> QED BY <1>1, <1>3, <3>1
  <2> QED BY <2>1, <2>2
<1>7. \A x \in Joints(p) : x # 0 => <<x, p[x]>> \in E
  BY <1>5, TreeFacts
<1> QED BY <1>4, <1>5, <1>6, <1>7 DEF E

(* Induction from the root down, and from the leaves up.                   *)
LEMMA FromRoot ==
  ASSUME NEW p, NEW n, Tree(p, n), NEW S, 0 \in S,
         \A i \in Joints(p) : i # 0 /\ p[i] \in S => i \in S
  PROVE  Joints(p) \subseteq S
<1> DEFINE G == {i \in Nat : i \in Joints(p) => i \in S}
<1>1. ASSUME NEW i \in Nat, \A m \in 0 .. (i - 1) : m \in G PROVE i \in G
  <2>1. CASE i \in Joints(p) /\ i # 0
    <3>1. p[i] \in Joints(p) /\ p[i] \in 0 .. (i - 1)
      <4>1. p[i] \in Joints(p) /\ p[i] < i /\ p[i] >= 0 /\ p[i] \in Int
        BY <2>1, TreeFacts
      <4> QED BY <4>1
    <3>2. p[i] \in S
      BY <1>1, <3>1
    <3> QED BY <2>1, <3>2
  <2>2. CASE ~ (i \in Joints(p) /\ i # 0)
    BY <2>2
  <2> QED BY <2>1, <2>2
<1> HIDE DEF G
<1>2. \A i \in Nat : i \in G
  BY <1>1, StrongInduction
<1> QED BY <1>2, TreeFacts DEF G

(* A joint with all its children is enough.                                *)
LEMMA FromLeaves ==
  ASSUME NEW p, NEW n, Tree(p, n), NEW S,
         \A i \in Joints(p) : Children(p, i) \subseteq S => i \in S
  PROVE  Joints(p) \subseteq S
<1> DEFINE G == {i \in Nat : i < n => (n - 1) - i \in S}
<1>0. n \in Nat /\ n > 0
  BY DEF Tree
<1>1. ASSUME NEW i \in Nat, \A m \in 0 .. (i - 1) : m \in G PROVE i \in G
  <2>1. SUFFICES ASSUME i < n PROVE (n - 1) - i \in S
    OBVIOUS
  <2> DEFINE x == (n - 1) - i
  <2>2. x \in Joints(p)
    BY <1>0, <2>1, TreeFacts
  <2>3. ASSUME NEW c \in Children(p, x) PROVE c \in S
    <3>1. c \in 0 .. (n - 1) /\ x < c
      <4>1. c \in Joints(p)
        BY DEF Children
      <4> HIDE DEF x
      <4> QED BY <2>2, <4>1, TreeFacts
    <3>2. (n - 1) - c \in 0 .. (i - 1) /\ (n - 1) - c < n /\ (n - 1) - ((n - 1) - c) = c
      BY <1>0, <3>1
    <3> QED BY <1>1, <3>2
  <2> HIDE DEF x
  <2>4. x \in S
    BY <2>2, <2>3
  <2> QED BY <2>4 DEF x
<1> HIDE DEF G
<1>2. \A i \in Nat : i \in G
  BY <1>1, StrongInduction
<1>3. ASSUME NEW j \in Joints(p) PROVE j \in S
  <2>1. j \in 0 .. (n - 1)
    BY TreeFacts
  <2>2. (n - 1) - j \in Nat /\ (n - 1) - j < n /\ (n - 1) - ((n - 1) - j) = j
    BY <1>0, <2>1
  <2> QED BY <1>2, <2>2 DEF G
<1> QED BY <1>3

(* Every joint is reached from every other.                                *)
LEMMA TreeConnected ==
  ASSUME NEW p, NEW n, Tree(p, n), NEW i \in Joints(p), NEW j \in Joints(p)
  PROVE  \E m \in Nat : Near(Adjacency(p), Joints(p), i, j, m)
<1> DEFINE E == Adjacency(p)
           V == Joints(p)
           S == {x \in V : \E m \in Nat : Near(E, V, 0, x, m)}
<1>0. E \subseteq V \X V /\ \A e \in E : <<e[2], e[1]>> \in E
  BY AdjacencyFacts
<1>1. V \subseteq S
  <2>1. 0 \in S
    <3>1. Near(E, V, 0, 0, 0)
      BY NearZero
    <3> QED BY <3>1, TreeFacts
  <2>2. ASSUME NEW x \in V, x # 0, p[x] \in S PROVE x \in S
    <3>1. PICK m \in Nat : Near(E, V, 0, p[x], m)
      BY <2>2
    <3>2. <<p[x], x>> \in E /\ p[x] \in V
      BY <2>2, AdjacencyFacts, TreeFacts
    <3>3. Near(E, V, 0, x, m + 1)
      BY <3>1, <3>2, NearNext
    <3> QED BY <3>3
  <2> HIDE DEF S
  <2>3. \A x \in Joints(p) : x # 0 /\ p[x] \in S => x \in S
    BY <2>2
  <2> QED BY <2>1, <2>3, FromRoot
<1>2. PICK a \in Nat : Near(E, V, 0, i, a)
  BY <1>1
<1>3. PICK b \in Nat : Near(E, V, 0, j, b)
  BY <1>1
<1> HIDE DEF E, V, S
<1>4. 0 \in V /\ V \subseteq V
  BY TreeFacts DEF V
<1>5. Near(E, V, i, 0, a)
  BY <1>0, <1>2, <1>4, NearBack
<1>6. Near(E, V, i, j, a + b)
  BY <1>3, <1>4, <1>5, NearJoin
<1>7. a + b \in Nat
  OBVIOUS
<1> QED BY <1>6, <1>7 DEF E, V

(* The distance matrix of a tree.                                          *)
LEMMA GeodesicIs ==
  ASSUME NEW p, NEW n, Tree(p, n), n <= Inf, NEW i \in Joints(p), NEW j \in Joints(p)
  PROVE  LET d == GeodesicDist(p)[i][j]
         IN  /\ d \in 0 .. (n - 1)
             /\ d = Hops(Adjacency(p), Joints(p), i)[j]
             /\ Shortest(Adjacency(p), Joints(p), i, j, d)
<1> DEFINE E == Adjacency(p)
           V == Joints(p)
           h(x) == Hops(E, V, x)
           d == GeodesicDist(p)[i][j]
<1> SUFFICES d \in 0 .. (n - 1) /\ d = h(i)[j] /\ Shortest(E, V, i, j, d)
  OBVIOUS
<1>0. E \subseteq V \X V /\ IsFiniteSet(V) /\ Cardinality(V) = n /\ n \in Nat
  BY AdjacencyFacts, TreeFacts DEF Tree
<1>1. d = IF h(i)[j] = Inf THEN Cardinality(V) + 1 ELSE h(i)[j]
  BY DEF GeodesicDist
<1>2. h(i)[j] = HopsThrough(E, V, V, i)[j]
  BY DEF Hops
<1> HIDE DEF d, h
<1>3. PICK m \in Nat : Near(E, V, i, j, m)
  BY TreeConnected
<1> HIDE DEF E
<1>4. /\ h(i)[j] \in Nat /\ (h(i)[j] = Inf \/ h(i)[j] < Cardinality(V))
      /\ h(i)[j] # Inf => Shortest(E, V, i, j, h(i)[j])
      /\ h(i)[j] = Inf => \A q \in Nat : ~ Near(E, V, i, j, q)
  BY <1>0, <1>2, HopsType
<1> QED BY <1>0, <1>1, <1>3, <1>4
(* The order check alone tells a rooted tree.                              *)
LEMMA RootedTree ==
  ASSUME NEW p, NEW n, Tree(p, n), n <= Inf
  PROVE  IsRootedTree(p)
<1> DEFINE V == Joints(p)
           E == {<<p[c], c>> : c \in {d \in V : p[d] # -1}}
           Rs == {j \in V : p[j] = -1}
<1>1. \A j \in V : p[j] \in V \cup {-1}
  BY TreeFacts
<1>2. Rs = {0}
  BY TreeFacts
<1>3. Cardinality(Rs) = 1
  BY <1>2, FS_Singleton
<1>4. E \subseteq V \X V
  BY <1>1
<1> DEFINE S == {x \in V : \E m \in Nat : Near(E, V, 0, x, m)}
<1>5. V \subseteq S
  <2>1. 0 \in S
    <3>1. Near(E, V, 0, 0, 0)
      BY NearZero
    <3> QED BY <3>1, TreeFacts
  <2>2. ASSUME NEW x \in V, x # 0, p[x] \in S PROVE x \in S
    <3>1. PICK m \in Nat : Near(E, V, 0, p[x], m)
      BY <2>2
    <3>2. <<p[x], x>> \in E /\ p[x] \in V
      BY <2>2, TreeFacts
    <3>3. Near(E, V, 0, x, m + 1)
      BY <3>1, <3>2, NearNext
    <3> QED BY <3>3
  <2> HIDE DEF S
  <2>3. \A x \in Joints(p) : x # 0 /\ p[x] \in S => x \in S
    BY <2>2
  <2> QED BY <2>1, <2>3, FromRoot
<1>6. ASSUME NEW r \in Rs, NEW j \in V PROVE Hops(E, V, r)[j] # Inf
  <2>1. r = 0 /\ 0 \in V
    BY <1>2, TreeFacts
  <2>2. IsFiniteSet(V) /\ Cardinality(V) = n
    BY TreeFacts
  <2>3. PICK m \in Nat : Near(E, V, 0, j, m)
    BY <1>5
  <2> HIDE DEF E, V, S, Rs
  <2>4. HopsThrough(E, V, V, 0)[j] = Inf => \A q \in Nat : ~ Near(E, V, 0, j, q)
    BY <1>4, <1>6, <2>1, <2>2, HopsType
  <2> QED BY <2>1, <2>3, <2>4 DEF Hops
<1> QED BY <1>1, <1>3, <1>6 DEF IsRootedTree
-----------------------------------------------------------------------------
(* What every state has.                                                   *)

Unchecked == {"depth", "validate", "visit", "invalid"}
Early == Unchecked \cup {"entry"}
Anchored == {"dynamic", "hard", "soft"}
Steps == {"depth", "validate", "visit", "entry", "anchors", "chunk", "segment", "assign",
          "pool", "floyd", "attend", "unpool", "done", "invalid", "refused"}

BaseInv ==
  /\ par \in ParentLists /\ pc \in Steps /\ kind \in Kinds /\ set \in Settings
  /\ pc \notin Unchecked => RootFirst(par)
  /\ pc \in {"anchors", "chunk"} => kind \in Anchored
  /\ pc = "segment" => kind = "edge"
  /\ pc \in Unchecked => kind = "none"
  /\ pc \in Early \cup {"anchors"} =>
       anchors = {} /\ leaves = {} /\ given = FALSE /\ up = [at |-> -1, consec |-> 0]
  /\ pc \notin {"attend", "unpool", "done", "refused"} => nf = 0 /\ lat = {}
  /\ pc # "done" => out = [q \in {} |-> {}]

WalkInv ==
  /\ walk \in [joint : Valid, at : {par[j] : j \in Valid}]
  /\ depths \in [Valid -> 0 .. J]

(* The joints of a parent list are the first numbers.                      *)
LEMMA ParFacts ==
  ASSUME par \in ParentLists
  PROVE  \E n \in 1 .. J : par \in [0 .. (n - 1) -> Int] /\ Valid = 0 .. (n - 1) /\ 0 \in Valid
<1>1. PICK n \in 1 .. J : par \in [0 .. (n - 1) -> Int]
  BY PoolAssumption
<1>2. n \in Nat /\ n > 0
  BY PoolAssumption
<1> QED BY <1>1, <1>2 DEF Valid, Joints

(* Initially there is a parent list, and nothing else yet.                 *)
LEMMA BaseInit == Init => BaseInv /\ WalkInv
<1> SUFFICES ASSUME Init PROVE BaseInv /\ WalkInv
  OBVIOUS
<1>1. 0 \in Valid
  BY ParFacts DEF Init
<1>2. set \in Settings
  BY PoolAssumption DEF Init
<1>3. 0 \in 0 .. J
  BY PoolAssumption
<1> QED BY <1>1, <1>2, <1>3 DEF Init, BaseInv, WalkInv, Unchecked, Early, Steps, Kinds, Valid

(* Every step keeps this.                                                  *)
LEMMA BaseStep == BaseInv /\ [Next]_vars => BaseInv'
<1> SUFFICES ASSUME BaseInv, [Next]_vars PROVE BaseInv'
  OBVIOUS
<1> USE DEF BaseInv, Unchecked, Early, Anchored, Steps, Kinds, Reject, Refuse
<1>1. CASE DepthUp BY <1>1 DEF DepthUp, skel, check, choice, chosen, edge, assign, pooled, motion
<1>2. CASE DepthNext BY <1>2 DEF DepthNext, check, choice, chosen, edge, assign, pooled, motion
<1>3. CASE ValidateStart
  BY <1>3 DEF ValidateStart, skel, check, choice, chosen, edge, assign, pooled, motion
<1>4. CASE Visit BY <1>4 DEF Visit, skel, check, choice, chosen, edge, assign, pooled, motion
<1>5. CASE ValidateEnd
  BY <1>5 DEF ValidateEnd, skel, check, choice, chosen, edge, assign, pooled, motion
<1>6. CASE PoolEntry
  <2>1. /\ pc = "entry" /\ kind' = kind
        /\ pc' = "refused" \/ pc' = CASE kind = "edge" -> "segment"
                                      [] kind = "none" -> "assign"
                                      [] OTHER         -> "anchors"
        /\ UNCHANGED <<par, skel, check, choice, chosen, edge, assign, pooled, motion>>
    BY <1>6 DEF PoolEntry, choice
  <2>2. \/ pc' = "refused"
        \/ pc' = "segment" /\ kind = "edge"
        \/ pc' = "assign"
        \/ pc' = "anchors" /\ kind \in Anchored
    BY <2>1
  <2> QED BY <2>1, <2>2 DEF choice, chosen, motion
<1>7. CASE AnchorRules BY <1>7 DEF AnchorRules, skel, check, choice, edge, assign, pooled, motion
<1>8. CASE ChunkLeaf BY <1>8 DEF ChunkLeaf, skel, check, choice, edge, assign, pooled, motion
<1>9. CASE ChunkUp BY <1>9 DEF ChunkUp, skel, check, choice, edge, assign, pooled, motion
<1>10. CASE SelectAnchors
  BY <1>10 DEF SelectAnchors, skel, check, choice, chosen, edge, assign, pooled, motion
<1>11. CASE GivenAnchors
  BY <1>11 DEF GivenAnchors, skel, check, choice, edge, assign, pooled, motion
<1>12. CASE CutChain BY <1>12 DEF CutChain, skel, check, choice, chosen, assign, pooled, motion
<1>13. CASE MergeSegments
  BY <1>13 DEF MergeSegments, skel, check, choice, chosen, edge, assign, pooled, motion
<1>14. CASE SegmentsBuilt
  BY <1>14 DEF SegmentsBuilt, skel, check, choice, chosen, edge, assign, pooled, motion
<1>15. CASE AssignAnchors
  <2>1. /\ pc = "assign" /\ pc' \in {"refused", "pool"}
        /\ UNCHANGED <<par, skel, check, choice, chosen, edge, pooled, motion>>
    <3>1. AssignAnchors => /\ pc = "assign"
                           /\ UNCHANGED <<par, skel, check, choice, chosen, edge, pooled, motion>>
      BY DEF AssignAnchors
    <3>2. \A top, spread : Share(top, spread) => pc' = "pool"
      BY DEF Share
    <3>3. AssignAnchors => Refuse \/ \E top, spread : Share(top, spread)
      BY DEF AssignAnchors
    <3> QED BY <1>15, <3>1, <3>2, <3>3
  <2> QED BY <2>1 DEF choice, chosen, motion
<1>16. CASE AssignSegments
  BY <1>16 DEF AssignSegments, Share, skel, check, choice, chosen, edge, pooled, motion
<1>17. CASE AssignNone
  BY <1>17 DEF AssignNone, Share, skel, check, choice, chosen, edge, pooled, motion
<1>18. CASE PoolGraph BY <1>18 DEF PoolGraph, skel, check, choice, chosen, edge, assign, motion
<1>19. CASE Floyd BY <1>19 DEF Floyd, skel, check, choice, chosen, edge, assign, motion
<1>20. CASE PoolFeatures
  BY <1>20 DEF PoolFeatures, skel, check, choice, chosen, edge, assign, pooled
<1>21. CASE Attend
  BY <1>21 DEF Attend, skel, check, choice, chosen, edge, assign, pooled, motion
<1>22. CASE Unpool BY <1>22 DEF Unpool, skel, check, choice, chosen, edge, assign, pooled
<1>23. CASE UNCHANGED vars
  BY <1>23 DEF vars, choice, chosen, motion
<1> QED BY <1>1, <1>2, <1>3, <1>4, <1>5, <1>6, <1>7, <1>8, <1>9, <1>10, <1>11, <1>12, <1>13,
           <1>14, <1>15, <1>16, <1>17, <1>18, <1>19, <1>20, <1>21, <1>22, <1>23 DEF Next, Loops

(* So it always holds.                                                     *)
LEMMA BaseAlways == Spec => []BaseInv
<1> QED BY BaseInit, BaseStep, PTL DEF Spec
(* The action that moves each part of the state, and the turns of the      *)
(* program counter.                                                        *)
Moves ==
  {<<"depth", "invalid">>, <<"depth", "validate">>, <<"validate", "visit">>,
   <<"validate", "invalid">>, <<"visit", "invalid">>, <<"visit", "entry">>,
   <<"entry", "segment">>, <<"entry", "assign">>, <<"entry", "anchors">>, <<"entry", "refused">>,
   <<"anchors", "chunk">>, <<"anchors", "assign">>, <<"chunk", "refused">>, <<"chunk", "assign">>,
   <<"segment", "refused">>, <<"segment", "assign">>, <<"assign", "refused">>,
   <<"assign", "pool">>, <<"pool", "floyd">>, <<"floyd", "attend">>, <<"attend", "unpool">>,
   <<"attend", "refused">>, <<"unpool", "done">>, <<"unpool", "refused">>}

(* A step leaves the parent list alone and takes one of these turns.       *)
LEMMA Turns ==
  ASSUME [Next]_vars
  PROVE  /\ par' = par
         /\ pc' = pc \/ <<pc, pc'>> \in Moves
<1> USE DEF Moves, Reject, Refuse
<1>1. ASSUME DepthUp \/ DepthNext \/ ValidateStart \/ Visit \/ ValidateEnd
      PROVE  par' = par /\ (pc' = pc \/ <<pc, pc'>> \in Moves)
  BY <1>1 DEF DepthUp, DepthNext, ValidateStart, Visit, ValidateEnd
<1>2. ASSUME AnchorRules \/ ChunkLeaf \/ ChunkUp \/ SelectAnchors \/ GivenAnchors
      PROVE  par' = par /\ (pc' = pc \/ <<pc, pc'>> \in Moves)
  BY <1>2 DEF AnchorRules, ChunkLeaf, ChunkUp, SelectAnchors, GivenAnchors
<1>3. ASSUME CutChain \/ MergeSegments \/ SegmentsBuilt
      PROVE  par' = par /\ (pc' = pc \/ <<pc, pc'>> \in Moves)
  BY <1>3 DEF CutChain, MergeSegments, SegmentsBuilt
<1>4. ASSUME PoolEntry PROVE par' = par /\ (pc' = pc \/ <<pc, pc'>> \in Moves)
  <2>1. pc = "entry" /\ par' = par
    BY <1>4 DEF PoolEntry
  <2>2. pc' = "refused" \/ pc' = CASE kind = "edge" -> "segment"
                                   [] kind = "none" -> "assign"
                                   [] OTHER         -> "anchors"
    BY <1>4 DEF PoolEntry
  <2>3. pc' \in {"refused", "segment", "assign", "anchors"}
    BY <2>2
  <2> QED BY <2>1, <2>3
<1>5. ASSUME AssignAnchors PROVE par' = par /\ (pc' = pc \/ <<pc, pc'>> \in Moves)
  <2>1. AssignAnchors => pc = "assign" /\ par' = par
    BY DEF AssignAnchors
  <2>2. \A top, spread : Share(top, spread) => pc' = "pool"
    BY DEF Share
  <2>3. AssignAnchors => Refuse \/ \E top, spread : Share(top, spread)
    BY DEF AssignAnchors
  <2> QED BY <1>5, <2>1, <2>2, <2>3
<1>6. ASSUME AssignSegments \/ AssignNone PROVE par' = par /\ (pc' = pc \/ <<pc, pc'>> \in Moves)
  BY <1>6 DEF AssignSegments, AssignNone, Share
<1>7. ASSUME PoolGraph \/ Floyd \/ PoolFeatures \/ Attend \/ Unpool
      PROVE  par' = par /\ (pc' = pc \/ <<pc, pc'>> \in Moves)
  BY <1>7 DEF PoolGraph, Floyd, PoolFeatures, Attend, Unpool
<1>8. ASSUME UNCHANGED vars PROVE par' = par /\ pc' = pc
  BY <1>8 DEF vars
<1> QED BY <1>1, <1>2, <1>3, <1>4, <1>5, <1>6, <1>7, <1>8 DEF Next, Loops

(* What can run at each point.                                             *)
LEMMA Where ==
  ASSUME [Next]_vars
  PROVE  \/ UNCHANGED vars
         \/ pc = "depth" /\ (DepthUp \/ DepthNext)
         \/ pc = "validate" /\ ValidateStart
         \/ pc = "visit" /\ (Visit \/ ValidateEnd)
         \/ pc = "entry" /\ PoolEntry
         \/ pc = "anchors" /\ (AnchorRules \/ GivenAnchors)
         \/ pc = "chunk" /\ (ChunkLeaf \/ ChunkUp \/ SelectAnchors)
         \/ pc = "segment" /\ (CutChain \/ MergeSegments \/ SegmentsBuilt)
         \/ pc = "assign" /\ (AssignAnchors \/ AssignSegments \/ AssignNone)
         \/ pc = "pool" /\ PoolGraph
         \/ pc = "floyd" /\ (Floyd \/ PoolFeatures)
         \/ pc = "attend" /\ Attend
         \/ pc = "unpool" /\ Unpool
<1>1. ASSUME Loops
      PROVE  \/ pc = "depth" /\ (DepthUp \/ DepthNext)
             \/ pc = "validate" /\ ValidateStart
             \/ pc = "visit" /\ (Visit \/ ValidateEnd)
             \/ pc = "anchors" /\ (AnchorRules \/ GivenAnchors)
             \/ pc = "chunk" /\ (ChunkLeaf \/ ChunkUp \/ SelectAnchors)
             \/ pc = "segment" /\ (CutChain \/ MergeSegments \/ SegmentsBuilt)
  BY <1>1 DEF Loops, DepthUp, DepthNext, ValidateStart, Visit, ValidateEnd, AnchorRules,
              ChunkLeaf, ChunkUp, SelectAnchors, GivenAnchors, CutChain, MergeSegments,
              SegmentsBuilt
<1>2. (PoolEntry => pc = "entry") /\ (AssignAnchors => pc = "assign")
  BY DEF PoolEntry, AssignAnchors
<1>3. /\ (AssignSegments => pc = "assign") /\ (AssignNone => pc = "assign")
      /\ (PoolGraph => pc = "pool") /\ (Floyd => pc = "floyd") /\ (PoolFeatures => pc = "floyd")
      /\ (Attend => pc = "attend") /\ (Unpool => pc = "unpool")
  BY DEF AssignSegments, AssignNone, PoolGraph, Floyd, PoolFeatures, Attend, Unpool
<1> QED BY SMTT(30), <1>1, <1>2, <1>3 DEF Next

(* An action touches its own part of the state.                            *)
LEMMA Frames ==
  ASSUME [Next]_vars
  PROVE  /\ DepthUp \/ DepthNext \/ UNCHANGED skel
         /\ ValidateStart \/ Visit \/ UNCHANGED check
         /\ ValidateEnd \/ UNCHANGED choice
         /\ AnchorRules \/ ChunkLeaf \/ ChunkUp \/ GivenAnchors \/ UNCHANGED chosen
         /\ ValidateEnd \/ CutChain \/ MergeSegments \/ UNCHANGED edge
         /\ AssignAnchors \/ AssignSegments \/ AssignNone \/ UNCHANGED assign
         /\ PoolGraph \/ Floyd \/ UNCHANGED pooled
         /\ PoolFeatures \/ Unpool \/ UNCHANGED motion
<1>1. ASSUME DepthUp \/ DepthNext
      PROVE  UNCHANGED <<check, choice, chosen, edge, assign, pooled, motion>>
  BY <1>1 DEF DepthUp, DepthNext
<1>2. ASSUME ValidateStart \/ Visit
      PROVE  UNCHANGED <<skel, choice, chosen, edge, assign, pooled, motion>>
  BY <1>2 DEF ValidateStart, Visit
<1>3. ASSUME ValidateEnd PROVE UNCHANGED <<skel, check, chosen, assign, pooled, motion>>
  BY <1>3 DEF ValidateEnd
<1>4. ASSUME PoolEntry
      PROVE  UNCHANGED <<skel, check, choice, chosen, edge, assign, pooled, motion>>
  BY <1>4 DEF PoolEntry
<1>5. ASSUME AnchorRules \/ ChunkLeaf \/ ChunkUp \/ GivenAnchors
      PROVE  UNCHANGED <<skel, check, choice, edge, assign, pooled, motion>>
  BY <1>5 DEF AnchorRules, ChunkLeaf, ChunkUp, GivenAnchors
<1>6. ASSUME SelectAnchors \/ SegmentsBuilt \/ Attend
      PROVE  UNCHANGED <<skel, check, choice, chosen, edge, assign, pooled, motion>>
  BY <1>6 DEF SelectAnchors, SegmentsBuilt, Attend
<1>7. ASSUME CutChain \/ MergeSegments
      PROVE  UNCHANGED <<skel, check, choice, chosen, assign, pooled, motion>>
  BY <1>7 DEF CutChain, MergeSegments
<1>8. ASSUME AssignAnchors \/ AssignSegments \/ AssignNone
      PROVE  UNCHANGED <<skel, check, choice, chosen, edge, pooled, motion>>
  BY <1>8 DEF AssignAnchors, AssignSegments, AssignNone
<1>9. ASSUME PoolGraph \/ Floyd
      PROVE  UNCHANGED <<skel, check, choice, chosen, edge, assign, motion>>
  BY <1>9 DEF PoolGraph, Floyd
<1>10. ASSUME PoolFeatures \/ Unpool
       PROVE  UNCHANGED <<skel, check, choice, chosen, edge, assign, pooled>>
  BY <1>10 DEF PoolFeatures, Unpool
<1>11. ASSUME UNCHANGED vars
       PROVE  UNCHANGED <<skel, check, choice, chosen, edge, assign, pooled, motion>>
  BY <1>11 DEF vars
<1> QED BY <1>1, <1>2, <1>3, <1>4, <1>5, <1>6, <1>7, <1>8, <1>9, <1>10, <1>11 DEF Next, Loops

(* The count of the depths stays among the joints.                         *)
LEMMA WalkStays == BaseInv /\ WalkInv /\ [Next]_vars => WalkInv'
<1> SUFFICES ASSUME BaseInv, WalkInv, [Next]_vars PROVE WalkInv'
  OBVIOUS
<1>0. par' = par /\ Valid' = Valid
  BY Turns DEF Valid
<1>1. CASE DepthUp
  <2>1. UNCHANGED skel \/ /\ walk.at \in Valid
                          /\ depths' = [depths EXCEPT ![walk.joint] = IF @ < J THEN @ + 1 ELSE @]
                          /\ walk' = [walk EXCEPT !.at = par[walk.at]]
    BY <1>1 DEF DepthUp
  <2>2. J \in Nat
    BY PoolAssumption
  <2>3. \A d \in 0 .. J : (IF d < J THEN d + 1 ELSE d) \in 0 .. J
    BY <2>2
  <2> QED BY <1>0, <2>1, <2>3 DEF WalkInv, skel
<1>2. CASE DepthNext
  <2>1. UNCHANGED walk \/ /\ walk.joint + 1 \in Valid
                          /\ walk' = [joint |-> walk.joint + 1, at |-> par[walk.joint + 1]]
    BY <1>2 DEF DepthNext
  <2>2. depths' = depths
    BY <1>2 DEF DepthNext
  <2> QED BY <1>0, <2>1, <2>2 DEF WalkInv
<1>3. CASE UNCHANGED skel
  BY <1>0, <1>3 DEF WalkInv, skel
<1> QED BY <1>1, <1>2, <1>3, Frames
-----------------------------------------------------------------------------
(* The validation.                                                         *)

(* The visit never queues a joint twice; a visited joint is a root or has  *)
(* a parent that left the queue, and the children of what left the queue   *)
(* are visited.                                                            *)
VisitInv ==
  /\ pc \in {"depth", "validate"} => visited = {} /\ queue = <<>>
  /\ queue \in Seq(visited) /\ visited \subseteq Valid
  /\ \A a, b \in 1 .. Len(queue) : queue[a] = queue[b] => a = b
  /\ \A c \in visited : par[c] = -1 \/ par[c] \in visited \ ElementsOf(queue)
  /\ \A v \in visited \ ElementsOf(queue) : Children(par, v) \subseteq visited
  /\ pc = "visit" => Roots \subseteq visited

(* Every step keeps VisitInv,                                              *)
LEMMA VisitStep == BaseInv /\ VisitInv /\ [Next]_vars => VisitInv'
<1> SUFFICES ASSUME BaseInv, VisitInv, [Next]_vars PROVE VisitInv'
  OBVIOUS
<1>0. par' = par /\ Valid' = Valid /\ Roots' = Roots
  BY Turns DEF Valid, Roots
<1>1. CASE ValidateStart
  <2>1. CASE UNCHANGED check /\ pc' = "invalid"
    BY <1>0, <2>1 DEF VisitInv, check
  <2>2. CASE pc' = "visit"
    <3>1. PICK r \in Roots : queue' = <<r>> /\ visited' = {r}
      BY <1>1, <2>2 DEF ValidateStart, Reject
    <3>2. Cardinality(Roots) = 1
      BY <1>1, <2>2 DEF ValidateStart, Reject
    <3>3. Roots = {r}
      <4>1. IsFiniteSet(Roots)
        <5>1. Roots \subseteq Valid
          BY DEF Roots
        <5>2. IsFiniteSet(Valid)
          <6>1. PICK n \in 1 .. J : Valid = 0 .. (n - 1)
            BY ParFacts DEF BaseInv
          <6>2. n \in Int
            OBVIOUS
          <6> QED BY <6>1, <6>2, FS_Interval
        <5> QED BY <5>1, <5>2, FS_Subset
      <4>2. {r} \in SUBSET Roots /\ Cardinality({r}) = 1
        BY FS_Singleton
      <4> QED BY <3>2, <4>1, <4>2, FS_Subset
    <3>4. par[r] = -1 /\ r \in Valid
      BY DEF Roots
    <3>5. ElementsOf(queue') = {r}
      BY <3>1 DEF ElementsOf
    <3>6. queue' \in Seq(visited') /\ Len(queue') = 1 /\ \A a, b \in 1 .. 1 : a = b
      BY <3>1
    <3>7. /\ \A c \in visited' : par[c] = -1
          /\ visited' \ ElementsOf(queue') = {}
      BY <3>1, <3>4, <3>5
    <3>8. visited' \subseteq Valid /\ Roots \subseteq visited'
      BY <3>1, <3>3, <3>4
    <3> QED BY <1>0, <2>2, <3>6, <3>7, <3>8 DEF VisitInv, ElementsOf
  <2> QED BY <1>1, <2>1, <2>2 DEF ValidateStart, Reject
<1>2. CASE Visit
  <2>1. CASE UNCHANGED check /\ pc' = "invalid"
    BY <1>0, <2>1 DEF VisitInv, check
  <2> DEFINE h == Head(queue)
             kids == Children(par, h)
             more == Sorted(kids)
  <2>2. CASE /\ kids \cap visited = {} /\ visited' = visited \cup kids
             /\ queue' = Tail(queue) \o more /\ pc' = pc
    <3>0. pc = "visit" /\ queue # <<>> /\ queue \in Seq(visited)
      BY <1>2 DEF Visit, VisitInv
    <3>1. h \in visited /\ h = queue[1] /\ Len(queue) \in Nat /\ Len(queue) >= 1
      BY <3>0
    <3>2. /\ kids \subseteq Valid
          /\ IsFiniteSet(kids) /\ kids \in SUBSET Int
      <4>1. PICK n \in 1 .. J : Valid = 0 .. (n - 1)
        BY ParFacts DEF BaseInv
      <4>2. n \in Int /\ kids \subseteq Valid
        BY DEF Children, Valid
      <4>3. IsFiniteSet(0 .. (n - 1))
        BY <4>2, FS_Interval
      <4> HIDE DEF kids
      <4>4. kids \in SUBSET (0 .. (n - 1))
        BY <4>1, <4>2
      <4>5. IsFiniteSet(kids)
        BY <4>3, <4>4, FS_Subset
      <4> QED BY <4>2, <4>4, <4>5
    <3> HIDE DEF h, kids
    <3>3. /\ more \in Seq(kids) /\ Len(more) \in Nat
          /\ \A a, b \in 1 .. Len(more) : more[a] = more[b] => a = b
          /\ \A x \in kids : \E a \in 1 .. Len(more) : more[a] = x
      <4>1. /\ more \in Seq(kids) /\ Len(more) = Cardinality(kids) /\ Cardinality(kids) \in Nat
            /\ \A x \in kids : \E a \in 1 .. Cardinality(kids) : more[a] = x
            /\ \A a, b \in 1 .. Cardinality(kids) : a < b => more[a] < more[b]
        BY <3>2, SortedFacts
      <4> HIDE DEF more
      <4>3. \A a \in 1 .. Len(more) : more[a] \in kids
        BY <4>1
      <4>2. \A a \in 1 .. Len(more) : more[a] \in Int
        BY <3>2, <4>3
      <4> QED BY <4>1, <4>2
    <3> HIDE DEF more
    <3>4. /\ queue' \in Seq(visited')
          /\ Len(queue') = (Len(queue) - 1) + Len(more)
          /\ \A a \in 1 .. Len(queue') :
               queue'[a] = IF a <= Len(queue) - 1 THEN queue[a + 1]
                           ELSE more[a - (Len(queue) - 1)]
      <4>1. Tail(queue) \in Seq(visited') /\ more \in Seq(visited')
        BY <2>2, <3>0, <3>3
      <4>2. Len(Tail(queue)) = Len(queue) - 1
        BY <3>0
      <4>3. \A a \in 1 .. (Len(queue) - 1) : Tail(queue)[a] = queue[a + 1]
        BY <3>0
      <4> QED BY <2>2, <3>1, <3>3, <4>1, <4>2, <4>3
    <3>5. ElementsOf(queue) = {queue[a] : a \in 1 .. Len(queue)}
      BY DEF ElementsOf
    <3>6. ElementsOf(queue') = (ElementsOf(queue) \ {h}) \cup kids
      <4>1. ASSUME NEW x \in ElementsOf(queue') PROVE x \in (ElementsOf(queue) \ {h}) \cup kids
        <5>1. PICK a \in 1 .. Len(queue') : x = queue'[a]
          BY DEF ElementsOf
        <5>2. CASE a <= Len(queue) - 1
          <6>1. a + 1 \in 1 .. Len(queue) /\ x = queue[a + 1] /\ a + 1 # 1
                    /\ 1 \in 1 .. Len(queue)
            BY <3>1, <3>4, <5>1, <5>2
          <6>2. x # h
            BY <3>1, <6>1 DEF VisitInv
          <6> QED BY <3>5, <6>1, <6>2
        <5>3. CASE ~ (a <= Len(queue) - 1)
          <6>1. a - (Len(queue) - 1) \in 1 .. Len(more) /\ x = more[a - (Len(queue) - 1)]
            BY <3>1, <3>3, <3>4, <5>1, <5>3
          <6> QED BY <3>3, <6>1
        <5> QED BY <5>2, <5>3
      <4>2. ASSUME NEW x \in ElementsOf(queue), x # h PROVE x \in ElementsOf(queue')
        <5>1. PICK a \in 1 .. Len(queue) : x = queue[a]
          BY DEF ElementsOf
        <5>2. a # 1
          BY <3>1, <4>2, <5>1
        <5>5. Len(queue) \in Nat /\ Len(more) \in Nat
                  /\ Len(queue') = (Len(queue) - 1) + Len(more)
          BY <3>1, <3>3, <3>4
        <5>3. a - 1 \in 1 .. Len(queue') /\ a - 1 <= Len(queue) - 1 /\ (a - 1) + 1 = a
          BY <5>2, <5>5
        <5>4. queue'[a - 1] = x
          BY <3>4, <5>1, <5>3
        <5> QED BY <5>3, <5>4 DEF ElementsOf
      <4>3. ASSUME NEW x \in kids PROVE x \in ElementsOf(queue')
        <5>1. PICK a \in 1 .. Len(more) : x = more[a]
          BY <3>3
        <5>2. LET b == (Len(queue) - 1) + a
              IN  b \in 1 .. Len(queue') /\ ~ (b <= Len(queue) - 1) /\ b - (Len(queue) - 1) = a
          BY SMTT(30), <3>1, <3>3, <3>4
        <5>3. queue'[(Len(queue) - 1) + a] = x
          BY <3>4, <5>1, <5>2
        <5> QED BY <5>2, <5>3 DEF ElementsOf
      <4> QED BY <4>1, <4>2, <4>3
    <3>7. ASSUME NEW a \in 1 .. Len(queue'), NEW b \in 1 .. Len(queue'), queue'[a] = queue'[b]
          PROVE  a = b
      <4> DEFINE m == Len(queue) - 1
      <4>0. m \in Nat /\ Len(queue') = m + Len(more) /\ Len(more) \in Nat
        BY <3>1, <3>3, <3>4
      <4>1. ASSUME NEW x \in 1 .. m PROVE queue'[x] = queue[x + 1] /\ x + 1 \in 1 .. Len(queue)
        BY <3>1, <3>4, <4>0
      <4>2. ASSUME NEW x \in 1 .. Len(queue'), x \notin 1 .. m
            PROVE  queue'[x] = more[x - m] /\ x - m \in 1 .. Len(more)
        BY <3>1, <3>4, <4>0, <4>2
      <4> HIDE DEF m
      <4>3. \A x \in 1 .. Len(queue) : queue[x] \in visited
        BY <3>0
      <4>4. \A x \in 1 .. Len(more) : more[x] \in kids
        BY <3>3
      <4>5. CASE a \in 1 .. m /\ b \in 1 .. m
        <5>1. queue[a + 1] = queue[b + 1] /\ a + 1 \in 1 .. Len(queue)
                  /\ b + 1 \in 1 .. Len(queue)
          BY <3>7, <4>1, <4>5
        <5>2. a + 1 = b + 1
          BY <5>1 DEF VisitInv
        <5> QED BY <5>2
      <4>6. CASE a \notin 1 .. m /\ b \notin 1 .. m
        <5>1. more[a - m] = more[b - m] /\ a - m \in 1 .. Len(more) /\ b - m \in 1 .. Len(more)
          BY <3>7, <4>2, <4>6
        <5>2. a - m = b - m
          BY <3>3, <5>1
        <5> QED BY <4>0, <5>2
      <4>7. CASE a \in 1 .. m /\ b \notin 1 .. m
        <5>1. queue'[a] \in visited /\ queue'[b] \in kids
          BY <4>1, <4>2, <4>3, <4>4, <4>7
        <5> QED BY <2>2, <3>7, <5>1
      <4>8. CASE a \notin 1 .. m /\ b \in 1 .. m
        <5>1. queue'[b] \in visited /\ queue'[a] \in kids
          BY <4>1, <4>2, <4>3, <4>4, <4>8
        <5> QED BY <2>2, <3>7, <5>1
      <4> QED BY <4>5, <4>6, <4>7, <4>8
    <3>8. ElementsOf(queue) \subseteq visited
      <4>1. \A a \in 1 .. Len(queue) : queue[a] \in visited
        BY <3>0
      <4> QED BY <3>5, <4>1
    <3>9. visited' \ ElementsOf(queue') = (visited \ ElementsOf(queue)) \cup {h}
      <4>1. h \in ElementsOf(queue)
        BY <3>1, <3>5
      <4> QED BY <2>2, <3>1, <3>6, <3>8, <4>1
    <3>10. \A c \in kids : par[c] = h
      BY DEF kids, Children
    <3>11. \A c \in visited' : par[c] = -1 \/ par[c] \in visited' \ ElementsOf(queue')
      BY <2>2, <3>9, <3>10 DEF VisitInv
    <3>12. \A v \in visited' \ ElementsOf(queue') : Children(par, v) \subseteq visited'
      BY <2>2, <3>9 DEF VisitInv, kids
    <3>13. visited' \subseteq Valid /\ Roots \subseteq visited'
      BY <2>2, <3>0, <3>2 DEF VisitInv
    <3> QED BY <1>0, <2>2, <3>0, <3>4, <3>7, <3>11, <3>12, <3>13 DEF VisitInv
  <2> QED BY <1>2, <2>1, <2>2 DEF Visit, Reject
<1>3. CASE UNCHANGED check
  <2>1. ~ (pc # "visit" /\ pc' = "visit") \/ ValidateStart
    <3>1. pc' = "visit" => pc = "visit" \/ pc = "validate"
      BY Turns DEF Moves
    <3>2. pc = "validate" /\ pc' = "visit" => ValidateStart
      BY Where DEF vars
    <3> QED BY <3>1, <3>2
  <2>2. pc' \in {"depth", "validate"} => pc \in {"depth", "validate"}
    BY Turns DEF Moves
  <2>3. CASE ~ ValidateStart
    BY <1>0, <1>3, <2>1, <2>2, <2>3 DEF VisitInv, check
  <2> QED BY <1>1, <2>3
<1> QED BY <1>1, <1>2, <1>3, Frames

(* and it holds initially.                                                 *)
LEMMA VisitInit == Init => VisitInv
<1> SUFFICES ASSUME Init PROVE VisitInv
  OBVIOUS
<1>1. queue = <<>> /\ visited = {} /\ pc # "visit" /\ Len(queue) = 0
  BY DEF Init
<1>2. queue \in Seq(visited) /\ 1 .. Len(queue) = {}
  BY <1>1
<1> QED BY <1>1, <1>2 DEF VisitInv

(* What passed the order check is a root-first tree.                       *)
LEMMA TreeOf ==
  ASSUME BaseInv, RootFirst(par)
  PROVE  \E n \in 1 .. J : /\ Tree(par, n) /\ n <= Inf /\ n <= J
                           /\ Valid = 0 .. (n - 1) /\ Joints(par) = Valid
<1>1. PICK n \in 1 .. J : par \in [0 .. (n - 1) -> Int] /\ Valid = 0 .. (n - 1)
  BY ParFacts DEF BaseInv
<1>2. n \in Nat \ {0} /\ n <= J /\ n <= Inf
  BY PoolAssumption DEF Inf
<1> QED BY <1>1, <1>2 DEF Tree, Valid

(* The visit of a root-first tree refuses nothing and leaves nothing out.  *)
LEMMA VisitOfTree ==
  ASSUME BaseInv, VisitInv, RootFirst(par), pc = "visit"
  PROVE  /\ queue # <<>> => Children(par, Head(queue)) \cap visited = {}
         /\ queue = <<>> => visited = Valid
<1>1. PICK n \in 1 .. J : Tree(par, n) /\ Joints(par) = Valid
  BY TreeOf
<1>2. ASSUME queue # <<>>, NEW c \in Children(par, Head(queue)), c \in visited PROVE FALSE
  <2>1. Head(queue) = queue[1] /\ 1 \in 1 .. Len(queue) /\ queue[1] \in visited
    BY <1>2 DEF VisitInv
  <2>2. Head(queue) \in ElementsOf(queue)
    BY <2>1 DEF ElementsOf
  <2>3. c \in Joints(par) /\ par[c] = Head(queue)
    BY DEF Children
  <2>4. Head(queue) \in Joints(par)
    BY <1>1, <2>1 DEF VisitInv
  <2>5. par[c] # -1
    BY <1>1, <2>3, <2>4, TreeFacts
  <2> QED BY <1>2, <2>2, <2>3, <2>5 DEF VisitInv
<1>3. ASSUME queue = <<>> PROVE visited = Valid
  <2>1. ElementsOf(queue) = {}
    BY <1>3 DEF ElementsOf
  <2>2. 0 \in visited
    BY <1>1, TreeFacts DEF VisitInv, Roots
  <2>3. ASSUME NEW i \in Joints(par), i # 0, par[i] \in visited PROVE i \in visited
    <3>1. i \in Children(par, par[i])
      BY DEF Children
    <3> QED BY <2>1, <2>3, <3>1 DEF VisitInv
  <2>4. Joints(par) \subseteq visited
    BY <1>1, <2>2, <2>3, FromRoot
  <2> QED BY <1>1, <2>4 DEF VisitInv
<1> QED BY <1>2, <1>3

(* A step of the validation refuses what is not a tree, and nothing else.  *)
LEMMA AcceptsStep ==
  BaseInv /\ WalkInv /\ VisitInv /\ AcceptsExactlyTrees /\ [Next]_vars => AcceptsExactlyTrees'
<1> SUFFICES ASSUME BaseInv, WalkInv, VisitInv, AcceptsExactlyTrees, [Next]_vars
             PROVE  AcceptsExactlyTrees'
  OBVIOUS
<1> DEFINE good == IsRootedTree(par) /\ RootFirst(par)
<1>0. par' = par /\ (pc' = pc \/ <<pc, pc'>> \in Moves)
  BY Turns
<1>1. BaseInv'
  BY BaseStep
<1>2. ASSUME pc' \notin {"depth", "validate", "visit", "invalid"} PROVE good
  <2>1. RootFirst(par)
    BY <1>0, <1>1, <1>2 DEF BaseInv, Unchecked
  <2>2. PICK n \in 1 .. J : Tree(par, n) /\ n <= Inf
    BY <2>1, TreeOf
  <2> QED BY <2>1, <2>2, RootedTree
<1>3. ASSUME pc' = "invalid", good PROVE FALSE
  <2>0. PICK n \in 1 .. J : Tree(par, n) /\ Joints(par) = Valid
    BY <1>3, TreeOf
  <2>1. CASE pc = "invalid"
    BY <1>3, <2>1 DEF AcceptsExactlyTrees
  <2>2. CASE pc = "depth"
    <3>1. DepthUp
      <4>1. DepthUp \/ DepthNext
        BY <1>3, <2>2, Where DEF vars
      <4>2. DepthNext => pc' # "invalid"
        BY <2>2 DEF DepthNext
      <4> QED BY <1>3, <4>1, <4>2
    <3>2. walk.at >= 0 /\ walk.at \notin Valid
      BY <1>3, <2>2, <3>1 DEF DepthUp
    <3>3. PICK j \in Valid : walk.at = par[j]
      BY DEF WalkInv
    <3>4. par[j] = -1 \/ par[j] \in Joints(par)
      BY <2>0, <3>3, TreeFacts
    <3> QED BY <2>0, <3>2, <3>3, <3>4
  <2>3. CASE pc = "validate"
    <3>1. ValidateStart
      BY <1>3, <2>3, Where DEF vars
    <3>2. Roots = {0}
      BY <2>0, TreeFacts DEF Roots
    <3>3. Cardinality(Roots) = 1
      BY <3>2, FS_Singleton
    <3>4. ASSUME NEW j \in Valid \ Roots PROVE par[j] \in Valid \ {j}
      <4>1. j # 0 /\ j \in Joints(par)
        BY <2>0, <3>2
      <4>2. par[j] \in Joints(par) /\ par[j] < j /\ par[j] \in Int /\ j \in Int
        BY <2>0, <4>1, TreeFacts
      <4> QED BY <2>0, <4>2
    <3>5. pc' = "visit"
      BY <3>1, <3>2, <3>3, <3>4 DEF ValidateStart
    <3> QED BY <1>3, <3>5
  <2>4. CASE pc = "visit"
    <3>1. Visit \/ ValidateEnd
      BY <1>3, <2>4, Where DEF vars
    <3>2. CASE Visit
      BY <1>3, <2>4, <3>2, VisitOfTree DEF Visit
    <3>3. CASE ValidateEnd
      BY <1>3, <2>4, <3>3, VisitOfTree DEF ValidateEnd
    <3> QED BY <3>1, <3>2, <3>3
  <2> QED BY <1>0, <1>3, <2>1, <2>2, <2>3, <2>4 DEF Moves
<1> QED BY <1>0, <1>2, <1>3 DEF AcceptsExactlyTrees

ValidInv == BaseInv /\ WalkInv /\ VisitInv /\ AcceptsExactlyTrees

(* The validation is always right.                                         *)
LEMMA ValidAlways == Spec => []ValidInv
<1>1. Init => ValidInv
  <2>1. Init => pc \in {"depth", "validate"}
    BY DEF Init
  <2> QED BY <2>1, BaseInit, VisitInit DEF ValidInv, AcceptsExactlyTrees
<1>2. ValidInv /\ [Next]_vars => ValidInv'
  BY BaseStep, WalkStays, VisitStep, AcceptsStep DEF ValidInv
<1> QED BY <1>1, <1>2, PTL DEF Spec
(* The pools accept the distances of every tree.                           *)
LEMMA EntryAccepts ==
  ASSUME NEW p, NEW n, Tree(p, n), n <= Inf
  PROVE  GraphChecked(Adjacency(p),
                      [q \in Joints(p) \X Joints(p) |-> GeodesicDist(p)[q[1]][q[2]]],
                      Joints(p), Joints(p))
<1> DEFINE E == Adjacency(p)
           V == Joints(p)
           d == [q \in V \X V |-> GeodesicDist(p)[q[1]][q[2]]]
<1>1. /\ V = 0 .. (n - 1) /\ 0 \in V /\ IsFiniteSet(V) /\ Cardinality(V) = n /\ n \in Nat
      /\ E \subseteq V \X V /\ \A e \in E : e[1] # e[2] /\ <<e[2], e[1]>> \in E
  BY TreeFacts, AdjacencyFacts DEF Tree
<1>2. Recomputed(E, V, V) = Exact(E, V, V, n)
  <2> HIDE DEF E, V
  <2> QED BY <1>1, RecomputedIs
<1>3. ASSUME NEW v \in V, NEW w \in V PROVE GeodesicDist(p)[v][w] = Exact(E, V, V, n)[<<v, w>>]
  <2>1. GeodesicDist(p)[v][w] = HopsThrough(E, V, V, v)[w]
    BY GeodesicIs DEF Hops
  <2>2. Exact(E, V, V, n)[<<v, w>>] = HopsThrough(E, V, 0 .. (n - 1), v)[w]
    <3> HIDE DEF E, V
    <3> QED BY DEF Exact
  <2> HIDE DEF E
  <2> QED BY <1>1, <2>1, <2>2
<1>4. \A q \in V \X V : d[q] = Exact(E, V, V, n)[q]
  <2> TAKE q \in V \X V
  <2>1. q = <<q[1], q[2]>> /\ q[1] \in V /\ q[2] \in V
    OBVIOUS
  <2>2. d[q] = GeodesicDist(p)[q[1]][q[2]]
    OBVIOUS
  <2>3. GeodesicDist(p)[q[1]][q[2]] = Exact(E, V, V, n)[<<q[1], q[2]>>]
    BY <1>3, <2>1
  <2> HIDE DEF d, E, V
  <2> QED BY <2>1, <2>2, <2>3
<1> HIDE DEF d, E, V
<1>5. GraphChecked(E, d, V, V)
  BY <1>1, <1>2, <1>4 DEF GraphChecked
<1> QED BY <1>5 DEF d, E, V

-----------------------------------------------------------------------------
(* Upwards in a tree.                                                      *)

(* y is the m-th joint above x.                                            *)
Climb(p, x, y, m) == Walk({<<c, p[c]>> : c \in Joints(p) \ {0}}, Joints(p), x, y, m)

(* No step up stays.                                                       *)
LEMMA ClimbNone ==
  ASSUME NEW p, NEW x, NEW y
  PROVE  Climb(p, x, y, 0) <=> x = y
BY WalkNone DEF Climb

(* A last step up leads to a parent.                                       *)
LEMMA ClimbLast ==
  ASSUME NEW p, NEW n, Tree(p, n), NEW x, NEW y, NEW m \in Nat
  PROVE  Climb(p, x, y, m + 1) <=> \E z \in Joints(p) \ {0} : Climb(p, x, z, m) /\ y = p[z]
<1> DEFINE E == {<<c, p[c]>> : c \in Joints(p) \ {0}}
           V == Joints(p)
<1>1. \A z : <<z, y>> \in E <=> z \in Joints(p) \ {0} /\ y = p[z]
  OBVIOUS
<1>2. Walk(E, V, x, y, m + 1)
        <=> \E z : Walk(E, V, x, z, m) /\ <<z, y>> \in E /\ (z = x \/ z \in V)
  <2> HIDE DEF E, V
  <2> QED BY WalkStep
<1> QED BY <1>1, <1>2 DEF Climb

(* A first step up leads to the joint's own parent.                        *)
LEMMA ClimbFirst ==
  ASSUME NEW p, NEW n, Tree(p, n), NEW x \in Joints(p), NEW y, NEW m \in Nat
  PROVE  Climb(p, x, y, m + 1) <=> x # 0 /\ Climb(p, p[x], y, m)
<1> DEFINE G == {i \in Nat : \A z : Climb(p, x, z, i + 1) <=> x # 0 /\ Climb(p, p[x], z, i)}
<1>1. 0 \in G
  <2> SUFFICES ASSUME NEW z PROVE Climb(p, x, z, 0 + 1) <=> x # 0 /\ Climb(p, p[x], z, 0)
    OBVIOUS
  <2>1. Climb(p, x, z, 0 + 1) <=> \E u \in Joints(p) \ {0} : Climb(p, x, u, 0) /\ z = p[u]
    <3> DEFINE o == 0
    <3>1. o \in Nat
      OBVIOUS
    <3> HIDE DEF o, G
    <3>2. Climb(p, x, z, o + 1) <=> \E u \in Joints(p) \ {0} : Climb(p, x, u, o) /\ z = p[u]
      BY <3>1, ClimbLast
    <3> QED BY <3>2 DEF o
  <2>2. Climb(p, p[x], z, 0) <=> p[x] = z
    BY ClimbNone
  <2>3. \A u : Climb(p, x, u, 0) <=> x = u
    BY ClimbNone
  <2> QED BY <2>1, <2>2, <2>3
<1>2. ASSUME NEW i \in Nat, i \in G PROVE i + 1 \in G
  <2> SUFFICES ASSUME NEW z
               PROVE  Climb(p, x, z, (i + 1) + 1) <=> x # 0 /\ Climb(p, p[x], z, i + 1)
    OBVIOUS
  <2>0. i + 1 \in Nat
    OBVIOUS
  <2>1. Climb(p, x, z, (i + 1) + 1)
          <=> \E u \in Joints(p) \ {0} : Climb(p, x, u, i + 1) /\ z = p[u]
    <3> DEFINE o == i + 1
    <3>1. o \in Nat
      OBVIOUS
    <3> HIDE DEF o, G
    <3>2. Climb(p, x, z, o + 1) <=> \E u \in Joints(p) \ {0} : Climb(p, x, u, o) /\ z = p[u]
      BY <3>1, ClimbLast
    <3> QED BY <3>2 DEF o
  <2>2. Climb(p, p[x], z, i + 1) <=> \E u \in Joints(p) \ {0} : Climb(p, p[x], u, i) /\ z = p[u]
    BY ClimbLast
  <2>3. \A u : Climb(p, x, u, i + 1) <=> x # 0 /\ Climb(p, p[x], u, i)
    BY <1>2
  <2> QED BY <2>1, <2>2, <2>3
<1>3. \A i \in Nat : i \in G => i + 1 \in G
  BY <1>2
<1> HIDE DEF G
<1>4. m \in G
  BY <1>1, <1>3, Induction
<1> QED BY <1>4 DEF G

(* It is one joint, and its number is lower by m at least.                 *)
LEMMA ClimbOne ==
  ASSUME NEW p, NEW n, Tree(p, n), NEW x \in Joints(p), NEW y, NEW m \in Nat, Climb(p, x, y, m)
  PROVE  /\ y \in Joints(p) /\ y + m <= x
         /\ \A z : Climb(p, x, z, m) => z = y
<1> DEFINE G == {i \in Nat : /\ \A z : Climb(p, x, z, i) => z \in Joints(p) /\ z + i <= x
                             /\ \A z, u : Climb(p, x, z, i) /\ Climb(p, x, u, i) => z = u}
<1>1. 0 \in G
  <2>1. x \in Nat
    BY TreeFacts
  <2>2. \A z : Climb(p, x, z, 0) => x = z
    BY ClimbNone
  <2> QED BY <2>1, <2>2
<1>2. ASSUME NEW i \in Nat, i \in G PROVE i + 1 \in G
  <2>1. ASSUME NEW z, Climb(p, x, z, i + 1) PROVE z \in Joints(p) /\ z + (i + 1) <= x
    <3>1. PICK u \in Joints(p) \ {0} : Climb(p, x, u, i) /\ z = p[u]
      BY <2>1, ClimbLast
    <3>2. u + i <= x
      BY <1>2, <3>1
    <3>3. z \in Joints(p) /\ z < u /\ z \in Int /\ u \in Int /\ x \in Int
      BY <3>1, TreeFacts
    <3> QED BY <3>2, <3>3
  <2>2. ASSUME NEW z, NEW w, Climb(p, x, z, i + 1), Climb(p, x, w, i + 1) PROVE z = w
    <3>1. PICK u \in Joints(p) \ {0} : Climb(p, x, u, i) /\ z = p[u]
      BY <2>2, ClimbLast
    <3>2. PICK v \in Joints(p) \ {0} : Climb(p, x, v, i) /\ w = p[v]
      BY <2>2, ClimbLast
    <3>3. u = v
      BY <1>2, <3>1, <3>2
    <3> QED BY <3>1, <3>2, <3>3
  <2> QED BY <2>1, <2>2
<1>3. \A i \in Nat : i \in G => i + 1 \in G
  BY <1>2
<1> HIDE DEF G
<1>4. m \in G
  BY <1>1, <1>3, Induction
<1> QED BY <1>4 DEF G

(* One climb after another.                                                *)
LEMMA ClimbJoin ==
  ASSUME NEW p, NEW n, Tree(p, n), NEW x, NEW y, NEW z, NEW a \in Nat, NEW b \in Nat,
         Climb(p, x, y, a), Climb(p, y, z, b)
  PROVE  Climb(p, x, z, a + b)
<1> DEFINE G == {i \in Nat : \A u : Climb(p, y, u, i) => Climb(p, x, u, a + i)}
<1>1. 0 \in G
  BY ClimbNone
<1>2. ASSUME NEW i \in Nat, i \in G PROVE i + 1 \in G
  <2> SUFFICES ASSUME NEW u, Climb(p, y, u, i + 1) PROVE Climb(p, x, u, a + (i + 1))
    OBVIOUS
  <2>1. PICK v \in Joints(p) \ {0} : Climb(p, y, v, i) /\ u = p[v]
    BY ClimbLast
  <2>2. Climb(p, x, v, a + i)
    BY <1>2, <2>1
  <2>3. a + i \in Nat /\ a + (i + 1) = (a + i) + 1
    OBVIOUS
  <2> QED BY <2>1, <2>2, <2>3, ClimbLast
<1>3. \A i \in Nat : i \in G => i + 1 \in G
  BY <1>2
<1> HIDE DEF G
<1>4. b \in G
  BY <1>1, <1>3, Induction
<1> QED BY <1>4 DEF G

(* A climb has a joint after each of its steps.                            *)
LEMMA ClimbSplit ==
  ASSUME NEW p, NEW n, Tree(p, n), NEW x, NEW z, NEW a \in Nat, NEW b \in Nat,
         Climb(p, x, z, a + b)
  PROVE  \E y : Climb(p, x, y, a) /\ Climb(p, y, z, b)
<1> DEFINE G == {i \in Nat : \A u : Climb(p, x, u, a + i)
                                      => \E y : Climb(p, x, y, a) /\ Climb(p, y, u, i)}
<1>1. 0 \in G
  <2>1. a + 0 = a
    OBVIOUS
  <2> QED BY <2>1, ClimbNone
<1>2. ASSUME NEW i \in Nat, i \in G PROVE i + 1 \in G
  <2> SUFFICES ASSUME NEW u, Climb(p, x, u, a + (i + 1))
               PROVE  \E y : Climb(p, x, y, a) /\ Climb(p, y, u, i + 1)
    OBVIOUS
  <2>1. a + i \in Nat /\ a + (i + 1) = (a + i) + 1
    OBVIOUS
  <2>2. PICK v \in Joints(p) \ {0} : Climb(p, x, v, a + i) /\ u = p[v]
    <3> DEFINE o == a + i
    <3>1. o \in Nat /\ Climb(p, x, u, o + 1)
      BY <2>1
    <3> HIDE DEF o, G
    <3>2. \E v \in Joints(p) \ {0} : Climb(p, x, v, o) /\ u = p[v]
      BY <3>1, ClimbLast
    <3> QED BY <3>2 DEF o
  <2>3. PICK y : Climb(p, x, y, a) /\ Climb(p, y, v, i)
    BY <1>2, <2>2
  <2>4. Climb(p, y, u, i + 1)
    BY <2>2, <2>3, ClimbLast
  <2> QED BY <2>3, <2>4
<1>3. \A i \in Nat : i \in G => i + 1 \in G
  BY <1>2
<1> HIDE DEF G
<1>4. b \in G
  BY <1>1, <1>3, Induction
<1> QED BY <1>4 DEF G

(* A climb is a walk of the skeleton, either way.                          *)
LEMMA ClimbNear ==
  ASSUME NEW p, NEW n, Tree(p, n), NEW x \in Joints(p), NEW y, NEW m \in Nat, Climb(p, x, y, m)
  PROVE  /\ Near(Adjacency(p), Joints(p), x, y, m)
         /\ Near(Adjacency(p), Joints(p), y, x, m)
<1> DEFINE E == Adjacency(p)
           V == Joints(p)
           G == {i \in Nat : \A u : Climb(p, x, u, i) => Near(E, V, x, u, i)}
<1>1. 0 \in G
  <2>1. \A u : Climb(p, x, u, 0) => x = u
    BY ClimbNone
  <2>2. Near(E, V, x, x, 0)
    BY NearZero
  <2> QED BY <2>1, <2>2
<1>2. ASSUME NEW i \in Nat, i \in G PROVE i + 1 \in G
  <2> SUFFICES ASSUME NEW u, Climb(p, x, u, i + 1) PROVE Near(E, V, x, u, i + 1)
    OBVIOUS
  <2>1. PICK v \in Joints(p) \ {0} : Climb(p, x, v, i) /\ u = p[v]
    BY ClimbLast
  <2>2. Near(E, V, x, v, i)
    BY <1>2, <2>1
  <2>3. <<v, u>> \in E /\ v \in V
    BY <2>1, AdjacencyFacts
  <2> QED BY <2>2, <2>3, NearNext
<1>3. \A i \in Nat : i \in G => i + 1 \in G
  BY <1>2
<1>4. m \in G
  <2> HIDE DEF G
  <2> QED BY <1>1, <1>3, Induction
<1>5. Near(E, V, x, y, m)
  BY <1>4
<1>6. E \subseteq V \X V /\ (\A e \in E : <<e[2], e[1]>> \in E) /\ V \subseteq V
  BY AdjacencyFacts
<1> HIDE DEF G
<1>7. Near(E, V, y, x, m)
  <2>1. x \in V
    OBVIOUS
  <2> HIDE DEF E, V
  <2> QED BY <1>5, <1>6, <2>1, NearBack
<1> QED BY <1>5, <1>7

(* Every joint is above a leaf, or is one.                                 *)
LEMMA LeafBelow ==
  ASSUME NEW p, NEW n, Tree(p, n), NEW x \in Joints(p)
  PROVE  \E l \in Leaves(p) : \E m \in Nat : Climb(p, l, x, m)
<1> DEFINE S == {y \in Joints(p) : \E l \in Leaves(p) : \E m \in Nat : Climb(p, l, y, m)}
<1>1. ASSUME NEW i \in Joints(p), Children(p, i) \subseteq S PROVE i \in S
  <2>1. CASE Children(p, i) = {}
    <3>1. i \in Leaves(p) /\ Climb(p, i, i, 0)
      BY <2>1, ClimbNone DEF Leaves
    <3> QED BY <3>1
  <2>2. CASE Children(p, i) # {}
    <3>1. PICK c \in Children(p, i) : c \in S
      BY <1>1, <2>2
    <3>2. PICK l \in Leaves(p) : \E m \in Nat : Climb(p, l, c, m)
      BY <3>1
    <3>3. PICK m \in Nat : Climb(p, l, c, m)
      BY <3>2
    <3>4. c \in Joints(p) /\ p[c] = i /\ c # 0
      BY TreeFacts DEF Children
    <3>5. Climb(p, l, i, m + 1)
      BY <3>3, <3>4, ClimbLast
    <3> QED BY <3>2, <3>5
  <2> QED BY <2>1, <2>2
<1> HIDE DEF S
<1>2. Joints(p) \subseteq S
  BY <1>1, FromLeaves
<1> QED BY <1>2 DEF S
-----------------------------------------------------------------------------
(* The anchors.                                                            *)

RuleAnchors(p) == {j \in Joints(p) : p[j] = -1 \/ Cardinality(Children(p, j)) # 1}

(* An anchor is fewer than c steps up.                                     *)
Fine(p, A, c, x) == \E m \in 0 .. (c - 1) : \E a \in A : Climb(p, x, a, m)

(* A joint the walk passed has its anchor, or the walk still counts it; or *)
(* the walk has not come to it.                                            *)
Passed(p, A, c, at, consec, y) ==
  \/ Fine(p, A, c, y)
  \/ at # -1 /\ \E d \in 1 .. consec : Climb(p, y, at, d)
  \/ at # -1 /\ \E d \in Nat : Climb(p, at, y, d)

(* A step of the walk up a chain leaves every joint passed that was, with  *)
(* the anchor it may set.                                                  *)
LEMMA PassUp ==
  ASSUME NEW p, NEW n, Tree(p, n), NEW A, 0 \in A, NEW c \in Nat \ {0}, NEW at \in Joints(p),
         NEW consec \in 0 .. (c - 1), NEW y \in Joints(p), Passed(p, A, c, at, consec, y),
         NEW passed, passed = IF at \in A THEN 0 ELSE consec + 1,
         NEW A2, A2 = IF passed >= c THEN A \cup {at} ELSE A,
         NEW consec2, consec2 = IF passed >= c THEN 0 ELSE passed
  PROVE  consec2 \in 0 .. (c - 1) /\ Passed(p, A2, c, p[at], consec2, y)
<1>0. consec2 \in 0 .. (c - 1) /\ A \subseteq A2
  OBVIOUS
<1>1. CASE Fine(p, A, c, y)
  <2>1. Fine(p, A2, c, y)
    BY <1>0, <1>1 DEF Fine
  <2> QED BY <1>0, <2>1 DEF Passed
<1>2. ASSUME NEW d \in 0 .. consec, Climb(p, y, at, d) PROVE Passed(p, A2, c, p[at], consec2, y)
  <2>1. CASE at \in A2
    <3>1. d \in 0 .. (c - 1)
      OBVIOUS
    <3>2. Fine(p, A2, c, y)
      BY <1>2, <2>1, <3>1 DEF Fine
    <3> QED BY <3>2 DEF Passed
  <2>2. CASE at \notin A2
    <3>1. at \notin A /\ at # 0 /\ consec2 = consec + 1
      BY <2>2
    <3>2. p[at] \in Joints(p) /\ p[at] # -1
      BY <3>1, TreeFacts
    <3>3. d \in Nat /\ at \in Joints(p) \ {0}
      BY <3>1
    <3>4. Climb(p, y, p[at], d + 1)
      BY <1>2, <3>3, ClimbLast
    <3>5. d + 1 \in 1 .. consec2
      BY <3>1
    <3> QED BY <3>2, <3>4, <3>5 DEF Passed
  <2> QED BY <2>1, <2>2
<1>3. CASE \E d \in 1 .. consec : Climb(p, y, at, d)
  <2>1. PICK d \in 1 .. consec : Climb(p, y, at, d)
    BY <1>3
  <2>2. d \in 0 .. consec
    OBVIOUS
  <2> QED BY <1>0, <1>2, <2>1, <2>2
<1>4. CASE \E d \in Nat : Climb(p, at, y, d)
  <2>1. PICK d \in Nat : Climb(p, at, y, d)
    BY <1>4
  <2>2. CASE d = 0
    <3>1. Climb(p, y, at, 0) /\ 0 \in 0 .. consec
      BY <2>1, <2>2, ClimbNone
    <3> QED BY <1>0, <1>2, <3>1
  <2>3. CASE d # 0
    <3>1. d - 1 \in Nat /\ (d - 1) + 1 = d
      BY <2>3
    <3> DEFINE b == d - 1
    <3>2. b \in Nat /\ Climb(p, at, y, b + 1)
      BY <2>1, <3>1
    <3> HIDE DEF b
    <3>3. at # 0 /\ Climb(p, p[at], y, b)
      BY <3>2, ClimbFirst
    <3>4. p[at] # -1
      BY <3>3, TreeFacts
    <3> QED BY <1>0, <3>2, <3>3, <3>4 DEF Passed
  <2> QED BY <2>2, <2>3
<1> QED BY <1>0, <1>1, <1>3, <1>4 DEF Passed

(* Before the walk from a leaf starts, every joint above it is passed.     *)
LEMMA PassStart ==
  ASSUME NEW p, NEW n, Tree(p, n), NEW A, NEW c \in Nat \ {0}, NEW l \in A, l \in Joints(p),
         NEW y, NEW m \in Nat, Climb(p, l, y, m)
  PROVE  Passed(p, A, c, p[l], 0, y)
<1>1. CASE m = 0
  <2>1. Climb(p, y, l, 0)
    BY <1>1, ClimbNone
  <2>2. 0 \in 0 .. (c - 1)
    OBVIOUS
  <2>3. Fine(p, A, c, y)
    BY <2>1, <2>2 DEF Fine
  <2> QED BY <2>3 DEF Passed
<1>2. CASE m # 0
  <2> DEFINE b == m - 1
  <2>1. b \in Nat /\ b + 1 = m
    BY <1>2
  <2>2. Climb(p, l, y, b + 1)
    BY <2>1
  <2> HIDE DEF b
  <2>3. l # 0 /\ Climb(p, p[l], y, b)
    BY <2>1, <2>2, ClimbFirst
  <2>4. p[l] # -1
    BY <2>3, TreeFacts
  <2> QED BY <2>1, <2>3, <2>4 DEF Passed
<1> QED BY <1>1, <1>2

ChosenInv ==
  /\ anchors \subseteq Valid /\ leaves \subseteq Leaves(par)
  /\ up \in [at : Valid \cup {-1}, consec : 0 .. (set.chunk - 1)]
  /\ pc = "chunk" => ~ given
  /\ (kind \in Anchored /\ pc \notin Early \cup {"anchors", "refused"}) =>
       0 \in anchors /\ (~ given => RuleAnchors(par) \subseteq anchors)
  /\ pc = "chunk" =>
       \A l \in Leaves(par) \ leaves : \A y : \A m \in Nat :
         Climb(par, l, y, m) => Passed(par, anchors, set.chunk, up.at, up.consec, y)
  /\ (pc = "assign" /\ kind \in Anchored /\ ~ given) =>
       \A y \in Valid : Fine(par, anchors, set.chunk, y)

(* Nothing is chosen initially.                                            *)
LEMMA ChosenInit == Init => ChosenInv
<1> SUFFICES ASSUME Init PROVE ChosenInv
  OBVIOUS
<1>1. set \in Settings
  BY PoolAssumption DEF Init
<1>2. 0 \in 0 .. (set.chunk - 1)
  BY <1>1, PoolAssumption
<1>3. anchors = {} /\ leaves = {} /\ up = [at |-> -1, consec |-> 0] /\ kind = "none"
      /\ pc \in {"depth", "validate"}
  BY DEF Init
<1>4. up \in [at : Valid \cup {-1}, consec : 0 .. (set.chunk - 1)]
  BY <1>2, <1>3
<1> QED BY <1>3, <1>4 DEF ChosenInv, Anchored

(* Every step keeps ChosenInv.                                             *)
LEMMA ChosenStep == ValidInv /\ ChosenInv /\ [Next]_vars => ChosenInv'
<1> SUFFICES ASSUME ValidInv, ChosenInv, [Next]_vars PROVE ChosenInv'
  OBVIOUS
<1>0. par' = par /\ Valid' = Valid /\ (pc' = pc \/ <<pc, pc'>> \in Moves)
  BY Turns DEF Valid
<1>1. BaseInv /\ BaseInv'
  BY BaseStep DEF ValidInv
<1>2. set \in Settings /\ set.chunk \in Nat \ {0}
  BY <1>1, PoolAssumption DEF BaseInv
<1>3. CASE ValidateEnd
  <2>1. UNCHANGED chosen /\ pc = "visit" /\ pc' \in {"entry", "invalid"} /\ set' \in Settings
    BY <1>1, <1>3 DEF ValidateEnd, Reject, choice, BaseInv
  <2>2. anchors = {} /\ leaves = {} /\ up = [at |-> -1, consec |-> 0]
    BY <1>1, <2>1 DEF BaseInv, Early, Unchecked
  <2>3. 0 \in 0 .. (set'.chunk - 1)
    BY <2>1, PoolAssumption
  <2>4. up' \in [at : Valid' \cup {-1}, consec : 0 .. (set'.chunk - 1)]
    BY <2>1, <2>2, <2>3 DEF chosen
  <2> QED BY <2>1, <2>2, <2>4 DEF ChosenInv, chosen, Early, Unchecked
<1>4. CASE pc \in Unchecked /\ ~ ValidateEnd
  <2>1. UNCHANGED <<chosen, choice>> /\ pc' \in Unchecked
    BY <1>4, Where, Turns DEF Unchecked, vars, Moves, DepthUp, DepthNext, ValidateStart, Visit,
       Reject
  <2> QED BY <1>0, <2>1 DEF ChosenInv, chosen, choice, Early, Unchecked
<1>5. CASE pc \notin Unchecked
  <2>0. RootFirst(par)
    BY <1>1, <1>5 DEF BaseInv
  <2>t. PICK n \in 1 .. J : Tree(par, n) /\ Joints(par) = Valid
    BY <1>1, <2>0, TreeOf
  <2>c. UNCHANGED choice
    BY <1>5, Frames DEF ValidateEnd, Unchecked
  <2>1. CASE AnchorRules
    <3>1. /\ pc = "anchors" /\ pc' = "chunk" /\ anchors' = RuleAnchors(par)
          /\ leaves' = Leaves(par) /\ UNCHANGED <<given, up>>
      BY <2>1, <2>t DEF AnchorRules, RuleAnchors
    <3>2. ~ given
      BY <1>1, <3>1 DEF BaseInv
    <3>3. 0 \in anchors' /\ anchors' \subseteq Valid
      BY <2>t, <3>1, TreeFacts DEF RuleAnchors
    <3> QED BY <1>0, <2>c, <3>1, <3>2, <3>3 DEF ChosenInv, choice
  <2>2. CASE GivenAnchors
    <3>1. /\ pc' = "assign" /\ given' = TRUE /\ UNCHANGED <<leaves, up>>
          /\ anchors' \subseteq Valid /\ 0 \in anchors'
      BY <2>2 DEF GivenAnchors, AnchorSets
    <3> QED BY <1>0, <2>c, <3>1 DEF ChosenInv, choice
  <2>3. CASE ChunkLeaf
    <3> DEFINE leaf == CHOOSE l \in leaves : \A m \in leaves : l <= m
    <3>1. /\ pc = "chunk" /\ pc' = "chunk" /\ up.at = -1 /\ leaves # {}
          /\ up' = [at |-> par[leaf], consec |-> 0] /\ leaves' = leaves \ {leaf}
          /\ UNCHANGED <<given, anchors>>
      BY <2>3 DEF ChunkLeaf
    <3>2. leaf \in leaves
      <4>1. leaves \in SUBSET Nat
        BY <2>t, TreeFacts DEF ChosenInv, Leaves
      <4>2. \E l \in leaves : \A m \in leaves : l <= m
        BY <3>1, <4>1, LeastOf
      <4> QED BY <4>2
    <3> HIDE DEF leaf
    <3>3. leaf \in Leaves(par) /\ leaf \in Joints(par) /\ Children(par, leaf) = {}
      BY <3>2 DEF ChosenInv, Leaves
    <3>4. 0 \in anchors /\ RuleAnchors(par) \subseteq anchors
      BY <1>1, <3>1 DEF ChosenInv, BaseInv, Early, Unchecked
    <3>5. leaf \in anchors
      <4>1. Cardinality(Children(par, leaf)) = 0
        BY <3>3, FS_EmptySet
      <4> QED BY <3>3, <3>4, <4>1 DEF RuleAnchors
    <3>6. par[leaf] \in Valid \cup {-1}
      BY <2>t, <3>3, TreeFacts
    <3>7. up' \in [at : Valid' \cup {-1}, consec : 0 .. (set'.chunk - 1)]
      BY <1>0, <1>2, <2>c, <3>1, <3>6 DEF choice
    <3>8. ASSUME NEW l \in Leaves(par) \ leaves', NEW y, NEW m \in Nat, Climb(par, l, y, m)
          PROVE  Passed(par, anchors, set.chunk, par[leaf], 0, y)
      <4>1. CASE l = leaf
        BY <1>2, <2>t, <3>3, <3>5, <3>8, <4>1, PassStart
      <4>2. CASE l # leaf
        <5>1. l \in Leaves(par) \ leaves
          BY <3>1, <4>2
        <5>2. Passed(par, anchors, set.chunk, up.at, up.consec, y)
          BY <3>1, <3>8, <5>1 DEF ChosenInv
        <5> QED BY <3>1, <5>2 DEF Passed
      <4> QED BY <4>1, <4>2
    <3>9. /\ anchors' \subseteq Valid' /\ leaves' \subseteq Leaves(par') /\ ~ given'
          /\ 0 \in anchors' /\ RuleAnchors(par') \subseteq anchors'
      BY <1>0, <3>1, <3>4 DEF ChosenInv
    <3>10. \A l \in Leaves(par') \ leaves' : \A y : \A m \in Nat :
             Climb(par', l, y, m) => Passed(par', anchors', set'.chunk, up'.at, up'.consec, y)
      BY <1>0, <2>c, <3>1, <3>8 DEF choice
    <3> QED BY <3>1, <3>7, <3>9, <3>10 DEF ChosenInv
  <2>4. CASE ChunkUp
    <3> DEFINE passed == IF up.at \in anchors THEN 0 ELSE up.consec + 1
               more == IF passed >= set.chunk THEN anchors \cup {up.at} ELSE anchors
               count == IF passed >= set.chunk THEN 0 ELSE passed
    <3>1. /\ pc = "chunk" /\ pc' = "chunk" /\ up.at # -1
          /\ up' = [at |-> par[up.at], consec |-> count] /\ anchors' = more
          /\ UNCHANGED <<given, leaves>>
      BY <2>4 DEF ChunkUp
    <3>2. up.at \in Joints(par) /\ up.consec \in 0 .. (set.chunk - 1)
      BY <2>t, <3>1 DEF ChosenInv
    <3>4. 0 \in anchors /\ RuleAnchors(par) \subseteq anchors /\ ~ given
      BY <1>1, <3>1 DEF ChosenInv, BaseInv, Early, Unchecked
    <3>5. anchors \subseteq more /\ more \subseteq Valid
      BY <2>t, <3>2 DEF ChosenInv
    <3>6. par[up.at] \in Valid \cup {-1}
      BY <2>t, <3>2, TreeFacts
    <3>7. count \in 0 .. (set.chunk - 1)
      BY <1>2, <3>2
    <3>8. ASSUME NEW l \in Leaves(par) \ leaves, NEW y, NEW m \in Nat, Climb(par, l, y, m)
          PROVE  Passed(par, more, set.chunk, par[up.at], count, y)
      <4>1. Passed(par, anchors, set.chunk, up.at, up.consec, y)
        BY <3>1, <3>8 DEF ChosenInv
      <4>2. y \in Joints(par)
        <5>1. l \in Joints(par)
          BY DEF Leaves
        <5> QED BY <2>t, <3>8, <5>1, ClimbOne
      <4>3. \A q : q = passed => Passed(par, more, set.chunk, par[up.at], count, y)
        <5> TAKE q
        <5> HAVE q = passed
        <5>1. q = (IF up.at \in anchors THEN 0 ELSE up.consec + 1)
          OBVIOUS
        <5>2. /\ more = IF q >= set.chunk THEN anchors \cup {up.at} ELSE anchors
              /\ count = IF q >= set.chunk THEN 0 ELSE q
          OBVIOUS
        <5> HIDE DEF more, count, passed
        <5> QED BY <1>2, <2>t, <3>2, <3>4, <4>1, <4>2, <5>1, <5>2, PassUp
      <4> QED BY <4>3
    <3> HIDE DEF passed, more, count
    <3>9. /\ anchors' \subseteq Valid' /\ leaves' \subseteq Leaves(par') /\ ~ given'
          /\ 0 \in anchors' /\ RuleAnchors(par') \subseteq anchors'
      BY <1>0, <3>1, <3>4, <3>5 DEF ChosenInv
    <3>10. \A l \in Leaves(par') \ leaves' : \A y : \A m \in Nat :
             Climb(par', l, y, m) => Passed(par', anchors', set'.chunk, up'.at, up'.consec, y)
      BY <1>0, <2>c, <3>1, <3>8 DEF choice
    <3>11. up' \in [at : Valid' \cup {-1}, consec : 0 .. (set'.chunk - 1)]
      BY <1>0, <2>c, <3>1, <3>6, <3>7 DEF choice
    <3> QED BY <3>1, <3>9, <3>10, <3>11 DEF ChosenInv
  <2>5. CASE SelectAnchors
    <3>1. pc = "chunk" /\ up.at = -1 /\ leaves = {} /\ UNCHANGED chosen
          /\ pc' \in {"assign", "refused"}
      BY <2>5 DEF SelectAnchors, Refuse
    <3>2. ASSUME NEW y \in Valid PROVE Fine(par, anchors, set.chunk, y)
      <4>1. PICK l \in Leaves(par) : \E m \in Nat : Climb(par, l, y, m)
        BY <2>t, LeafBelow
      <4>2. PICK m \in Nat : Climb(par, l, y, m)
        BY <4>1
      <4>3. Passed(par, anchors, set.chunk, up.at, up.consec, y)
        BY <3>1, <4>1, <4>2 DEF ChosenInv
      <4> QED BY <3>1, <4>3 DEF Passed
    <3>3. 0 \in anchors /\ RuleAnchors(par) \subseteq anchors
      BY <1>1, <3>1 DEF ChosenInv, BaseInv, Early, Unchecked
    <3> QED BY <1>0, <2>c, <3>1, <3>2, <3>3 DEF ChosenInv, chosen, choice
  <2>6. CASE UNCHANGED chosen /\ ~ (SelectAnchors \/ AnchorRules \/ GivenAnchors)
    <3>1. pc = "entry" /\ kind \in Anchored => pc' \in {"entry", "refused", "anchors"}
      <4>1. PoolEntry => pc' = "refused" \/ pc' = CASE kind = "edge" -> "segment"
                                                    [] kind = "none" -> "assign"
                                                    [] OTHER         -> "anchors"
        BY DEF PoolEntry, Refuse
      <4>2. pc = "entry" => PoolEntry \/ pc' = pc
        BY Where DEF vars
      <4> QED BY <4>1, <4>2 DEF Anchored
    <3>2. pc = "anchors" => pc' = pc
      BY <2>6, Where DEF vars
    <3>3. pc = "chunk" => pc' = pc
      BY <2>6, Where DEF vars, ChunkLeaf, ChunkUp
    <3>4. pc = "segment" => kind = "edge"
      BY <1>1 DEF BaseInv
    <3>5. pc' = "chunk" => pc = "chunk"
      BY <1>0, <3>2 DEF Moves
    <3>6. kind \in Anchored /\ pc' \notin Early \cup {"anchors", "refused"}
            => pc \notin Early \cup {"anchors", "refused"}
      BY <1>0, <1>5, <3>1, <3>2 DEF Moves, Early, Unchecked
    <3>7. pc' = "assign" /\ kind \in Anchored => pc = "assign"
      BY <1>0, <3>1, <3>2, <3>3, <3>4 DEF Moves, Anchored
    <3>8. UNCHANGED <<given, anchors, leaves, up, kind, set>>
      BY <2>c, <2>6 DEF chosen, choice
    <3>9. /\ anchors \subseteq Valid' /\ leaves \subseteq Leaves(par')
          /\ up \in [at : Valid' \cup {-1}, consec : 0 .. (set.chunk - 1)]
          /\ pc' = "chunk" => ~ given
      BY <1>0, <3>5 DEF ChosenInv
    <3>10. (kind \in Anchored /\ pc' \notin Early \cup {"anchors", "refused"}) =>
             0 \in anchors /\ (~ given => RuleAnchors(par') \subseteq anchors)
      BY <1>0, <3>6 DEF ChosenInv
    <3>11. pc' = "chunk" =>
             \A l \in Leaves(par') \ leaves : \A y : \A m \in Nat :
               Climb(par', l, y, m) => Passed(par', anchors, set.chunk, up.at, up.consec, y)
      BY <1>0, <3>5 DEF ChosenInv
    <3>12. (pc' = "assign" /\ kind \in Anchored /\ ~ given) =>
             \A y \in Valid' : Fine(par', anchors, set.chunk, y)
      BY <1>0, <3>7 DEF ChosenInv
    <3> QED BY <3>8, <3>9, <3>10, <3>11, <3>12 DEF ChosenInv
  <2> QED BY <2>1, <2>2, <2>3, <2>4, <2>5, <2>6, Frames
<1> QED BY <1>3, <1>4, <1>5
(* The joints above a joint, as the property follows them.                 *)
LEMMA AboveIs ==
  ASSUME NEW p, NEW n, Tree(p, n), NEW b \in Joints(p), NEW K \in Nat,
         NEW C, C = CHOOSE f : f = [m \in 0 .. K |-> IF m = 0 THEN b ELSE p[f[m - 1]]],
         NEW i \in 0 .. K, NEW y, Climb(p, b, y, i)
  PROVE  C[i] = y
<1> DEFINE F(f, k2) == [m \in 0 .. k2 |-> IF m = 0 THEN b ELSE p[f[m - 1]]]
           G == {k2 \in Nat : \E f : f = F(f, k2)}
<1>1. 0 \in G
  <2> DEFINE f == [m \in 0 .. 0 |-> b]
  <2>1. f = F(f, 0)
    OBVIOUS
  <2> QED BY <2>1
<1>2. ASSUME NEW k2 \in Nat, k2 \in G PROVE k2 + 1 \in G
  <2>1. PICK f : f = F(f, k2)
    BY <1>2
  <2> DEFINE g == [m \in 0 .. (k2 + 1) |-> IF m = k2 + 1 THEN p[f[k2]] ELSE f[m]]
  <2>2. (\A m \in 0 .. k2 : g[m] = f[m]) /\ g[k2 + 1] = p[f[k2]]
    OBVIOUS
  <2>3. \A m \in 0 .. k2 : f[m] = IF m = 0 THEN b ELSE p[f[m - 1]]
    BY <2>1
  <2>4. g = [m \in 0 .. (k2 + 1) |-> g[m]]
    OBVIOUS
  <2> HIDE DEF g
  <2>5. ASSUME NEW m \in 0 .. (k2 + 1) PROVE g[m] = IF m = 0 THEN b ELSE p[g[m - 1]]
    <3>1. CASE m = k2 + 1
      <4>1. m # 0 /\ m - 1 = k2 /\ k2 \in 0 .. k2
        BY <3>1
      <4> QED BY <2>2, <3>1, <4>1
    <3>2. CASE m \in 0 .. k2 /\ m # 0
      <4>1. m - 1 \in 0 .. k2
        BY <3>2
      <4> QED BY <2>2, <2>3, <3>2, <4>1
    <3>3. CASE m = 0
      <4>1. 0 \in 0 .. k2
        OBVIOUS
      <4> QED BY <2>2, <2>3, <3>3, <4>1
    <3> QED BY <3>1, <3>2, <3>3
  <2>6. g = F(g, k2 + 1)
    BY <2>4, <2>5
  <2> QED BY <2>6
<1>3. \A k2 \in Nat : k2 \in G => k2 + 1 \in G
  BY <1>2
<1>4. K \in G
  <2> HIDE DEF G
  <2> QED BY <1>1, <1>3, Induction
<1>5. C = F(C, K)
  BY <1>4
<1>6. \A m \in 0 .. K : C[m] = IF m = 0 THEN b ELSE p[C[m - 1]]
  BY <1>5
<1> HIDE DEF G, F
<1> DEFINE H == {m \in Nat : m <= K => \A z : Climb(p, b, z, m) => C[m] = z}
<1>7. 0 \in H
  BY <1>6, ClimbNone
<1>8. ASSUME NEW m \in Nat, m \in H PROVE m + 1 \in H
  <2> SUFFICES ASSUME m + 1 <= K, NEW z, Climb(p, b, z, m + 1) PROVE C[m + 1] = z
    OBVIOUS
  <2>1. PICK u \in Joints(p) \ {0} : Climb(p, b, u, m) /\ z = p[u]
    BY ClimbLast
  <2>2. C[m] = u
    BY <1>8, <2>1
  <2>3. m + 1 \in 0 .. K /\ m + 1 # 0 /\ (m + 1) - 1 = m
    OBVIOUS
  <2> QED BY <1>6, <2>1, <2>2, <2>3
<1>9. \A m \in Nat : m \in H => m + 1 \in H
  BY <1>8
<1> HIDE DEF H
<1>10. i \in H
  BY <1>7, <1>9, Induction
<1> QED BY <1>10 DEF H

(* When the anchors are chosen by the rules, no joint is a chunk away from *)
(* the one above it.                                                       *)
LEMMA SpacingHolds == ValidInv /\ ChosenInv => AnchorSpacing
<1> SUFFICES ASSUME ValidInv, ChosenInv, pc = "assign", kind \in Anchored, ~ given,
                    NEW bottom \in Valid
             PROVE  LET above[m \in 0 .. (set.chunk - 1)] ==
                          IF m = 0 THEN bottom ELSE par[above[m - 1]]
                    IN  \E m \in 0 .. (set.chunk - 1) : above[m] \in anchors
  BY DEF AnchorSpacing, Anchored
<1> DEFINE C == CHOOSE f : f = [m \in 0 .. (set.chunk - 1) |->
                                  IF m = 0 THEN bottom ELSE par[f[m - 1]]]
<1>1. BaseInv /\ RootFirst(par)
  BY DEF ValidInv, BaseInv, Unchecked
<1>2. PICK n \in 1 .. J : Tree(par, n) /\ Joints(par) = Valid
  BY <1>1, TreeOf
<1>3. set.chunk - 1 \in Nat
  BY <1>1, PoolAssumption DEF BaseInv
<1>4. Fine(par, anchors, set.chunk, bottom)
  BY DEF ChosenInv
<1>5. PICK m \in 0 .. (set.chunk - 1) : \E a \in anchors : Climb(par, bottom, a, m)
  BY <1>4 DEF Fine
<1>6. PICK a \in anchors : Climb(par, bottom, a, m)
  BY <1>5
<1>7. \A c : c = C => c[m] = a
  BY SMTT(30), <1>2, <1>3, <1>6, AboveIs
<1>8. C[m] = a
  BY <1>7
<1>9. \E i \in 0 .. (set.chunk - 1) : C[i] \in anchors
  BY <1>6, <1>8
<1> QED BY <1>9
(* With the rules' anchors, the run of joints without one that a joint is  *)
(* in ends within half a chunk, above or below.                            *)
LEMMA InReach ==
  ASSUME NEW p, NEW n, Tree(p, n), NEW A, RuleAnchors(p) \subseteq A, A \subseteq Joints(p),
         NEW c \in Nat \ {0}, \A y \in Joints(p) : Fine(p, A, c, y),
         NEW r \in Nat \ {0}, 2 * r + 1 >= c, NEW x \in Joints(p)
  PROVE  \E a \in A : \E m \in 0 .. r : Near(Adjacency(p), Joints(p), x, a, m)
<1> DEFINE Run(y, z, b) == /\ Climb(p, z, y, b)
                           /\ \A i \in 0 .. b : \A w : Climb(p, z, w, i) => w \notin A
           S == {y \in Joints(p) :
                   y \notin A => \E b \in Nat : \E d \in A : d # 0 /\ Run(y, p[d], b)}
<1>1. ASSUME NEW i \in Joints(p), Children(p, i) \subseteq S PROVE i \in S
  <2> SUFFICES ASSUME i \notin A
               PROVE  \E b \in Nat : \E d \in A : d # 0 /\ Run(i, p[d], b)
    OBVIOUS
  <2>1. Cardinality(Children(p, i)) = 1
    BY DEF RuleAnchors
  <2>2. PICK k2 \in Children(p, i) : TRUE
    <3>1. Children(p, i) # {}
      BY <2>1, FS_EmptySet
    <3> QED BY <3>1
  <2>3. k2 \in Joints(p) /\ p[k2] = i /\ k2 # 0 /\ k2 \in S
    BY <1>1, TreeFacts DEF Children
  <2>4. CASE k2 \in A
    <3>1. \A w : Climb(p, i, w, 0) => w \notin A
      BY ClimbNone
    <3>2. Climb(p, i, i, 0)
      BY ClimbNone
    <3>3. \A j \in 0 .. 0 : j = 0
      OBVIOUS
    <3>4. Run(i, i, 0)
      BY <3>1, <3>2, <3>3
    <3> HIDE DEF Run
    <3> QED BY <2>3, <2>4, <3>4
  <2>5. CASE k2 \notin A
    <3>1. PICK b \in Nat : \E d \in A : d # 0 /\ Run(k2, p[d], b)
      BY <2>3, <2>5
    <3>2. PICK d \in A : d # 0 /\ Run(k2, p[d], b)
      BY <3>1
    <3>3. Climb(p, p[d], i, b + 1)
      BY <2>3, <3>2, ClimbLast
    <3>4. p[d] \in Joints(p)
      BY <3>2, TreeFacts
    <3>5. ASSUME NEW j \in 0 .. (b + 1), NEW w, Climb(p, p[d], w, j) PROVE w \notin A
      <4>1. CASE j \in 0 .. b
        BY <3>2, <3>5, <4>1
      <4>2. CASE j = b + 1
        <5>1. w = i
          BY <3>3, <3>4, <3>5, <4>2, ClimbOne
        <5> QED BY <5>1
      <4> QED BY <4>1, <4>2
    <3>6. Run(i, p[d], b + 1)
      BY <3>3, <3>5
    <3> HIDE DEF Run
    <3> QED BY <3>2, <3>6
  <2> QED BY <2>4, <2>5
<1>2. x \in S
  <2> HIDE DEF S
  <2>1. \A i \in Joints(p) : Children(p, i) \subseteq S => i \in S
    BY <1>1
  <2> QED BY <2>1, FromLeaves
<1>3. CASE x \in A
  <2>1. Near(Adjacency(p), Joints(p), x, x, 0) /\ 0 \in 0 .. r
    BY NearZero
  <2> QED BY <1>3, <2>1
<1>4. CASE x \notin A
  <2>1. PICK b \in Nat : \E d \in A : d # 0 /\ Run(x, p[d], b)
    BY <1>2, <1>4
  <2>2. PICK d \in A : d # 0 /\ Run(x, p[d], b)
    BY <2>1
  <2> DEFINE z == p[d]
  <2>3. d \in Joints(p) /\ z \in Joints(p)
    BY <2>2, TreeFacts
  <2> HIDE DEF z
  <2>4. PICK m \in 0 .. (c - 1) : \E a \in A : Climb(p, z, a, m)
    BY <2>3 DEF Fine
  <2>5. PICK a \in A : Climb(p, z, a, m)
    BY <2>4
  <2>6. m > b
    <3>1. m \in 0 .. b => a \notin A
      BY <2>2, <2>5 DEF z
    <3> QED BY <2>5, <3>1
  <2>7. m - b \in Nat /\ b + (m - b) = m
    BY <2>6
  <2>8. PICK y : Climb(p, z, y, b) /\ Climb(p, y, a, m - b)
    BY <2>5, <2>7, ClimbSplit
  <2>9. y = x
    <3>1. Climb(p, z, x, b)
      BY <2>2 DEF z
    <3> QED BY <2>3, <2>8, <3>1, ClimbOne
  <2>10. Near(Adjacency(p), Joints(p), x, a, m - b)
    BY <2>7, <2>8, <2>9, ClimbNear
  <2>11. Near(Adjacency(p), Joints(p), x, d, b + 1)
    <3>1. Climb(p, d, x, b + 1)
      <4>1. Climb(p, p[d], x, b)
        BY <2>2
      <4> QED BY <2>2, <2>3, <4>1, ClimbFirst
    <3>2. b + 1 \in Nat
      OBVIOUS
    <3> QED BY <2>3, <3>1, <3>2, ClimbNear
  <2>12. m - b \in 0 .. r \/ b + 1 \in 0 .. r
    BY <2>7
  <2> QED BY <2>5, <2>2, <2>10, <2>11, <2>12
<1> QED BY <1>3, <1>4
-----------------------------------------------------------------------------
(* The chains of the edge pool.                                            *)

IsChain(p, s, c) ==
  /\ c \in Seq(Joints(p)) /\ Len(c) >= 1 /\ c[1] = s
  /\ \A i \in 1 .. (Len(c) - 1) : Children(p, c[i]) = {c[i + 1]}
  /\ Cardinality(Children(p, c[Len(c)])) # 1

(* What the model follows down from a joint is its chain.                  *)
LEMMA ChainIs ==
  ASSUME NEW n, Tree(par, n), NEW s \in Valid
  PROVE  IsChain(par, s, ChainFrom(s))
<1> DEFINE Body(f, j) == LET kids == Children(par, j)
                         IN  IF Cardinality(kids) # 1 THEN <<j>>
                             ELSE <<j>> \o f[CHOOSE c \in kids : TRUE]
           F(f) == [j \in Valid |-> Body(f, j)]
           C == CHOOSE f : f = F(f)
           only(j) == CHOOSE c \in Children(par, j) : TRUE
<1>0. /\ Valid = Joints(par) /\ Valid = 0 .. (n - 1) /\ n \in Nat /\ n > 0
  <2>1. Joints(par) = 0 .. (n - 1)
    BY TreeFacts
  <2>2. n \in Nat /\ n > 0
    BY DEF Tree
  <2> QED BY <2>1, <2>2 DEF Valid
<1>1. ASSUME NEW j \in Valid, Cardinality(Children(par, j)) = 1
      PROVE  only(j) \in Valid /\ j < only(j) /\ Children(par, j) = {only(j)}
  <2>1. Children(par, j) # {}
    BY <1>1, FS_EmptySet
  <2>2. only(j) \in Children(par, j)
    BY <2>1
  <2> HIDE DEF only
  <2>3. only(j) \in Valid /\ j < only(j)
    <3>1. only(j) \in Joints(par)
      BY <2>2 DEF Children
    <3> QED BY <1>0, <2>2, <3>1, TreeFacts
  <2>4. IsFiniteSet(Children(par, j))
    <3>1. Children(par, j) \subseteq Joints(par)
      BY DEF Children
    <3> QED BY <3>1, TreeFacts, FS_Subset
  <2>5. {only(j)} \in SUBSET Children(par, j) /\ Cardinality({only(j)}) = 1
    BY <2>2, FS_Singleton
  <2>6. {only(j)} = Children(par, j)
    BY <1>1, <2>4, <2>5, FS_Subset
  <2> QED BY <2>3, <2>6
<1>2. ASSUME NEW f, NEW g, NEW j \in Valid, \A i \in Valid : j < i => f[i] = g[i]
      PROVE  Body(f, j) = Body(g, j)
  <2>1. CASE Cardinality(Children(par, j)) # 1
    BY <2>1
  <2>2. CASE Cardinality(Children(par, j)) = 1
    <3>1. f[only(j)] = g[only(j)]
      <4>1. only(j) \in Valid /\ j < only(j)
        BY <1>1, <2>2
      <4> HIDE DEF only
      <4> QED BY <1>2, <4>1
    <3> QED BY <2>2, <3>1
  <2> QED BY <2>1, <2>2
<1> DEFINE G == {m \in Nat : m <= n => \E f : /\ f = [j \in Valid |-> f[j]]
                                             /\ \A j \in Valid : j >= n - m => f[j] = Body(f, j)}
<1>3. 0 \in G
  <2> DEFINE f == [j \in Valid |-> j]
  <2>1. f = [j \in Valid |-> f[j]]
    OBVIOUS
  <2>2. \A j \in Valid : ~ (j >= n - 0)
    BY <1>0
  <2> HIDE DEF f, Body
  <2> QED BY <2>1, <2>2
<1>4. ASSUME NEW m \in Nat, m \in G PROVE m + 1 \in G
  <2> SUFFICES ASSUME m + 1 <= n
               PROVE  \E f : /\ f = [j \in Valid |-> f[j]]
                             /\ \A j \in Valid : j >= n - (m + 1) => f[j] = Body(f, j)
    OBVIOUS
  <2> HIDE DEF Body, only
  <2>0. m <= n
    BY <1>0
  <2>1. PICK f : /\ f = [j \in Valid |-> f[j]]
                 /\ \A j \in Valid : j >= n - m => f[j] = Body(f, j)
    BY <1>4, <2>0
  <2> DEFINE x == n - (m + 1)
             g == [j \in Valid |-> IF j = x THEN Body(f, x) ELSE f[j]]
  <2>2. x \in Valid /\ \A j \in Valid : j >= x <=> j = x \/ j >= n - m
    BY <1>0
  <2>3. g[x] = Body(f, x) /\ \A j \in Valid : j # x => g[j] = f[j]
    BY <2>2
  <2>4. g = [j \in Valid |-> g[j]]
    OBVIOUS
  <2> HIDE DEF g
  <2>5. ASSUME NEW j \in Valid, j >= x PROVE g[j] = Body(g, j)
    <3>0. x \in Int /\ j \in Int
      BY <1>0, <2>2
    <3>1. \A i \in Valid : j < i => f[i] = g[i]
      <4> TAKE i \in Valid
      <4> HAVE j < i
      <4>1. i \in Int
        BY <1>0
      <4>2. i # x
        BY <2>5, <3>0, <4>1
      <4> QED BY <2>3, <4>2
    <3>2. Body(f, j) = Body(g, j)
      BY <1>2, <3>1
    <3>3. CASE j = x
      BY <2>3, <3>2, <3>3
    <3>4. CASE j # x
      BY <2>1, <2>2, <2>3, <2>5, <3>2, <3>4
    <3> QED BY <3>3, <3>4
  <2> QED BY <2>4, <2>5 DEF x
<1>5. n \in G
  <2> HIDE DEF G
  <2>1. \A m \in Nat : m \in G => m + 1 \in G
    BY <1>4
  <2> QED BY <1>0, <1>3, <2>1, Induction
<1>6. C = F(C)
  <2> HIDE DEF Body
  <2>1. PICK f : /\ f = [j \in Valid |-> f[j]]
                 /\ \A j \in Valid : j >= n - n => f[j] = Body(f, j)
    BY <1>5, <1>0
  <2>2. \A j \in Valid : f[j] = Body(f, j)
    BY <1>0, <2>1
  <2>3. f = F(f)
    BY <2>1, <2>2
  <2> HIDE DEF F
  <2> QED BY <2>3
<1>7. ChainFrom(s) = C[s]
  BY DEF ChainFrom
<1>8. \A j \in Valid : C[j] = Body(C, j)
  <2> HIDE DEF C, Body
  <2> QED BY <1>6
<1> HIDE DEF C, F, G
<1> DEFINE S == {j \in Valid : IsChain(par, j, C[j])}
<1>9. ASSUME NEW i \in Joints(par), Children(par, i) \subseteq S PROVE i \in S
  <2>1. CASE Cardinality(Children(par, i)) # 1
    <3>1. C[i] = <<i>>
      BY <1>0, <1>8, <2>1
    <3>2. IsChain(par, i, <<i>>)
      BY <2>1 DEF IsChain
    <3> QED BY <1>0, <3>1, <3>2
  <2>2. CASE Cardinality(Children(par, i)) = 1
    <3> DEFINE o == only(i)
    <3>1. C[i] = <<i>> \o C[o]
      BY <1>0, <1>8, <2>2
    <3>2. Children(par, i) = {o} /\ o \in Valid
      BY <1>0, <1>1, <2>2
    <3> HIDE DEF o, only, Body
    <3>3. IsChain(par, o, C[o])
      BY <1>9, <3>2
    <3> DEFINE c == C[o]
               d == C[i]
    <3>4. c \in Seq(Joints(par)) /\ Len(c) >= 1 /\ Len(c) \in Nat /\ c[1] = o
      BY <3>3 DEF IsChain
    <3>5. /\ d \in Seq(Joints(par)) /\ Len(d) = Len(c) + 1 /\ d[1] = i
          /\ \A j \in 1 .. Len(c) : d[j + 1] = c[j]
      <4>1. d = <<i>> \o c /\ <<i>> \in Seq(Joints(par)) /\ Len(<<i>>) = 1
        BY <3>1
      <4> HIDE DEF c, d
      <4> QED BY <3>4, <4>1
    <3>6. ASSUME NEW j \in 1 .. (Len(d) - 1) PROVE Children(par, d[j]) = {d[j + 1]}
      <4> HIDE DEF c, d
      <4>1. CASE j = 1
        BY <3>2, <3>4, <3>5, <4>1
      <4>2. CASE j # 1
        <5>1. j - 1 \in 1 .. (Len(c) - 1) /\ j - 1 \in 1 .. Len(c) /\ j \in 1 .. Len(c)
              /\ (j - 1) + 1 = j
          BY <3>4, <3>5, <4>2
        <5>2. d[j] = c[j - 1] /\ d[j + 1] = c[j]
          BY <3>5, <5>1
        <5>3. Children(par, c[j - 1]) = {c[(j - 1) + 1]}
          BY <3>3, <5>1 DEF IsChain, c
        <5> QED BY <5>1, <5>2, <5>3
      <4> QED BY <4>1, <4>2
    <3>7. Cardinality(Children(par, d[Len(d)])) # 1
      <4>1. Cardinality(Children(par, c[Len(c)])) # 1
        BY <3>3 DEF IsChain
      <4> HIDE DEF c, d
      <4>2. Len(c) \in 1 .. Len(c)
        BY <3>4
      <4> QED BY <3>4, <3>5, <4>1, <4>2
    <3>8. IsChain(par, i, d)
      <4> HIDE DEF c, d
      <4>1. Len(d) >= 1
        BY <3>4, <3>5
      <4>2. d \in Seq(Joints(par)) /\ d[1] = i
        BY <3>5
      <4>3. \A j \in 1 .. (Len(d) - 1) : Children(par, d[j]) = {d[j + 1]}
        BY <3>6
      <4> QED BY <3>7, <4>1, <4>2, <4>3 DEF IsChain
    <3> QED BY <1>0, <3>8
  <2> QED BY <2>1, <2>2
<1> HIDE DEF S
<1>10. Joints(par) \subseteq S
  BY <1>9, FromLeaves
<1> QED BY <1>0, <1>7, <1>10 DEF S

(* The joints of a chain follow one another and grow.                      *)
LEMMA ChainGrows ==
  ASSUME NEW p, NEW n, Tree(p, n), NEW s, NEW c, IsChain(p, s, c)
  PROVE  /\ \A i \in 1 .. Len(c) : c[i] \in Joints(p)
         /\ \A i \in 1 .. (Len(c) - 1) : c[i + 1] # 0 /\ p[c[i + 1]] = c[i]
         /\ \A i, j \in 1 .. Len(c) : i < j => c[i] < c[j]
<1>1. \A i \in 1 .. Len(c) : c[i] \in Joints(p) /\ c[i] \in Nat
  BY TreeFacts DEF IsChain
<1>2. ASSUME NEW i \in 1 .. (Len(c) - 1)
      PROVE  c[i + 1] # 0 /\ p[c[i + 1]] = c[i] /\ c[i] < c[i + 1]
  <2>0. i \in 1 .. Len(c) /\ i + 1 \in 1 .. Len(c)
    BY DEF IsChain
  <2>1. c[i + 1] \in Children(p, c[i]) /\ c[i + 1] \in Joints(p) /\ c[i] \in Joints(p)
    BY <1>1, <2>0 DEF IsChain
  <2>2. p[c[i + 1]] = c[i]
    BY <2>1 DEF Children
  <2> QED BY <2>1, <2>2, TreeFacts
<1> DEFINE G == {d \in Nat : \A i \in 1 .. Len(c) :
      i + d + 1 \in 1 .. Len(c) => c[i] < c[i + d + 1]}
<1>3. 0 \in G
  <2>1. ASSUME NEW i \in 1 .. Len(c), i + 0 + 1 \in 1 .. Len(c) PROVE c[i] < c[i + 0 + 1]
    <3>1. i \in 1 .. (Len(c) - 1) /\ i + 0 + 1 = i + 1
      BY <2>1 DEF IsChain
    <3> QED BY <1>2, <3>1
  <2> QED BY <2>1
<1>4. ASSUME NEW d \in Nat, d \in G PROVE d + 1 \in G
  <2> SUFFICES ASSUME NEW i \in 1 .. Len(c), i + (d + 1) + 1 \in 1 .. Len(c)
               PROVE  c[i] < c[i + (d + 1) + 1]
    OBVIOUS
  <2> DEFINE x == i + d + 1
  <2>0. Len(c) \in Nat
    BY DEF IsChain
  <2>1. x \in 1 .. (Len(c) - 1) /\ x \in 1 .. Len(c) /\ i + (d + 1) + 1 = x + 1
        /\ x + 1 \in 1 .. Len(c)
    BY <2>0
  <2>2. c[i] < c[x]
    BY <1>4, <2>1
  <2> HIDE DEF x
  <2>3. c[x] < c[x + 1]
    BY <1>2, <2>1
  <2>4. c[i] \in Nat /\ c[x] \in Nat /\ c[x + 1] \in Nat
    BY <1>1, <2>1
  <2> QED BY <2>1, <2>2, <2>3, <2>4
<1>5. \A d \in Nat : d \in G => d + 1 \in G
  BY <1>4
<1> HIDE DEF G
<1>6. \A d \in Nat : d \in G
  BY <1>3, <1>5, Induction
<1>7. ASSUME NEW i \in 1 .. Len(c), NEW j \in 1 .. Len(c), i < j PROVE c[i] < c[j]
  <2>1. j - i - 1 \in Nat /\ i + (j - i - 1) + 1 = j
    BY <1>7
  <2> QED BY <1>6, <2>1 DEF G
<1> QED BY <1>1, <1>2, <1>7
(* A sequence cut into pieces: piece i begins at lo[i].                    *)
IsSplit(q, c, lo) ==
  /\ Len(q) \in Nat /\ Len(q) >= 1
  /\ \A i \in 1 .. (Len(q) + 1) : lo[i] \in Nat
  /\ lo[1] = 1 /\ lo[Len(q) + 1] = Len(c) + 1
  /\ \A i \in 1 .. Len(q) : \A j \in 1 .. (Len(q) + 1) : i < j => lo[i + 1] <= lo[j]
  /\ \A i \in 1 .. Len(q) : /\ lo[i] < lo[i + 1] /\ Len(q[i]) = lo[i + 1] - lo[i]
                            /\ \A j \in 1 .. Len(q[i]) : q[i][j] = c[lo[i] + j - 1]
  /\ \A m \in 1 .. Len(c) : \E i \in 1 .. Len(q) : lo[i] <= m /\ m < lo[i + 1]

(* A chain is cut into pieces of two, the last of one when it is odd.      *)
LEMMA PairsSplit ==
  ASSUME NEW S, NEW c \in Seq(S), Len(c) >= 1
  PROVE  /\ \E lo : IsSplit(Pairs(c), c, lo)
         /\ Pairs(c) \in Seq(Seq(S))
<1> DEFINE o == Len(c) % 2
           n == (Len(c) + o) \div 2
           q == Pairs(c)
           lo == [i \in 1 .. (n + 1) |-> IF o = 1 /\ i = 1 THEN 1 ELSE 2 * i - 1 - o]
<1>1. Len(c) \in Nat /\ o \in {0, 1} /\ n \in Nat /\ 2 * n = Len(c) + o /\ n >= 1
  <2>1. Len(c) \in Nat
    OBVIOUS
  <2> DEFINE l == Len(c)
  <2> HIDE DEF l
  <2>2. l \in Nat /\ l >= 1
    BY <2>1 DEF l
  <2>3. ASSUME NEW r, r = l % 2
        PROVE  r \in {0, 1} /\ (l + r) \div 2 \in Nat /\ 2 * ((l + r) \div 2) = l + r
    BY <2>2, <2>3
  <2>4. ASSUME NEW r, r = l % 2 PROVE (l + r) \div 2 >= 1
    BY <2>2, <2>3, <2>4
  <2> QED BY <2>1, <2>3, <2>4 DEF l
<1>2. q = [i \in 1 .. n |-> IF o = 1 /\ i = 1 THEN <<c[1]>>
                            ELSE <<c[2 * i - 1 - o], c[2 * i - o]>>]
  BY DEF Pairs
<1> HIDE DEF o, n, q
<1>3. \A i \in 1 .. n :
        /\ (o = 1 /\ i = 1) \/ (2 * i - 1 - o \in 1 .. Len(c))
        /\ 2 * i - o \in 1 .. Len(c)
  BY <1>1
<1>4. ASSUME NEW i \in 1 .. n
      PROVE  /\ q[i] \in Seq(S)
             /\ lo[i] < lo[i + 1] /\ Len(q[i]) = lo[i + 1] - lo[i]
             /\ \A j \in 1 .. Len(q[i]) : q[i][j] = c[lo[i] + j - 1]
  <2>0. /\ i \in 1 .. (n + 1) /\ i + 1 \in 1 .. (n + 1)
        /\ lo[i + 1] = 2 * i + 1 - o
    <3>1. i \in 1 .. (n + 1) /\ i + 1 \in 1 .. (n + 1) /\ i + 1 # 1
      BY <1>1
    <3>2. lo[i + 1] = 2 * (i + 1) - 1 - o
      BY <3>1
    <3> QED BY <1>1, <3>1, <3>2
  <2>1. CASE o = 1 /\ i = 1
    <3>1. q[i] = <<c[1]>> /\ lo[i] = 1 /\ lo[i + 1] = 2
      BY <1>2, <2>0, <2>1
    <3>2. c[1] \in S
      BY <1>1
    <3>3. q[i] \in Seq(S) /\ Len(q[i]) = 1 /\ q[i][1] = c[1]
      BY <3>1, <3>2
    <3> HIDE DEF lo
    <3>4. \A j \in 1 .. Len(q[i]) : j = 1
      BY <3>3
    <3>5. \A j \in 1 .. Len(q[i]) : q[i][j] = c[lo[i] + j - 1]
      BY <3>1, <3>3, <3>4
    <3> QED BY <3>1, <3>3, <3>5
  <2>2. CASE ~ (o = 1 /\ i = 1)
    <3>1. /\ q[i] = <<c[2 * i - 1 - o], c[2 * i - o]>>
          /\ lo[i] = 2 * i - 1 - o
      BY <1>2, <2>0, <2>2
    <3> DEFINE a == 2 * i - 1 - o
    <3>2. a \in 1 .. Len(c) /\ a + 1 \in 1 .. Len(c) /\ 2 * i - o = a + 1 /\ lo[i + 1] = a + 2
      BY <1>1, <1>3, <2>0, <2>2
    <3>3. q[i] = <<c[a], c[a + 1]>> /\ lo[i] = a
      BY <3>1, <3>2
    <3> HIDE DEF a, lo
    <3>4. c[a] \in S /\ c[a + 1] \in S
      BY <3>2
    <3>5. q[i] \in Seq(S) /\ Len(q[i]) = 2 /\ q[i][1] = c[a] /\ q[i][2] = c[a + 1]
      BY <3>3, <3>4
    <3>6. \A j \in 1 .. Len(q[i]) : j = 1 \/ j = 2
      BY <3>5
    <3>7. a + 1 - 1 = a /\ a + 2 - 1 = a + 1 /\ (a + 2) - a = 2 /\ a < a + 2
      BY <3>2
    <3>8. \A j \in 1 .. Len(q[i]) : q[i][j] = c[lo[i] + j - 1]
      BY <3>3, <3>5, <3>6, <3>7
    <3> QED BY <3>2, <3>3, <3>5, <3>7, <3>8
  <2> QED BY <2>1, <2>2
<1>5. Len(q) = n /\ q \in Seq(Seq(S))
  <2>1. q \in [1 .. n -> Seq(S)]
    <3>1. \A i \in 1 .. n : q[i] \in Seq(S)
      BY <1>4
    <3>2. q = [i \in 1 .. n |-> q[i]]
      BY <1>2
    <3> QED BY <3>1, <3>2
  <2> QED BY <1>1, <2>1
<1>6. \A i \in 1 .. (n + 1) : lo[i] \in Nat
  BY <1>1
<1>7. lo[1] = 1 /\ lo[n + 1] = Len(c) + 1
  <2>1. 1 \in 1 .. (n + 1) /\ n + 1 \in 1 .. (n + 1) /\ n + 1 # 1
    BY <1>1
  <2>2. lo[1] = 1
    BY <1>1, <2>1
  <2>3. lo[n + 1] = 2 * (n + 1) - 1 - o
    BY <2>1
  <2> QED BY <1>1, <2>2, <2>3
<1>8. ASSUME NEW i \in 1 .. n, NEW j \in 1 .. (n + 1), i < j PROVE lo[i + 1] <= lo[j]
  <2>1. i + 1 \in 1 .. (n + 1) /\ i + 1 # 1 /\ j # 1
    BY <1>1, <1>8
  <2>2. lo[i + 1] = 2 * (i + 1) - 1 - o /\ lo[j] = 2 * j - 1 - o
    BY <2>1
  <2> QED BY <1>1, <1>8, <2>2
<1>9. ASSUME NEW m \in 1 .. Len(c) PROVE \E i \in 1 .. n : lo[i] <= m /\ m < lo[i + 1]
  <2> DEFINE i == (m + o + 1) \div 2
  <2>1. i \in 1 .. n /\ (2 * i = m + o \/ 2 * i = m + o + 1)
    BY <1>1
  <2> HIDE DEF i
  <2>2. i \in 1 .. (n + 1) /\ i + 1 \in 1 .. (n + 1) /\ i + 1 # 1
    BY <1>1, <2>1
  <2>3. lo[i + 1] = 2 * (i + 1) - 1 - o
    BY <2>2
  <2>4. lo[i] = 1 \/ lo[i] = 2 * i - 1 - o
    BY <2>2
  <2> HIDE DEF lo
  <2>5. lo[i] <= m
    BY <1>1, <2>1, <2>4
  <2>6. m < lo[i + 1]
    BY <1>1, <2>1, <2>3
  <2> QED BY <2>1, <2>5, <2>6
<1> HIDE DEF lo
<1>10. IsSplit(q, c, lo)
  BY <1>1, <1>4, <1>5, <1>6, <1>7, <1>8, <1>9 DEF IsSplit
<1> QED BY <1>5, <1>10 DEF q
(* Segments of a skeleton p: s the segments, id their chains, st what is   *)
(* still to be cut.                                                        *)
Cut(s) == UNION {ElementsOf(s[i]) : i \in 1 .. Len(s)}

(* A segment is a downward path.                                           *)
Paths(p, s) ==
  \A i \in 1 .. Len(s) :
    /\ s[i] \in Seq(Joints(p)) /\ Len(s[i]) >= 1
    /\ \A j \in 1 .. (Len(s[i]) - 1) : p[s[i][j + 1]] = s[i][j]

Apart(s) ==
  \A a, b \in 1 .. Len(s) : a # b => ElementsOf(s[a]) \cap ElementsOf(s[b]) = {}

(* The first segment is the root; another hangs below an earlier one, and  *)
(* below the end of the one before it when they are of the same chain.     *)
Hanging(p, s, id) ==
  /\ Len(s) >= 1 /\ s[1] = <<0>>
  /\ \A a \in 2 .. Len(s) : /\ s[a][1] # 0
                            /\ \E b \in 1 .. (a - 1) : p[s[a][1]] \in ElementsOf(s[b])
                            /\ id[a] = id[a - 1] => p[s[a][1]] = s[a - 1][Len(s[a - 1])]

(* The chains are numbered from -1, the root's, without a gap.             *)
Numbers(s, id) ==
  /\ id \in Seq(Int) /\ Len(id) = Len(s)
  /\ id[1] = -1
  /\ \A a \in 2 .. Len(id) : id[a] >= 0 /\ (id[a] = id[a - 1] \/ id[a] = id[a - 1] + 1)
  /\ \A a, b \in 1 .. Len(id) : a <= b => id[a] <= id[b]

(* Where a chain begins.                                                   *)
Starts(p) ==
  {j \in Joints(p) \ {0} : p[j] = 0 \/ Cardinality(Children(p, p[j])) >= 2}

(* What waits is what hangs directly below what is cut, once each.         *)
Waiting(p, s, st) ==
  /\ st \in Seq(Joints(p))
  /\ \A a, b \in 1 .. Len(st) : st[a] = st[b] => a = b
  /\ ElementsOf(st) = {j \in Joints(p) \ Cut(s) : p[j] \in Cut(s)}
  /\ ElementsOf(st) \subseteq Starts(p)

Counted(p, s, id) == id[Len(id)] + 1 = Cardinality(Starts(p) \cap Cut(s))

SegInv(p, s, id, st) ==
  /\ s \in Seq(Seq(Joints(p)))
  /\ Paths(p, s) /\ Apart(s) /\ Hanging(p, s, id) /\ Numbers(s, id)
  /\ Waiting(p, s, st) /\ Counted(p, s, id)

(* What is cut hangs together: with a joint, the joints above it.          *)
LEMMA CutClosed ==
  ASSUME NEW p, NEW n, Tree(p, n), NEW s, NEW id, s \in Seq(Seq(Joints(p))), Paths(p, s),
         Hanging(p, s, id)
  PROVE  /\ 0 \in Cut(s) /\ Cut(s) \subseteq Joints(p)
         /\ \A x \in Cut(s) : x # 0 => p[x] \in Cut(s)
<1>1. 0 \in Cut(s)
  <2>1. 1 \in 1 .. Len(s) /\ s[1] = <<0>>
    BY DEF Hanging
  <2>2. 0 \in ElementsOf(s[1])
    BY <2>1 DEF ElementsOf
  <2> QED BY <2>1, <2>2 DEF Cut
<1>2. ASSUME NEW x \in Cut(s) PROVE x \in Joints(p) /\ (x # 0 => p[x] \in Cut(s))
  <2>1. PICK i \in 1 .. Len(s) : x \in ElementsOf(s[i])
    BY DEF Cut
  <2>2. PICK j \in 1 .. Len(s[i]) : x = s[i][j]
    BY <2>1 DEF ElementsOf
  <2>3. s[i] \in Seq(Joints(p)) /\ Len(s[i]) \in Nat
    BY DEF Paths
  <2>4. x \in Joints(p)
    BY <2>2, <2>3
  <2>5. CASE j # 1
    <3>1. j - 1 \in 1 .. (Len(s[i]) - 1) /\ j - 1 \in 1 .. Len(s[i]) /\ (j - 1) + 1 = j
      BY <2>3, <2>5
    <3>2. p[x] = s[i][j - 1]
      BY <2>2, <3>1 DEF Paths
    <3>3. p[x] \in ElementsOf(s[i])
      BY <3>1, <3>2 DEF ElementsOf
    <3> QED BY <2>4, <3>3 DEF Cut
  <2>6. CASE j = 1 /\ i # 1
    <3>1. i \in 2 .. Len(s)
      BY <2>6
    <3>2. PICK b \in 1 .. (i - 1) : p[s[i][1]] \in ElementsOf(s[b])
      BY <3>1 DEF Hanging
    <3>3. b \in 1 .. Len(s)
      BY <3>1
    <3> QED BY <2>2, <2>4, <2>6, <3>2, <3>3 DEF Cut
  <2>7. CASE j = 1 /\ i = 1
    <3>1. s[1] = <<0>>
      BY DEF Hanging
    <3>2. x = 0
      BY <2>2, <2>7, <3>1
    <3> QED BY <2>4, <3>2
  <2> QED BY <2>5, <2>6, <2>7
<1> QED BY <1>1, <1>2

(* A concatenation has the elements of both.                               *)
LEMMA ElementsConcat ==
  ASSUME NEW S, NEW a \in Seq(S), NEW b \in Seq(S)
  PROVE  ElementsOf(a \o b) = ElementsOf(a) \cup ElementsOf(b)
<1>1. /\ Len(a) \in Nat /\ Len(b) \in Nat /\ Len(a \o b) = Len(a) + Len(b)
      /\ \A i \in 1 .. Len(a) : (a \o b)[i] = a[i]
      /\ \A i \in 1 .. Len(b) : (a \o b)[Len(a) + i] = b[i]
  OBVIOUS
<1> DEFINE c == a \o b
<1>2. \A i \in 1 .. Len(a) : i \in 1 .. Len(c) /\ c[i] = a[i]
  BY <1>1
<1>3. \A i \in 1 .. Len(b) : Len(a) + i \in 1 .. Len(c) /\ c[Len(a) + i] = b[i]
  BY <1>1
<1>4. ASSUME NEW i \in 1 .. Len(c) PROVE i \in 1 .. Len(a) \/ i - Len(a) \in 1 .. Len(b)
  BY <1>1
<1>5. \A i \in 1 .. Len(c) : Len(a) + (i - Len(a)) = i
  BY <1>1
<1> HIDE DEF c
<1>6. ElementsOf(c) = ElementsOf(a) \cup ElementsOf(b)
  <2>1. ASSUME NEW x \in ElementsOf(c) PROVE x \in ElementsOf(a) \cup ElementsOf(b)
    <3>1. PICK i \in 1 .. Len(c) : x = c[i]
      BY DEF ElementsOf
    <3>2. CASE i \in 1 .. Len(a)
      BY <1>2, <3>1, <3>2 DEF ElementsOf
    <3>3. CASE i - Len(a) \in 1 .. Len(b)
      <4>1. c[Len(a) + (i - Len(a))] = b[i - Len(a)]
        BY <1>3, <3>3
      <4>2. x = b[i - Len(a)]
        BY <1>5, <3>1, <4>1
      <4> QED BY <3>3, <4>2 DEF ElementsOf
    <3> QED BY <1>4, <3>2, <3>3
  <2>2. ASSUME NEW x \in ElementsOf(a) PROVE x \in ElementsOf(c)
    BY <1>2 DEF ElementsOf
  <2>3. ASSUME NEW x \in ElementsOf(b) PROVE x \in ElementsOf(c)
    BY <1>3 DEF ElementsOf
  <2> QED BY <2>1, <2>2, <2>3
<1> QED BY <1>6 DEF c

(* The pieces have the elements of the whole.                              *)
LEMMA SplitElements ==
  ASSUME NEW S, NEW c \in Seq(S), NEW q, NEW lo, IsSplit(q, c, lo)
  PROVE  Cut(q) = ElementsOf(c)
<1>0. Len(c) \in Nat
  OBVIOUS
<1>1. ASSUME NEW x \in Cut(q) PROVE x \in ElementsOf(c)
  <2>1. PICK i \in 1 .. Len(q) : x \in ElementsOf(q[i])
    BY DEF Cut
  <2>2. PICK j \in 1 .. Len(q[i]) : x = q[i][j]
    BY <2>1 DEF ElementsOf
  <2>3. x = c[lo[i] + j - 1]
    BY <2>2 DEF IsSplit
  <2>4. i \in 1 .. (Len(q) + 1) /\ i + 1 \in 1 .. (Len(q) + 1) /\ Len(q) + 1 \in 1 .. (Len(q) + 1)
        /\ 1 \in 1 .. (Len(q) + 1) /\ i < Len(q) + 1
    BY DEF IsSplit
  <2>5. /\ lo[i] \in Nat /\ lo[i + 1] \in Nat /\ lo[1] = 1
        /\ Len(q[i]) = lo[i + 1] - lo[i] /\ lo[i + 1] <= Len(c) + 1
    BY <2>4 DEF IsSplit
  <2>6. lo[i] >= 1
    <3>1. CASE i = 1
      BY <2>5, <3>1
    <3>2. CASE i # 1
      <4>1. 1 \in 1 .. Len(q) /\ 1 < i
        BY <2>4, <3>2
      <4>2. lo[1] < lo[1 + 1] /\ lo[1 + 1] <= lo[i]
        BY <2>4, <4>1 DEF IsSplit
      <4>3. 1 + 1 \in 1 .. (Len(q) + 1)
        BY <2>4, <4>1
      <4>4. lo[1 + 1] \in Nat
        BY <4>3 DEF IsSplit
      <4> QED BY <2>5, <4>2, <4>4
    <3> QED BY <3>1, <3>2
  <2>7. lo[i] + j - 1 \in 1 .. Len(c)
    BY SMTT(30), <1>0, <2>5, <2>6
  <2> QED BY <2>3, <2>7 DEF ElementsOf
<1>2. ASSUME NEW x \in ElementsOf(c) PROVE x \in Cut(q)
  <2>1. PICK m \in 1 .. Len(c) : x = c[m]
    BY DEF ElementsOf
  <2>2. PICK i \in 1 .. Len(q) : lo[i] <= m /\ m < lo[i + 1]
    BY DEF IsSplit
  <2>3. i \in 1 .. (Len(q) + 1) /\ i + 1 \in 1 .. (Len(q) + 1)
    BY DEF IsSplit
  <2>4. lo[i] \in Nat /\ lo[i + 1] \in Nat /\ Len(q[i]) = lo[i + 1] - lo[i]
    BY <2>3 DEF IsSplit
  <2>5. m - lo[i] + 1 \in 1 .. Len(q[i]) /\ lo[i] + (m - lo[i] + 1) - 1 = m
    BY <1>0, <2>2, <2>4
  <2>6. q[i][m - lo[i] + 1] = c[m]
    BY <2>5 DEF IsSplit
  <2>7. x \in ElementsOf(q[i])
    BY <2>1, <2>5, <2>6 DEF ElementsOf
  <2> QED BY <2>7 DEF Cut
<1> QED BY <1>1, <1>2
(* What a chain that waits holds was not cut.                              *)
LEMMA ChainFresh ==
  ASSUME NEW p, NEW n, Tree(p, n), NEW s, NEW id, NEW st, SegInv(p, s, id, st), st # <<>>,
         NEW c, IsChain(p, Head(st), c)
  PROVE  /\ ElementsOf(c) \cap Cut(s) = {} /\ 0 \notin ElementsOf(c)
         /\ Head(st) = st[1] /\ Len(st) \in Nat /\ Len(st) >= 1
         /\ Head(st) \in ElementsOf(st) /\ Head(st) \in Joints(p) \ Cut(s)
         /\ p[Head(st)] \in Cut(s) /\ Head(st) \in Starts(p)
<1>1. st \in Seq(Joints(p)) /\ Head(st) = st[1] /\ Len(st) \in Nat /\ Len(st) >= 1
  BY DEF SegInv, Waiting
<1>2. Head(st) \in ElementsOf(st)
  BY <1>1 DEF ElementsOf
<1>3. /\ Head(st) \in Joints(p) \ Cut(s) /\ p[Head(st)] \in Cut(s) /\ Head(st) \in Starts(p)
  BY <1>2 DEF SegInv, Waiting
<1>4. 0 \in Cut(s) /\ \A x \in Cut(s) : x # 0 => p[x] \in Cut(s)
  BY CutClosed DEF SegInv
<1> DEFINE G == {i \in Nat : i + 1 \in 1 .. Len(c) => c[i + 1] \notin Cut(s)}
<1>5. 0 \in G
  BY <1>3 DEF IsChain
<1>6. ASSUME NEW i \in Nat, i \in G PROVE i + 1 \in G
  <2> SUFFICES ASSUME (i + 1) + 1 \in 1 .. Len(c), c[(i + 1) + 1] \in Cut(s) PROVE FALSE
    OBVIOUS
  <2>1. i + 1 \in 1 .. (Len(c) - 1) /\ i + 1 \in 1 .. Len(c)
    BY DEF IsChain
  <2>2. c[(i + 1) + 1] # 0 /\ p[c[(i + 1) + 1]] = c[i + 1]
    BY <2>1, ChainGrows
  <2> QED BY <1>4, <1>6, <2>1, <2>2
<1>7. \A i \in Nat : i \in G => i + 1 \in G
  BY <1>6
<1> HIDE DEF G
<1>8. \A i \in Nat : i \in G
  BY <1>5, <1>7, Induction
<1>9. ASSUME NEW x \in ElementsOf(c) PROVE x \notin Cut(s)
  <2>1. PICK i \in 1 .. Len(c) : x = c[i]
    BY DEF ElementsOf
  <2>2. i - 1 \in Nat /\ (i - 1) + 1 = i
    OBVIOUS
  <2> QED BY <1>8, <2>1, <2>2 DEF G
<1> QED BY <1>1, <1>2, <1>3, <1>4, <1>9

(* A finite set of joints to go on with.                                   *)
LEMMA ChildrenSorted ==
  ASSUME NEW p, NEW n, Tree(p, n), NEW j
  PROVE  /\ IsFiniteSet(Children(p, j)) /\ Cardinality(Children(p, j)) \in Nat
         /\ Sorted(Children(p, j)) \in Seq(Joints(p))
         /\ ElementsOf(Sorted(Children(p, j))) = Children(p, j)
         /\ \A a, b \in 1 .. Len(Sorted(Children(p, j))) :
              Sorted(Children(p, j))[a] = Sorted(Children(p, j))[b] => a = b
<1> DEFINE S == Children(p, j)
           m == Sorted(S)
<1>1. S \subseteq Joints(p)
  BY DEF Children
<1>2. IsFiniteSet(S) /\ S \in SUBSET Int
  <2>1. \A x \in Joints(p) : x \in Int
    BY TreeFacts
  <2> QED BY <1>1, <2>1, TreeFacts, FS_Subset
<1> HIDE DEF S
<1>3. /\ Cardinality(S) \in Nat /\ m \in Seq(S) /\ Len(m) = Cardinality(S) /\ ElementsOf(m) = S
      /\ \A a, b \in 1 .. Cardinality(S) : a < b => m[a] < m[b]
  BY <1>2, SortedFacts
<1> HIDE DEF m
<1>4. \A a \in 1 .. Len(m) : m[a] \in S
  BY <1>3
<1>5. \A a \in 1 .. Len(m) : m[a] \in Int
  BY <1>2, <1>4
<1>6. \A a, b \in 1 .. Len(m) : m[a] = m[b] => a = b
  BY <1>3, <1>5
<1>7. m \in Seq(Joints(p))
  BY <1>1, <1>3
<1> QED BY <1>2, <1>3, <1>6, <1>7 DEF S, m

(* r is the one after the other.                                           *)
IsJoin(r, a, b) == r = a \o b

(* What a concatenation holds, and where.                                  *)
LEMMA JoinFacts ==
  ASSUME NEW S, NEW a \in Seq(S), NEW b \in Seq(S), NEW r, IsJoin(r, a, b)
  PROVE  /\ r \in Seq(S) /\ Len(a) \in Nat /\ Len(b) \in Nat
         /\ Len(r) = Len(a) + Len(b)
         /\ \A i \in 1 .. Len(a) : r[i] = a[i]
         /\ \A i \in 1 .. Len(b) : r[Len(a) + i] = b[i]
         /\ ElementsOf(r) = ElementsOf(a) \cup ElementsOf(b)
<1>1. r = a \o b
  BY DEF IsJoin
<1>2. ElementsOf(r) = ElementsOf(a) \cup ElementsOf(b)
  BY <1>1, ElementsConcat
<1> QED BY <1>1, <1>2

(* Cutting the chain of the first waiting joint keeps the segments right.  *)
LEMMA CutKeeps ==
  ASSUME NEW p, NEW n, Tree(p, n), NEW s, NEW id, NEW st, SegInv(p, s, id, st), st # <<>>,
         NEW c, IsChain(p, Head(st), c),
         NEW q, q \in Seq(Seq(Joints(p))), NEW lo, IsSplit(q, c, lo),
         NEW s2, IsJoin(s2, s, q),
         NEW id2, IsJoin(id2, id, [i \in 1 .. Len(q) |-> 1 + id[Len(id)]]),
         NEW st2, IsJoin(st2, Sorted(Children(p, c[Len(c)])), Tail(st))
  PROVE  SegInv(p, s2, id2, st2)
<1> DEFINE L == Len(s)
           M == Len(q)
           h == Head(st)
           last == c[Len(c)]
           new == 1 + id[Len(id)]
           row == [i \in 1 .. M |-> new]
<1>1. /\ L \in Nat /\ L >= 1 /\ M \in Nat /\ M >= 1 /\ Len(id) = L /\ id \in Seq(Int)
      /\ s \in Seq(Seq(Joints(p))) /\ Len(s) = L /\ Len(q) = M /\ st # <<>>
  BY DEF SegInv, Hanging, Numbers, IsSplit
<1> HIDE DEF L, M, h, last, new, row
<1>2. /\ s2 \in Seq(Seq(Joints(p))) /\ Len(s2) = L + M
      /\ \A i \in 1 .. L : s2[i] = s[i]
      /\ \A i \in 1 .. M : s2[L + i] = q[i]
  <2> DEFINE S == Seq(Joints(p))
  <2>1. s \in Seq(S) /\ q \in Seq(S)
    BY <1>1
  <2> HIDE DEF S
  <2>2. /\ s2 \in Seq(S) /\ Len(s2) = Len(s) + Len(q)
        /\ \A i \in 1 .. Len(s) : s2[i] = s[i]
        /\ \A i \in 1 .. Len(q) : s2[Len(s) + i] = q[i]
    BY <2>1, JoinFacts
  <2> QED BY <1>1, <2>2 DEF S
<1>3. /\ id2 \in Seq(Int) /\ Len(id2) = L + M
      /\ \A i \in 1 .. L : id2[i] = id[i]
      /\ \A i \in 1 .. M : id2[L + i] = new
  <2>1. id[L] \in Int
    BY <1>1
  <2>2. new \in Int
    BY <1>1, <2>1 DEF new
  <2>3. row \in Seq(Int) /\ Len(row) = M /\ \A i \in 1 .. M : row[i] = new
    BY <1>1, <2>2 DEF row
  <2>4. IsJoin(id2, id, row)
    BY DEF new, M, row
  <2>5. id \in Seq(Int) /\ row \in Seq(Int)
    BY <1>1, <2>3
  <2>6. /\ id2 \in Seq(Int) /\ Len(id2) = Len(id) + Len(row)
        /\ \A i \in 1 .. Len(id) : id2[i] = id[i]
        /\ \A i \in 1 .. Len(row) : id2[Len(id) + i] = row[i]
    BY <2>4, <2>5, JoinFacts
  <2> QED BY <1>1, <2>3, <2>6
<1>4. /\ ElementsOf(c) \cap Cut(s) = {} /\ 0 \notin ElementsOf(c)
      /\ h = st[1] /\ Len(st) \in Nat /\ Len(st) >= 1
      /\ h \in ElementsOf(st) /\ h \in Joints(p) \ Cut(s) /\ p[h] \in Cut(s) /\ h \in Starts(p)
  BY <1>1, ChainFresh DEF h
<1>5. /\ c \in Seq(Joints(p)) /\ Len(c) \in Nat /\ Len(c) >= 1 /\ c[1] = h
      /\ last \in Joints(p) /\ h \in ElementsOf(c) /\ last \in ElementsOf(c)
  <2>1. c \in Seq(Joints(p)) /\ Len(c) \in Nat /\ Len(c) >= 1 /\ c[1] = h
    BY DEF IsChain, h
  <2>2. 1 \in 1 .. Len(c) /\ Len(c) \in 1 .. Len(c)
    BY <2>1
  <2>3. c[Len(c)] \in Joints(p)
    BY <2>1, <2>2
  <2> QED BY <2>1, <2>2, <2>3 DEF ElementsOf, last
<1>6. /\ \A i \in 1 .. (Len(c) - 1) : c[i + 1] # 0 /\ p[c[i + 1]] = c[i]
      /\ \A i, j \in 1 .. Len(c) : i < j => c[i] < c[j]
      /\ \A i \in 1 .. Len(c) : c[i] \in Joints(p) /\ c[i] \in Nat
  BY ChainGrows, TreeFacts
<1>7. \A i \in 1 .. M : q[i] \in Seq(Joints(p)) /\ Len(q[i]) \in Nat
  BY <1>1
<1>8. Cut(q) = ElementsOf(c)
  BY <1>5, SplitElements
<1>9. \A i \in 1 .. (L + M) : i \in 1 .. L \/ (i - L \in 1 .. M /\ L + (i - L) = i)
  BY <1>1
<1>10. Cut(s2) = Cut(s) \cup ElementsOf(c)
  <2>1. ASSUME NEW x \in Cut(s2) PROVE x \in Cut(s) \cup Cut(q)
    <3>1. PICK i \in 1 .. (L + M) : x \in ElementsOf(s2[i])
      BY <1>2 DEF Cut
    <3>2. CASE i \in 1 .. L
      BY <1>2, <3>1, <3>2 DEF Cut, L
    <3>3. CASE i - L \in 1 .. M /\ L + (i - L) = i
      <4>1. s2[i] = q[i - L]
        BY <1>2, <3>3
      <4> QED BY <3>1, <3>3, <4>1 DEF Cut, M
    <3> QED BY <1>9, <3>2, <3>3
  <2>2. ASSUME NEW x \in Cut(s) PROVE x \in Cut(s2)
    <3>1. PICK i \in 1 .. L : x \in ElementsOf(s[i])
      BY DEF Cut, L
    <3>2. i \in 1 .. Len(s2)
      BY <1>1, <1>2
    <3> QED BY <1>2, <3>1, <3>2 DEF Cut
  <2>3. ASSUME NEW x \in Cut(q) PROVE x \in Cut(s2)
    <3>1. PICK i \in 1 .. M : x \in ElementsOf(q[i])
      BY DEF Cut, M
    <3>2. L + i \in 1 .. Len(s2)
      BY <1>1, <1>2
    <3> QED BY <1>2, <3>1, <3>2 DEF Cut
  <2> QED BY <1>8, <2>1, <2>2, <2>3
<1>11. \A i \in 1 .. M : /\ lo[i] \in Nat /\ lo[i + 1] \in Nat /\ lo[i] >= 1 /\ lo[i] < lo[i + 1]
                         /\ lo[i + 1] <= Len(c) + 1 /\ Len(q[i]) = lo[i + 1] - lo[i]
                         /\ \A j \in 1 .. Len(q[i]) : q[i][j] = c[lo[i] + j - 1]
  <2> TAKE i \in 1 .. M
  <2>1. /\ i \in 1 .. (M + 1) /\ i + 1 \in 1 .. (M + 1) /\ M + 1 \in 1 .. (M + 1)
        /\ 1 \in 1 .. (M + 1) /\ i < M + 1
    BY <1>1
  <2>2. /\ lo[i] \in Nat /\ lo[i + 1] \in Nat /\ lo[i] < lo[i + 1] /\ lo[i + 1] <= Len(c) + 1
        /\ Len(q[i]) = lo[i + 1] - lo[i] /\ lo[1] = 1
        /\ \A j \in 1 .. Len(q[i]) : q[i][j] = c[lo[i] + j - 1]
    BY <2>1 DEF IsSplit, M
  <2>3. lo[i] >= 1
    <3>1. CASE i = 1
      BY <2>2, <3>1
    <3>2. CASE i # 1
      <4>1. 1 \in 1 .. M /\ 1 < i /\ 1 + 1 \in 1 .. (M + 1)
        BY <1>1, <2>1, <3>2
      <4>2. lo[1] < lo[1 + 1] /\ lo[1 + 1] <= lo[i] /\ lo[1 + 1] \in Nat
        BY <2>1, <4>1 DEF IsSplit, M
      <4> QED BY <2>2, <4>2
    <3> QED BY <3>1, <3>2
  <2> QED BY <2>2, <2>3
<1>12. \A i \in 1 .. M : \A j \in 1 .. Len(q[i]) : lo[i] + j - 1 \in 1 .. Len(c)
                                                  /\ q[i][j] = c[lo[i] + j - 1]
  <2> TAKE i \in 1 .. M
  <2> TAKE j \in 1 .. Len(q[i])
  <2>1. /\ lo[i] \in Nat /\ lo[i + 1] \in Nat /\ lo[i] >= 1
        /\ lo[i + 1] <= Len(c) + 1 /\ Len(q[i]) = lo[i + 1] - lo[i]
    BY <1>11
  <2>2. lo[i] + j - 1 \in 1 .. Len(c)
    <3> DEFINE a == lo[i]
               b == lo[i + 1]
               m == Len(c)
               d == Len(q[i])
    <3>1. a \in Nat /\ b \in Nat /\ a >= 1 /\ b <= m + 1 /\ d = b - a /\ m \in Nat
      BY <1>5, <2>1
    <3>2. j \in 1 .. d
      OBVIOUS
    <3> HIDE DEF a, b, m, d
    <3>3. a + j - 1 \in 1 .. m
      BY <3>1, <3>2
    <3> QED BY <3>3 DEF a, m
  <2> QED BY <1>11, <2>2
<1>13. Paths(p, s2)
  <2>1. ASSUME NEW i \in 1 .. M
        PROVE  /\ q[i] \in Seq(Joints(p)) /\ Len(q[i]) >= 1
               /\ \A j \in 1 .. (Len(q[i]) - 1) : p[q[i][j + 1]] = q[i][j]
    <3>1. Len(q[i]) >= 1
      <4>1. lo[i] \in Nat /\ lo[i + 1] \in Nat /\ lo[i] < lo[i + 1]
                /\ Len(q[i]) = lo[i + 1] - lo[i]
        BY <1>11
      <4> QED BY SMTT(30), <4>1
    <3>2. ASSUME NEW j \in 1 .. (Len(q[i]) - 1) PROVE p[q[i][j + 1]] = q[i][j]
      <4>1. j \in 1 .. Len(q[i]) /\ j + 1 \in 1 .. Len(q[i])
        BY <1>7
      <4>2. q[i][j] = c[lo[i] + j - 1] /\ q[i][j + 1] = c[lo[i] + (j + 1) - 1]
        BY <1>12, <4>1
      <4>3. lo[i] + j - 1 \in 1 .. (Len(c) - 1) /\ lo[i] + (j + 1) - 1 = (lo[i] + j - 1) + 1
        <5>1. lo[i] + j - 1 \in 1 .. Len(c) /\ lo[i] + (j + 1) - 1 \in 1 .. Len(c)
                  /\ lo[i] \in Nat
          BY <1>11, <1>12, <4>1
        <5> QED BY SMTT(30), <1>5, <5>1
      <4> QED BY <1>6, <4>2, <4>3
    <3> QED BY <1>7, <3>1, <3>2
  <2>2. ASSUME NEW i \in 1 .. L
        PROVE  /\ s[i] \in Seq(Joints(p)) /\ Len(s[i]) >= 1
               /\ \A j \in 1 .. (Len(s[i]) - 1) : p[s[i][j + 1]] = s[i][j]
    BY DEF SegInv, Paths, L
  <2>3. ASSUME NEW i \in 1 .. (L + M)
        PROVE  /\ s2[i] \in Seq(Joints(p)) /\ Len(s2[i]) >= 1
               /\ \A j \in 1 .. (Len(s2[i]) - 1) : p[s2[i][j + 1]] = s2[i][j]
    <3>1. CASE i \in 1 .. L
      <4>1. s2[i] = s[i]
        BY <1>2, <3>1
      <4> QED BY <2>2, <3>1, <4>1
    <3>2. CASE i - L \in 1 .. M /\ L + (i - L) = i
      <4>1. s2[i] = q[i - L]
        BY <1>2, <3>2
      <4> QED BY <2>1, <3>2, <4>1
    <3> QED BY <1>9, <3>1, <3>2
  <2> QED BY <1>2, <2>3 DEF Paths
<1>14. Apart(s2)
  <2>1. ASSUME NEW a \in 1 .. M, NEW b \in 1 .. M, a < b,
               NEW x, x \in ElementsOf(q[a]), x \in ElementsOf(q[b])
        PROVE  FALSE
    <3>1. PICK i \in 1 .. Len(q[a]) : x = q[a][i]
      BY <2>1 DEF ElementsOf
    <3>2. PICK j \in 1 .. Len(q[b]) : x = q[b][j]
      BY <2>1 DEF ElementsOf
    <3> DEFINE u == lo[a] + i - 1
               v == lo[b] + j - 1
    <3>3. u \in 1 .. Len(c) /\ v \in 1 .. Len(c) /\ x = c[u] /\ x = c[v]
      BY <1>12, <3>1, <3>2
    <3>4. u < v
      <4>1. lo[a + 1] <= lo[b]
        <5>1. b \in 1 .. (M + 1)
          BY <1>1
        <5> QED BY <2>1, <5>1 DEF IsSplit, M
      <4>2. lo[a] \in Nat /\ lo[a + 1] \in Nat /\ lo[b] \in Nat /\ Len(q[a]) = lo[a + 1] - lo[a]
        BY <1>11
      <4>3. i \in Nat /\ j \in Nat /\ i <= Len(q[a]) /\ j >= 1
        BY <1>7
      <4> QED BY SMTT(30), <4>1, <4>2, <4>3
    <3> HIDE DEF u, v
    <3>5. c[u] < c[v] /\ c[u] \in Nat
      BY <1>6, <3>3, <3>4
    <3> QED BY <3>3, <3>5
  <2>2. ASSUME NEW a \in 1 .. M, NEW b \in 1 .. L
        PROVE  ElementsOf(q[a]) \cap ElementsOf(s[b]) = {}
    <3>1. ElementsOf(q[a]) \subseteq ElementsOf(c)
      BY <1>8 DEF Cut, M
    <3>2. ElementsOf(s[b]) \subseteq Cut(s)
      BY DEF Cut, L
    <3> QED BY <1>4, <3>1, <3>2
  <2>3. ASSUME NEW a \in 1 .. (L + M), NEW b \in 1 .. (L + M), a < b
        PROVE  ElementsOf(s2[a]) \cap ElementsOf(s2[b]) = {}
    <3>1. CASE a \in 1 .. L /\ b \in 1 .. L
      <4>1. ElementsOf(s[a]) \cap ElementsOf(s[b]) = {}
        <5>1. a # b
          BY <2>3
        <5> QED BY <3>1, <5>1 DEF SegInv, Apart, L
      <4> QED BY <1>2, <3>1, <4>1
    <3>2. CASE a \in 1 .. L /\ b \notin 1 .. L
      <4>1. s2[a] = s[a] /\ b - L \in 1 .. M /\ s2[b] = q[b - L]
        BY <1>2, <1>9, <3>2
      <4> QED BY <2>2, <3>2, <4>1
    <3>3. CASE a \notin 1 .. L
      <4>1. a - L \in 1 .. M /\ b - L \in 1 .. M /\ L + (a - L) = a /\ L + (b - L) = b
            /\ a - L < b - L
        BY <1>1, <2>3, <3>3
      <4>2. s2[a] = q[a - L] /\ s2[b] = q[b - L]
        BY <1>2, <4>1
      <4>3. ElementsOf(q[a - L]) \cap ElementsOf(q[b - L]) = {}
        BY <2>1, <4>1
      <4> QED BY <4>2, <4>3
    <3> QED BY <3>1, <3>2, <3>3
  <2>4. \A a, b \in 1 .. (L + M) : a # b => a < b \/ b < a
    BY <1>1
  <2>5. \A a, b \in 1 .. (L + M) : a # b => ElementsOf(s2[a]) \cap ElementsOf(s2[b]) = {}
    <3> TAKE a \in 1 .. (L + M), b \in 1 .. (L + M)
    <3> HAVE a # b
    <3>1. CASE a < b
      BY <2>3, <3>1
    <3>2. CASE b < a
      BY <2>3, <3>2
    <3> QED BY <2>4, <3>1, <3>2
  <2> QED BY <1>2, <2>5 DEF Apart
<1>15. Hanging(p, s2, id2)
  <2>1. s2[1] = <<0>> /\ Len(s2) >= 1
    <3>1. 1 \in 1 .. L
      BY <1>1
    <3> QED BY <1>1, <1>2, <3>1 DEF SegInv, Hanging
  <2>2. ASSUME NEW a \in 2 .. L
        PROVE  /\ s2[a][1] # 0
               /\ \E b \in 1 .. (a - 1) : p[s2[a][1]] \in ElementsOf(s2[b])
               /\ id2[a] = id2[a - 1] => p[s2[a][1]] = s2[a - 1][Len(s2[a - 1])]
    <3>1. a \in 1 .. L /\ a - 1 \in 1 .. L /\ \A b \in 1 .. (a - 1) : b \in 1 .. L
      BY <1>1
    <3>2. /\ s2[a] = s[a] /\ s2[a - 1] = s[a - 1] /\ id2[a] = id[a] /\ id2[a - 1] = id[a - 1]
          /\ \A b \in 1 .. (a - 1) : s2[b] = s[b]
      BY <1>2, <1>3, <3>1
    <3>3. /\ s[a][1] # 0
          /\ \E b \in 1 .. (a - 1) : p[s[a][1]] \in ElementsOf(s[b])
          /\ id[a] = id[a - 1] => p[s[a][1]] = s[a - 1][Len(s[a - 1])]
      BY DEF SegInv, Hanging, L
    <3> QED BY <3>2, <3>3
  <2>3. ASSUME NEW a, a = L + 1
        PROVE  /\ s2[a][1] # 0
               /\ \E b \in 1 .. (a - 1) : p[s2[a][1]] \in ElementsOf(s2[b])
               /\ id2[a] = id2[a - 1] => p[s2[a][1]] = s2[a - 1][Len(s2[a - 1])]
    <3>1. 1 \in 1 .. M /\ L \in 1 .. L /\ a - 1 = L
      BY <1>1, <2>3
    <3>2. s2[a] = q[1] /\ id2[a] = new /\ id2[a - 1] = id[L]
      BY <1>2, <1>3, <2>3, <3>1
    <3>3. q[1][1] = h
      <4>1. lo[1] = 1
        BY DEF IsSplit
      <4>2. /\ lo[1 + 1] \in Nat /\ lo[1] < lo[1 + 1] /\ Len(q[1]) = lo[1 + 1] - lo[1]
            /\ Len(q[1]) \in Nat
        BY <1>7, <1>11, <3>1
      <4>3. 1 \in 1 .. Len(q[1]) /\ lo[1] + 1 - 1 = 1
        BY <4>1, <4>2
      <4>4. q[1][1] = c[lo[1] + 1 - 1]
        BY <1>12, <3>1, <4>3
      <4> QED BY <1>5, <4>3, <4>4
    <3>4. h # 0
      BY <1>4, <1>5
    <3>5. PICK b \in 1 .. L : p[h] \in ElementsOf(s[b])
      BY <1>4 DEF Cut, L
    <3>6. id2[a] # id2[a - 1]
      <4>1. id[L] \in Int
        BY <1>1, <3>1
      <4>2. new = 1 + id[L]
        BY <1>1 DEF new
      <4> QED BY <3>2, <4>1, <4>2
    <3> QED BY <1>2, <3>1, <3>2, <3>3, <3>4, <3>5, <3>6
  <2>4. ASSUME NEW e \in 2 .. M, NEW a, a = L + e
        PROVE  /\ s2[a][1] # 0
               /\ \E b \in 1 .. (a - 1) : p[s2[a][1]] \in ElementsOf(s2[b])
               /\ id2[a] = id2[a - 1] => p[s2[a][1]] = s2[a - 1][Len(s2[a - 1])]
    <3>1. e \in 1 .. M /\ e - 1 \in 1 .. M /\ a - 1 = L + (e - 1) /\ (e - 1) + 1 = e
      BY <1>1, <2>4
    <3>2. s2[a] = q[e] /\ s2[a - 1] = q[e - 1]
      BY <1>2, <2>4, <3>1
    <3>3. q[e][1] = c[lo[e]] /\ lo[e] \in 1 .. Len(c)
      <4>1. 1 \in 1 .. Len(q[e])
        <5>1. /\ lo[e + 1] \in Nat /\ lo[e] \in Nat /\ lo[e] < lo[e + 1]
              /\ Len(q[e]) = lo[e + 1] - lo[e] /\ Len(q[e]) \in Nat
          BY <1>7, <1>11, <3>1
        <5> QED BY SMTT(30), <5>1
      <4>2. q[e][1] = c[lo[e] + 1 - 1] /\ lo[e] + 1 - 1 \in 1 .. Len(c) /\ lo[e] \in Nat
        BY <1>11, <1>12, <3>1, <4>1
      <4> QED BY <4>2
    <3> DEFINE l == Len(q[e - 1])
    <3>4. l \in Nat /\ l >= 1 /\ l \in 1 .. l /\ lo[e - 1] + l - 1 = lo[e] - 1
          /\ lo[e - 1] + l - 1 \in 1 .. Len(c)
      <4>1. l \in Nat /\ lo[e - 1] \in Nat /\ lo[e] \in Nat /\ lo[e - 1] < lo[e]
            /\ l = lo[e] - lo[e - 1]
        BY <1>7, <1>11, <3>1
      <4> HIDE DEF l
      <4>2. l \in 1 .. l /\ l >= 1 /\ lo[e - 1] + l - 1 = lo[e] - 1
        BY <4>1
      <4>3. lo[e - 1] + l - 1 \in 1 .. Len(c)
        BY <1>12, <3>1, <4>2 DEF l
      <4> QED BY <4>1, <4>2, <4>3
    <3>5. q[e - 1][l] = c[lo[e] - 1]
      BY <1>12, <3>1, <3>4
    <3>6. c[lo[e]] # 0 /\ p[c[lo[e]]] = c[lo[e] - 1]
      <4>1. lo[e] - 1 \in 1 .. (Len(c) - 1) /\ (lo[e] - 1) + 1 = lo[e]
        BY SMTT(30), <1>5, <3>3, <3>4
      <4> QED BY <1>6, <4>1
    <3>7. c[lo[e] - 1] \in ElementsOf(q[e - 1])
      BY <3>4, <3>5 DEF ElementsOf
    <3>8. a - 1 \in 1 .. (a - 1)
      BY <1>1, <3>1
    <3> QED BY <3>2, <3>3, <3>5, <3>6, <3>7, <3>8
  <2>5. \A a \in 2 .. (L + M) : a \in 2 .. L \/ a = L + 1 \/ (a - L \in 2 .. M /\ a = L + (a - L))
    BY <1>1
  <2>6. ASSUME NEW a \in 2 .. (L + M)
        PROVE  /\ s2[a][1] # 0
               /\ \E b \in 1 .. (a - 1) : p[s2[a][1]] \in ElementsOf(s2[b])
               /\ id2[a] = id2[a - 1] => p[s2[a][1]] = s2[a - 1][Len(s2[a - 1])]
    BY <2>2, <2>3, <2>4, <2>5
  <2> QED BY <1>2, <2>1, <2>6 DEF Hanging
<1>16. Numbers(s2, id2)
  <2>0. /\ id[1] = -1
        /\ \A a \in 2 .. L : id[a] >= 0 /\ (id[a] = id[a - 1] \/ id[a] = id[a - 1] + 1)
        /\ \A a, b \in 1 .. L : a <= b => id[a] <= id[b]
        /\ \A a \in 1 .. L : id[a] \in Int
    BY <1>1 DEF SegInv, Numbers
  <2>1. id[L] >= -1 /\ id[L] \in Int /\ new = id[L] + 1 /\ new \in Int /\ new >= 0
    <3>1. 1 \in 1 .. L /\ L \in 1 .. L
      BY <1>1
    <3>2. id[L] \in Int /\ id[1] <= id[L]
      BY <1>1, <2>0, <3>1
    <3> QED BY <1>1, <2>0, <3>2 DEF new
  <2>2. ASSUME NEW a \in 2 .. (L + M)
        PROVE  id2[a] >= 0 /\ (id2[a] = id2[a - 1] \/ id2[a] = id2[a - 1] + 1)
    <3>1. CASE a \in 2 .. L
      <4>1. a \in 1 .. L /\ a - 1 \in 1 .. L
        BY <1>1, <3>1
      <4> QED BY <1>3, <2>0, <3>1, <4>1
    <3>2. CASE a = L + 1
      <4>1. id2[L + 1] = new /\ id2[L] = id[L] /\ a - 1 = L
        <5>1. 1 \in 1 .. M /\ L \in 1 .. L /\ a - 1 = L
          BY <1>1, <3>2
        <5> QED BY <1>3, <5>1
      <4> QED BY <2>1, <3>2, <4>1
    <3>3. CASE a \notin 2 .. L /\ a # L + 1
      <4>1. a - L \in 1 .. M /\ (a - 1) - L \in 1 .. M /\ L + (a - L) = a
                /\ L + ((a - 1) - L) = a - 1
        BY <1>1, <3>3
      <4>2. id2[a] = new /\ id2[a - 1] = new
        BY <1>3, <4>1
      <4> QED BY <2>1, <4>2
    <3> QED BY <3>1, <3>2, <3>3
  <2>3. ASSUME NEW a \in 1 .. (L + M), NEW b \in 1 .. (L + M), a <= b PROVE id2[a] <= id2[b]
    <3>1. CASE a \in 1 .. L /\ b \in 1 .. L
      <4>1. id2[a] = id[a] /\ id2[b] = id[b] /\ id[a] <= id[b]
        BY <1>3, <2>0, <2>3, <3>1
      <4> QED BY <4>1
    <3>2. CASE a \in 1 .. L /\ b \notin 1 .. L
      <4>1. b - L \in 1 .. M /\ L + (b - L) = b
        BY <1>1, <3>2
      <4>2. id2[b] = new /\ id2[a] = id[a]
        BY <1>3, <3>2, <4>1
      <4>3. L \in 1 .. L /\ a <= L
        BY <1>1, <3>2
      <4>4. id[a] <= id[L] /\ id[a] \in Int
        BY <2>0, <3>2, <4>3
      <4>5. id[L] \in Int /\ new = id[L] + 1
        BY <2>1
      <4> QED BY <4>2, <4>4, <4>5
    <3>3. CASE a \notin 1 .. L
      <4>1. a - L \in 1 .. M /\ L + (a - L) = a /\ b - L \in 1 .. M /\ L + (b - L) = b
        BY <1>1, <2>3, <3>3
      <4>2. id2[a] = new /\ id2[b] = new
        BY <1>3, <4>1
      <4> QED BY <2>1, <4>2
    <3> QED BY <3>1, <3>2, <3>3
  <2>4. id2[1] = -1
    <3>1. 1 \in 1 .. L
      BY <1>1
    <3> QED BY <1>3, <2>0, <3>1
  <2> QED BY <1>2, <1>3, <2>2, <2>3, <2>4 DEF Numbers
<1>17. Waiting(p, s2, st2)
  <2> DEFINE kids == Children(p, last)
             more == Sorted(kids)
             rest == Tail(st)
  <2>1. /\ IsFiniteSet(kids) /\ Cardinality(kids) \in Nat /\ more \in Seq(Joints(p))
        /\ ElementsOf(more) = kids
        /\ \A a, b \in 1 .. Len(more) : more[a] = more[b] => a = b
    BY ChildrenSorted
  <2>2. /\ st \in Seq(Joints(p))
        /\ \A a, b \in 1 .. Len(st) : st[a] = st[b] => a = b
        /\ ElementsOf(st) = {j \in Joints(p) \ Cut(s) : p[j] \in Cut(s)}
        /\ ElementsOf(st) \subseteq Starts(p)
    BY DEF SegInv, Waiting
  <2>3. /\ rest \in Seq(Joints(p)) /\ Len(rest) = Len(st) - 1 /\ Len(rest) \in Nat
        /\ \A a \in 1 .. Len(rest) : rest[a] = st[a + 1] /\ a + 1 \in 1 .. Len(st)
    BY <1>4, <2>2
  <2>4. \A x \in kids : x \in Joints(p) /\ p[x] = last /\ x # 0
    BY <1>5, TreeFacts DEF Children
  <2>5. /\ st2 \in Seq(Joints(p)) /\ Len(st2) = Len(more) + Len(rest) /\ Len(more) \in Nat
        /\ \A a \in 1 .. Len(more) : st2[a] = more[a]
        /\ \A a \in 1 .. Len(rest) : st2[Len(more) + a] = rest[a]
    <3>1. IsJoin(st2, more, rest)
      BY DEF last
    <3> HIDE DEF kids, more, rest
    <3>2. more \in Seq(Joints(p)) /\ rest \in Seq(Joints(p))
      BY <2>1, <2>3
    <3> QED BY <3>1, <3>2, JoinFacts
  <2>6. ElementsOf(st2) = kids \cup ElementsOf(rest)
    <3>1. IsJoin(st2, more, rest)
      BY DEF last
    <3> HIDE DEF kids, more, rest
    <3> QED BY <2>1, <2>3, <3>1, JoinFacts
  <2> HIDE DEF kids, more, rest
  <2>7. ElementsOf(rest) = ElementsOf(st) \ {h}
    <3>1. ASSUME NEW x \in ElementsOf(rest) PROVE x \in ElementsOf(st) /\ x # h
      <4>1. PICK a \in 1 .. Len(rest) : x = rest[a]
        BY DEF ElementsOf
      <4>2. x = st[a + 1] /\ a + 1 \in 1 .. Len(st) /\ a + 1 # 1 /\ 1 \in 1 .. Len(st)
        BY <1>4, <2>3, <4>1
      <4>3. x # h
        BY <1>4, <2>2, <4>2
      <4> QED BY <4>2, <4>3 DEF ElementsOf
    <3>2. ASSUME NEW x \in ElementsOf(st), x # h PROVE x \in ElementsOf(rest)
      <4>1. PICK a \in 1 .. Len(st) : x = st[a]
        BY DEF ElementsOf
      <4>2. a # 1
        BY <1>4, <3>2, <4>1
      <4>3. a - 1 \in 1 .. Len(rest) /\ (a - 1) + 1 = a
        BY <1>4, <2>3, <4>2
      <4>4. rest[a - 1] = x
        BY <2>3, <4>1, <4>3
      <4> QED BY <4>3, <4>4 DEF ElementsOf
    <3> QED BY <3>1, <3>2
  <2>8. kids \cap ElementsOf(st) = {}
    <3>1. last \notin Cut(s)
      BY <1>4, <1>5
    <3> QED BY <2>2, <2>4, <3>1
  <2>9. ASSUME NEW a \in 1 .. Len(st2), NEW b \in 1 .. Len(st2), st2[a] = st2[b] PROVE a = b
    <3> DEFINE m == Len(more)
    <3>1. ASSUME NEW x \in 1 .. Len(st2), x \notin 1 .. m
          PROVE  x - m \in 1 .. Len(rest) /\ m + (x - m) = x /\ st2[x] = rest[x - m]
                 /\ st2[x] \in ElementsOf(st)
      <4>1. x - m \in 1 .. Len(rest) /\ m + (x - m) = x
        BY <2>3, <2>5, <3>1
      <4>2. st2[x] = rest[x - m]
        BY <2>5, <4>1
      <4>3. rest[x - m] \in ElementsOf(rest)
        BY <4>1 DEF ElementsOf
      <4> QED BY <2>7, <4>1, <4>2, <4>3
    <3>2. ASSUME NEW x \in 1 .. m PROVE st2[x] = more[x] /\ st2[x] \in kids
      BY <2>1, <2>5 DEF ElementsOf
    <3>3. CASE a \in 1 .. m /\ b \in 1 .. m
      BY <2>1, <2>9, <3>2, <3>3
    <3>4. CASE a \in 1 .. m /\ b \notin 1 .. m
      BY <2>8, <2>9, <3>1, <3>2, <3>4
    <3>5. CASE a \notin 1 .. m /\ b \in 1 .. m
      BY <2>8, <2>9, <3>1, <3>2, <3>5
    <3>6. CASE a \notin 1 .. m /\ b \notin 1 .. m
      <4>1. a - m \in 1 .. Len(rest) /\ b - m \in 1 .. Len(rest) /\ rest[a - m] = rest[b - m]
            /\ m + (a - m) = a /\ m + (b - m) = b
        BY <2>9, <3>1, <3>6
      <4>2. st[(a - m) + 1] = st[(b - m) + 1]
            /\ (a - m) + 1 \in 1 .. Len(st) /\ (b - m) + 1 \in 1 .. Len(st)
        BY <2>3, <4>1
      <4>3. (a - m) + 1 = (b - m) + 1
        BY <2>2, <4>2
      <4>4. a - m \in Int /\ b - m \in Int /\ a - m = b - m
        BY <4>1, <4>3
      <4> QED BY <4>1, <4>4
    <3> QED BY <3>3, <3>4, <3>5, <3>6
  <2>10. ElementsOf(st2) = {j \in Joints(p) \ Cut(s2) : p[j] \in Cut(s2)}
    <3>1. ASSUME NEW j \in ElementsOf(st2) PROVE j \in Joints(p) \ Cut(s2) /\ p[j] \in Cut(s2)
      <4>1. CASE j \in kids
        <5>1. j \in Joints(p) /\ p[j] = last /\ j # 0
          BY <2>4, <4>1
        <5>2. j \notin Cut(s)
          <6>1. j \in Cut(s) => p[j] \in Cut(s)
            BY <5>1, CutClosed DEF SegInv
          <6> QED BY <1>4, <1>5, <5>1, <6>1
        <5>3. j \notin ElementsOf(c)
          <6> SUFFICES ASSUME j \in ElementsOf(c) PROVE FALSE
            OBVIOUS
          <6>1. PICK i \in 1 .. Len(c) : j = c[i]
            BY DEF ElementsOf
          <6>2. last < j
            BY <1>5, <4>1, <5>1, TreeFacts DEF kids
          <6>3. i < Len(c) \/ i = Len(c)
            BY <1>5
          <6>4. Len(c) \in 1 .. Len(c) /\ last \in Nat /\ j \in Nat
            BY <1>5, <1>6, <6>1 DEF last
          <6>5. i < Len(c) => c[i] < c[Len(c)]
            BY <1>6, <6>4
          <6> QED BY <6>1, <6>2, <6>3, <6>4, <6>5 DEF last
        <5> QED BY <1>5, <1>10, <5>1, <5>2, <5>3
      <4>2. CASE j \in ElementsOf(st) /\ j # h
        <5>1. j \in Joints(p) \ Cut(s) /\ p[j] \in Cut(s)
          BY <2>2, <4>2
        <5>2. j \notin ElementsOf(c)
          <6> SUFFICES ASSUME j \in ElementsOf(c) PROVE FALSE
            OBVIOUS
          <6>1. PICK i \in 1 .. Len(c) : j = c[i]
            BY DEF ElementsOf
          <6>2. i # 1
            BY <1>5, <4>2, <6>1
          <6>3. i - 1 \in 1 .. (Len(c) - 1) /\ i - 1 \in 1 .. Len(c) /\ (i - 1) + 1 = i
            BY <1>5, <6>2
          <6>4. p[j] = c[i - 1]
            BY <1>6, <6>1, <6>3
          <6>5. p[j] \in ElementsOf(c)
            BY <6>3, <6>4 DEF ElementsOf
          <6> QED BY <1>4, <5>1, <6>5
        <5> QED BY <1>10, <5>1, <5>2
      <4> QED BY <2>6, <2>7, <4>1, <4>2
    <3>2. ASSUME NEW j \in Joints(p), j \notin Cut(s2), p[j] \in Cut(s2)
          PROVE  j \in ElementsOf(st2)
      <4>1. CASE p[j] \in Cut(s)
        <5>1. j \in ElementsOf(st)
          BY <1>10, <2>2, <3>2, <4>1
        <5>2. j # h
          BY <1>5, <1>10, <3>2
        <5> QED BY <2>6, <2>7, <5>1, <5>2
      <4>2. CASE p[j] \in ElementsOf(c)
        <5>1. PICK i \in 1 .. Len(c) : p[j] = c[i]
          BY <4>2 DEF ElementsOf
        <5>2. j \in Children(p, c[i])
          BY <3>2, <5>1 DEF Children
        <5>3. CASE i = Len(c)
          BY <2>6, <5>2, <5>3 DEF kids, last
        <5>4. CASE i # Len(c)
          <6>1. i \in 1 .. (Len(c) - 1) /\ i + 1 \in 1 .. Len(c)
            BY <1>5, <5>4
          <6>2. j = c[i + 1]
            BY <5>2, <6>1 DEF IsChain
          <6>3. j \in ElementsOf(c)
            BY <6>1, <6>2 DEF ElementsOf
          <6> QED BY <1>10, <3>2, <6>3
        <5> QED BY <5>3, <5>4
      <4> QED BY <1>10, <3>2, <4>1, <4>2
    <3> QED BY <3>1, <3>2
  <2>11. ElementsOf(st2) \subseteq Starts(p)
    <3>1. ASSUME NEW j \in kids PROVE j \in Starts(p)
      <4>1. Cardinality(kids) # 1
        BY DEF IsChain, kids, last
      <4>2. Cardinality(kids) # 0
        BY <2>1, <3>1, FS_EmptySet
      <4>3. Cardinality(kids) >= 2
        BY <2>1, <4>1, <4>2
      <4> QED BY <2>4, <4>3 DEF Starts, kids
    <3> QED BY <2>2, <2>6, <2>7, <3>1
  <2> QED BY <2>5, <2>9, <2>10, <2>11 DEF Waiting
<1>18. Counted(p, s2, id2)
  <2> DEFINE A == Starts(p) \cap Cut(s)
  <2>1. Starts(p) \cap Cut(s2) = A \cup {h}
    <3>1. ASSUME NEW x \in ElementsOf(c), x # h PROVE x \notin Starts(p)
      <4>1. PICK i \in 1 .. Len(c) : x = c[i]
        BY DEF ElementsOf
      <4>2. i # 1
        BY <1>5, <3>1, <4>1
      <4>3. i - 1 \in 1 .. (Len(c) - 1) /\ i - 1 \in 1 .. Len(c) /\ (i - 1) + 1 = i
        BY <1>5, <4>2
      <4>4. p[x] = c[i - 1] /\ Children(p, c[i - 1]) = {x}
        BY <1>6, <4>1, <4>3 DEF IsChain
      <4>5. c[i - 1] # 0
        <5>1. c[i - 1] \in ElementsOf(c)
          BY <4>3 DEF ElementsOf
        <5> QED BY <1>4, <5>1
      <4>6. Cardinality(Children(p, p[x])) = 1
        BY <4>4, FS_Singleton
      <4>7. ~ (Cardinality(Children(p, p[x])) >= 2) /\ p[x] # 0
        BY <4>4, <4>5, <4>6
      <4> QED BY <4>7 DEF Starts
    <3> QED BY <1>4, <1>5, <1>10, <3>1
  <2>2. IsFiniteSet(A) /\ h \notin A
    <3>1. A \subseteq Joints(p)
      BY DEF Starts
    <3>2. IsFiniteSet(A)
      BY <3>1, TreeFacts, FS_Subset
    <3> QED BY <1>4, <3>2
  <2> HIDE DEF A
  <2>3. Cardinality(A \cup {h}) = Cardinality(A) + 1
    BY <2>2, FS_AddElement
  <2>4. id[L] + 1 = Cardinality(A)
    BY <1>1 DEF SegInv, Counted, A
  <2>5. id2[L + M] = new /\ new = id[L] + 1
    <3>1. M \in 1 .. M
      BY <1>1
    <3>2. id[L] \in Int
      BY <1>1
    <3>3. new = 1 + id[L]
      BY <1>1 DEF new
    <3> QED BY <1>3, <3>1, <3>2, <3>3
  <2> QED BY <1>3, <2>1, <2>3, <2>4, <2>5 DEF Counted
<1> QED BY <1>2, <1>13, <1>14, <1>15, <1>16, <1>17, <1>18 DEF SegInv
(* Merging joins a segment of a chain and the next one of the same chain.  *)
LEMMA MergePair ==
  ASSUME NEW n, Tree(par, n), SegInv(par, segs, chainOf, stack), Mergeable # {}
  PROVE  LET lst == Sorted(OfChain(LongestChain))
         IN  /\ lst[1] \in 2 .. (Len(segs) - 1) /\ lst[2] = lst[1] + 1
             /\ chainOf[lst[1]] = chainOf[lst[1] + 1]
<1> DEFINE L == Len(segs)
           size(g) == Cardinality(OfChain(g))
<1>1. /\ L \in Nat /\ chainOf \in Seq(Int) /\ Len(chainOf) = L /\ chainOf[1] = -1
      /\ \A a, b \in 1 .. L : a <= b => chainOf[a] <= chainOf[b]
      /\ \A a \in 1 .. L : chainOf[a] \in Int
  <2>1. L \in Nat
    BY DEF SegInv
  <2>2. Len(chainOf) = L /\ chainOf \in Seq(Int)
    BY DEF SegInv, Numbers
  <2>3. \A a \in 1 .. L : chainOf[a] \in Int
    BY <2>2
  <2> QED BY <2>1, <2>2, <2>3 DEF SegInv, Numbers
<1> HIDE DEF L
<1>2. ASSUME NEW g
      PROVE  /\ OfChain(g) = {i \in 1 .. L : chainOf[i] = g}
             /\ IsFiniteSet(OfChain(g)) /\ OfChain(g) \in SUBSET Int
             /\ size(g) \in Nat /\ size(g) <= L
  <2>1. OfChain(g) = {i \in 1 .. L : chainOf[i] = g}
    BY DEF OfChain, L
  <2>2. IsFiniteSet(1 .. L) /\ Cardinality(1 .. L) = L
    BY <1>1, FS_Interval
  <2>3. OfChain(g) \subseteq 1 .. L
    BY <2>1
  <2> QED BY <2>1, <2>2, <2>3, FS_Subset, FS_CardinalityType
<1>3. LongestChain \in Mergeable
  <2> DEFINE D == {L - size(g) : g \in Mergeable}
             less(g) == \A o \in Mergeable : size(o) < size(g) \/ (size(o) = size(g) /\ g <= o)
  <2>0. Mergeable \subseteq Nat
    BY DEF Mergeable
  <2> HIDE DEF size
  <2>1. D \in SUBSET Nat /\ D # {}
    BY <1>1, <1>2
  <2>2. PICK d \in D : \A e \in D : d <= e
    BY <2>1, LeastOf
  <2> DEFINE E == {g \in Mergeable : L - size(g) = d}
  <2>3. E \in SUBSET Nat /\ E # {}
    BY <2>0
  <2>4. PICK g \in E : \A o \in E : g <= o
    BY <2>3, LeastOf
  <2>5. ASSUME NEW o \in Mergeable
        PROVE  size(o) < size(g) \/ (size(o) = size(g) /\ g <= o)
    <3>1. L - size(o) \in D /\ size(o) \in Nat /\ size(g) \in Nat /\ L - size(g) = d
      BY <1>2
    <3>2. L - size(g) <= L - size(o)
      BY <2>2, <3>1
    <3>3. size(o) < size(g) \/ size(o) = size(g)
      BY <1>1, <3>1, <3>2
    <3>4. size(o) = size(g) => o \in E
      BY <3>1
    <3> QED BY <2>4, <3>3, <3>4
  <2>6. g \in Mergeable /\ less(g)
    BY <2>5
  <2>7. LongestChain = CHOOSE x \in Mergeable : less(x)
    BY DEF LongestChain, size
  <2> HIDE DEF less
  <2> QED BY <2>6, <2>7
<1> DEFINE g == LongestChain
           lst == Sorted(OfChain(g))
<1>4. g \in Nat /\ size(g) >= 2
  BY <1>3 DEF Mergeable
<1>5. /\ Len(lst) = size(g) /\ \A i \in 1 .. size(g) : lst[i] \in OfChain(g)
      /\ \A i, j \in 1 .. size(g) : i < j => lst[i] < lst[j]
      /\ \A x \in OfChain(g) : \E i \in 1 .. size(g) : lst[i] = x
  BY <1>2, SortedFacts
<1> HIDE DEF size, lst, g
<1>6. 1 \in 1 .. size(g) /\ 2 \in 1 .. size(g) /\ size(g) \in Nat
  BY <1>2, <1>4
<1>7. /\ lst[1] \in 1 .. L /\ chainOf[lst[1]] = g /\ lst[2] \in 1 .. L /\ chainOf[lst[2]] = g
      /\ lst[1] < lst[2]
  BY <1>2, <1>5, <1>6
<1>8. lst[1] # 1
  BY <1>1, <1>4, <1>7
<1>9. lst[2] = lst[1] + 1
  <2> SUFFICES ASSUME lst[2] # lst[1] + 1 PROVE FALSE
    OBVIOUS
  <2> DEFINE e == lst[1] + 1
  <2>1. e \in 1 .. L /\ lst[1] < e /\ e < lst[2]
    BY <1>1, <1>7
  <2> HIDE DEF e
  <2>2. chainOf[lst[1]] <= chainOf[e] /\ chainOf[e] <= chainOf[lst[2]]
    BY <1>1, <1>7, <2>1
  <2>3. chainOf[e] = g
    BY <1>1, <1>7, <2>1, <2>2
  <2>4. PICK i \in 1 .. size(g) : lst[i] = e
    BY <1>2, <1>5, <2>1, <2>3
  <2>5. i # 1 /\ i # 2
    BY <1>7, <2>1, <2>4
  <2>6. 2 < i
    BY <1>6, <2>5
  <2>7. lst[2] < e
    BY <1>5, <1>6, <2>4, <2>6
  <2> QED BY <1>7, <2>1, <2>7
<1>10. lst[1] \in 2 .. (L - 1)
  BY <1>1, <1>7, <1>8, <1>9
<1> QED BY <1>7, <1>9, <1>10 DEF L, lst, g

(* s2 is s with the segments a and a + 1 joined, id2 their chains.         *)
Merged(s, id, a, s2, id2) ==
  /\ Len(s2) = Len(s) - 1 /\ Len(id2) = Len(s) - 1
  /\ \A m \in 1 .. (Len(s) - 1) :
       /\ m < a => s2[m] = s[m]
       /\ m = a => IsJoin(s2[m], s[m], s[m + 1])
       /\ m > a => s2[m] = s[m + 1]
       /\ m <= a => id2[m] = id[m]
       /\ m > a => id2[m] = id[m + 1]

(* What a sequence without its i-th element holds.                         *)
LEMMA WithoutFacts ==
  ASSUME NEW S, NEW s \in Seq(S), NEW i \in 1 .. Len(s)
  PROVE  /\ Without(s, i) \in Seq(S) /\ Len(Without(s, i)) = Len(s) - 1
         /\ \A m \in 1 .. (Len(s) - 1) : Without(s, i)[m] = IF m < i THEN s[m] ELSE s[m + 1]
<1> DEFINE L == Len(s)
           w == Without(s, i)
<1>1. L \in Nat /\ i \in 1 .. L /\ L - 1 \in Nat /\ \A m \in 1 .. L : s[m] \in S
  OBVIOUS
<1>2. w = [m \in 1 .. (L - 1) |-> IF m < i THEN s[m] ELSE s[m + 1]]
  BY DEF Without
<1> HIDE DEF L, w
<1>3. \A m \in 1 .. (L - 1) : m \in 1 .. L /\ m + 1 \in 1 .. L
  BY <1>1
<1>4. w \in [1 .. (L - 1) -> S]
  BY <1>1, <1>2, <1>3
<1>5. w \in Seq(S) /\ Len(w) = L - 1
  BY <1>1, <1>4
<1>6. \A m \in 1 .. (L - 1) : w[m] = IF m < i THEN s[m] ELSE s[m + 1]
  BY <1>2
<1> QED BY <1>5, <1>6 DEF L, w

(* What a sequence with one element changed holds.                         *)
LEMMA UpdateFacts ==
  ASSUME NEW S, NEW s \in Seq(S), NEW a \in 1 .. Len(s), NEW j \in S
  PROVE  LET t == [s EXCEPT ![a] = j]
         IN  /\ t \in Seq(S) /\ Len(t) = Len(s) /\ t[a] = j
             /\ \A i \in 1 .. Len(s) : i # a => t[i] = s[i]
OBVIOUS

(* The step of the program that merges does that.                          *)
LEMMA MergeIs ==
  ASSUME NEW S, NEW s \in Seq(Seq(S)), NEW id \in Seq(Int), Len(id) = Len(s),
         NEW a \in 2 .. (Len(s) - 1)
  PROVE  LET s2  == Without([s EXCEPT ![a] = @ \o s[a + 1]], a + 1)
             id2 == Without(id, a + 1)
         IN  s2 \in Seq(Seq(S)) /\ id2 \in Seq(Int) /\ Merged(s, id, a, s2, id2)
<1> DEFINE L == Len(s)
           Q == Seq(S)
           j == s[a] \o s[a + 1]
           t == [s EXCEPT ![a] = j]
           s2 == Without(t, a + 1)
           id2 == Without(id, a + 1)
<1>1. L \in Nat /\ a \in 1 .. L /\ a + 1 \in 1 .. L /\ a \in Nat
  OBVIOUS
<1>2. \A i \in 1 .. L : s[i] \in Q
  OBVIOUS
<1>3. j \in Q
  BY <1>1, <1>2
<1>4. s \in Seq(Q)
  OBVIOUS
<1> HIDE DEF Q, j
<1>6. t \in Seq(Q) /\ Len(t) = L /\ t[a] = j /\ \A i \in 1 .. L : i # a => t[i] = s[i]
  BY <1>1, <1>3, <1>4, UpdateFacts
<1> HIDE DEF t
<1>7. /\ s2 \in Seq(Q) /\ Len(s2) = L - 1
      /\ \A m \in 1 .. (L - 1) : s2[m] = IF m < a + 1 THEN t[m] ELSE t[m + 1]
  <2>1. a + 1 \in 1 .. Len(t)
    BY <1>1, <1>6
  <2>2. /\ s2 \in Seq(Q) /\ Len(s2) = Len(t) - 1
        /\ \A m \in 1 .. (Len(t) - 1) : s2[m] = IF m < a + 1 THEN t[m] ELSE t[m + 1]
    BY <1>6, <2>1, WithoutFacts
  <2> QED BY <1>6, <2>2
<1>8. /\ id2 \in Seq(Int) /\ Len(id2) = L - 1
      /\ \A m \in 1 .. (L - 1) : id2[m] = IF m < a + 1 THEN id[m] ELSE id[m + 1]
  <2>1. a + 1 \in 1 .. Len(id)
    BY <1>1
  <2>2. /\ id2 \in Seq(Int) /\ Len(id2) = Len(id) - 1
        /\ \A m \in 1 .. (Len(id) - 1) : id2[m] = IF m < a + 1 THEN id[m] ELSE id[m + 1]
    BY <2>1, WithoutFacts
  <2> QED BY <2>2
<1> HIDE DEF L, s2, id2
<1>9. \A m \in 1 .. (L - 1) : m \in 1 .. L /\ m + 1 \in 1 .. L
  BY <1>1
<1>13. ASSUME NEW m \in 1 .. (L - 1)
       PROVE  /\ m < a => s2[m] = s[m]
              /\ m = a => IsJoin(s2[m], s[m], s[m + 1])
              /\ m > a => s2[m] = s[m + 1]
              /\ m <= a => id2[m] = id[m]
              /\ m > a => id2[m] = id[m + 1]
  <2>0. m \in Int /\ a \in Int /\ m + 1 # a + 1 => m # a
    BY <1>1
  <2>1. m <= a => s2[m] = t[m] /\ id2[m] = id[m]
    <3>1. m <= a => m < a + 1
      BY <1>1
    <3> QED BY <1>7, <1>8, <3>1
  <2>2. m > a => s2[m] = t[m + 1] /\ id2[m] = id[m + 1]
    <3>1. m > a => ~ (m < a + 1)
      BY <1>1
    <3> QED BY <1>7, <1>8, <3>1
  <2>3. m < a => s2[m] = s[m]
    <3>1. m < a => m <= a /\ m # a
      BY <1>1
    <3> QED BY <1>6, <1>9, <2>1, <3>1
  <2>4. m > a => s2[m] = s[m + 1]
    <3>1. m > a => m + 1 # a
      BY <1>1
    <3> QED BY <1>6, <1>9, <2>2, <3>1
  <2>5. m = a => s2[m] = s[m] \o s[m + 1]
    <3>1. m = a => m <= a
      BY <1>1
    <3>2. m = a => s2[m] = j
      BY <1>6, <2>1, <3>1
    <3> QED BY <3>2 DEF j
  <2> QED BY <2>1, <2>2, <2>3, <2>4, <2>5 DEF IsJoin
<1>14. Merged(s, id, a, s2, id2)
  BY <1>7, <1>8, <1>13 DEF Merged, L
<1> QED BY <1>7, <1>8, <1>14 DEF Q, L, s2, id2, t, j

(* Merging keeps the segments right and cuts nothing.                      *)
LEMMA MergeKeeps ==
  ASSUME NEW p, NEW n, Tree(p, n), NEW s, NEW id, NEW st, SegInv(p, s, id, st),
         NEW a \in 2 .. (Len(s) - 1), id[a] = id[a + 1],
         NEW s2 \in Seq(Seq(Joints(p))), NEW id2 \in Seq(Int), Merged(s, id, a, s2, id2)
  PROVE  SegInv(p, s2, id2, st) /\ Cut(s2) = Cut(s)
<1> DEFINE L == Len(s)
           Q == Seq(Joints(p))
           Old(m) == IF m <= a THEN m ELSE m + 1
           New(o) == IF o <= a THEN o ELSE o - 1
<1>1. /\ L \in Nat /\ a \in 2 .. (L - 1) /\ a \in Nat /\ Len(id) = L /\ id \in Seq(Int)
      /\ s \in Seq(Q) /\ Len(s2) = L - 1 /\ Len(id2) = L - 1 /\ s2 \in Seq(Q)
      /\ a \in 1 .. L /\ a + 1 \in 1 .. L /\ a \in 1 .. (L - 1) /\ L = Len(s)
  <2>1. L \in Nat /\ Len(id) = L /\ id \in Seq(Int) /\ s \in Seq(Q)
    BY DEF SegInv, Numbers
  <2>2. Len(s2) = L - 1 /\ Len(id2) = L - 1
    BY DEF Merged
  <2> HIDE DEF L, Q
  <2>3. a \in 2 .. (L - 1)
    BY DEF L
  <2>4. a \in Nat /\ a \in 1 .. L /\ a + 1 \in 1 .. L /\ a \in 1 .. (L - 1)
    BY <2>1, <2>3
  <2> QED BY <2>1, <2>2, <2>3, <2>4 DEF Q, L
<1>2. \A i \in 1 .. L : s[i] \in Q /\ Len(s[i]) \in Nat /\ Len(s[i]) >= 1 /\ id[i] \in Int
  <2>1. \A i \in 1 .. L : s[i] \in Q /\ Len(s[i]) >= 1
    BY DEF SegInv, Paths
  <2>2. \A i \in 1 .. L : Len(s[i]) \in Nat
    BY <2>1
  <2>3. \A i \in 1 .. L : id[i] \in Int
    <3>1. id \in Seq(Int) /\ Len(id) = L
      BY <1>1
    <3> HIDE DEF L
    <3> QED BY <3>1
  <2> QED BY <2>1, <2>2, <2>3
<1> HIDE DEF L, Q
<1>0. L \in Int /\ a \in Int /\ 2 <= a /\ a <= L - 1
  BY <1>1
<1>3. \A m \in 1 .. (L - 1) :
        /\ m < a => s2[m] = s[m]
        /\ m > a => s2[m] = s[m + 1]
        /\ m <= a => id2[m] = id[m]
        /\ m > a => id2[m] = id[m + 1]
  BY DEF Merged, L
<1>4. IsJoin(s2[a], s[a], s[a + 1])
  BY <1>1 DEF Merged
<1> DEFINE j == s2[a]
<1>5. /\ j \in Q /\ Len(j) = Len(s[a]) + Len(s[a + 1])
      /\ \A i \in 1 .. Len(s[a]) : j[i] = s[a][i]
      /\ \A i \in 1 .. Len(s[a + 1]) : j[Len(s[a]) + i] = s[a + 1][i]
      /\ ElementsOf(j) = ElementsOf(s[a]) \cup ElementsOf(s[a + 1])
  <2>1. s[a] \in Q /\ s[a + 1] \in Q
    BY <1>1, <1>2
  <2>2. IsJoin(j, s[a], s[a + 1])
    BY <1>4
  <2> HIDE DEF j
  <2> DEFINE x == s[a]
             y == s[a + 1]
  <2>3. x \in Seq(Joints(p)) /\ y \in Seq(Joints(p)) /\ IsJoin(j, x, y)
    BY <2>1, <2>2 DEF Q
  <2> HIDE DEF x, y
  <2>4. /\ j \in Seq(Joints(p)) /\ Len(j) = Len(x) + Len(y)
        /\ \A i \in 1 .. Len(x) : j[i] = x[i]
        /\ \A i \in 1 .. Len(y) : j[Len(x) + i] = y[i]
        /\ ElementsOf(j) = ElementsOf(x) \cup ElementsOf(y)
    BY <2>3, JoinFacts
  <2> QED BY <2>4 DEF Q, x, y
<1> HIDE DEF j
<1>6. ASSUME NEW m \in 1 .. (L - 1)
      PROVE  /\ m < a => Old(m) = m /\ s2[m] = s[m]
             /\ m = a => Old(m) = m /\ s2[m] = j
             /\ m > a => Old(m) = m + 1 /\ s2[m] = s[m + 1]
             /\ Old(m) \in 1 .. L /\ id2[m] = id[Old(m)] /\ s2[m][1] = s[Old(m)][1]
             /\ ElementsOf(s[Old(m)]) \subseteq ElementsOf(s2[m])
             /\ (m < a \/ m = a \/ m > a) /\ m \in Int
  <2>1. m \in Int /\ m \in 1 .. L /\ m + 1 \in 1 .. L /\ (m < a \/ m = a \/ m > a)
    BY <1>0
  <2>2. CASE m < a
    <3>1. Old(m) = m /\ m <= a
      BY <1>1, <2>1, <2>2
    <3>2. s2[m] = s[m] /\ id2[m] = id[m] /\ ~ (m = a) /\ ~ (m > a)
      BY <1>1, <1>3, <2>1, <2>2, <3>1
    <3> QED BY <2>1, <3>1, <3>2
  <2>3. CASE m = a
    <3>1. Old(m) = m /\ m <= a
      BY <1>1, <2>1, <2>3
    <3>2. s2[m] = j /\ id2[m] = id[m] /\ ~ (m < a) /\ ~ (m > a)
      BY <1>1, <1>3, <2>1, <2>3, <3>1 DEF j
    <3>3. j[1] = s[a][1]
      <4>1. 1 \in 1 .. Len(s[a])
        BY <1>1, <1>2
      <4> QED BY <1>5, <4>1
    <3> QED BY <1>5, <2>1, <2>3, <3>1, <3>2, <3>3
  <2>4. CASE m > a
    <3>1. Old(m) = m + 1
      BY <1>1, <2>1, <2>4
    <3>2. s2[m] = s[m + 1] /\ id2[m] = id[m + 1] /\ ~ (m = a) /\ ~ (m < a)
      BY <1>1, <1>3, <2>1, <2>4
    <3> QED BY <2>1, <2>4, <3>1, <3>2
  <2> QED BY <2>1, <2>2, <2>3, <2>4
<1>7. ASSUME NEW o \in 1 .. L
      PROVE  /\ New(o) \in 1 .. (L - 1) /\ ElementsOf(s[o]) \subseteq ElementsOf(s2[New(o)])
             /\ o <= a => New(o) = o
             /\ o > a => New(o) = o - 1
  <2>1. CASE o < a
    <3>1. New(o) = o /\ o \in 1 .. (L - 1) /\ ~ (o > a)
      BY <1>1, <2>1
    <3> QED BY <1>6, <2>1, <3>1
  <2>2. CASE o = a
    <3>1. New(o) = o /\ o \in 1 .. (L - 1) /\ ~ (o > a)
      BY <1>1, <2>2
    <3> QED BY <1>5, <1>6, <2>2, <3>1
  <2>3. CASE o = a + 1
    <3>1. New(o) = a /\ a \in 1 .. (L - 1) /\ ~ (o <= a) /\ o - 1 = a
      BY <1>1, <2>3
    <3> QED BY <1>5, <1>6, <2>3, <3>1
  <2>4. CASE o > a + 1
    <3>1. New(o) = o - 1 /\ o - 1 \in 1 .. (L - 1) /\ ~ (o <= a) /\ o - 1 > a /\ (o - 1) + 1 = o
      BY <1>1, <2>4
    <3>2. s2[o - 1] = s[o]
      BY <1>6, <3>1
    <3> QED BY <3>1, <3>2
  <2>5. o < a \/ o = a \/ o = a + 1 \/ o > a + 1
    BY <1>1
  <2> QED BY <2>1, <2>2, <2>3, <2>4, <2>5
<1>8. ASSUME NEW m \in 1 .. (L - 1), NEW x \in ElementsOf(s2[m])
      PROVE  \E o \in 1 .. L : x \in ElementsOf(s[o]) /\ New(o) = m
  <2>1. CASE m < a
    <3>1. s2[m] = s[m] /\ New(m) = m /\ m \in 1 .. L
      BY <1>1, <1>6, <2>1
    <3> QED BY <1>8, <3>1
  <2>2. CASE m = a
    <3>1. s2[m] = j /\ New(a) = a /\ New(a + 1) = a
      BY <1>1, <1>6, <2>2
    <3> QED BY <1>1, <1>5, <1>8, <2>2, <3>1
  <2>3. CASE m > a
    <3>1. s2[m] = s[m + 1] /\ New(m + 1) = m /\ m + 1 \in 1 .. L
      BY <1>1, <1>6, <2>3
    <3> QED BY <1>8, <3>1
  <2> QED BY <1>6, <2>1, <2>2, <2>3
<1> HIDE DEF Old, New
<1>9. Cut(s2) = Cut(s)
  <2>1. ASSUME NEW x \in Cut(s2) PROVE x \in Cut(s)
    <3>1. PICK m \in 1 .. (L - 1) : x \in ElementsOf(s2[m])
      BY <1>1 DEF Cut
    <3>2. PICK o \in 1 .. L : x \in ElementsOf(s[o])
      BY <1>8, <3>1
    <3> QED BY <3>2 DEF Cut, L
  <2>2. ASSUME NEW x \in Cut(s) PROVE x \in Cut(s2)
    <3>1. PICK o \in 1 .. L : x \in ElementsOf(s[o])
      BY DEF Cut, L
    <3>2. New(o) \in 1 .. Len(s2) /\ x \in ElementsOf(s2[New(o)])
      BY <1>1, <1>7, <3>1
    <3> QED BY <3>2 DEF Cut
  <2> QED BY <2>1, <2>2
<1>10. Apart(s2)
  <2> SUFFICES ASSUME NEW x1 \in 1 .. (L - 1), NEW x2 \in 1 .. (L - 1), x1 # x2,
                      NEW x, x \in ElementsOf(s2[x1]), x \in ElementsOf(s2[x2])
               PROVE  FALSE
    BY <1>1 DEF Apart
  <2>1. PICK o1 \in 1 .. L : x \in ElementsOf(s[o1]) /\ New(o1) = x1
    BY <1>8
  <2>2. PICK o2 \in 1 .. L : x \in ElementsOf(s[o2]) /\ New(o2) = x2
    BY <1>8
  <2>3. o1 = o2
    BY <2>1, <2>2 DEF SegInv, Apart, L
  <2> QED BY <2>1, <2>2, <2>3
<1>11. Paths(p, s2)
  <2>1. ASSUME NEW o \in 1 .. L
        PROVE \A i \in 1 .. (Len(s[o]) - 1) : p[s[o][i + 1]] = s[o][i]
    BY DEF SegInv, Paths, L
  <2>2. p[s[a + 1][1]] = s[a][Len(s[a])]
    <3>1. a + 1 \in 2 .. L /\ (a + 1) - 1 = a
      BY <1>1
    <3> QED BY <3>1 DEF SegInv, Hanging, L
  <2>3. /\ j \in Q /\ Len(j) >= 1
        /\ \A i \in 1 .. (Len(j) - 1) : p[j[i + 1]] = j[i]
    <3> DEFINE u == Len(s[a])
               v == Len(s[a + 1])
    <3>1. u \in Nat /\ u >= 1 /\ v \in Nat /\ v >= 1 /\ Len(j) = u + v
      BY <1>1, <1>2, <1>5
    <3>2. /\ \A i \in 1 .. u : j[i] = s[a][i]
          /\ \A i \in 1 .. v : j[u + i] = s[a + 1][i]
      BY <1>5
    <3>3. /\ \A i \in 1 .. (u - 1) : p[s[a][i + 1]] = s[a][i]
          /\ \A i \in 1 .. (v - 1) : p[s[a + 1][i + 1]] = s[a + 1][i]
          /\ p[s[a + 1][1]] = s[a][u]
      BY <1>1, <2>1, <2>2
    <3> HIDE DEF u, v
    <3>4. ASSUME NEW i \in 1 .. (Len(j) - 1) PROVE p[j[i + 1]] = j[i]
      <4>1. CASE i < u
        <5>1. i \in 1 .. (u - 1) /\ i \in 1 .. u /\ i + 1 \in 1 .. u
          BY <3>1, <4>1
        <5>2. j[i] = s[a][i] /\ j[i + 1] = s[a][i + 1]
          BY <3>2, <5>1
        <5> QED BY <3>3, <5>1, <5>2
      <4>2. CASE i = u
        <5>1. u \in 1 .. u /\ 1 \in 1 .. v
          BY <3>1
        <5>2. j[i] = s[a][u] /\ j[i + 1] = s[a + 1][1]
          BY <3>2, <4>2, <5>1
        <5> QED BY <3>3, <5>2
      <4>3. CASE i > u
        <5>1. i - u \in 1 .. (v - 1) /\ i - u \in 1 .. v /\ (i - u) + 1 \in 1 .. v
              /\ u + (i - u) = i /\ u + ((i - u) + 1) = i + 1
          BY <3>1, <4>3
        <5>2. j[i] = s[a + 1][i - u] /\ j[i + 1] = s[a + 1][(i - u) + 1]
          BY <3>2, <5>1
        <5> QED BY <3>3, <5>1, <5>2
      <4>4. i < u \/ i = u \/ i > u
        BY <3>1
      <4> QED BY <4>1, <4>2, <4>3, <4>4
    <3>5. Len(j) >= 1
      BY <3>1
    <3> QED BY <1>5, <3>4, <3>5
  <2>4. ASSUME NEW o \in 1 .. L
        PROVE  /\ s[o] \in Q /\ Len(s[o]) >= 1
               /\ \A i \in 1 .. (Len(s[o]) - 1) : p[s[o][i + 1]] = s[o][i]
    BY <1>2, <2>1
  <2>5. ASSUME NEW m \in 1 .. (L - 1)
        PROVE  /\ s2[m] \in Q /\ Len(s2[m]) >= 1
               /\ \A i \in 1 .. (Len(s2[m]) - 1) : p[s2[m][i + 1]] = s2[m][i]
    <3>1. CASE m = a
      <4>1. s2[m] = j
        BY <1>6, <3>1
      <4> QED BY <2>3, <4>1
    <3>2. CASE m # a
      <4>1. Old(m) \in 1 .. L /\ s2[m] = s[Old(m)]
        BY <1>6, <3>2
      <4> QED BY <2>4, <4>1
    <3> QED BY <3>1, <3>2
  <2> QED BY <1>1, <2>5 DEF Paths, Q
<1>12. Hanging(p, s2, id2)
  <2>1. Len(s2) >= 1 /\ s2[1] = <<0>>
    <3>1. 1 \in 1 .. (L - 1) /\ 1 < a /\ L - 1 >= 1
      BY <1>1
    <3>2. s2[1] = s[1]
      BY <1>6, <3>1
    <3> QED BY <1>1, <3>1, <3>2 DEF SegInv, Hanging
  <2>2. ASSUME NEW m \in 2 .. (L - 1)
        PROVE  /\ s2[m][1] # 0
               /\ \E b \in 1 .. (m - 1) : p[s2[m][1]] \in ElementsOf(s2[b])
               /\ id2[m] = id2[m - 1] => p[s2[m][1]] = s2[m - 1][Len(s2[m - 1])]
    <3> DEFINE o == Old(m)
    <3>1. m \in 1 .. (L - 1) /\ m - 1 \in 1 .. (L - 1) /\ m \in Int /\ (m - 1) + 1 = m
      BY <1>1
    <3>2. o \in 1 .. L /\ s2[m][1] = s[o][1] /\ id2[m] = id[o]
          /\ (m <= a => o = m) /\ (m > a => o = m + 1)
      <4>1. /\ m < a => o = m
            /\ m = a => o = m
            /\ m > a => o = m + 1
            /\ o \in 1 .. L /\ id2[m] = id[o] /\ s2[m][1] = s[o][1]
        BY <1>6, <3>1
      <4> HIDE DEF o
      <4> QED BY <1>0, <3>1, <4>1
    <3> HIDE DEF o
    <3>3. o \in 2 .. L
      <4>1. m <= a \/ m > a
        BY <1>0, <3>1
      <4> QED BY SMTT(30), <1>0, <3>2, <4>1
    <3>4. /\ s[o][1] # 0
          /\ \E b \in 1 .. (o - 1) : p[s[o][1]] \in ElementsOf(s[b])
          /\ id[o] = id[o - 1] => p[s[o][1]] = s[o - 1][Len(s[o - 1])]
      BY <3>3 DEF SegInv, Hanging, L
    <3>5. PICK b \in 1 .. (o - 1) : p[s[o][1]] \in ElementsOf(s[b])
      BY <3>4
    <3>6. b \in 1 .. L /\ b \in Int
      BY <1>1, <3>3
    <3>7. New(b) \in 1 .. (m - 1)
      <4>1. New(b) \in 1 .. (L - 1) /\ (b <= a => New(b) = b) /\ (b > a => New(b) = b - 1)
        BY <1>7, <3>6
      <4>2. b <= o - 1
        BY <3>3
      <4>3. b <= a \/ b > a
        BY <1>0, <3>6
      <4>4. m <= a \/ m > a
        BY <1>0, <3>1
      <4>5. b >= 1
        BY <1>0, <3>6
      <4>6. New(b) \in Int /\ New(b) >= 1
        BY <4>1
      <4>7. New(b) <= m - 1
        <5>1. CASE m <= a
          BY <1>0, <3>1, <3>2, <3>6, <4>1, <4>2, <5>1
        <5>2. CASE m > a /\ b <= a
          BY <1>0, <3>1, <3>2, <3>6, <4>1, <4>2, <5>2
        <5>3. CASE m > a /\ b > a
          BY <1>0, <3>1, <3>2, <3>6, <4>1, <4>2, <5>3
        <5> QED BY <4>3, <4>4, <5>1, <5>2, <5>3
      <4> QED BY <3>1, <4>6, <4>7
    <3>8. p[s2[m][1]] \in ElementsOf(s2[New(b)])
      BY <1>7, <3>2, <3>5, <3>6
    <3>9. ASSUME id2[m] = id2[m - 1] PROVE p[s2[m][1]] = s2[m - 1][Len(s2[m - 1])]
      <4>1. CASE m <= a
        <5>1. m - 1 < a /\ o = m
          BY <1>1, <3>1, <3>2, <4>1
        <5>2. s2[m - 1] = s[m - 1] /\ id2[m - 1] = id[m - 1]
          BY <1>6, <3>1, <5>1
        <5> QED BY <3>2, <3>4, <3>9, <5>1, <5>2
      <4>2. CASE m = a + 1
        <5>1. m - 1 = a /\ o = m + 1 /\ o - 1 = a + 1
          BY <1>1, <3>1, <3>2, <4>2
        <5>2. s2[m - 1] = j /\ id2[m - 1] = id[a]
          BY <1>1, <1>6, <3>1, <5>1
        <5>3. id[o] = id[o - 1]
          BY <3>2, <3>9, <5>1, <5>2
        <5>4. p[s[o][1]] = s[a + 1][Len(s[a + 1])]
          BY <3>4, <5>1, <5>3
        <5>5. j[Len(j)] = s[a + 1][Len(s[a + 1])]
          <6>1. Len(s[a + 1]) \in 1 .. Len(s[a + 1])
            BY <1>1, <1>2
          <6> QED BY <1>5, <6>1
        <5> QED BY <3>2, <5>2, <5>4, <5>5
      <4>3. CASE m > a + 1
        <5>1. m - 1 > a /\ o = m + 1 /\ o - 1 = m
          <6>1. m > a /\ m - 1 > a
            BY <1>0, <3>1, <4>3
          <6> QED BY <3>1, <3>2, <6>1
        <5>2. s2[m - 1] = s[m] /\ Old(m - 1) = m
          BY <1>6, <3>1, <5>1
        <5>3. id2[m - 1] = id[m]
          BY <1>6, <3>1, <5>2
        <5> QED BY <3>2, <3>4, <3>9, <5>1, <5>2, <5>3
      <4>4. m <= a \/ m = a + 1 \/ m > a + 1
        BY <1>1, <3>1
      <4> QED BY <4>1, <4>2, <4>3, <4>4
    <3> QED BY <3>2, <3>4, <3>7, <3>8, <3>9
  <2> QED BY <1>1, <2>1, <2>2 DEF Hanging
<1>13. Numbers(s2, id2)
  <2>0. /\ id[1] = -1
        /\ \A i \in 2 .. L : id[i] >= 0 /\ (id[i] = id[i - 1] \/ id[i] = id[i - 1] + 1)
        /\ \A x, y \in 1 .. L : x <= y => id[x] <= id[y]
    BY <1>1 DEF SegInv, Numbers
  <2>1. id2[1] = -1
    <3>1. 1 \in 1 .. (L - 1) /\ 1 < a
      BY <1>1
    <3>2. id2[1] = id[1]
      BY <1>6, <3>1
    <3> QED BY <2>0, <3>2
  <2>2. ASSUME NEW m \in 2 .. (L - 1)
        PROVE  id2[m] >= 0 /\ (id2[m] = id2[m - 1] \/ id2[m] = id2[m - 1] + 1)
    <3>1. m \in 1 .. (L - 1) /\ m - 1 \in 1 .. (L - 1) /\ m \in Int /\ (m - 1) + 1 = m
          /\ m \in 2 .. L /\ m + 1 \in 2 .. L /\ (m + 1) - 1 = m
      BY <1>1
    <3>2. CASE m <= a
      <4>1. m - 1 < a /\ (m < a \/ m = a)
        BY <1>1, <3>1, <3>2
      <4>2. id2[m] = id[m] /\ id2[m - 1] = id[m - 1]
        BY <1>6, <3>1, <4>1
      <4> QED BY <2>0, <3>1, <4>2
    <3>3. CASE m = a + 1
      <4>1. m - 1 = a /\ m > a
        BY <1>1, <3>3
      <4>2. id2[m] = id[m + 1] /\ id2[m - 1] = id[a]
        BY <1>6, <3>1, <4>1
      <4>3. id2[m - 1] = id[m]
        BY <3>3, <4>2
      <4> QED BY <2>0, <3>1, <4>2, <4>3
    <3>4. CASE m > a + 1
      <4>1. m - 1 > a /\ m > a
        BY <1>1, <3>1, <3>4
      <4>2. id2[m] = id[m + 1] /\ id2[m - 1] = id[m]
        BY SMTT(30), <1>6, <3>1, <4>1
      <4> QED BY <2>0, <3>1, <4>2
    <3>5. m <= a \/ m = a + 1 \/ m > a + 1
      BY <1>1, <3>1
    <3> QED BY <3>2, <3>3, <3>4, <3>5
  <2>3. ASSUME NEW x \in 1 .. (L - 1), NEW y \in 1 .. (L - 1), x <= y PROVE id2[x] <= id2[y]
    <3>1. Old(x) <= Old(y)
      <4>1. x \in Int /\ y \in Int
        BY <1>0
      <4> QED BY <1>0, <2>3, <4>1 DEF Old
    <3>2. /\ Old(x) \in 1 .. L /\ Old(y) \in 1 .. L
          /\ id2[x] = id[Old(x)] /\ id2[y] = id[Old(y)]
      BY <1>6
    <3>3. id[Old(x)] <= id[Old(y)]
      BY <2>0, <3>1, <3>2
    <3> QED BY <3>2, <3>3
  <2> QED BY <1>1, <2>1, <2>2, <2>3 DEF Numbers
<1>14. Waiting(p, s2, st)
  BY <1>9 DEF SegInv, Waiting
<1>15. Counted(p, s2, id2)
  <2>1. L - 1 \in 1 .. (L - 1) /\ (L - 1 = a \/ L - 1 > a) /\ (L - 1) + 1 = L
    BY <1>0
  <2>2. id2[L - 1] = id[L]
    <3>1. CASE L - 1 = a
      <4>1. id2[L - 1] = id[a] /\ a + 1 = L
        BY <1>1, <1>6, <2>1, <3>1
      <4> QED BY <4>1
    <3>2. CASE L - 1 > a
      BY <1>6, <2>1, <3>2
    <3> QED BY <2>1, <3>1, <3>2
  <2> QED BY <1>1, <1>9, <2>2 DEF SegInv, Counted
<1> QED BY <1>9, <1>10, <1>11, <1>12, <1>13, <1>14, <1>15 DEF SegInv
(* The root alone, with its children waiting.                              *)
LEMMA SegStart ==
  ASSUME NEW p, NEW n, Tree(p, n)
  PROVE  SegInv(p, << <<0>> >>, <<-1>>, Sorted(Children(p, 0)))
<1> DEFINE s == << <<0>> >>
           id == <<-1>>
           st == Sorted(Children(p, 0))
<1>1. /\ Len(s) = 1 /\ s[1] = <<0>> /\ Len(id) = 1 /\ id[1] = -1 /\ id \in Seq(Int)
      /\ ElementsOf(<<0>>) = {0}
  BY DEF ElementsOf
<1>2. 0 \in Joints(p) /\ \A x \in Joints(p) : x # 0 => p[x] \in Joints(p) /\ p[x] < x /\ x \in Int
  BY TreeFacts
<1>3. s \in Seq(Seq(Joints(p)))
  BY <1>2
<1>4. Cut(s) = {0}
  BY <1>1 DEF Cut
<1>5. /\ st \in Seq(Joints(p)) /\ ElementsOf(st) = Children(p, 0)
      /\ \A a, b \in 1 .. Len(st) : st[a] = st[b] => a = b
  BY ChildrenSorted
<1> HIDE DEF s, id, st
<1>6. Paths(p, s)
  <2>1. <<0>> \in Seq(Joints(p)) /\ Len(<<0>>) = 1
    BY <1>2
  <2>2. \A i \in 1 .. Len(s) : s[i] = <<0>>
    BY <1>1
  <2> DEFINE r == <<0>>
  <2>3. r \in Seq(Joints(p)) /\ Len(r) >= 1 /\ 1 .. (Len(r) - 1) = {}
    BY <2>1
  <2>4. \A i \in 1 .. Len(s) : s[i] = r
    BY <2>2
  <2> HIDE DEF r
  <2> QED BY <2>3, <2>4 DEF Paths
<1>7. Apart(s)
  BY <1>1 DEF Apart
<1>8. Hanging(p, s, id)
  BY <1>1 DEF Hanging
<1>9. Numbers(s, id)
  BY <1>1 DEF Numbers
<1>10. Children(p, 0) = {j \in Joints(p) \ {0} : p[j] = 0}
  BY <1>2, TreeFacts DEF Children
<1>11. Waiting(p, s, st)
  <2>1. ElementsOf(st) = {j \in Joints(p) \ Cut(s) : p[j] \in Cut(s)}
    BY <1>4, <1>5, <1>10
  <2>2. ElementsOf(st) \subseteq Starts(p)
    BY <1>5, <1>10 DEF Starts
  <2> QED BY <1>5, <2>1, <2>2 DEF Waiting
<1>12. Counted(p, s, id)
  <2>1. Starts(p) \cap Cut(s) = {}
    BY <1>4 DEF Starts
  <2>2. Cardinality(Starts(p) \cap Cut(s)) = 0
    BY <2>1, FS_EmptySet
  <2>3. id[Len(id)] = -1
    BY <1>1
  <2> QED BY <2>2, <2>3 DEF Counted
<1> QED BY <1>3, <1>6, <1>7, <1>8, <1>9, <1>11, <1>12 DEF SegInv, s, id, st

(* No more segments than joints, no more chains than segments; a chain     *)
(* with a segment of its own only when nothing can be merged.              *)
LEMMA SegCounts ==
  ASSUME NEW p, NEW n, Tree(p, n), NEW s, NEW id, NEW st, SegInv(p, s, id, st)
  PROVE  /\ Len(s) \in Nat /\ Len(s) >= 1 /\ Len(s) <= n
         /\ id[Len(id)] \in Int /\ id[Len(id)] + 2 <= Len(s)
         /\ (\A a \in 2 .. Len(s) : id[a] # id[a - 1]) => id[Len(id)] + 2 = Len(s)
<1> DEFINE L == Len(s)
<1>1. /\ L \in Nat /\ Len(id) = L /\ id[1] = -1 /\ L >= 1
      /\ \A a \in 2 .. L : id[a] = id[a - 1] \/ id[a] = id[a - 1] + 1
      /\ \A a \in 1 .. L : id[a] \in Int
  <2>1. L \in Nat /\ L >= 1
    BY DEF SegInv, Hanging
  <2>2. Len(id) = L /\ id \in Seq(Int) /\ id[1] = -1
    BY DEF SegInv, Numbers
  <2> HIDE DEF L
  <2>3. \A a \in 1 .. L : id[a] \in Int
    BY <2>2
  <2>4. \A a \in 2 .. L : id[a] = id[a - 1] \/ id[a] = id[a - 1] + 1
    BY <2>2 DEF SegInv, Numbers
  <2> QED BY <2>1, <2>2, <2>3, <2>4
<1>2. \A a \in 1 .. L : s[a] \in Seq(Joints(p)) /\ Len(s[a]) >= 1
  BY DEF SegInv, Paths
<1>3. \A a, b \in 1 .. L : a # b => ElementsOf(s[a]) \cap ElementsOf(s[b]) = {}
  BY DEF SegInv, Apart
<1> HIDE DEF L
<1>4. L <= n
  <2> DEFINE f == [a \in 1 .. L |-> s[a][1]]
  <2>1. ASSUME NEW a \in 1 .. L PROVE s[a][1] \in Joints(p) /\ s[a][1] \in ElementsOf(s[a])
    <3>1. s[a] \in Seq(Joints(p)) /\ 1 \in 1 .. Len(s[a])
      BY <1>2
    <3> QED BY <3>1 DEF ElementsOf
  <2>2. f \in [1 .. L -> Joints(p)]
    BY <2>1
  <2>3. \A a, b \in 1 .. L : a # b => f[a] # f[b]
    BY <1>3, <2>1
  <2>4. IsFiniteSet(1 .. L) /\ Cardinality(1 .. L) = L
    BY <1>1, FS_Interval
  <2>5. IsFiniteSet(Joints(p)) /\ Cardinality(Joints(p)) = n /\ n \in Nat
    BY TreeFacts DEF Tree
  <2> HIDE DEF f
  <2>6. ~ (n < L)
    BY <2>2, <2>3, <2>4, <2>5, FS_PigeonHole
  <2> QED BY <1>1, <2>5, <2>6
<1> DEFINE G == {a \in Nat : a + 1 \in 1 .. L =>
                   /\ id[a + 1] <= (a + 1) - 2
                   /\ (\A b \in 2 .. L : id[b] # id[b - 1]) => id[a + 1] = (a + 1) - 2}
<1>5. 0 \in G
  BY <1>1
<1>6. ASSUME NEW a \in Nat, a \in G PROVE a + 1 \in G
  <2> SUFFICES ASSUME (a + 1) + 1 \in 1 .. L
               PROVE  /\ id[(a + 1) + 1] <= ((a + 1) + 1) - 2
                      /\ (\A b \in 2 .. L :
                            id[b] # id[b - 1]) => id[(a + 1) + 1] = ((a + 1) + 1) - 2
    OBVIOUS
  <2> DEFINE o == a + 1
             e == o + 1
  <2>1. o \in 1 .. L /\ e \in 2 .. L /\ e - 1 = o /\ e \in 1 .. L /\ o \in Int
    BY <1>1
  <2>2. id[o] <= o - 2 /\ ((\A b \in 2 .. L : id[b] # id[b - 1]) => id[o] = o - 2)
    BY <1>6, <2>1
  <2>3. e = o + 1
    OBVIOUS
  <2> HIDE DEF o, e
  <2>4. id[e] = id[o] \/ id[e] = id[o] + 1
    BY <1>1, <2>1
  <2>5. id[e] \in Int /\ id[o] \in Int
    BY <1>1, <2>1
  <2>6. (\A b \in 2 .. L : id[b] # id[b - 1]) => id[e] # id[o]
    BY <2>1
  <2>7. id[e] <= e - 2 /\ ((\A b \in 2 .. L : id[b] # id[b - 1]) => id[e] = e - 2)
    BY <2>1, <2>2, <2>3, <2>4, <2>5, <2>6
  <2> QED BY <2>7 DEF o, e
<1>7. \A a \in Nat : a \in G => a + 1 \in G
  BY <1>6
<1> HIDE DEF G
<1>8. \A a \in Nat : a \in G
  BY <1>5, <1>7, Induction
<1>9. /\ id[L] <= L - 2 /\ id[L] \in Int
      /\ (\A b \in 2 .. L : id[b] # id[b - 1]) => id[L] = L - 2
  <2>1. L - 1 \in Nat /\ (L - 1) + 1 = L /\ L \in 1 .. L
    BY <1>1
  <2> DEFINE a == L - 1
  <2>2. a \in Nat /\ a + 1 = L
    BY <2>1
  <2> HIDE DEF a
  <2>3. a \in G
    BY <1>8, <2>2
  <2> QED BY <1>1, <2>1, <2>2, <2>3 DEF G
<1>10. id[L] + 2 <= L /\ ((\A b \in 2 .. L : id[b] # id[b - 1]) => id[L] + 2 = L)
  BY <1>1, <1>9
<1> QED BY <1>1, <1>4, <1>9, <1>10 DEF L

(* When nothing waits, everything is cut, and all chains are numbered.     *)
LEMMA SegComplete ==
  ASSUME NEW p, NEW n, Tree(p, n), NEW s, NEW id, SegInv(p, s, id, <<>>)
  PROVE  /\ Cut(s) = Joints(p) /\ id[Len(id)] + 1 = Cardinality(Starts(p))
         /\ Cardinality(Starts(p)) \in Nat
<1>1. 0 \in Cut(s) /\ Cut(s) \subseteq Joints(p)
  BY CutClosed DEF SegInv
<1>2. ElementsOf(<<>>) = {}
  BY DEF ElementsOf
<1>3. \A x \in Joints(p) : x # 0 /\ p[x] \in Cut(s) => x \in Cut(s)
  BY <1>2 DEF SegInv, Waiting
<1>4. Joints(p) \subseteq Cut(s)
  BY <1>1, <1>3, FromRoot
<1>5. Starts(p) \cap Cut(s) = Starts(p) /\ Starts(p) \subseteq Joints(p)
  BY <1>4 DEF Starts
<1>6. IsFiniteSet(Starts(p))
  BY <1>5, TreeFacts, FS_Subset
<1>7. Cardinality(Starts(p)) \in Nat
  BY <1>6, FS_CardinalityType
<1> QED BY <1>1, <1>4, <1>5, <1>7 DEF SegInv, Counted

SegmentInv ==
  /\ kind # "edge" => segs = <<>> /\ chainOf = <<>> /\ stack = <<>>
  /\ kind = "edge" => SegInv(par, segs, chainOf, stack)
  /\ (kind = "edge" /\ pc \notin Early \cup {"segment", "refused"}) =>
       stack = <<>> /\ Len(segs) <= set.cap

(* Every step keeps SegmentInv,                                            *)
LEMMA SegmentStep == ValidInv /\ SegmentInv /\ [Next]_vars => SegmentInv'
<1> SUFFICES ASSUME ValidInv, SegmentInv, [Next]_vars PROVE SegmentInv'
  OBVIOUS
<1>0. par' = par /\ (pc' = pc \/ <<pc, pc'>> \in Moves)
  BY Turns
<1>1. BaseInv /\ BaseInv'
  BY BaseStep DEF ValidInv
<1>2. CASE ValidateEnd
  <2>1. CASE pc' = "entry"
    <3>1. /\ stack' = IF kind' = "edge" THEN Sorted(Children(par, 0)) ELSE <<>>
          /\ segs' = IF kind' = "edge" THEN << <<0>> >> ELSE <<>>
          /\ chainOf' = IF kind' = "edge" THEN <<-1>> ELSE <<>>
          /\ RootFirst(par)
      BY <1>2, <2>1 DEF ValidateEnd, Reject
    <3>2. PICK n \in 1 .. J : Tree(par, n)
      BY <1>1, <3>1, TreeOf
    <3>3. SegInv(par, << <<0>> >>, <<-1>>, Sorted(Children(par, 0)))
      BY <3>2, SegStart
    <3> QED BY <1>0, <2>1, <3>1, <3>3 DEF SegmentInv, Early
  <2>2. CASE pc' # "entry"
    <3>1. pc' = "invalid" /\ UNCHANGED <<choice, edge>> /\ pc = "visit"
      BY <1>2, <2>2 DEF ValidateEnd, Reject
    <3>2. kind = "none"
      BY <1>1, <3>1 DEF BaseInv, Unchecked
    <3> QED BY <3>1, <3>2 DEF SegmentInv, choice, edge
  <2> QED BY <2>1, <2>2
<1>3. CASE CutChain \/ MergeSegments
  <2>0. pc = "segment" /\ kind = "edge" /\ UNCHANGED choice
    BY <1>1, <1>3 DEF CutChain, MergeSegments, BaseInv
  <2>1. RootFirst(par)
    BY <1>1, <2>0 DEF BaseInv, Unchecked
  <2>2. PICK n \in 1 .. J : Tree(par, n) /\ Valid = Joints(par)
    BY <1>1, <2>1, TreeOf
  <2>3. SegInv(par, segs, chainOf, stack)
    BY <2>0 DEF SegmentInv
  <2>4. CASE CutChain
    <3> DEFINE c == ChainFrom(Head(stack))
               q == Pairs(c)
    <3>1. /\ stack # <<>> /\ IsJoin(segs', segs, q) /\ pc' = pc
          /\ IsJoin(chainOf', chainOf, [i \in 1 .. Len(q) |-> 1 + chainOf[Len(chainOf)]])
          /\ IsJoin(stack', Sorted(Children(par, c[Len(c)])), Tail(stack))
      BY <2>4 DEF CutChain, IsJoin
    <3>2. Head(stack) \in Valid
      BY <2>2, <2>3, <3>1 DEF SegInv, Waiting
    <3>3. IsChain(par, Head(stack), c)
      BY <2>2, <3>2, ChainIs
    <3> HIDE DEF c
    <3>4. c \in Seq(Joints(par)) /\ Len(c) >= 1
      BY <3>3 DEF IsChain
    <3>5. (\E lo : IsSplit(q, c, lo)) /\ q \in Seq(Seq(Joints(par)))
      BY <3>4, PairsSplit
    <3> HIDE DEF q
    <3>6. PICK lo : IsSplit(q, c, lo)
      BY <3>5
    <3>7. SegInv(par, segs', chainOf', stack')
      BY <2>2, <2>3, <3>1, <3>3, <3>5, <3>6, CutKeeps
    <3> QED BY <1>0, <2>0, <3>1, <3>7 DEF SegmentInv, choice
  <2>5. CASE MergeSegments /\ Mergeable = {}
    <3>1. pc' = "refused" /\ UNCHANGED edge
      BY <2>5 DEF MergeSegments, Refuse
    <3> QED BY <1>0, <2>0, <2>3, <3>1 DEF SegmentInv, choice, edge
  <2>6. CASE MergeSegments /\ Mergeable # {}
    <3> DEFINE lst == Sorted(OfChain(LongestChain))
               a == lst[1]
    <3>1. a \in 2 .. (Len(segs) - 1) /\ lst[2] = a + 1 /\ chainOf[a] = chainOf[a + 1]
      BY <2>2, <2>3, <2>6, MergePair
    <3>2. /\ segs' = Without([segs EXCEPT ![a] = @ \o segs[lst[2]]], lst[2])
          /\ chainOf' = Without(chainOf, lst[2]) /\ UNCHANGED <<pc, stack>>
      BY <2>6 DEF MergeSegments
    <3> HIDE DEF lst, a
    <3>3. /\ segs' = Without([segs EXCEPT ![a] = @ \o segs[a + 1]], a + 1)
          /\ chainOf' = Without(chainOf, a + 1)
      BY <3>1, <3>2
    <3>4. segs \in Seq(Seq(Joints(par))) /\ chainOf \in Seq(Int) /\ Len(chainOf) = Len(segs)
      BY <2>3 DEF SegInv, Numbers
    <3>5. /\ segs' \in Seq(Seq(Joints(par))) /\ chainOf' \in Seq(Int)
          /\ Merged(segs, chainOf, a, segs', chainOf')
      BY <3>1, <3>3, <3>4, MergeIs
    <3>6. SegInv(par, segs', chainOf', stack)
      BY <2>2, <2>3, <3>1, <3>5, MergeKeeps
    <3> QED BY <1>0, <2>0, <3>2, <3>6 DEF SegmentInv, choice
  <2> QED BY <1>3, <2>4, <2>5, <2>6
<1>4. CASE ~ (ValidateEnd \/ CutChain \/ MergeSegments)
  <2>1. UNCHANGED <<segs, chainOf, stack, kind, set>>
    BY <1>4, Frames DEF edge, choice
  <2>2. ASSUME kind = "edge", pc' \notin Early \cup {"segment", "refused"}
        PROVE  stack = <<>> /\ Len(segs) <= set.cap
    <3>1. CASE pc \notin Early \cup {"segment", "refused"}
      BY <2>2, <3>1 DEF SegmentInv
    <3>2. CASE pc = "segment"
      <4>1. SegmentsBuilt
        BY <1>4, <2>2, <3>2, Where DEF vars
      <4> QED BY <4>1 DEF SegmentsBuilt
    <3>3. CASE pc \in Early \cup {"refused"}
      <4>1. pc = "entry" => pc' \in {"entry", "refused", "segment"}
        <5>1. PoolEntry => pc' = "refused" \/ pc' = CASE kind = "edge" -> "segment"
                                                      [] kind = "none" -> "assign"
                                                      [] OTHER         -> "anchors"
          BY DEF PoolEntry, Refuse
        <5>2. pc = "entry" => PoolEntry \/ pc' = pc
          BY Where DEF vars
        <5> QED BY <2>2, <5>1, <5>2
      <4> QED BY <1>0, <2>2, <3>3, <4>1 DEF Moves, Early, Unchecked
    <3> QED BY <3>1, <3>2, <3>3
  <2> QED BY <1>0, <2>1, <2>2 DEF SegmentInv
<1> QED BY <1>2, <1>3, <1>4

(* and it holds initially.                                                 *)
LEMMA SegmentInit == Init => SegmentInv
BY DEF Init, SegmentInv

(* What holds of the segments in such a state.                             *)
LEMMA SegmentsHold == ValidInv /\ SegmentInv => SegmentsPartition
<1> SUFFICES ASSUME ValidInv, SegmentInv, kind = "edge",
                    pc \notin {"depth", "validate", "visit", "invalid"}
             PROVE  /\ \A s \in SegsOf : \A i \in 1 .. (Len(s) - 1) : par[s[i + 1]] = s[i]
                    /\ \A a, b \in 1 .. Len(segs) :
                         a # b => ElementsOf(segs[a]) \cap ElementsOf(segs[b]) = {}
                    /\ LET cut == UNION {ElementsOf(s) : s \in SegsOf}
                       IN  /\ 0 \in cut
                           /\ {j \in Valid \ cut : par[j] \in cut} = ElementsOf(stack)
  BY DEF SegmentsPartition
<1>1. SegInv(par, segs, chainOf, stack)
  BY DEF SegmentInv
<1>2. PICK n \in 1 .. J : Tree(par, n) /\ Valid = Joints(par)
  BY TreeOf DEF ValidInv, BaseInv, Unchecked
<1>3. UNION {ElementsOf(s) : s \in SegsOf} = Cut(segs)
  BY DEF Cut, SegsOf
<1>4. \A s \in SegsOf : \A i \in 1 .. (Len(s) - 1) : par[s[i + 1]] = s[i]
  BY <1>1 DEF SegInv, Paths, SegsOf
<1>5. \A a, b \in 1 .. Len(segs) : a # b => ElementsOf(segs[a]) \cap ElementsOf(segs[b]) = {}
  BY <1>1 DEF SegInv, Apart
<1>6. 0 \in Cut(segs)
  BY <1>1, <1>2, CutClosed DEF SegInv
<1>7. {j \in Valid \ Cut(segs) : par[j] \in Cut(segs)} = ElementsOf(stack)
  BY <1>1, <1>2 DEF SegInv, Waiting
<1> QED BY <1>3, <1>4, <1>5, <1>6, <1>7
-----------------------------------------------------------------------------
(* The coarse nodes.                                                       *)

Shared  == {"pool", "floyd", "attend", "unpool", "done"}
Settled == Shared \cup {"assign"}

(* A pool goes on with at most max_coarse anchors.                         *)
CapInv == (kind \in Anchored /\ pc \in Settled) => Cardinality(anchors) <= set.cap

(* Only the choice of the anchors has to look at how many there are.       *)
LEMMA CapStep == ValidInv /\ ChosenInv /\ CapInv /\ [Next]_vars => CapInv'
<1> SUFFICES ASSUME ValidInv, ChosenInv, CapInv, [Next]_vars, kind' \in Anchored, pc' \in Settled
             PROVE  Cardinality(anchors') <= set'.cap
  BY DEF CapInv
<1>0. par' = par /\ (pc' = pc \/ <<pc, pc'>> \in Moves) /\ BaseInv
  BY Turns DEF ValidInv
<1>1. ~ ValidateEnd /\ UNCHANGED choice
  <2>1. ValidateEnd => pc' \in {"entry", "invalid"}
    BY DEF ValidateEnd, Reject
  <2> QED BY <2>1, Frames DEF Settled, Shared
<1>2. kind' = kind /\ set' = set
  BY <1>1 DEF choice
<1>3. CASE GivenAnchors
  BY <1>2, <1>3 DEF GivenAnchors, AnchorSets
<1>4. CASE SelectAnchors
  <2>1. Cardinality(anchors) <= set.cap /\ anchors' = anchors
    <3>1. Cardinality(anchors) <= set.cap \/ pc' = "refused"
      <4>1. CASE Cardinality(anchors) > set.cap
        BY <1>4, <4>1 DEF SelectAnchors, Refuse
      <4>2. CASE ~ (Cardinality(anchors) > set.cap)
        <5>1. IsFiniteSet(anchors) /\ Cardinality(anchors) \in Nat /\ set.cap \in Nat
          <6>1. \E n \in 1 .. J : Valid = 0 .. (n - 1)
            BY <1>0, ParFacts DEF BaseInv
          <6>2. IsFiniteSet(Valid)
            BY <6>1, FS_Interval
          <6>3. IsFiniteSet(anchors)
            BY <6>2, FS_Subset DEF ChosenInv
          <6>4. Cardinality(anchors) \in Nat
            BY <6>3, FS_CardinalityType
          <6> QED BY <1>0, <6>3, <6>4, PoolAssumption DEF BaseInv
        <5> QED BY <4>2, <5>1
      <4> QED BY <4>1, <4>2
    <3> QED BY <1>4, <3>1 DEF SelectAnchors, chosen, Settled, Shared
  <2> QED BY <1>2, <2>1
<1>5. CASE ~ (GivenAnchors \/ SelectAnchors)
  <2>1. pc \in Settled /\ anchors' = anchors
    <3>1. AnchorRules => pc' = "chunk"
      BY DEF AnchorRules
    <3>2. ChunkLeaf \/ ChunkUp => pc' = "chunk"
      BY DEF ChunkLeaf, ChunkUp
    <3>3. UNCHANGED chosen
      BY <1>5, <3>1, <3>2, Frames DEF Settled, Shared
    <3>4. PoolEntry => pc' \notin Settled
      BY <1>2 DEF PoolEntry, Refuse, Settled, Shared, Anchored
    <3>5. pc \in {"entry", "anchors", "chunk"} => pc' \notin Settled
      BY <1>5, <3>1, <3>2, <3>4, Where DEF Settled, Shared, vars
    <3>6. pc \in {"segment"} => kind \notin Anchored
      BY <1>0 DEF BaseInv, Anchored
    <3> QED BY <1>0, <1>2, <3>3, <3>5, <3>6 DEF Moves, Settled, Shared, chosen
  <2> QED BY <1>2, <2>1 DEF CapInv
<1> QED BY <1>3, <1>4, <1>5

(* How many coarse nodes a pool of a skeleton of n joints makes.           *)
CoarseSize ==
  CASE kind = "edge" -> Len(segs)
    [] kind = "none" -> Cardinality(Valid)
    [] OTHER         -> Cardinality(anchors)

(* They are the first numbers, no more than there are joints, and so are   *)
(* they with the padded slots.                                             *)
LEMMA CoarseFacts ==
  ASSUME ValidInv, ChosenInv, SegmentInv, CapInv, pc \in Settled
  PROVE  \E n \in 1 .. J : \E c \in 1 .. n : \E N \in Nat :
           /\ Tree(par, n) /\ n <= Inf /\ Valid = 0 .. (n - 1) /\ Joints(par) = Valid
           /\ c = CoarseSize /\ Coarse = 0 .. (c - 1) /\ c <= N
           /\ Slots \cup Coarse = 0 .. (N - 1)
           /\ IsFiniteSet(Coarse) /\ Cardinality(Coarse) = c
           /\ Cardinality(Slots \cup Coarse) = N
           /\ kind \in Kinds \ {"none"} => c <= set.cap
           /\ N <= J + set.cap
<1>0. BaseInv /\ RootFirst(par)
  BY DEF ValidInv, BaseInv, Unchecked, Settled, Shared
<1>1. PICK n \in 1 .. J : /\ Tree(par, n) /\ n <= Inf /\ n <= J
                          /\ Valid = 0 .. (n - 1) /\ Joints(par) = Valid
  BY <1>0, TreeOf
<1>2. kind \in Kinds /\ set.cap \in Nat /\ set.cap >= 1 /\ J \in Nat
  BY <1>0, PoolAssumption DEF BaseInv
<1>3. IsFiniteSet(Valid) /\ Cardinality(Valid) = n
  BY <1>1, TreeFacts
<1>4. /\ CoarseSize \in 1 .. n /\ Coarse = 0 .. (CoarseSize - 1)
      /\ kind # "none" => CoarseSize <= set.cap
  <2>1. CASE kind = "edge"
    <3>1. SegInv(par, segs, chainOf, stack) /\ Len(segs) <= set.cap
      BY <2>1 DEF SegmentInv, Settled, Shared, Early, Unchecked
    <3>2. Len(segs) \in Nat /\ Len(segs) >= 1 /\ Len(segs) <= n
      BY <1>1, <3>1, SegCounts
    <3> QED BY <2>1, <3>1, <3>2 DEF CoarseSize, Coarse
  <2>2. CASE kind = "none"
    <3>1. CoarseSize = n /\ Coarse = 0 .. (n - 1)
      BY <1>1, <1>3, <2>2 DEF CoarseSize, Coarse
    <3> QED BY <2>2, <3>1
  <2>3. CASE kind \in Anchored
    <3>1. CoarseSize = Cardinality(anchors) /\ Coarse = 0 .. (Cardinality(anchors) - 1)
      BY <2>3 DEF CoarseSize, Coarse, Anchored
    <3>2. 0 \in anchors /\ anchors \subseteq Valid
      BY <2>3 DEF ChosenInv, Settled, Shared, Early, Unchecked
    <3>3. IsFiniteSet(anchors) /\ Cardinality(anchors) <= n
      BY <1>3, <3>2, FS_Subset
    <3>4. Cardinality(anchors) \in Nat /\ Cardinality(anchors) # 0
      BY <3>2, <3>3, FS_CardinalityType, FS_EmptySet
    <3>5. Cardinality(anchors) <= set.cap
      BY <2>3 DEF CapInv
    <3> QED BY <3>1, <3>3, <3>4, <3>5
  <2> QED BY <1>2, <2>1, <2>2, <2>3 DEF Kinds, Anchored
<1> DEFINE c == CoarseSize
           N == IF c > set.cap THEN c ELSE set.cap
<1>5. c \in 1 .. n /\ Coarse = 0 .. (c - 1) /\ (kind # "none" => c <= set.cap)
  BY <1>4
<1>6. c = CoarseSize
  OBVIOUS
<1> HIDE DEF c
<1>7. N \in Nat /\ c <= N /\ N <= J + set.cap /\ c \in Nat /\ N - 1 \in Int
  BY <1>2, <1>5
<1>8. Slots \cup Coarse = 0 .. (N - 1)
  BY <1>2, <1>5 DEF Slots
<1>9. IsFiniteSet(Coarse) /\ Cardinality(Coarse) = c
  <2>1. c - 1 \in Int /\ c - 1 >= 0 /\ (c - 1) - 0 + 1 = c
    BY <1>7, <1>5
  <2> QED BY <1>5, <2>1, FS_Interval
<1>10. Cardinality(0 .. (N - 1)) = N
  <2>1. N - 1 >= 0 /\ (N - 1) - 0 + 1 = N
    BY <1>7, <1>5
  <2> HIDE DEF N
  <2> QED BY <1>7, <2>1, FS_Interval
<1> HIDE DEF N
<1> QED BY <1>1, <1>5, <1>6, <1>7, <1>8, <1>9, <1>10
-----------------------------------------------------------------------------
(* The assignment.                                                         *)

SharedInv ==
  /\ hard \in [Padded -> Padded] /\ reads \in [Padded -> SUBSET Padded]
  /\ pc \in Shared =>
       /\ \A j \in Valid : hard[j] \in Coarse /\ hard[j] \in reads[j] /\ reads[j] \subseteq Coarse
       /\ \A j \in Padded \ Valid : reads[j] = {}
       /\ kind = "edge" => \A j \in Valid : hard[j] = SegmentOf[j]
       /\ kind = "none" => \A j \in Valid : hard[j] = j
       /\ kind \in {"hard", "soft"} => \A j \in Valid : hard[j] = NearestOf(AnchorHops)[j]

(* Nothing is shared initially.                                            *)
LEMMA SharedInit == Init => SharedInv
<1> SUFFICES ASSUME Init PROVE SharedInv
  OBVIOUS
<1>1. 0 \in Padded
  BY PoolAssumption DEF Padded
<1> QED BY <1>1 DEF Init, SharedInv, Shared

(* What an assignment leaves, and what it is made from.                    *)
LEMMA ShareKeeps ==
  ASSUME ValidInv, ChosenInv, SegmentInv, CapInv, SharedInv, pc = "assign",
         UNCHANGED <<par, choice, chosen, edge>>,
         NEW top, NEW spread, Share(top, spread),
         \A j \in Valid : top[j] \in Coarse /\ top[j] \in spread[j] /\ spread[j] \subseteq Coarse,
         kind = "edge" => \A j \in Valid : top[j] = SegmentOf[j],
         kind = "none" => \A j \in Valid : top[j] = j,
         kind \in {"hard", "soft"} => \A j \in Valid : top[j] = NearestOf(AnchorHops)[j]
  PROVE  SharedInv'
<1>1. pc \in Settled
  BY DEF Settled
<1>2. PICK n \in 1 .. J : Valid = 0 .. (n - 1) /\ \E c \in 1 .. n : Coarse = 0 .. (c - 1)
  BY <1>1, CoarseFacts
<1>3. J \in Nat /\ J >= 1
  BY PoolAssumption
<1>4. Valid \subseteq Padded /\ Coarse \subseteq Padded /\ 0 \in Padded
  BY <1>2, <1>3 DEF Padded
<1>5. /\ Valid' = Valid /\ Coarse' = Coarse /\ SegmentOf' = SegmentOf /\ kind' = kind
      /\ NearestOf(AnchorHops)' = NearestOf(AnchorHops)
  <2>1. /\ par' = par /\ kind' = kind /\ anchors' = anchors /\ segs' = segs
    BY DEF choice, chosen, edge
  <2>2. Valid' = Valid
    BY <2>1 DEF Valid
  <2>3. Coarse' = Coarse
    BY <2>1, <2>2 DEF Coarse
  <2> HIDE DEF Coarse
  <2>4. SegmentOf' = SegmentOf
    BY <2>1, <2>2, <2>3 DEF SegmentOf
  <2>5. AnchorHops' = AnchorHops
    BY <2>1, <2>2, <2>3 DEF AnchorHops
  <2> HIDE DEF AnchorHops
  <2>6. NearestOf(AnchorHops)' = NearestOf(AnchorHops)
    BY <2>2, <2>3, <2>5 DEF NearestOf
  <2> QED BY <2>1, <2>2, <2>3, <2>4, <2>6
<1>6. \A j \in Padded : /\ hard'[j] = IF j \in Valid THEN top[j] ELSE 0
                        /\ reads'[j] = IF j \in Valid THEN spread[j] ELSE {}
  BY DEF Share
<1>7. hard' \in [Padded -> Padded] /\ reads' \in [Padded -> SUBSET Padded]
  BY <1>4 DEF Share
<1>8. \A j \in Valid : hard'[j] = top[j] /\ reads'[j] = spread[j]
  BY <1>4, <1>6
<1>9. \A j \in Padded \ Valid : reads'[j] = {}
  BY <1>6
<1> HIDE DEF Coarse, SegmentOf, NearestOf, AnchorHops
<1> QED BY <1>5, <1>7, <1>8, <1>9 DEF SharedInv

(* The hops to the anchors, and the nearest one.                           *)
LEMMA AnchorFacts ==
  ASSUME ValidInv, ChosenInv, SegmentInv, CapInv, pc \in Settled, kind \in Anchored
  PROVE  /\ Sorted(anchors) \in Seq(anchors) /\ Len(Sorted(anchors)) = Cardinality(anchors)
         /\ \A c \in Coarse : c \in Nat /\ Sorted(anchors)[c + 1] \in anchors
         /\ \A a \in anchors : \E c \in Coarse : Sorted(anchors)[c + 1] = a
         /\ \A c, d \in Coarse : c < d => Sorted(anchors)[c + 1] < Sorted(anchors)[d + 1]
         /\ anchors \subseteq Valid /\ 0 \in anchors
         /\ \A j \in Valid : \A c \in Coarse :
              /\ AnchorHops[j][c] \in Nat
              /\ AnchorHops[j][c] = GeodesicDist(par)[j][Sorted(anchors)[c + 1]]
<1>1. PICK n \in 1 .. J : Tree(par, n) /\ n <= Inf /\ Valid = 0 .. (n - 1) /\ Joints(par) = Valid
  BY CoarseFacts
<1>2. anchors \subseteq Valid /\ 0 \in anchors
  BY DEF ChosenInv, Settled, Shared, Early, Unchecked
<1>3. IsFiniteSet(anchors) /\ anchors \subseteq Int
  <2>1. n - 1 \in Int /\ IsFiniteSet(0 .. (n - 1))
    BY FS_Interval
  <2>2. IsFiniteSet(anchors)
    BY <1>1, <1>2, <2>1, FS_Subset
  <2>3. 0 .. (n - 1) \subseteq Int
    OBVIOUS
  <2> QED BY <1>1, <1>2, <2>2, <2>3
<1> DEFINE s == Sorted(anchors)
           m == Cardinality(anchors)
<1>4. /\ m \in Nat /\ s \in [1 .. m -> anchors] /\ s \in Seq(anchors) /\ Len(s) = m
      /\ \A x \in anchors : \E i \in 1 .. m : s[i] = x
      /\ \A i, j \in 1 .. m : i < j => s[i] < s[j]
  BY <1>3, SortedFacts
<1>5. Coarse = 0 .. (m - 1)
  BY DEF Coarse, Anchored
<1> HIDE DEF s, m
<1>6. \A c \in Coarse : c \in Nat /\ c + 1 \in 1 .. m
  BY <1>4, <1>5
<1>7. \A c \in Coarse : c \in Nat /\ s[c + 1] \in anchors
  BY <1>4, <1>6
<1>8. \A a \in anchors : \E c \in Coarse : s[c + 1] = a
  <2> TAKE a \in anchors
  <2>1. PICK i \in 1 .. m : s[i] = a
    BY <1>4
  <2>2. i - 1 \in Coarse /\ (i - 1) + 1 = i
    BY <1>4, <1>5
  <2> QED BY <2>1, <2>2
<1>9. \A c, d \in Coarse : c < d => s[c + 1] < s[d + 1]
  <2> TAKE c, d \in Coarse
  <2>1. c < d => c + 1 < d + 1
    BY <1>6
  <2> QED BY <1>4, <1>6, <2>1
<1>10. ASSUME NEW j \in Valid, NEW c \in Coarse
       PROVE  AnchorHops[j][c] \in Nat /\ AnchorHops[j][c] = GeodesicDist(par)[j][s[c + 1]]
  <2>1. AnchorHops[j][c] = GeodesicDist(par)[j][s[c + 1]]
    BY DEF AnchorHops, s
  <2> DEFINE a == s[c + 1]
  <2>2. a \in Joints(par)
    BY <1>1, <1>2, <1>7
  <2> HIDE DEF a
  <2>3. GeodesicDist(par)[j][a] \in 0 .. (n - 1)
    BY <1>1, <2>2, GeodesicIs
  <2> QED BY <2>1, <2>3 DEF a
<1> QED BY <1>2, <1>4, <1>7, <1>8, <1>9, <1>10 DEF s, m

(* The nearest anchor is one, and none is nearer.                          *)
LEMMA NearestFacts ==
  ASSUME ValidInv, ChosenInv, SegmentInv, CapInv, pc \in Settled, kind \in Anchored,
         NEW j \in Valid
  PROVE  LET c == NearestOf(AnchorHops)[j]
         IN  /\ c \in Coarse
             /\ \A d \in Coarse : \/ AnchorHops[j][c] < AnchorHops[j][d]
                                  \/ AnchorHops[j][c] = AnchorHops[j][d] /\ c <= d
<1> DEFINE H(c) == AnchorHops[j][c]
           Best(c) == \A d \in Coarse : H(c) < H(d) \/ (H(c) = H(d) /\ c <= d)
<1>1. \A c \in Coarse : c \in Nat /\ H(c) \in Nat
  BY AnchorFacts
<1>2. Coarse # {}
  BY AnchorFacts
<1>3. NearestOf(AnchorHops)[j] = CHOOSE c \in Coarse : Best(c)
  BY DEF NearestOf
<1> HIDE DEF H
<1>4. \E c \in Coarse : Best(c)
  <2> DEFINE D == {H(c) : c \in Coarse}
  <2>1. D \in SUBSET Nat /\ D # {}
    BY <1>1, <1>2
  <2> HIDE DEF D
  <2>2. PICK h \in D : \A x \in D : h <= x
    BY <2>1, LeastOf
  <2> DEFINE B == {c \in Coarse : H(c) = h}
  <2>3. B \in SUBSET Nat /\ B # {}
    BY <1>1, <2>2 DEF D
  <2> HIDE DEF B
  <2>4. PICK c \in B : \A x \in B : c <= x
    BY <2>3, LeastOf
  <2>5. c \in Coarse /\ H(c) = h
    BY <2>4 DEF B
  <2>6. ASSUME NEW d \in Coarse PROVE H(c) < H(d) \/ (H(c) = H(d) /\ c <= d)
    <3>1. h <= H(d) /\ H(d) \in Nat /\ h \in Nat
      BY <1>1, <2>2, <2>5 DEF D
    <3>2. H(d) = h => c <= d
      BY <2>4 DEF B
    <3> QED BY <2>5, <3>1, <3>2
  <2> QED BY <2>5, <2>6
<1> HIDE DEF Best
<1>5. NearestOf(AnchorHops)[j] \in Coarse /\ Best(NearestOf(AnchorHops)[j])
  BY <1>3, <1>4
<1> QED BY <1>5 DEF Best, H

(* The sequences of m members of S whose i-th is a candidate of i - 1.      *)
Rows(cand, S, m) ==
  {r \in Seq(S) : Len(r) = m /\ \A i \in 1 .. m : r[i] \in cand[i - 1]}

Grown(A, B) == {Append(r, c) : r \in A, c \in B}

(* What it is to be such a sequence with one element more.                 *)
LEMMA GrownIs ==
  ASSUME NEW A, NEW B, NEW x
  PROVE  x \in Grown(A, B) <=> \E r \in A : \E c \in B : x = Append(r, c)
BY DEF Grown

(* The sequences grow by one candidate at a time.                          *)
LEMMA RowsGrow ==
  ASSUME NEW cand, NEW S, NEW m \in Nat, cand[m] \subseteq S
  PROVE  /\ Rows(cand, S, 0) = {<<>>}
         /\ Rows(cand, S, m + 1) = Grown(Rows(cand, S, m), cand[m])
<1>1. Rows(cand, S, 0) = {<<>>}
  <2>1. \A r \in Seq(S) : Len(r) = 0 => r = <<>>
    OBVIOUS
  <2>2. <<>> \in Seq(S) /\ Len(<<>>) = 0 /\ 1 .. 0 = {}
    OBVIOUS
  <2>3. \A r : r \in Rows(cand, S, 0) <=> r \in Seq(S) /\ Len(r) = 0
    BY <2>2 DEF Rows
  <2> QED BY <2>1, <2>2, <2>3
<1> DEFINE o == m + 1
<1>2. o \in Nat /\ o - 1 = m /\ o >= 1 /\ o \in 1 .. o
  OBVIOUS
<1>3. \A i \in 1 .. o : i = o \/ i \in 1 .. m
  OBVIOUS
<1>4. \A i \in 1 .. m : i \in 1 .. o /\ i # o
  OBVIOUS
<1> HIDE DEF o
<1>5. ASSUME NEW r \in Rows(cand, S, m), NEW c \in cand[m] PROVE Append(r, c) \in Rows(cand, S, o)
  <2>1. r \in Seq(S) /\ c \in S /\ Len(r) = m /\ \A i \in 1 .. m : r[i] \in cand[i - 1]
    BY DEF Rows
  <2>2. Append(r, c) \in Seq(S) /\ Len(Append(r, c)) = m + 1
    BY <2>1
  <2>3. Append(r, c)[m + 1] = c /\ \A i \in 1 .. m : Append(r, c)[i] = r[i]
    BY <2>1
  <2> DEFINE z == Append(r, c)
  <2>4. z \in Seq(S) /\ Len(z) = o /\ z[o] = c /\ \A i \in 1 .. m : z[i] = r[i]
    BY <2>2, <2>3 DEF o
  <2> HIDE DEF z
  <2>5. \A i \in 1 .. o : z[i] \in cand[i - 1]
    BY <1>2, <1>3, <2>1, <2>4
  <2>6. z \in Rows(cand, S, o)
    BY <2>4, <2>5 DEF Rows
  <2> QED BY <2>6 DEF z
<1>6. ASSUME NEW r \in Rows(cand, S, o)
      PROVE  \E q \in Rows(cand, S, m) : \E c \in cand[m] : r = Append(q, c)
  <2> DEFINE q == [i \in 1 .. m |-> r[i]]
             c == r[o]
  <2>1. r \in Seq(S) /\ Len(r) = o /\ \A i \in 1 .. o : r[i] \in cand[i - 1]
    BY DEF Rows
  <2>2. \A i \in 1 .. o : r[i] \in S
    BY <2>1
  <2>3. c \in cand[m] /\ c \in S
    BY <1>2, <2>1
  <2>4. q \in [1 .. m -> S] /\ \A i \in 1 .. m : q[i] = r[i]
    BY <1>4, <2>2
  <2>5. c = r[o]
    OBVIOUS
  <2> HIDE DEF q, c
  <2>6. q \in Seq(S) /\ Len(q) = m
    BY <2>4
  <2>7. q \in Rows(cand, S, m)
    BY <1>4, <2>1, <2>4, <2>6 DEF Rows
  <2> DEFINE z == Append(q, c)
  <2>8. z \in Seq(S) /\ Len(z) = m + 1 /\ z[m + 1] = c /\ \A i \in 1 .. m : z[i] = q[i]
    BY <2>3, <2>6
  <2>9. z \in Seq(S) /\ Len(z) = o /\ z[o] = c /\ \A i \in 1 .. m : z[i] = q[i]
    BY <2>8 DEF o
  <2>10. z = Append(q, c)
    OBVIOUS
  <2> HIDE DEF z
  <2>11. \A i \in 1 .. o : r[i] = z[i]
    BY <1>3, <2>4, <2>5, <2>9
  <2>12. r = z
    BY <2>1, <2>9, <2>11
  <2> QED BY <2>3, <2>7, <2>10, <2>12
<1>7. Rows(cand, S, o) = Grown(Rows(cand, S, m), cand[m])
  <2> DEFINE R == Rows(cand, S, o)
             B == Rows(cand, S, m)
             D == cand[m]
  <2>1. R \subseteq Seq(S)
    BY DEF Rows
  <2>2. \A r \in B : \A c \in D : Append(r, c) \in R
    BY <1>5
  <2>3. \A r \in R : \E q \in B : \E c \in D : r = Append(q, c)
    BY <1>6
  <2> HIDE DEF R, B, D
  <2>4. \A x : x \in Grown(B, D) <=> \E r \in B : \E c \in D : x = Append(r, c)
    BY GrownIs
  <2>5. \A x \in R : x \in Grown(B, D)
    BY <2>3, <2>4
  <2>6. ASSUME NEW x \in Grown(B, D) PROVE x \in R
    <3>1. PICK r \in B : \E c \in D : x = Append(r, c)
      BY <2>4
    <3>2. PICK c \in D : x = Append(r, c)
      BY <3>1
    <3> QED BY <2>2, <3>2
  <2>7. R = Grown(B, D)
    BY <2>5, <2>6
  <2> QED BY <2>7 DEF R, B, D
<1> QED BY <1>1, <1>7 DEF o

(* Every choice of a top takes a candidate for each joint.                 *)
LEMMA TopsFacts ==
  ASSUME NEW n \in Nat, Valid = 0 .. (n - 1), NEW cand, NEW top \in Tops(cand)
  PROVE  \A j \in Valid : top[j] \in cand[j]
<1> DEFINE K == Cardinality(Valid)
           F(f, m) == IF m = 0 THEN {<<>>} ELSE Grown(f[m - 1], cand[m - 1])
           R == CHOOSE f : f = [m \in 0 .. K |-> F(f, m)]
           S == UNION {cand[i] : i \in 0 .. (K - 1)}
           f == [m \in 0 .. K |-> Rows(cand, S, m)]
<1>1. K = n
  <2>1. n - 1 \in Int /\ (n - 1) - 0 + 1 = n
    OBVIOUS
  <2> QED BY <2>1, FS_Interval
<1>2. Tops(cand) = {[j \in Valid |-> r[j + 1]] : r \in R[K]}
  BY DEF Tops, Grown
<1>3. \A i \in 0 .. (K - 1) : cand[i] \subseteq S
  OBVIOUS
<1> HIDE DEF S, K
<1>4. Rows(cand, S, 0) = {<<>>}
  <2>1. Rows([i \in {0} |-> {}], S, 0) = {<<>>}
    BY RowsGrow
  <2>2. Rows(cand, S, 0) = Rows([i \in {0} |-> {}], S, 0)
    BY DEF Rows
  <2> QED BY <2>1, <2>2
<1>5. ASSUME NEW m \in Nat, m + 1 <= K
      PROVE  Rows(cand, S, m + 1) = Grown(Rows(cand, S, m), cand[m])
  <2>1. cand[m] \subseteq S
    BY <1>1, <1>3, <1>5
  <2> QED BY <2>1, RowsGrow
<1>6. f = [m \in 0 .. K |-> F(f, m)]
  <2> SUFFICES ASSUME NEW m \in 0 .. K PROVE Rows(cand, S, m) = F(f, m)
    OBVIOUS
  <2>1. CASE m = 0
    BY <1>4, <2>1
  <2>2. CASE m # 0
    <3> DEFINE l == m - 1
    <3>1. l \in Nat /\ l + 1 = m /\ l + 1 <= K /\ l \in 0 .. K
      BY <1>1, <2>2
    <3> HIDE DEF l
    <3>2. Rows(cand, S, l + 1) = Grown(Rows(cand, S, l), cand[l])
      BY <1>5, <3>1
    <3>3. f[l] = Rows(cand, S, l)
      BY <3>1
    <3>4. F(f, m) = Grown(f[l], cand[l])
      BY <2>2 DEF l
    <3> QED BY <3>1, <3>2, <3>3, <3>4
  <2> QED BY <2>1, <2>2
<1> HIDE DEF f, F
<1>7. R = [m \in 0 .. K |-> F(R, m)]
  BY <1>6
<1> HIDE DEF R
<1>8. \A m \in 0 .. K : R[m] = F(R, m)
  BY <1>7
<1>9. \A m \in 0 .. K : R[m] = IF m = 0 THEN {<<>>} ELSE Grown(R[m - 1], cand[m - 1])
  BY <1>8 DEF F
<1> DEFINE G == {m \in Nat : m <= K => R[m] = Rows(cand, S, m)}
<1>10. 0 \in G
  <2>1. 0 \in 0 .. K
    BY <1>1
  <2>2. R[0] = {<<>>}
    BY <1>9, <2>1
  <2> QED BY <1>4, <2>2
<1>11. \A m \in Nat : m \in G => m + 1 \in G
  <2> SUFFICES ASSUME NEW m \in Nat, m \in G, m + 1 <= K PROVE R[m + 1] = Rows(cand, S, m + 1)
    OBVIOUS
  <2> DEFINE o == m + 1
  <2>1. o \in 0 .. K /\ o # 0 /\ o - 1 = m /\ m <= K
    BY <1>1
  <2>2. Rows(cand, S, o) = Grown(Rows(cand, S, m), cand[m])
    BY <1>5
  <2> HIDE DEF o
  <2>3. R[o] = Grown(R[o - 1], cand[o - 1])
    BY <1>9, <2>1
  <2>4. R[m] = Rows(cand, S, m)
    BY <2>1
  <2> QED BY <2>1, <2>2, <2>3, <2>4 DEF o
<1>12. R[K] = Rows(cand, S, K)
  <2> HIDE DEF G
  <2>1. K \in G
    BY <1>1, <1>10, <1>11, Induction
  <2> QED BY <1>1, <2>1 DEF G
<1>13. PICK r \in Rows(cand, S, K) : top = [j \in Valid |-> r[j + 1]]
  BY <1>2, <1>12
<1>14. \A i \in 1 .. K : r[i] \in cand[i - 1]
  BY DEF Rows
<1>15. ASSUME NEW j \in Valid PROVE top[j] \in cand[j]
  <2> DEFINE i == j + 1
  <2>1. i \in 1 .. K /\ i - 1 = j /\ top[j] = r[i]
    BY <1>1, <1>13
  <2> HIDE DEF i
  <2> QED BY <1>14, <2>1
<1> QED BY <1>15

(* Every joint is in a segment.                                            *)
LEMMA SegmentOfIs ==
  ASSUME ValidInv, SegmentInv, pc \in Settled, kind = "edge", NEW j \in Valid
  PROVE  /\ SegmentOf[j] \in Coarse
         /\ j \in ElementsOf(segs[SegmentOf[j] + 1])
<1>1. BaseInv /\ RootFirst(par)
  BY DEF ValidInv, BaseInv, Unchecked, Settled, Shared
<1>2. PICK n \in 1 .. J : Tree(par, n) /\ Joints(par) = Valid
  BY <1>1, TreeOf
<1>3. SegInv(par, segs, chainOf, <<>>)
  BY DEF SegmentInv, Settled, Shared, Early, Unchecked
<1>4. Cut(segs) = Valid /\ Len(segs) \in Nat
  BY <1>2, <1>3, SegComplete, SegCounts
<1>5. PICK i \in 1 .. Len(segs) : j \in ElementsOf(segs[i])
  BY <1>4 DEF Cut
<1>6. Coarse = 0 .. (Len(segs) - 1)
  BY DEF Coarse
<1> DEFINE c == i - 1
<1>7. c \in Coarse /\ c + 1 = i
  BY <1>4, <1>6
<1> HIDE DEF c
<1>8. \E x \in Coarse : \E m \in 1 .. Len(segs[x + 1]) : segs[x + 1][m] = j
  BY <1>5, <1>7 DEF ElementsOf
<1>9. SegmentOf[j] = CHOOSE x \in Coarse : \E m \in 1 .. Len(segs[x + 1]) : segs[x + 1][m] = j
  BY DEF SegmentOf
<1>10. /\ SegmentOf[j] \in Coarse
       /\ \E m \in 1 .. Len(segs[SegmentOf[j] + 1]) : segs[SegmentOf[j] + 1][m] = j
  BY <1>8, <1>9
<1> QED BY <1>10 DEF ElementsOf

(* Every step keeps SharedInv.                                             *)
LEMMA SharedStep ==
  ValidInv /\ ChosenInv /\ SegmentInv /\ CapInv /\ SharedInv /\ [Next]_vars => SharedInv'
<1> SUFFICES ASSUME ValidInv, ChosenInv, SegmentInv, CapInv, SharedInv, [Next]_vars
             PROVE  SharedInv'
  OBVIOUS
<1>0. par' = par /\ (pc' = pc \/ <<pc, pc'>> \in Moves) /\ BaseInv
  BY Turns DEF ValidInv
<1>1. CASE AssignAnchors
  <2>0. /\ pc = "assign" /\ kind \in Anchored /\ pc \in Settled
        /\ UNCHANGED <<par, choice, chosen, edge>>
    BY <1>1 DEF AssignAnchors, Settled, Anchored
  <2> DEFINE cand == CandidatesOf(AnchorHops)
             near == NearestOf(AnchorHops)
  <2>1. CASE \E j \in Valid : cand[j] = {}
    BY <1>1, <2>1, <1>0 DEF AssignAnchors, Refuse, assign, SharedInv, Shared
  <2>2. CASE \A j \in Valid : cand[j] # {}
    <3>1. /\ kind = "hard" => Share(near, [j \in Valid |-> {near[j]}])
          /\ kind = "soft" => Share(near, cand)
          /\ kind = "dynamic" => \E top \in Tops(cand) : Share(top, cand)
      BY <1>1, <2>0, <2>2 DEF AssignAnchors, Anchored
    <3>2. \A j \in Valid : cand[j] = {c \in Coarse : AnchorHops[j][c] <= set.radius}
      BY DEF CandidatesOf
    <3>3. \A j \in Valid : near[j] \in Coarse
      BY <2>0, NearestFacts
    <3>4. \A j \in Valid : near[j] \in cand[j]
      <4> TAKE j \in Valid
      <4>1. PICK d \in Coarse : AnchorHops[j][d] <= set.radius
        BY <2>2, <3>2
      <4>2. AnchorHops[j][near[j]] <= AnchorHops[j][d]
        <5>1. \/ AnchorHops[j][near[j]] < AnchorHops[j][d]
              \/ AnchorHops[j][near[j]] = AnchorHops[j][d]
          BY <2>0, NearestFacts
        <5>2. AnchorHops[j][near[j]] \in Nat /\ AnchorHops[j][d] \in Nat
          BY <2>0, <3>3, AnchorFacts
        <5> QED BY <5>1, <5>2
      <4>3. AnchorHops[j][near[j]] \in Nat /\ AnchorHops[j][d] \in Nat /\ set.radius \in Nat
        BY <1>0, <2>0, <3>3, AnchorFacts, PoolAssumption DEF BaseInv
      <4>4. AnchorHops[j][near[j]] <= set.radius
        BY <4>1, <4>2, <4>3
      <4> QED BY <3>2, <3>3, <4>4
    <3>5. near = NearestOf(AnchorHops)
      OBVIOUS
    <3>6. \A top \in Tops(cand) : \A j \in Valid : top[j] \in cand[j]
      <4>1. PICK n \in 1 .. J : Valid = 0 .. (n - 1)
        BY <2>0, CoarseFacts
      <4>2. n \in Nat
        OBVIOUS
      <4> QED BY <4>1, <4>2, TopsFacts
    <3> HIDE DEF cand, near
    <3>7. \A j \in Valid : cand[j] \subseteq Coarse
      BY <3>2
    <3>8. CASE kind = "hard"
      <4>1. Share(near, [j \in Valid |-> {near[j]}])
        BY <3>1, <3>8
      <4> DEFINE own == [j \in Valid |-> {near[j]}]
      <4>2. \A j \in Valid : near[j] \in Coarse /\ near[j] \in own[j] /\ own[j] \subseteq Coarse
        BY <3>3
      <4>3. Share(near, own)
        BY <4>1
      <4> HIDE DEF own
      <4> QED BY <2>0, <3>5, <3>8, <4>2, <4>3, ShareKeeps
    <3>9. CASE kind = "soft"
      BY <2>0, <3>1, <3>3, <3>4, <3>5, <3>7, <3>9, ShareKeeps
    <3>10. CASE kind = "dynamic"
      <4>1. PICK top \in Tops(cand) : Share(top, cand)
        BY <3>1, <3>10
      <4>2. \A j \in Valid : top[j] \in Coarse /\ top[j] \in cand[j] /\ cand[j] \subseteq Coarse
        BY <3>6, <3>7
      <4> QED BY <2>0, <3>10, <4>1, <4>2, ShareKeeps
    <3> QED BY <2>0, <3>8, <3>9, <3>10 DEF Anchored
  <2> QED BY <2>1, <2>2
<1>2. CASE AssignSegments
  <2>0. /\ pc = "assign" /\ kind = "edge" /\ pc \in Settled
        /\ UNCHANGED <<par, choice, chosen, edge>>
        /\ Share(SegmentOf, [j \in Valid |-> {SegmentOf[j]}])
    BY <1>2 DEF AssignSegments, Settled
  <2> DEFINE own == [j \in Valid |-> {SegmentOf[j]}]
  <2>1. \A j \in Valid : /\ SegmentOf[j] \in Coarse /\ SegmentOf[j] \in own[j]
                         /\ own[j] \subseteq Coarse
    BY <2>0, SegmentOfIs
  <2>2. Share(SegmentOf, own)
    BY <2>0
  <2> HIDE DEF own
  <2> QED BY <2>0, <2>1, <2>2, ShareKeeps
<1>3. CASE AssignNone
  <2> DEFINE own == [j \in Valid |-> {j}]
             same == [j \in Valid |-> j]
  <2>0. /\ pc = "assign" /\ kind = "none" /\ pc \in Settled
        /\ UNCHANGED <<par, choice, chosen, edge>> /\ Share(same, own)
    BY <1>3 DEF AssignNone, Settled
  <2>1. Coarse = Valid
    BY <2>0 DEF Coarse
  <2>2. \A j \in Valid : same[j] = j /\ own[j] = {j}
    OBVIOUS
  <2> HIDE DEF own, same
  <2>3. \A j \in Valid : same[j] \in Coarse /\ same[j] \in own[j] /\ own[j] \subseteq Coarse
    BY <2>1, <2>2
  <2> QED BY <2>0, <2>2, <2>3, ShareKeeps
<1>4. CASE ~ (AssignAnchors \/ AssignSegments \/ AssignNone)
  <2>1. UNCHANGED assign
    BY <1>4, Frames
  <2>2. CASE pc' \notin Shared
    BY <2>1, <2>2 DEF SharedInv, assign
  <2>3. CASE pc' \in Shared
    <3>1. pc \in Shared
      <4>1. pc # "assign"
        BY <1>4, <2>3, Where DEF Shared, vars
      <4> QED BY <1>0, <2>3, <4>1 DEF Moves, Shared
    <3>2. UNCHANGED <<choice, chosen, edge>>
      <4>1. /\ ~ ValidateEnd /\ ~ AnchorRules /\ ~ ChunkLeaf /\ ~ ChunkUp /\ ~ GivenAnchors
            /\ ~ CutChain /\ ~ MergeSegments
        BY <3>1 DEF ValidateEnd, AnchorRules, ChunkLeaf, ChunkUp, GivenAnchors, CutChain,
                    MergeSegments, Shared
      <4> QED BY <4>1, Frames
    <3>3. /\ Valid' = Valid /\ kind' = kind /\ anchors' = anchors /\ segs' = segs
      BY <1>0, <3>2 DEF choice, chosen, edge, Valid
    <3>4. Coarse' = Coarse
      BY <3>3 DEF Coarse
    <3> HIDE DEF Coarse
    <3>5. SegmentOf' = SegmentOf
      BY <3>3, <3>4 DEF SegmentOf
    <3>6. AnchorHops' = AnchorHops
      BY <1>0, <3>3, <3>4 DEF AnchorHops
    <3>7. NearestOf(AnchorHops)' = NearestOf(AnchorHops)
      BY <3>3, <3>4, <3>6 DEF NearestOf
    <3>8. hard' = hard /\ reads' = reads
      BY <2>1 DEF assign
    <3> HIDE DEF NearestOf, SegmentOf, AnchorHops
    <3> QED BY <3>1, <3>3, <3>4, <3>5, <3>7, <3>8 DEF SharedInv
  <2> QED BY <2>2, <2>3
<1> QED BY <1>1, <1>2, <1>3, <1>4
-----------------------------------------------------------------------------
(* The pooled graph and its distances.                                     *)

Nodes == Slots \cup Coarse

(* An invariant of a settled skeleton: what was chosen and what is shared. *)
AssignInv == ValidInv /\ ChosenInv /\ SegmentInv /\ CapInv /\ SharedInv

Pooled == {"floyd", "attend", "unpool", "done"}

PooledInv ==
  /\ pc \in Pooled =>
       /\ padj = CoarseAdjacency(Adjacency(par), hard, Valid, Coarse)
       /\ k \in 0 .. Cardinality(Nodes)
       /\ dist = Exact(padj, Nodes, Coarse, k)
       /\ pc # "floyd" => k = Cardinality(Nodes)
  /\ pc \notin Pooled \cup {"refused"} => k = 0
  /\ k \in 0 .. (J + set.cap)

(* A contracted graph is undirected, without loops, on the coarse nodes.   *)
LEMMA ContractedFacts ==
  ASSUME NEW p, NEW n, Tree(p, n), NEW h, NEW C
  PROVE  LET E == CoarseAdjacency(Adjacency(p), h, Joints(p), C)
         IN  /\ E \subseteq C \X C
             /\ \A x, y : <<x, y>> \in E
                  <=> /\ x \in C /\ y \in C /\ x # y
                      /\ \E e \in Adjacency(p) : x = h[e[1]] /\ y = h[e[2]]
             /\ \A e \in E : e[1] # e[2] /\ <<e[2], e[1]>> \in E
<1> DEFINE A == Adjacency(p)
           E == CoarseAdjacency(A, h, Joints(p), C)
<1>1. /\ A \subseteq Joints(p) \X Joints(p)
      /\ \A e \in A : <<e[2], e[1]>> \in A
  BY AdjacencyFacts
<1> HIDE DEF A
<1>2. Induced(A, Joints(p)) = A
  BY <1>1 DEF Induced
<1>3. E = {e \in {<<h[x[1]], h[x[2]]>> : x \in A} :
             /\ e[1] # e[2]
             /\ e[1] \in C /\ e[2] \in C}
  BY <1>2 DEF CoarseAdjacency
<1> HIDE DEF E
<1>4. ASSUME NEW e \in E PROVE e \in C \X C /\ e[1] # e[2] /\ e = <<e[1], e[2]>>
  <2>1. PICK x \in A : e = <<h[x[1]], h[x[2]]>>
    BY <1>3
  <2>2. e[1] # e[2] /\ e[1] \in C /\ e[2] \in C
    BY <1>3
  <2> QED BY <2>1, <2>2
<1>5. ASSUME NEW x, NEW y
      PROVE  <<x, y>> \in E
               <=> x \in C /\ y \in C /\ x # y /\ \E e \in A : x = h[e[1]] /\ y = h[e[2]]
  <2>1. <<x, y>> \in E => x \in C /\ y \in C /\ x # y /\ \E e \in A : x = h[e[1]] /\ y = h[e[2]]
    <3> SUFFICES ASSUME <<x, y>> \in E
                 PROVE  x \in C /\ y \in C /\ x # y /\ \E e \in A : x = h[e[1]] /\ y = h[e[2]]
      OBVIOUS
    <3>1. PICK e \in A : <<x, y>> = <<h[e[1]], h[e[2]]>>
      BY <1>3
    <3> QED BY <1>4, <3>1
  <2>2. ASSUME x \in C, y \in C, x # y, NEW e \in A, x = h[e[1]], y = h[e[2]]
        PROVE  <<x, y>> \in E
    BY <1>3, <2>2
  <2> QED BY <2>1, <2>2
<1>6. ASSUME NEW e \in E PROVE <<e[2], e[1]>> \in E
  <2> DEFINE x == e[1]
             y == e[2]
  <2>1. e = <<x, y>> /\ x \in C /\ y \in C /\ x # y
    BY <1>4
  <2> HIDE DEF x, y
  <2>2. PICK d \in A : x = h[d[1]] /\ y = h[d[2]]
    BY <1>5, <2>1
  <2> DEFINE b == <<d[2], d[1]>>
  <2>3. b \in A /\ b[1] = d[2] /\ b[2] = d[1]
    BY <1>1
  <2> HIDE DEF b
  <2>4. <<y, x>> \in E
    BY <1>5, <2>1, <2>2, <2>3
  <2> QED BY <2>4 DEF x, y
<1> QED BY <1>4, <1>5, <1>6 DEF E, A

(* What holds while there is a pooled graph.                               *)
LEMMA PooledFacts ==
  ASSUME AssignInv, pc \in Settled, NEW E,
         E = CoarseAdjacency(Adjacency(par), hard, Valid, Coarse)
  PROVE  \E N \in Nat :
           /\ Nodes = 0 .. (N - 1) /\ Cardinality(Nodes) = N /\ Coarse \subseteq Nodes
           /\ Cardinality(Coarse) <= N /\ N <= J + set.cap
           /\ IsFiniteSet(Coarse) /\ Cardinality(Coarse) <= Inf /\ Coarse # {}
           /\ E \subseteq Coarse \X Coarse
           /\ \A e \in E : e[1] # e[2] /\ <<e[2], e[1]>> \in E
<1>1. PICK n \in 1 .. J : \E c \in 1 .. n : \E N \in Nat :
           /\ Tree(par, n) /\ n <= Inf /\ Valid = 0 .. (n - 1) /\ Joints(par) = Valid
           /\ c = CoarseSize /\ Coarse = 0 .. (c - 1) /\ c <= N
           /\ Slots \cup Coarse = 0 .. (N - 1)
           /\ IsFiniteSet(Coarse) /\ Cardinality(Coarse) = c
           /\ Cardinality(Slots \cup Coarse) = N /\ N <= J + set.cap
  BY CoarseFacts DEF AssignInv
<1>2. PICK c \in 1 .. n : \E N \in Nat :
           /\ Tree(par, n) /\ n <= Inf /\ Valid = 0 .. (n - 1) /\ Joints(par) = Valid
           /\ c = CoarseSize /\ Coarse = 0 .. (c - 1) /\ c <= N
           /\ Slots \cup Coarse = 0 .. (N - 1)
           /\ IsFiniteSet(Coarse) /\ Cardinality(Coarse) = c
           /\ Cardinality(Slots \cup Coarse) = N /\ N <= J + set.cap
  BY <1>1
<1>3. PICK N \in Nat :
           /\ Tree(par, n) /\ n <= Inf /\ Valid = 0 .. (n - 1) /\ Joints(par) = Valid
           /\ c = CoarseSize /\ Coarse = 0 .. (c - 1) /\ c <= N
           /\ Slots \cup Coarse = 0 .. (N - 1)
           /\ IsFiniteSet(Coarse) /\ Cardinality(Coarse) = c
           /\ Cardinality(Slots \cup Coarse) = N /\ N <= J + set.cap
  BY <1>2
<1>4. /\ E \subseteq Coarse \X Coarse
      /\ \A e \in E : e[1] # e[2] /\ <<e[2], e[1]>> \in E
  <2>1. E = CoarseAdjacency(Adjacency(par), hard, Joints(par), Coarse)
    BY <1>3
  <2> QED BY <1>3, <2>1, ContractedFacts
<1>5. c <= Inf /\ Coarse # {} /\ Nodes = Slots \cup Coarse /\ Coarse \subseteq Nodes
  <2>1. Inf \in Nat /\ J \in Nat
    BY PoolAssumption DEF Inf
  <2>2. n \in Nat /\ c \in Nat /\ c <= n /\ c >= 1
    BY <2>1
  <2>3. c <= Inf /\ 0 \in 0 .. (c - 1)
    BY <1>3, <2>1, <2>2
  <2> QED BY <1>3, <2>3 DEF Nodes
<1> QED BY <1>3, <1>4, <1>5

(* The attention accepts the distances the loop ends with.                 *)
LEMMA AttendAccepts ==
  ASSUME NEW N \in Nat, NEW V, IsFiniteSet(V), Cardinality(V) <= Inf, V # {},
         V \subseteq 0 .. (N - 1), Cardinality(0 .. (N - 1)) = N, Cardinality(V) <= N,
         NEW E, E \subseteq V \X V, \A e \in E : e[1] # e[2] /\ <<e[2], e[1]>> \in E
  PROVE  AttentionAccepts(E, Exact(E, 0 .. (N - 1), V, N), 0 .. (N - 1), V)
<1> DEFINE M == 0 .. (N - 1)
           d == Exact(E, M, V, N)
<1>1. Recomputed(E, M, V) = d
  BY RecomputedIs
<1>2. V \X V \subseteq M \X M
  OBVIOUS
<1>3. GraphChecked(E, d, M, V)
  BY <1>1 DEF GraphChecked
<1>4. \A v, w \in M : d[<<v, w>>] = IF v \in V /\ w \in V THEN HopsThrough(E, V, M, v)[w] ELSE Inf
  BY DEF Exact
<1>5. V \subseteq M /\ Cardinality(M) = N /\ Cardinality(V) \in Nat
  BY FS_CardinalityType
<1> HIDE DEF M, d
<1>6. ASSUME NEW v \in M, NEW w \in M
      PROVE  (d[<<v, w>>] = Inf \/ d[<<v, w>>] <= N - 1) /\ d[<<v, w>>] = d[<<w, v>>]
  <2>1. CASE ~ (v \in V /\ w \in V)
    BY <1>4, <2>1
  <2>2. CASE v \in V /\ w \in V
    <3> DEFINE g == HopsThrough(E, V, M, v)[w]
               h == HopsThrough(E, V, M, w)[v]
    <3>1. d[<<v, w>>] = g /\ d[<<w, v>>] = h
      BY <1>4, <2>2
    <3>2. /\ g \in Nat /\ (g = Inf \/ g < Cardinality(V))
          /\ (g # Inf => Shortest(E, M, v, w, g))
          /\ (g = Inf => \A m \in Nat : ~ Near(E, M, v, w, m))
      BY <2>2, HopsType
    <3>3. /\ h \in Nat /\ (h = Inf \/ h < Cardinality(V))
          /\ (h # Inf => Shortest(E, M, w, v, h))
          /\ (h = Inf => \A m \in Nat : ~ Near(E, M, w, v, m))
      BY <2>2, HopsType
    <3> HIDE DEF g, h
    <3>4. \A m \in Nat : Near(E, M, v, w, m) => Near(E, M, w, v, m)
      BY <1>5, <2>2, NearBack
    <3>5. \A m \in Nat : Near(E, M, w, v, m) => Near(E, M, v, w, m)
      BY <1>5, <2>2, NearBack
    <3>6. Inf \in Nat
      BY DEF Inf
    <3>7. g = h
      <4>1. CASE g = Inf
        BY <3>2, <3>3, <3>5, <4>1 DEF Shortest
      <4>2. CASE g # Inf
        <5>1. Near(E, M, w, v, g) /\ h # Inf
          BY <3>2, <3>3, <3>4, <4>2 DEF Shortest
        <5>2. h <= g /\ Near(E, M, w, v, h)
          BY <3>2, <3>3, <5>1 DEF Shortest
        <5>3. g <= h
          BY <3>2, <3>3, <3>5, <4>2, <5>2 DEF Shortest
        <5> QED BY <3>2, <3>3, <5>2, <5>3
      <4> QED BY <4>1, <4>2
    <3>8. g = Inf \/ g <= N - 1
      BY <1>5, <3>2
    <3> QED BY <3>1, <3>7, <3>8
  <2> QED BY <2>1, <2>2
<1>7. \A q \in M \X M : /\ d[q] = Inf \/ d[q] <= Cardinality(M) - 1
                        /\ d[q] = d[<<q[2], q[1]>>]
  <2> TAKE q \in M \X M
  <2>1. q = <<q[1], q[2]>> /\ q[1] \in M /\ q[2] \in M
    OBVIOUS
  <2> DEFINE v == q[1]
             w == q[2]
  <2>2. q = <<v, w>> /\ v \in M /\ w \in M
    BY <2>1
  <2> HIDE DEF v, w
  <2>3. (d[q] = Inf \/ d[q] <= N - 1) /\ d[q] = d[<<w, v>>]
    BY <1>6, <2>2
  <2> QED BY <1>5, <2>3 DEF v, w
<1> QED BY <1>3, <1>7 DEF AttentionAccepts, M, d

(* While the pooled graph is there, what it was made from stays.           *)
LEMMA SettledStays ==
  ASSUME BaseInv, [Next]_vars, pc \in Settled
  PROVE  /\ UNCHANGED <<par, choice, chosen, edge>>
         /\ pc \in Shared => UNCHANGED assign
         /\ Valid' = Valid /\ Coarse' = Coarse /\ Slots' = Slots /\ Nodes' = Nodes
<1>1. par' = par
  BY Turns
<1>2. /\ ~ ValidateEnd /\ ~ AnchorRules /\ ~ ChunkLeaf /\ ~ ChunkUp /\ ~ GivenAnchors
      /\ ~ CutChain /\ ~ MergeSegments
  BY DEF ValidateEnd, AnchorRules, ChunkLeaf, ChunkUp, GivenAnchors, CutChain,
         MergeSegments, Settled, Shared
<1>3. UNCHANGED <<choice, chosen, edge>>
  BY <1>2, Frames
<1>4. pc \in Shared => ~ AssignAnchors /\ ~ AssignSegments /\ ~ AssignNone
  BY DEF AssignAnchors, AssignSegments, AssignNone, Shared
<1>5. pc \in Shared => UNCHANGED assign
  BY <1>4, Frames
<1>6. /\ Valid' = Valid /\ kind' = kind /\ anchors' = anchors /\ segs' = segs /\ set' = set
  BY <1>1, <1>3 DEF choice, chosen, edge, Valid
<1>7. Coarse' = Coarse
  BY <1>6 DEF Coarse
<1> HIDE DEF Coarse
<1>8. Slots' = Slots
  BY <1>6 DEF Slots
<1> HIDE DEF Slots
<1>9. Nodes' = Nodes
  BY <1>7, <1>8 DEF Nodes
<1> QED BY <1>1, <1>3, <1>5, <1>6, <1>7, <1>8, <1>9

(* There is no pooled graph initially.                                     *)
LEMMA PooledInit == Init => PooledInv
<1> SUFFICES ASSUME Init PROVE PooledInv
  OBVIOUS
<1>1. set \in Settings
  BY PoolAssumption DEF Init
<1>2. J \in Nat /\ set.cap \in Nat
  BY <1>1, PoolAssumption
<1>3. k = 0 /\ pc \notin Pooled
  BY DEF Init, Pooled
<1> QED BY <1>2, <1>3 DEF PooledInv

(* Every step keeps PooledInv.                                             *)
LEMMA PooledStep == AssignInv /\ PooledInv /\ [Next]_vars => PooledInv'
<1> SUFFICES ASSUME AssignInv, PooledInv, [Next]_vars PROVE PooledInv'
  OBVIOUS
<1>0. par' = par /\ (pc' = pc \/ <<pc, pc'>> \in Moves) /\ BaseInv /\ BaseInv'
  BY Turns, BaseStep DEF AssignInv, ValidInv
<1>1. set.cap \in Nat /\ set'.cap \in Nat /\ J \in Nat
  BY <1>0, PoolAssumption DEF BaseInv
<1>2. CASE pc \notin Settled
  <2>1. UNCHANGED pooled /\ pc' \notin Pooled
    <3>1. ~ PoolGraph /\ ~ Floyd
      BY <1>2 DEF PoolGraph, Floyd, Settled, Shared
    <3>2. UNCHANGED pooled
      BY <3>1, Frames
    <3> QED BY <1>0, <1>2, <3>2 DEF Moves, Settled, Shared, Pooled
  <2>2. k' = k /\ pc \notin Pooled
    BY <1>2, <2>1 DEF pooled, Settled, Shared, Pooled
  <2>3. pc # "refused" => k' = 0
    BY <2>2 DEF PooledInv
  <2>4. pc = "refused" => pc' = "refused" /\ UNCHANGED vars
    <3>1. pc = "refused" => UNCHANGED vars
      BY Where
    <3> QED BY <3>1 DEF vars
  <2>5. pc = "refused" => set' = set
    BY <2>4 DEF vars, choice
  <2>6. k' \in 0 .. (J + set'.cap)
    BY <1>1, <2>2, <2>3, <2>5 DEF PooledInv
  <2> QED BY <2>1, <2>3, <2>4, <2>6 DEF PooledInv
<1>3. CASE pc \in Settled
  <2>1. /\ Valid' = Valid /\ Coarse' = Coarse /\ Nodes' = Nodes /\ set' = set
        /\ pc \in Shared => hard' = hard
    BY <1>0, <1>3, SettledStays DEF choice, assign
  <2> DEFINE E == CoarseAdjacency(Adjacency(par), hard, Valid, Coarse)
  <2>2. PICK N \in Nat :
           /\ Nodes = 0 .. (N - 1) /\ Cardinality(Nodes) = N /\ Coarse \subseteq Nodes
           /\ N <= J + set.cap
           /\ IsFiniteSet(Coarse) /\ Cardinality(Coarse) <= Inf
           /\ E \subseteq Coarse \X Coarse
    BY <1>3, PooledFacts
  <2>3. pc \in Shared => CoarseAdjacency(Adjacency(par), hard, Valid, Coarse)' = E
    BY <1>0, <2>1
  <2> HIDE DEF E
  <2>4. CASE PoolGraph
    <3>1. pc = "pool" /\ pc' = "floyd" /\ padj' = E
              /\ dist' = FloydStart(padj', Nodes, Coarse) /\ k' = 0
      BY <2>4 DEF PoolGraph, E, Nodes
    <3>2. FloydStart(E, Nodes, Coarse) = Exact(E, Nodes, Coarse, 0)
      BY <2>2, ExactStart
    <3>3. 0 \in 0 .. Cardinality(Nodes) /\ 0 \in 0 .. (J + set'.cap)
      BY <1>1, <2>2
    <3>4. dist' = Exact(padj', Nodes, Coarse, k')
      BY <3>1, <3>2
    <3> QED BY <2>1, <2>3, <3>1, <3>3, <3>4 DEF PooledInv, Pooled, Shared
  <2>5. CASE Floyd
    <3>1. /\ pc = "floyd" /\ pc' = pc /\ padj' = padj /\ k \in Nodes
          /\ dist' = FloydPivot(dist, k) /\ k' = k + 1
      BY <2>5 DEF Floyd, Nodes
    <3>2. padj = E /\ dist = Exact(E, Nodes, Coarse, k)
      BY <3>1 DEF PooledInv, Pooled, E
    <3>3. k \in Nat
      BY <2>2, <3>1
    <3>4. FloydPivot(Exact(E, Nodes, Coarse, k), k) = Exact(E, Nodes, Coarse, k + 1)
      BY <2>2, <3>1, <3>3, ExactStep
    <3>5. k + 1 \in 0 .. Cardinality(Nodes) /\ k + 1 \in 0 .. (J + set'.cap)
      BY <1>1, <2>1, <2>2, <3>1
    <3>6. dist' = Exact(padj', Nodes, Coarse, k')
      BY <3>1, <3>2, <3>4
    <3>7. k' \in 0 .. Cardinality(Nodes) /\ k' \in 0 .. (J + set'.cap)
      BY <3>1, <3>5
    <3> QED BY <2>1, <2>3, <3>1, <3>2, <3>6, <3>7 DEF PooledInv, Pooled, Shared
  <2>6. CASE ~ (PoolGraph \/ Floyd)
    <3>1. UNCHANGED pooled
      BY <2>6, Frames
    <3>2. padj' = padj /\ dist' = dist /\ k' = k
      BY <3>1 DEF pooled
    <3>3. CASE pc \in Pooled
      <4>1. pc' \in Pooled \cup {"refused"}
        BY <1>0, <3>3 DEF Moves, Pooled
      <4>2. pc' \in Pooled => (pc' # "floyd" => k = Cardinality(Nodes))
        <5>1. CASE pc = "floyd" /\ pc' # "floyd"
          <6>1. PoolFeatures
            BY <2>6, <5>1, Where DEF vars
          <6>2. k \notin Nodes
            BY <6>1 DEF PoolFeatures, Nodes
          <6>3. k \in 0 .. Cardinality(Nodes)
            BY <3>3 DEF PooledInv
          <6> QED BY <2>2, <6>2, <6>3
        <5>2. CASE pc # "floyd"
          BY <3>3, <5>2 DEF PooledInv
        <5> QED BY <5>1, <5>2
      <4> QED BY <2>1, <2>3, <3>2, <3>3, <4>1, <4>2 DEF PooledInv, Pooled, Shared, E
    <3>4. CASE pc \notin Pooled
      <4>1. pc' \notin Pooled
        <5>1. pc # "pool" \/ pc' = pc
          BY <2>6, Where DEF vars
        <5> QED BY <1>0, <3>4, <5>1 DEF Moves, Pooled
      <4>2. pc # "refused"
        BY <1>3 DEF Settled, Shared
      <4> QED BY <2>1, <3>2, <3>4, <4>1, <4>2 DEF PooledInv
    <3> QED BY <3>3, <3>4
  <2> QED BY <2>4, <2>5, <2>6
<1> QED BY <1>2, <1>3

(* Before every pivot the matrix holds the hops through the nodes before   *)
(* it.                                                                     *)
LEMMA FloydHolds == AssignInv /\ PooledInv => FloydLayers
<1> SUFFICES ASSUME AssignInv, PooledInv, pc = "floyd", NEW v \in Nodes, NEW w \in Nodes
             PROVE  dist[<<v, w>>] = IF v \in Coarse /\ w \in Coarse
                                     THEN HopsThrough(padj, Coarse, 0 .. (k - 1), v)[w] ELSE Inf
  BY DEF FloydLayers, Nodes
<1>1. dist = Exact(padj, Nodes, Coarse, k)
  BY DEF PooledInv, Pooled
<1> QED BY <1>1 DEF Exact
-----------------------------------------------------------------------------
(* What a pool refuses.                                                    *)

RefusedInv ==
  pc = "refused" =>
    /\ nf = 0 /\ lat = {} /\ kind # "none"
    /\ kind = "edge" => /\ stack = <<>> /\ Len(segs) > set.cap
                        /\ \A a \in 2 .. Len(segs) : chainOf[a] # chainOf[a - 1]
    /\ (kind \in Anchored /\ ~ given /\ 2 * set.radius + 1 >= set.chunk) =>
         Cardinality(anchors) > set.cap

(* Nothing left to merge: every chain is one segment.                      *)
LEMMA NoneMergeable ==
  ASSUME NEW n, Tree(par, n), SegInv(par, segs, chainOf, stack), Mergeable = {}
  PROVE  \A a \in 2 .. Len(segs) : chainOf[a] # chainOf[a - 1]
<1> SUFFICES ASSUME NEW a \in 2 .. Len(segs), chainOf[a] = chainOf[a - 1] PROVE FALSE
  OBVIOUS
<1> DEFINE L == Len(segs)
           c == chainOf[a]
           b == a - 1
<1>1. /\ Len(chainOf) = L /\ chainOf \in Seq(Int) /\ L \in Nat
      /\ \A x \in 2 .. L : chainOf[x] >= 0
      /\ \A x, y \in 1 .. L : x <= y => chainOf[x] <= chainOf[y]
  <2>1. Numbers(segs, chainOf) /\ segs \in Seq(Seq(Joints(par)))
    BY DEF SegInv
  <2> QED BY <2>1 DEF Numbers
<1>2. a \in 1 .. L /\ b \in 1 .. L /\ a # b /\ L \in 1 .. L /\ a <= L /\ chainOf[b] = c
  BY <1>1
<1> HIDE DEF L, b
<1>3. c \in Int /\ c >= 0 /\ c <= chainOf[L] /\ chainOf[L] \in Int
  BY <1>1, <1>2 DEF L
<1>4. c \in 0 .. chainOf[Len(chainOf)]
  BY <1>1, <1>3
<1>5. c = chainOf[a]
  OBVIOUS
<1> HIDE DEF c
<1>6. {a, b} \subseteq OfChain(c) /\ OfChain(c) \subseteq 1 .. L
  BY <1>2, <1>5 DEF OfChain, L
<1>7. IsFiniteSet(OfChain(c))
  <2>1. IsFiniteSet(1 .. L)
    BY <1>1, FS_Interval
  <2> QED BY <1>6, <2>1, FS_Subset
<1>8. Cardinality({a, b}) = 2
  <2>1. IsFiniteSet({b}) /\ Cardinality({b}) = 1
    BY FS_Singleton
  <2> DEFINE P == {b} \cup {a}
  <2>2. a \notin {b} /\ {a, b} = P
    BY <1>2
  <2>3. Cardinality(P) = 1 + 1
    BY <2>1, <2>2, FS_AddElement
  <2> HIDE DEF P
  <2>4. Cardinality({a, b}) = Cardinality(P)
    BY <2>2
  <2>5. 1 + 1 = 2
    OBVIOUS
  <2> QED BY <2>3, <2>4, <2>5
<1>9. Cardinality(OfChain(c)) >= 2
  <2>1. Cardinality({a, b}) <= Cardinality(OfChain(c))
    BY <1>6, <1>7, FS_Subset
  <2>2. Cardinality(OfChain(c)) \in Nat
    BY <1>7, FS_CardinalityType
  <2> QED BY <1>8, <2>1, <2>2
<1>10. c \in Mergeable
  BY <1>4, <1>9 DEF Mergeable
<1> QED BY <1>10

(* With a radius of half a chunk every joint has a candidate.              *)
LEMMA CandidateInReach ==
  ASSUME ValidInv, ChosenInv, SegmentInv, CapInv, pc = "assign", kind \in Anchored, ~ given,
         2 * set.radius + 1 >= set.chunk, NEW j \in Valid
  PROVE  CandidatesOf(AnchorHops)[j] # {}
<1>0. pc \in Settled /\ BaseInv
  BY DEF Settled, ValidInv
<1>1. PICK n \in 1 .. J : Tree(par, n) /\ n <= Inf /\ Joints(par) = Valid
  BY <1>0, CoarseFacts
<1>2. set.radius \in Nat \ {0} /\ set.chunk \in Nat \ {0}
  BY <1>0, PoolAssumption DEF BaseInv
<1>3. /\ anchors \subseteq Joints(par) /\ RuleAnchors(par) \subseteq anchors
      /\ \A y \in Joints(par) : Fine(par, anchors, set.chunk, y)
  BY <1>1 DEF ChosenInv, Early, Unchecked
<1>4. \E a \in anchors : \E m \in 0 .. set.radius : Near(Adjacency(par), Joints(par), j, a, m)
  BY <1>1, <1>2, <1>3, InReach
<1>5. PICK a \in anchors : \E m \in 0 .. set.radius : Near(Adjacency(par), Joints(par), j, a, m)
  BY <1>4
<1>6. PICK m \in 0 .. set.radius : Near(Adjacency(par), Joints(par), j, a, m)
  BY <1>5
<1>7. PICK c \in Coarse : Sorted(anchors)[c + 1] = a
  BY <1>0, AnchorFacts
<1>8. AnchorHops[j][c] = GeodesicDist(par)[j][a] /\ AnchorHops[j][c] \in Nat
  BY <1>0, <1>7, AnchorFacts
<1>9. Shortest(Adjacency(par), Joints(par), j, a, AnchorHops[j][c])
  <2>1. a \in Joints(par) /\ j \in Joints(par)
    BY <1>1, <1>3
  <2>2. Shortest(Adjacency(par), Joints(par), j, a, GeodesicDist(par)[j][a])
    BY <1>1, <2>1, GeodesicIs
  <2> QED BY <1>8, <2>2
<1>10. AnchorHops[j][c] <= m /\ m <= set.radius /\ m \in Nat
  BY <1>2, <1>6, <1>9 DEF Shortest
<1>11. AnchorHops[j][c] <= set.radius
  BY <1>2, <1>8, <1>10
<1>12. CandidatesOf(AnchorHops)[j] = {x \in Coarse : AnchorHops[j][x] <= set.radius}
  BY DEF CandidatesOf
<1> QED BY <1>7, <1>11, <1>12

(* Every step keeps RefusedInv.                                            *)
LEMMA RefusedStep ==
  AssignInv /\ PooledInv /\ RefusedInv /\ [Next]_vars => RefusedInv'
<1> SUFFICES ASSUME AssignInv, PooledInv, RefusedInv, [Next]_vars, pc' = "refused"
             PROVE  RefusedInv'
  BY DEF RefusedInv
<1>0. BaseInv /\ (pc = "refused" \/ <<pc, "refused">> \in Moves)
  BY Turns DEF AssignInv, ValidInv
<1>1. CASE pc = "refused"
  <2>1. UNCHANGED vars
    BY <1>1, Where
  <2> QED BY <1>1, <2>1 DEF RefusedInv, vars, motion, choice, edge, chosen
<1>2. CASE pc = "entry"
  <2>1. PoolEntry
    BY <1>2, Where DEF vars
  <2>2. PICK n \in 1 .. J : Tree(par, n) /\ n <= Inf /\ Joints(par) = Valid
    BY <1>0, <1>2, TreeOf DEF BaseInv, Unchecked
  <2> DEFINE geo == GeodesicDist(par)
             ok == GraphChecked(Adjacency(par), [p \in Valid \X Valid |-> geo[p[1]][p[2]]],
                                Valid, Valid)
  <2>3. ok
    BY <2>2, EntryAccepts
  <2>4. ok => pc' = CASE kind = "edge" -> "segment"
                      [] kind = "none" -> "assign"
                      [] OTHER         -> "anchors"
    BY <2>1 DEF PoolEntry
  <2> HIDE DEF ok
  <2>5. pc' # "refused"
    BY <2>3, <2>4
  <2> QED BY <2>5
<1>3. CASE pc = "chunk"
  <2>1. SelectAnchors
    <3>1. ChunkLeaf \/ ChunkUp => pc' = pc
      BY DEF ChunkLeaf, ChunkUp
    <3> QED BY <1>3, <3>1, Where DEF vars
  <2>2. Cardinality(anchors) > set.cap /\ UNCHANGED <<choice, chosen, edge, motion>>
    BY <2>1 DEF SelectAnchors
  <2>3. nf = 0 /\ lat = {} /\ kind \notin {"edge", "none"}
    BY <1>0, <1>3 DEF BaseInv, Anchored
  <2> QED BY <2>2, <2>3 DEF RefusedInv, choice, chosen, motion
<1>4. CASE pc = "segment"
  <2>1. MergeSegments /\ Mergeable = {}
    <3>1. CutChain => pc' = pc
      BY DEF CutChain
    <3>2. SegmentsBuilt => pc' = "assign"
      BY DEF SegmentsBuilt
    <3>3. MergeSegments
      BY <1>4, <3>1, <3>2, Where DEF vars
    <3>4. Mergeable # {} => pc' = pc
      BY <3>3 DEF MergeSegments
    <3> QED BY <1>4, <3>3, <3>4
  <2>2. stack = <<>> /\ Len(segs) > set.cap /\ UNCHANGED <<choice, edge, motion>>
    BY <2>1 DEF MergeSegments
  <2>3. nf = 0 /\ lat = {} /\ kind = "edge"
    BY <1>0, <1>4 DEF BaseInv
  <2>4. PICK n \in 1 .. J : Tree(par, n)
    BY <1>0, <1>4, TreeOf DEF BaseInv, Unchecked
  <2>5. \A a \in 2 .. Len(segs) : chainOf[a] # chainOf[a - 1]
    BY <2>1, <2>3, <2>4, NoneMergeable DEF AssignInv, SegmentInv
  <2> QED BY <2>2, <2>3, <2>5 DEF RefusedInv, choice, edge, motion, Anchored
<1>5. CASE pc = "assign"
  <2>1. AssignAnchors
    <3>1. AssignSegments \/ AssignNone => pc' = "pool"
      BY DEF AssignSegments, AssignNone, Share
    <3> QED BY <1>5, <3>1, Where DEF vars
  <2>2. \E j \in Valid : CandidatesOf(AnchorHops)[j] = {}
    <3> DEFINE cand == CandidatesOf(AnchorHops)
               near == NearestOf(AnchorHops)
    <3>1. (\A j \in Valid : cand[j] # {}) =>
            \E top, spread : Share(top, spread)
      BY <2>1 DEF AssignAnchors
    <3>2. (\A j \in Valid : cand[j] # {}) => pc' = "pool"
      BY <3>1 DEF Share
    <3> HIDE DEF cand
    <3> QED BY <3>2 DEF cand
  <2>3. kind \in Anchored /\ UNCHANGED <<choice, chosen, motion>>
    BY <2>1 DEF AssignAnchors, Anchored
  <2>4. nf = 0 /\ lat = {}
    BY <1>0, <1>5 DEF BaseInv
  <2>5. ~ (~ given /\ 2 * set.radius + 1 >= set.chunk)
    BY <1>5, <2>2, <2>3, CandidateInReach DEF AssignInv
  <2> QED BY <2>3, <2>4, <2>5 DEF RefusedInv, choice, chosen, motion, Anchored
<1>6. CASE pc = "attend"
  <2>1. Attend
    BY <1>6, Where DEF vars
  <2>2. /\ padj = CoarseAdjacency(Adjacency(par), hard, Valid, Coarse)
        /\ dist = Exact(padj, Nodes, Coarse, k) /\ k = Cardinality(Nodes)
    BY <1>6 DEF PooledInv, Pooled
  <2>3. pc \in Settled
    BY <1>6 DEF Settled, Shared
  <2>4. PICK N \in Nat :
           /\ Nodes = 0 .. (N - 1) /\ Cardinality(Nodes) = N /\ Coarse \subseteq Nodes
           /\ Cardinality(Coarse) <= N
           /\ IsFiniteSet(Coarse) /\ Cardinality(Coarse) <= Inf /\ Coarse # {}
           /\ padj \subseteq Coarse \X Coarse
           /\ \A e \in padj : e[1] # e[2] /\ <<e[2], e[1]>> \in padj
    BY <2>2, <2>3, PooledFacts
  <2>5. AttentionAccepts(padj, Exact(padj, 0 .. (N - 1), Coarse, N), 0 .. (N - 1), Coarse)
    BY <2>4, AttendAccepts
  <2>6. AttentionAccepts(padj, dist, Nodes, Coarse)
    BY <2>2, <2>4, <2>5
  <2>7. pc' = "unpool"
    BY <2>1, <2>6 DEF Attend, Nodes
  <2> QED BY <2>7
<1>7. CASE pc = "unpool"
  <2>1. Unpool
    BY <1>7, Where DEF vars
  <2>2. /\ \A j \in Valid : hard[j] \in reads[j] /\ reads[j] \subseteq Coarse
        /\ \A j \in Padded \ Valid : reads[j] = {}
    BY <1>7 DEF AssignInv, SharedInv, Shared
  <2>3. /\ \A j \in Padded : reads[j] \subseteq Coarse
        /\ \A j \in Valid : reads[j] # {}
        /\ \A j \in Padded \ Valid : reads[j] = {}
    BY <2>2
  <2>4. pc' = "done"
    BY <2>1, <2>3 DEF Unpool
  <2> QED BY <2>4
<1> QED BY <1>0, <1>1, <1>2, <1>3, <1>4, <1>5, <1>6, <1>7 DEF Moves
-----------------------------------------------------------------------------
(* The features.                                                           *)

Latent == {u \in 0 .. (T \div Stride - 1) : \A f \in Chunk(u) : f < nf}

MotionInv ==
  /\ nf \in 0 .. T /\ lat \subseteq 0 .. (T \div Stride - 1)
  /\ pc \in {"attend", "unpool", "done"} => nf \in 1 .. T /\ lat = Latent
  /\ pc = "done" =>
       out = [p \in {q \in Valid \X (0 .. (T - 1)) : q[2] \div Stride \in lat} |->
                (UNION {Members(c) : c \in reads[p[1]]}) \X Chunk(p[2] \div Stride)]

(* There are no features initially.                                        *)
LEMMA MotionInit == Init => MotionInv
<1> SUFFICES ASSUME Init PROVE MotionInv
  OBVIOUS
<1>1. T \in Nat /\ 0 \in 0 .. T
  BY PoolAssumption
<1> QED BY <1>1 DEF Init, MotionInv

(* Every step keeps MotionInv.                                             *)
LEMMA MotionStep == AssignInv /\ MotionInv /\ [Next]_vars => MotionInv'
<1> SUFFICES ASSUME AssignInv, MotionInv, [Next]_vars PROVE MotionInv'
  OBVIOUS
<1>0. par' = par /\ (pc' = pc \/ <<pc, pc'>> \in Moves) /\ BaseInv
  BY Turns DEF AssignInv, ValidInv
<1>1. T \in Nat \ {0} /\ 1 .. T \subseteq 0 .. T
  BY PoolAssumption
<1>2. CASE PoolFeatures
  <2>1. nf' \in 1 .. T /\ lat' = Latent' /\ pc' = "attend"
    BY <1>2 DEF PoolFeatures, Latent, Chunk
  <2>2. Latent' \subseteq 0 .. (T \div Stride - 1)
    BY DEF Latent
  <2> QED BY <1>1, <2>1, <2>2 DEF MotionInv
<1>3. CASE Unpool
  <2>1. pc = "unpool" /\ nf' = nf /\ lat' = lat
    BY <1>3 DEF Unpool
  <2>2. nf \in 1 .. T /\ lat = Latent
    BY <2>1 DEF MotionInv
  <2>3. Latent' = Latent
    BY <2>1 DEF Latent
  <2>4. Valid' = Valid /\ reads' = reads
    BY <1>0, <1>3 DEF Unpool, Valid, assign
  <2>5. pc' = "done" =>
          out' = [p \in {q \in Valid \X (0 .. (T - 1)) : q[2] \div Stride \in lat} |->
                   (UNION {Members(c) : c \in reads[p[1]]}) \X Chunk(p[2] \div Stride)]
    BY <1>3 DEF Unpool, Refuse
  <2>6. \A c : Members(c)' = Members(c)
    BY <2>4 DEF Members, Padded
  <2> HIDE DEF Members, Chunk, Latent
  <2>7. pc' = "done" =>
          out' = [p \in {q \in Valid' \X (0 .. (T - 1)) : q[2] \div Stride \in lat'} |->
                   (UNION {Members(c)' : c \in reads'[p[1]]}) \X Chunk(p[2] \div Stride)]
    BY <2>1, <2>4, <2>5, <2>6
  <2> QED BY <1>1, <2>1, <2>2, <2>3, <2>7 DEF MotionInv
<1>4. CASE ~ (PoolFeatures \/ Unpool)
  <2>1. nf' = nf /\ lat' = lat /\ out' = out
    BY <1>4, Frames DEF motion
  <2>2. Latent' = Latent
    BY <2>1 DEF Latent
  <2>3. pc' \in {"attend", "unpool", "done"} => pc \in {"attend", "unpool", "done"}
    <3>1. pc = "floyd" => pc' = pc
      <4>1. Floyd => pc' = pc
        BY DEF Floyd
      <4> QED BY <1>4, <4>1, Where DEF vars
    <3> QED BY <1>0, <3>1 DEF Moves
  <2>4. pc' = "done" => /\ pc = "done" /\ reads' = reads /\ Valid' = Valid
                        /\ \A c : Members(c)' = Members(c)
    <3>1. pc' = "done" => pc = "done"
      <4>1. pc # "unpool" \/ pc' = pc
        BY <1>4, Where DEF vars
      <4> QED BY <1>0, <4>1 DEF Moves
    <3>2. pc = "done" => UNCHANGED vars
      BY Where
    <3>3. pc = "done" => reads' = reads
      BY <3>2 DEF vars, assign
    <3> QED BY <1>0, <3>1, <3>3 DEF Valid, Members, Padded
  <2> HIDE DEF Members, Chunk, Latent
  <2>5. pc' = "done" =>
          out' = [p \in {q \in Valid' \X (0 .. (T - 1)) : q[2] \div Stride \in lat'} |->
                   (UNION {Members(c)' : c \in reads'[p[1]]}) \X Chunk(p[2] \div Stride)]
    BY <2>1, <2>4 DEF MotionInv
  <2> QED BY <2>1, <2>2, <2>3, <2>5 DEF MotionInv
<1> QED BY <1>2, <1>3, <1>4

(* A joint reads coarse nodes only, its own among them.                    *)
LEMMA ReadsHold == AssignInv /\ MotionInv => ReadsValid
<1> SUFFICES ASSUME AssignInv, MotionInv, NEW p \in DOMAIN out
             PROVE  out[p] \subseteq Valid \X (0 .. (nf - 1))
  BY DEF ReadsValid
<1>0. BaseInv
  BY DEF AssignInv, ValidInv
<1>1. pc = "done"
  BY <1>0 DEF BaseInv
<1> DEFINE D == {q \in Valid \X (0 .. (T - 1)) : q[2] \div Stride \in lat}
           M == UNION {Members(c) : c \in reads[p[1]]}
           u == p[2] \div Stride
<1>2. out = [q \in D |-> (UNION {Members(c) : c \in reads[q[1]]}) \X Chunk(q[2] \div Stride)]
  BY <1>1 DEF MotionInv
<1>3. p \in D /\ out[p] = M \X Chunk(u)
  BY <1>2
<1>4. u \in lat
  BY <1>3
<1>5. lat = Latent /\ nf \in 1 .. T
  BY <1>1 DEF MotionInv
<1>6. M \subseteq Valid
  <2>1. \A j \in Padded \ Valid : reads[j] = {}
    BY <1>1 DEF AssignInv, SharedInv, Shared
  <2>2. \A c : Members(c) \subseteq Valid
    BY <2>1 DEF Members
  <2> QED BY <2>2
<1>7. Chunk(u) \subseteq 0 .. (nf - 1)
  <2> HIDE DEF u
  <2>1. \A f \in Chunk(u) : f < nf
    BY <1>4, <1>5 DEF Latent
  <2>2. \A f \in Chunk(u) : f \in Nat
    BY DEF Chunk
  <2> QED BY <1>5, <2>1, <2>2
<1> QED BY <1>3, <1>6, <1>7

(* A latent frame is whole when its last frame is valid.                   *)
LEMMA LatentFrames ==
  ASSUME NEW S \in Nat \ {0}, NEW K \in Nat, NEW v \in 0 .. K, NEW f \in 0 .. (K - 1), K % S = 0
  PROVE  /\ f \div S \in 0 .. (K \div S - 1)
         /\ (\A g \in 0 .. (K - 1) : g \div S = f \div S => g < v) <=> f < (v \div S) * S
<1> DEFINE u == f \div S
           a == K \div S
           b == v \div S
<1>1. /\ u \in Nat /\ a \in Nat /\ b \in Nat
      /\ K = a * S /\ u * S <= f /\ f < u * S + S
      /\ b * S <= v /\ v < b * S + S
  <2>1. f \in Nat /\ v \in Nat
    OBVIOUS
  <2>2. u \in Nat /\ f = u * S + (f % S) /\ f % S \in 0 .. (S - 1)
    BY <2>1
  <2>3. a \in Nat /\ K = a * S + (K % S)
    OBVIOUS
  <2>4. b \in Nat /\ v = b * S + (v % S) /\ v % S \in 0 .. (S - 1)
    BY <2>1
  <2>5. u * S \in Nat /\ a * S \in Nat /\ b * S \in Nat
    BY <2>2, <2>3, <2>4
  <2> HIDE DEF u, a, b
  <2> QED BY <2>2, <2>3, <2>4, <2>5
<1> HIDE DEF u, a, b
<1>2. ASSUME NEW x \in Nat, NEW y \in Nat, x * S < y * S PROVE x + 1 <= y
  <2>1. x >= y => x * S >= y * S
    OBVIOUS
  <2>2. x * S \in Nat /\ y * S \in Nat
    OBVIOUS
  <2> QED BY <1>2, <2>1, <2>2
<1>3. ASSUME NEW x \in Nat, NEW y \in Nat, x <= y PROVE x * S <= y * S
  BY <1>3
<1>4. \A x \in Nat : (x + 1) * S = x * S + S /\ x * S \in Nat
  OBVIOUS
<1>5. u + 1 <= a
  <2>1. u * S < a * S
    <3>1. u * S \in Nat /\ a * S \in Nat /\ f < a * S
      BY <1>1, <1>4
    <3> QED BY <1>1, <3>1
  <2> QED BY <1>1, <1>2, <2>1
<1>6. u * S + S <= K
  <2>1. (u + 1) * S <= a * S
    BY <1>1, <1>3, <1>5
  <2> QED BY <1>1, <1>4, <2>1
<1>7. ASSUME \A g \in 0 .. (K - 1) : g \div S = u => g < v PROVE f < b * S
  <2> DEFINE g == u * S + (S - 1)
  <2>1. g \in 0 .. (K - 1) /\ g \in Nat
    BY <1>1, <1>4, <1>6
  <2>2. g \div S = u
    <3>1. g = u * S + (S - 1) /\ S - 1 \in 0 .. (S - 1)
      OBVIOUS
    <3> HIDE DEF g
    <3> DEFINE q == g \div S
    <3>2. q \in Nat /\ g = q * S + (g % S) /\ g % S \in 0 .. (S - 1)
      BY <2>1
    <3> HIDE DEF q
    <3>3. q * S \in Nat /\ u * S \in Nat /\ g < q * S + S /\ q * S <= g
      BY <1>1, <1>4, <3>2
    <3>4. u * S < (q + 1) * S /\ q * S < (u + 1) * S
      BY <1>1, <1>4, <3>1, <3>2, <3>3
    <3>5. u + 1 <= q + 1 /\ q + 1 <= u + 1
      BY <1>1, <1>2, <3>2, <3>4
    <3>6. q = u
      BY <1>1, <3>2, <3>5
    <3> QED BY <3>6 DEF q
  <2>3. g < v
    BY <1>7, <2>1, <2>2
  <2>4. u * S + S <= v
    BY <1>1, <1>4, <2>3
  <2>5. u * S < b * S
    BY <1>1, <1>4, <2>4
  <2>6. u + 1 <= b
    BY <1>1, <1>2, <2>5
  <2>7. (u + 1) * S <= b * S
    BY <1>1, <1>3, <2>6
  <2> QED BY <1>1, <1>4, <2>7
<1>8. ASSUME f < b * S, NEW g \in 0 .. (K - 1), g \div S = u PROVE g < v
  <2>1. g \in Nat /\ g = u * S + (g % S) /\ g % S \in 0 .. (S - 1)
    BY <1>8
  <2>2. u * S < b * S
    BY <1>1, <1>4, <1>8
  <2>3. (u + 1) * S <= b * S
    BY <1>1, <1>2, <1>3, <2>2
  <2> QED BY <1>1, <1>4, <2>1, <2>3
<1>9. u \in 0 .. (a - 1)
  BY <1>1, <1>5
<1> QED BY <1>7, <1>8, <1>9 DEF u, a, b

(* Every valid joint has its features back for the frames of whole latent  *)
(* frames.                                                                 *)
LEMMA RoundTripHolds == AssignInv /\ MotionInv => RoundTrip
<1> SUFFICES ASSUME AssignInv, MotionInv, pc = "done" PROVE RoundTrip
  BY DEF RoundTrip
<1> DEFINE D == {q \in Valid \X (0 .. (T - 1)) : q[2] \div Stride \in lat}
<1>1. out = [q \in D |-> (UNION {Members(c) : c \in reads[q[1]]}) \X Chunk(q[2] \div Stride)]
  BY DEF MotionInv
<1>2. lat = Latent /\ nf \in 0 .. T
  BY DEF MotionInv
<1>3. DOMAIN out = D
  BY <1>1
<1>4. ASSUME NEW p \in D PROVE p \in out[p]
  <2> DEFINE M == UNION {Members(c) : c \in reads[p[1]]}
             u == p[2] \div Stride
             j == p[1]
             f == p[2]
  <2>1. out[p] = M \X Chunk(u)
    BY <1>1
  <2>2. j \in Valid /\ f \in 0 .. (T - 1) /\ p = <<j, f>>
    OBVIOUS
  <2>3. f \in Chunk(u)
    BY <2>2 DEF Chunk
  <2>4. hard[j] \in reads[j] /\ j \in Padded
    <3>1. pc \in Settled /\ pc \in Shared
      BY DEF Settled, Shared
    <3>2. PICK n \in 1 .. J : Valid = 0 .. (n - 1)
      BY <3>1, CoarseFacts DEF AssignInv
    <3>3. Valid \subseteq Padded
      BY <3>2, PoolAssumption DEF Padded
    <3> QED BY <2>2, <3>1, <3>3 DEF AssignInv, SharedInv
  <2>5. j \in M
    BY <2>4 DEF Members
  <2> HIDE DEF M, u, j, f
  <2> QED BY <2>1, <2>2, <2>3, <2>5
<1>5. D = Valid \X (0 .. ((nf \div Stride) * Stride - 1))
  <2> DEFINE b == (nf \div Stride) * Stride
  <2>1. /\ T \in Nat \ {0} /\ Stride \in Nat \ {0} /\ T % Stride = 0 /\ nf \in Nat /\ nf <= T
    BY <1>2, PoolAssumption
  <2>2. b \in Nat /\ b <= nf
    <3> DEFINE q == nf \div Stride
    <3>1. q \in Nat /\ nf = q * Stride + (nf % Stride) /\ nf % Stride \in Nat
      BY <2>1
    <3> HIDE DEF q
    <3>2. q * Stride \in Nat
      BY <2>1, <3>1
    <3>3. q * Stride <= nf
      BY <2>1, <3>1, <3>2
    <3> QED BY <3>2, <3>3 DEF q
  <2>3. ASSUME NEW f \in 0 .. (T - 1) PROVE f \div Stride \in lat <=> f < b
    <3> DEFINE u == f \div Stride
    <3>1. /\ u \in 0 .. (T \div Stride - 1)
          /\ (\A g \in 0 .. (T - 1) : g \div Stride = u => g < nf) <=> f < b
      BY <1>2, <2>1, LatentFrames
    <3> HIDE DEF u, b
    <3>2. u \in Latent <=> \A g \in 0 .. (T - 1) : g \div Stride = u => g < nf
      BY <3>1 DEF Latent, Chunk
    <3> QED BY <1>2, <3>1, <3>2 DEF u
  <2> HIDE DEF b
  <2>4. \A f : f \in 0 .. (b - 1) <=> f \in 0 .. (T - 1) /\ f < b
    BY <2>1, <2>2
  <2>5. D = {q \in Valid \X (0 .. (T - 1)) : q[2] < b}
    BY <2>3
  <2>6. {q \in Valid \X (0 .. (T - 1)) : q[2] < b} = Valid \X (0 .. (b - 1))
    BY <2>4
  <2> HIDE DEF D
  <2> QED BY <2>5, <2>6 DEF b
<1> HIDE DEF D
<1> QED BY <1>3, <1>4, <1>5 DEF RoundTrip
-----------------------------------------------------------------------------
(* From a parent list to coarse nodes.                                     *)

SoundInv == AssignInv /\ PooledInv /\ RefusedInv /\ MotionInv

(* The types follow from the invariants.                                   *)
LEMMA TypeHolds == SoundInv => TypeOK
<1> SUFFICES ASSUME SoundInv PROVE TypeOK
  OBVIOUS
<1>1. /\ BaseInv /\ WalkInv /\ VisitInv /\ ChosenInv /\ SegmentInv /\ SharedInv /\ PooledInv
      /\ MotionInv
  BY DEF SoundInv, AssignInv, ValidInv
<1>2. walk.joint \in Valid /\ depths \in [Valid -> 0 .. J]
  BY <1>1 DEF WalkInv
<1>3. visited \subseteq Valid /\ ElementsOf(queue) \subseteq visited
  <2>1. queue \in Seq(visited)
    BY <1>1 DEF VisitInv
  <2> QED BY <1>1, <2>1 DEF VisitInv, ElementsOf
<1>4. anchors \subseteq Valid /\ leaves \subseteq Valid
  <2>1. anchors \subseteq Valid /\ leaves \subseteq Leaves(par)
    BY <1>1 DEF ChosenInv
  <2>2. Leaves(par) \subseteq Valid
    BY DEF Leaves, Valid
  <2> QED BY <2>1, <2>2
<1>5. up.at \in Valid \cup {-1} /\ up.consec \in 0 .. set.chunk
  <2>1. up \in [at : Valid \cup {-1}, consec : 0 .. (set.chunk - 1)]
    BY <1>1 DEF ChosenInv
  <2>2. set.chunk \in Nat
    BY <1>1, PoolAssumption DEF BaseInv
  <2> QED BY <2>1, <2>2
<1>6. (\A s \in SegsOf : s # <<>> /\ ElementsOf(s) \subseteq Valid) /\ Len(chainOf) = Len(segs)
  <2>1. CASE kind = "edge"
    <3>1. Paths(par, segs) /\ Numbers(segs, chainOf)
      BY <1>1, <2>1 DEF SegmentInv, SegInv
    <3>2. \A s \in SegsOf : s \in Seq(Valid) /\ Len(s) >= 1
      BY <3>1 DEF Paths, SegsOf, Valid
    <3>3. \A s \in SegsOf : s # <<>> /\ ElementsOf(s) \subseteq Valid
      <4> TAKE s \in SegsOf
      <4>1. s \in Seq(Valid) /\ Len(s) >= 1
        BY <3>2
      <4> QED BY <4>1 DEF ElementsOf
    <3> QED BY <3>1, <3>3 DEF Numbers
  <2>2. CASE kind # "edge"
    <3>1. segs = <<>> /\ chainOf = <<>>
      BY <1>1, <2>2 DEF SegmentInv
    <3>2. SegsOf = {}
      BY <3>1 DEF SegsOf
    <3> QED BY <3>1, <3>2
  <2> QED BY <2>1, <2>2
<1> QED BY <1>1, <1>2, <1>3, <1>4, <1>5, <1>6
        DEF TypeOK, BaseInv, Steps, SharedInv, PooledInv, MotionInv

(* Merging stops at one segment for each chain, and one for the root.      *)
LEMMA OverflowHolds == SoundInv => OverflowExact
<1> SUFFICES ASSUME SoundInv, kind = "edge"
             PROVE  /\ pc = "refused" => Cardinality(Starts(par)) + 1 > set.cap
                    /\ pc \in {"assign", "pool", "done"} =>
                          Cardinality(Starts(par)) + 1 <= set.cap
  BY DEF OverflowExact, Starts, Valid
<1>1. BaseInv /\ SegInv(par, segs, chainOf, stack) /\ SegmentInv /\ RefusedInv
  BY DEF SoundInv, AssignInv, ValidInv, SegmentInv
<1>2. PICK n \in 1 .. J : Tree(par, n)
  BY <1>1, TreeOf DEF BaseInv, Unchecked
<1>3. set.cap \in Nat
  BY <1>1, PoolAssumption DEF BaseInv
<1> DEFINE L == Len(segs)
           c == chainOf[Len(chainOf)]
<1>4. /\ L \in Nat /\ c \in Int /\ c + 2 <= L
      /\ (\A a \in 2 .. L : chainOf[a] # chainOf[a - 1]) => c + 2 = L
  BY <1>1, <1>2, SegCounts
<1>5. stack = <<>> => /\ c + 1 = Cardinality(Starts(par))
                      /\ Cardinality(Starts(par)) \in Nat
  BY <1>1, <1>2, SegComplete
<1>6. pc = "refused" => L > set.cap /\ stack = <<>>
                        /\ \A a \in 2 .. L : chainOf[a] # chainOf[a - 1]
  BY <1>1 DEF RefusedInv
<1>7. pc \in {"assign", "pool", "done"} => L <= set.cap /\ stack = <<>>
  BY <1>1 DEF SegmentInv, Early, Unchecked
<1> HIDE DEF L, c
<1>8. CASE pc = "refused"
  BY <1>3, <1>4, <1>5, <1>6, <1>8
<1>9. CASE pc \in {"assign", "pool", "done"}
  BY <1>3, <1>4, <1>5, <1>7, <1>9
<1> QED BY <1>8, <1>9

(* With a radius of half a chunk, only the number of anchors makes a pool  *)
(* refuse.                                                                 *)
LEMMA RadiusHolds == SoundInv => RadiusSuffices
<1> SUFFICES ASSUME SoundInv, pc = "refused", kind # "edge", ~ given,
                    2 * set.radius + 1 >= set.chunk
             PROVE  Cardinality(anchors) > set.cap
  BY DEF RadiusSuffices
<1>1. kind \in Kinds /\ kind # "none"
  BY DEF SoundInv, AssignInv, ValidInv, BaseInv, RefusedInv
<1>2. kind \in Anchored
  BY <1>1 DEF Kinds, Anchored
<1> QED BY <1>2 DEF SoundInv, RefusedInv

(* The invariants hold initially,                                          *)
LEMMA SoundInit == Init => SoundInv
<1> SUFFICES ASSUME Init PROVE SoundInv
  OBVIOUS
<1>1. pc \in {"depth", "validate"}
  BY DEF Init
<1>2. BaseInv /\ WalkInv /\ VisitInv
  BY BaseInit, VisitInit
<1>3. AcceptsExactlyTrees
  BY <1>1 DEF AcceptsExactlyTrees
<1>4. ChosenInv /\ SegmentInv /\ SharedInv /\ PooledInv /\ MotionInv
  BY ChosenInit, SegmentInit, SharedInit, PooledInit, MotionInit
<1>5. CapInv /\ RefusedInv
  BY <1>1 DEF CapInv, RefusedInv, Settled, Shared
<1> QED BY <1>2, <1>3, <1>4, <1>5 DEF SoundInv, AssignInv, ValidInv

(* every step keeps them,                                                  *)
LEMMA SoundStep == SoundInv /\ [Next]_vars => SoundInv'
<1> SUFFICES ASSUME SoundInv, [Next]_vars PROVE SoundInv'
  OBVIOUS
<1>1. /\ AssignInv /\ PooledInv /\ RefusedInv /\ MotionInv
      /\ ValidInv /\ ChosenInv /\ SegmentInv /\ CapInv /\ SharedInv
      /\ BaseInv /\ WalkInv /\ VisitInv /\ AcceptsExactlyTrees
  BY DEF SoundInv, AssignInv, ValidInv
<1>2. BaseInv' /\ WalkInv' /\ VisitInv' /\ AcceptsExactlyTrees'
  BY <1>1, BaseStep, WalkStays, VisitStep, AcceptsStep
<1>3. ChosenInv' /\ SegmentInv' /\ CapInv' /\ SharedInv'
  BY <1>1, ChosenStep, SegmentStep, CapStep, SharedStep
<1>4. PooledInv' /\ RefusedInv' /\ MotionInv'
  BY <1>1, PooledStep, RefusedStep, MotionStep
<1> QED BY <1>2, <1>3, <1>4 DEF SoundInv, AssignInv, ValidInv

(* so they always hold.                                                    *)
LEMMA SoundAlways == Spec => []SoundInv
<1>1. Init => SoundInv
  BY SoundInit
<1>2. SoundInv /\ [Next]_vars => SoundInv'
  BY SoundStep
<1> QED BY <1>1, <1>2, PTL DEF Spec

(* A parent list is accepted when it is a root-first tree, and only then;  *)
(* every pool keeps its limit; anchors are never a chunk apart and         *)
(* segments are paths that share the joints out; the edge pool refuses     *)
(* only what has too many chains, and a radius of half a chunk leaves no   *)
(* joint without an anchor.                                                *)
THEOREM AssignmentCorrect == Spec => []AssignmentSound
<1>1. SoundInv => AssignmentSound
  <2> SUFFICES ASSUME SoundInv PROVE AssignmentSound
    OBVIOUS
  <2>1. ValidInv /\ ChosenInv /\ SegmentInv /\ RefusedInv /\ AcceptsExactlyTrees
    BY DEF SoundInv, AssignInv, ValidInv
  <2>2. PoolFits
    BY <2>1 DEF RefusedInv, PoolFits
  <2>3. SegmentsPartition /\ AnchorSpacing
    BY <2>1, SegmentsHold, SpacingHolds
  <2>4. TypeOK /\ OverflowExact /\ RadiusSuffices
    BY TypeHolds, OverflowHolds, RadiusHolds
  <2> QED BY <2>1, <2>2, <2>3, <2>4 DEF AssignmentSound
<1>2. Spec => []SoundInv
  BY SoundAlways
<1> QED BY <1>1, <1>2, PTL
-----------------------------------------------------------------------------
(* The contracted skeleton.                                                *)

(* A walk of the skeleton is one of the contracted graph, no longer.       *)
LEMMA NearMaps ==
  ASSUME NEW p, NEW n, Tree(p, n), NEW C, NEW h, \A j \in Joints(p) : h[j] \in C,
         NEW M, C \subseteq M, NEW E, E = CoarseAdjacency(Adjacency(p), h, Joints(p), C),
         NEW i \in Joints(p), NEW j \in Joints(p), NEW m \in Nat,
         Near(Adjacency(p), Joints(p), i, j, m)
  PROVE  Near(E, M, h[i], h[j], m)
<1>0. \A x, y : <<x, y>> \in E <=> /\ x \in C /\ y \in C /\ x # y
                                  /\ \E d \in Adjacency(p) : x = h[d[1]] /\ y = h[d[2]]
  <2> DEFINE F == CoarseAdjacency(Adjacency(p), h, Joints(p), C)
  <2>1. \A x, y : <<x, y>> \in F <=> /\ x \in C /\ y \in C /\ x # y
                                    /\ \E d \in Adjacency(p) : x = h[d[1]] /\ y = h[d[2]]
    BY ContractedFacts
  <2>2. \A x, y : <<x, y>> \in E <=> <<x, y>> \in F
    OBVIOUS
  <2> HIDE DEF F
  <2> TAKE x, y
  <2>3. <<x, y>> \in F <=> /\ x \in C /\ y \in C /\ x # y
                          /\ \E d \in Adjacency(p) : x = h[d[1]] /\ y = h[d[2]]
    BY <2>1
  <2> QED BY <2>2, <2>3
<1> DEFINE A == Adjacency(p)
           V == Joints(p)
           G == {l \in Nat : \A x \in V : Near(A, V, i, x, l) => Near(E, M, h[i], h[x], l)}
<1>1. 0 \in G
  <2>1. \A x \in V : Near(A, V, i, x, 0) => i = x
    BY NearZero
  <2>2. Near(E, M, h[i], h[i], 0)
    BY NearZero
  <2> HIDE DEF A, V
  <2> QED BY <2>1, <2>2
<1>2. A \subseteq V \X V
  BY AdjacencyFacts
<1>3. ASSUME NEW l \in Nat, l \in G PROVE l + 1 \in G
  <2> SUFFICES ASSUME NEW x \in V, Near(A, V, i, x, l + 1) PROVE Near(E, M, h[i], h[x], l + 1)
    OBVIOUS
  <2>1. CASE Near(A, V, i, x, l)
    <3>1. Near(E, M, h[i], h[x], l)
      BY <1>3, <2>1
    <3> HIDE DEF A, V
    <3> DEFINE u == h[i]
               v == h[x]
    <3>2. Near(E, M, u, v, l)
      BY <3>1
    <3> HIDE DEF u, v
    <3>3. Near(E, M, u, v, l + 1)
      BY <3>2, NearNext
    <3> QED BY <3>3 DEF u, v
  <2>2. CASE ~ Near(A, V, i, x, l)
    <3>1. PICK y : Near(A, V, i, y, l) /\ <<y, x>> \in A /\ (y = i \/ y \in V)
      <4> HIDE DEF A, V, G
      <4> QED BY <2>2, NearNext
    <3>2. y \in V
      BY <1>2, <3>1
    <3> DEFINE u == h[i]
               v == h[x]
               w == h[y]
    <3>3. Near(E, M, u, w, l) /\ w \in M /\ v \in M /\ w \in C /\ v \in C
      BY <1>3, <3>1, <3>2
    <3>4. w # v => <<w, v>> \in E
      <4> DEFINE e == <<y, x>>
      <4>1. e \in Adjacency(p) /\ w = h[e[1]] /\ v = h[e[2]]
        BY <3>1
      <4> HIDE DEF e, w, v, G, A, V
      <4> QED BY <1>0, <3>3, <4>1
    <3> HIDE DEF u, v, w, G, A, V
    <3>5. Near(E, M, u, v, l + 1)
      BY <3>3, <3>4, NearNext
    <3> QED BY <3>5 DEF u, v
  <2> QED BY <2>1, <2>2
<1>4. \A l \in Nat : l \in G => l + 1 \in G
  BY <1>3
<1> HIDE DEF G
<1>5. m \in G
  BY <1>1, <1>4, Induction
<1> QED BY <1>5 DEF G, A, V

(* No distance of the pooled graph is longer than that of the skeleton it  *)
(* was made from.                                                          *)
LEMMA ContractsHold == AssignInv /\ PooledInv => Contracts
<1> SUFFICES ASSUME AssignInv, PooledInv, pc = "attend", NEW i \in Valid, NEW j \in Valid
             PROVE  dist[<<hard[i], hard[j]>>] <= GeodesicDist(par)[i][j]
  BY DEF Contracts
<1>0. pc \in Settled /\ pc \in Shared /\ pc \in Pooled
  BY DEF Settled, Shared, Pooled
<1>1. PICK n \in 1 .. J : Tree(par, n) /\ n <= Inf /\ Joints(par) = Valid
  BY <1>0, CoarseFacts DEF AssignInv
<1>2. /\ padj = CoarseAdjacency(Adjacency(par), hard, Valid, Coarse)
      /\ dist = Exact(padj, Nodes, Coarse, k) /\ k = Cardinality(Nodes)
  BY <1>0 DEF PooledInv
<1>3. PICK N \in Nat :
         /\ Nodes = 0 .. (N - 1) /\ Cardinality(Nodes) = N /\ Coarse \subseteq Nodes
         /\ IsFiniteSet(Coarse) /\ Cardinality(Coarse) <= Inf
         /\ padj \subseteq Coarse \X Coarse
  BY <1>0, <1>2, PooledFacts
<1>4. \A x \in Valid : hard[x] \in Coarse
  BY <1>0 DEF AssignInv, SharedInv
<1> DEFINE d == GeodesicDist(par)[i][j]
           u == hard[i]
           v == hard[j]
           g == HopsThrough(padj, Coarse, Nodes, u)[v]
<1>5. d \in Nat /\ Near(Adjacency(par), Joints(par), i, j, d)
  BY <1>1, GeodesicIs DEF Shortest
<1>6. Near(padj, Nodes, u, v, d)
  <2> HIDE DEF d
  <2> QED BY <1>1, <1>2, <1>3, <1>4, <1>5, NearMaps
<1>7. u \in Coarse /\ v \in Coarse
  BY <1>4
<1>8. dist[<<u, v>>] = g
  BY <1>2, <1>3, <1>7 DEF Exact
<1> HIDE DEF d, u, v
<1>9. /\ g \in Nat
      /\ (g # Inf => Shortest(padj, Nodes, u, v, g))
      /\ (g = Inf => \A m \in Nat : ~ Near(padj, Nodes, u, v, m))
  BY <1>3, <1>7, HopsType
<1> HIDE DEF g
<1>10. g <= d
  BY <1>5, <1>6, <1>9 DEF Shortest
<1> QED BY <1>8, <1>10 DEF d, u, v

(* With a joint for every coarse node, it is connected.                    *)
LEMMA ContractedConnected ==
  ASSUME NEW p, NEW n, Tree(p, n), NEW C, IsFiniteSet(C), Cardinality(C) <= Inf,
         NEW h, \A j \in Joints(p) : h[j] \in C, \A c \in C : \E j \in Joints(p) : h[j] = c
  PROVE  Connected(CoarseAdjacency(Adjacency(p), h, Joints(p), C), C)
<1> DEFINE E == CoarseAdjacency(Adjacency(p), h, Joints(p), C)
<1>1. E \subseteq C \X C
  BY ContractedFacts
<1>2. E = CoarseAdjacency(Adjacency(p), h, Joints(p), C)
  OBVIOUS
<1> HIDE DEF E
<1>3. ASSUME NEW v \in C, NEW w \in C PROVE Hops(E, C, v)[w] # Inf
  <2>1. PICK i \in Joints(p) : h[i] = v
    OBVIOUS
  <2>2. PICK j \in Joints(p) : h[j] = w
    OBVIOUS
  <2>3. PICK m \in Nat : Near(Adjacency(p), Joints(p), i, j, m)
    BY TreeConnected
  <2>4. Near(E, C, h[i], h[j], m)
    BY <1>2, <2>3, NearMaps
  <2>5. Near(E, C, v, w, m)
    BY <2>1, <2>2, <2>4
  <2> DEFINE g == HopsThrough(E, C, C, v)[w]
  <2>6. g = Inf => \A l \in Nat : ~ Near(E, C, v, w, l)
    BY <1>1, HopsType
  <2> QED BY <2>5, <2>6 DEF Hops
<1> QED BY <1>2, <1>3 DEF Connected

(* A joint whose parent is in another cell.                                *)
IsTop(p, h, i) == i = 0 \/ h[p[i]] # h[i]

(* Two cells are neighbours at the top of one of them.                     *)
LEMMA CellEdges ==
  ASSUME NEW p, NEW n, Tree(p, n), NEW C, NEW h, \A j \in Joints(p) : h[j] \in C,
         NEW E, E = CoarseAdjacency(Adjacency(p), h, Joints(p), C), NEW x, NEW y
  PROVE  <<x, y>> \in E
           <=> \E i \in Joints(p) \ {0} :
                 /\ IsTop(p, h, i)
                 /\ \/ x = h[i] /\ y = h[p[i]]
                    \/ y = h[i] /\ x = h[p[i]]
<1>1. <<x, y>> \in E <=> /\ x \in C /\ y \in C /\ x # y
                         /\ \E d \in Adjacency(p) : x = h[d[1]] /\ y = h[d[2]]
  <2> DEFINE F == CoarseAdjacency(Adjacency(p), h, Joints(p), C)
  <2>1. \A a, b : <<a, b>> \in F <=> /\ a \in C /\ b \in C /\ a # b
                                    /\ \E d \in Adjacency(p) : a = h[d[1]] /\ b = h[d[2]]
    BY ContractedFacts
  <2>2. <<x, y>> \in E <=> <<x, y>> \in F
    OBVIOUS
  <2> HIDE DEF F
  <2> QED BY <2>1, <2>2
<1> HIDE DEF CoarseAdjacency
<1>2. /\ Adjacency(p) \subseteq Joints(p) \X Joints(p)
      /\ \A a, b : <<a, b>> \in Adjacency(p)
                     <=> a \in Joints(p) /\ b \in Joints(p) /\ (p[a] = b \/ p[b] = a)
  BY AdjacencyFacts
<1>3. /\ \A i \in Joints(p) : i # 0 => p[i] \in Joints(p)
      /\ \A i \in Joints(p) : p[i] \in Joints(p) => i # 0
  BY TreeFacts
<1>4. ASSUME <<x, y>> \in E
      PROVE  \E i \in Joints(p) \ {0} : /\ IsTop(p, h, i)
                                        /\ \/ x = h[i] /\ y = h[p[i]]
                                           \/ y = h[i] /\ x = h[p[i]]
  <2>1. x # y
    BY <1>1, <1>4
  <2>2. PICK d \in Adjacency(p) : x = h[d[1]] /\ y = h[d[2]]
    BY <1>1, <1>4
  <2> DEFINE a == d[1]
             b == d[2]
  <2>3. <<a, b>> \in Adjacency(p) /\ x = h[a] /\ y = h[b]
    BY <1>2, <2>2
  <2> HIDE DEF a, b
  <2>4. a \in Joints(p) /\ b \in Joints(p) /\ (p[a] = b \/ p[b] = a)
    BY <1>2, <2>3
  <2>5. CASE p[a] = b
    BY <1>3, <2>1, <2>3, <2>4, <2>5 DEF IsTop
  <2>6. CASE p[b] = a
    BY <1>3, <2>1, <2>3, <2>4, <2>6 DEF IsTop
  <2> QED BY <2>4, <2>5, <2>6
<1>5. ASSUME NEW i \in Joints(p) \ {0}, IsTop(p, h, i),
             \/ x = h[i] /\ y = h[p[i]]
             \/ y = h[i] /\ x = h[p[i]]
      PROVE  <<x, y>> \in E
  <2>1. p[i] \in Joints(p) /\ h[i] \in C /\ h[p[i]] \in C /\ h[i] # h[p[i]]
    BY <1>3, <1>5 DEF IsTop
  <2>2. x \in C /\ y \in C /\ x # y
    BY <1>5, <2>1
  <2>3. <<i, p[i]>> \in Adjacency(p) /\ <<p[i], i>> \in Adjacency(p)
    BY <1>2, <2>1
  <2>4. \E d \in Adjacency(p) : x = h[d[1]] /\ y = h[d[2]]
    <3> DEFINE u == <<i, p[i]>>
               v == <<p[i], i>>
    <3>1. u \in Adjacency(p) /\ u[1] = i /\ u[2] = p[i] /\ v \in Adjacency(p) /\ v[1] = p[i]
              /\ v[2] = i
      BY <2>3
    <3> HIDE DEF u, v
    <3> QED BY <1>5, <3>1
  <2> QED BY <1>1, <2>2, <2>4
<1> QED BY <1>4, <1>5

(* The top of a cell is its lowest joint, and there is one.                *)
LEMMA CellTop ==
  ASSUME NEW p, NEW n, Tree(p, n), NEW h,
         \A i, j \in Joints(p) : IsTop(p, h, i) /\ h[i] = h[j] => i <= j, NEW x \in Joints(p)
  PROVE  \E i \in Joints(p) : /\ h[i] = h[x] /\ IsTop(p, h, i)
                              /\ \A j \in Joints(p) : h[j] = h[x] => i <= j
                              /\ \A j \in Joints(p) : IsTop(p, h, j) /\ h[j] = h[x] => j = i
<1>1. /\ \A i \in Joints(p) : i \in Nat /\ p[i] \in Int
      /\ \A i \in Joints(p) : i # 0 => p[i] \in Joints(p) /\ p[i] < i
  BY TreeFacts
<1> DEFINE S == {i \in Joints(p) : h[i] = h[x]}
<1>2. S \in SUBSET Nat /\ S # {}
  BY <1>1
<1> HIDE DEF S
<1>3. PICK i \in S : \A j \in S : i <= j
  BY <1>2, LeastOf
<1>4. i \in Joints(p) /\ h[i] = h[x] /\ \A j \in Joints(p) : h[j] = h[x] => i <= j
  BY <1>3 DEF S
<1>5. IsTop(p, h, i)
  <2> SUFFICES ASSUME i # 0, h[p[i]] = h[i] PROVE FALSE
    BY DEF IsTop
  <2>1. p[i] \in Joints(p) /\ p[i] < i
    BY <1>1, <1>4
  <2>2. i <= p[i]
    BY <1>4, <2>1
  <2> QED BY <1>1, <1>4, <2>1, <2>2
<1>6. ASSUME NEW j \in Joints(p), IsTop(p, h, j), h[j] = h[x] PROVE j = i
  <2>1. i <= j /\ j <= i
    BY <1>4, <1>6
  <2> QED BY <1>1, <1>4, <2>1
<1> QED BY <1>4, <1>5, <1>6

(* The pairs of a function, and the same turned round.                     *)
PairsOf(R, f)  == {<<x, f[x]>> : x \in R}
TurnedOf(R, f) == {<<f[x], x>> : x \in R}

(* There are as many pairs as first elements.                              *)
LEMMA PairCount ==
  ASSUME NEW R, IsFiniteSet(R), NEW f
  PROVE  /\ IsFiniteSet(PairsOf(R, f)) /\ Cardinality(PairsOf(R, f)) = Cardinality(R)
         /\ IsFiniteSet(TurnedOf(R, f)) /\ Cardinality(TurnedOf(R, f)) = Cardinality(R)
<1> DEFINE U == {<<x, f[x]>> : x \in R}
           D == {<<f[x], x>> : x \in R}
           u == [x \in R |-> <<x, f[x]>>]
           d == [x \in R |-> <<f[x], x>>]
<1>1. u \in Bijection(R, U)
  <2>1. u \in [R -> U]
    OBVIOUS
  <2>2. \A a, b \in R : u[a] = u[b] => a = b
    OBVIOUS
  <2>3. \A y \in U : \E x \in R : u[x] = y
    OBVIOUS
  <2> HIDE DEF U, u
  <2> QED BY <2>1, <2>2, <2>3 DEF Bijection, Injection, Surjection, IsInjective
<1>2. d \in Bijection(R, D)
  <2>1. d \in [R -> D]
    OBVIOUS
  <2>2. \A a, b \in R : d[a] = d[b] => a = b
    OBVIOUS
  <2>3. \A y \in D : \E x \in R : d[x] = y
    OBVIOUS
  <2> HIDE DEF D, d
  <2> QED BY <2>1, <2>2, <2>3 DEF Bijection, Injection, Surjection, IsInjective
<1>6. U = PairsOf(R, f) /\ D = TurnedOf(R, f)
  BY DEF PairsOf, TurnedOf
<1> HIDE DEF U, D, u, d
<1>3. ExistsBijection(R, U) /\ ExistsBijection(R, D)
  BY <1>1, <1>2 DEF ExistsBijection
<1>4. IsFiniteSet(U) /\ Cardinality(U) = Cardinality(R)
  BY <1>3, FS_Bijection
<1>5. IsFiniteSet(D) /\ Cardinality(D) = Cardinality(R)
  BY <1>3, FS_Bijection
<1> QED BY <1>4, <1>5, <1>6

(* Every cell but the root's has one edge upwards, so that the cells make  *)
(* a tree.                                                                 *)
LEMMA CellTree ==
  ASSUME NEW p, NEW n, Tree(p, n), NEW C, IsFiniteSet(C), NEW h, \A j \in Joints(p) : h[j] \in C,
         \A c \in C : \E j \in Joints(p) : h[j] = c,
         \A i, j \in Joints(p) : IsTop(p, h, i) /\ h[i] = h[j] => i <= j,
         NEW E, E = CoarseAdjacency(Adjacency(p), h, Joints(p), C)
  PROVE  Cardinality(E) = 2 * (Cardinality(C) - 1)
<1>0. E \subseteq C \X C
  <2> DEFINE F == CoarseAdjacency(Adjacency(p), h, Joints(p), C)
  <2>1. F \subseteq C \X C
    BY ContractedFacts
  <2>2. E = F
    OBVIOUS
  <2> HIDE DEF F
  <2> QED BY <2>1, <2>2
<1>1. \A x, y : <<x, y>> \in E
           <=> \E i \in Joints(p) \ {0} :
                 /\ IsTop(p, h, i)
                 /\ \/ x = h[i] /\ y = h[p[i]]
                    \/ y = h[i] /\ x = h[p[i]]
  <2> TAKE x, y
  <2> QED BY CellEdges
<1>2. /\ 0 \in Joints(p)
      /\ \A i \in Joints(p) : i \in Nat
      /\ \A i \in Joints(p) : i # 0 => p[i] \in Joints(p) /\ p[i] < i
  BY TreeFacts
<1> DEFINE t == [c \in C |-> CHOOSE i \in Joints(p) : h[i] = c /\ IsTop(p, h, i)]
           f == [c \in C |-> h[p[t[c]]]]
           R == C \ {h[0]}
           U == {<<c, f[c]>> : c \in R}
           D == {<<f[c], c>> : c \in R}
<1>3. ASSUME NEW c \in C
      PROVE  /\ t[c] \in Joints(p) /\ h[t[c]] = c /\ IsTop(p, h, t[c])
             /\ \A j \in Joints(p) : h[j] = c => t[c] <= j
             /\ \A j \in Joints(p) : IsTop(p, h, j) /\ h[j] = c => j = t[c]
  <2>1. PICK x \in Joints(p) : h[x] = c
    OBVIOUS
  <2>2. \E i \in Joints(p) : /\ h[i] = h[x] /\ IsTop(p, h, i)
                             /\ \A j \in Joints(p) : h[j] = h[x] => i <= j
                             /\ \A j \in Joints(p) : IsTop(p, h, j) /\ h[j] = h[x] => j = i
    BY CellTop
  <2>3. PICK i \in Joints(p) : /\ h[i] = c /\ IsTop(p, h, i)
                               /\ \A j \in Joints(p) : h[j] = c => i <= j
                               /\ \A j \in Joints(p) : IsTop(p, h, j) /\ h[j] = c => j = i
    BY <2>1, <2>2
  <2>4. t[c] \in Joints(p) /\ h[t[c]] = c /\ IsTop(p, h, t[c])
    BY <2>3
  <2>5. t[c] = i
    BY <2>3, <2>4
  <2> QED BY <2>3, <2>5
<1>4. \A c \in C : f[c] = h[p[t[c]]]
  OBVIOUS
<1> HIDE DEF t, f
<1>5. \A c \in R : t[c] # 0 /\ p[t[c]] \in Joints(p) /\ p[t[c]] < t[c] /\ f[c] \in C /\ f[c] # c
  <2> TAKE c \in R
  <2>1. t[c] # 0
    BY <1>3
  <2>2. p[t[c]] \in Joints(p) /\ p[t[c]] < t[c]
    BY <1>2, <1>3, <2>1
  <2>3. h[p[t[c]]] # c
    BY <1>3, <2>1 DEF IsTop
  <2> QED BY <1>4, <2>1, <2>2, <2>3
<1>6. \A c \in R : t[f[c]] < t[c]
  <2> TAKE c \in R
  <2> DEFINE q == p[t[c]]
             d == f[c]
  <2>1. q \in Joints(p) /\ d \in C /\ h[q] = d /\ q < t[c] /\ t[c] \in Joints(p)
    BY <1>3, <1>4, <1>5
  <2> HIDE DEF q, d
  <2>2. t[d] <= q /\ t[d] \in Joints(p)
    BY <1>3, <2>1
  <2>3. t[d] < t[c]
    BY <1>2, <2>1, <2>2
  <2> QED BY <2>3 DEF d
<1>7. \A i \in Joints(p) \ {0} : IsTop(p, h, i) => h[i] \in R /\ i = t[h[i]] /\ h[p[i]] = f[h[i]]
  <2> TAKE i \in Joints(p) \ {0}
  <2> HAVE IsTop(p, h, i)
  <2> DEFINE c == h[i]
  <2>1. c \in C /\ i = t[c]
    BY <1>3
  <2>2. c # h[0]
    <3>1. IsTop(p, h, 0)
      BY DEF IsTop
    <3>2. c = h[0] => 0 = t[c]
      BY <1>2, <1>3, <2>1, <3>1
    <3> QED BY <2>1, <3>2
  <2> HIDE DEF c
  <2>3. h[p[i]] = f[c]
    BY <1>4, <2>1
  <2> QED BY <2>1, <2>2, <2>3 DEF c
<1>8. E = U \cup D
  <2>1. ASSUME NEW e \in E PROVE e \in U \cup D
    <3> DEFINE x == e[1]
               y == e[2]
    <3>1. e = <<x, y>>
      BY <1>0
    <3> HIDE DEF x, y
    <3>2. PICK i \in Joints(p) \ {0} : /\ IsTop(p, h, i)
                                       /\ \/ x = h[i] /\ y = h[p[i]]
                                          \/ y = h[i] /\ x = h[p[i]]
      BY <1>1, <3>1
    <3> DEFINE c == h[i]
    <3>3. c \in R /\ h[p[i]] = f[c]
      BY <1>7, <3>2
    <3> HIDE DEF c
    <3>4. (x = c /\ y = f[c]) \/ (y = c /\ x = f[c])
      BY <3>2, <3>3 DEF c
    <3> QED BY <3>1, <3>3, <3>4
  <2>2. ASSUME NEW c \in R PROVE <<c, f[c]>> \in E /\ <<f[c], c>> \in E
    <3> DEFINE i == t[c]
    <3>1. i \in Joints(p) \ {0} /\ IsTop(p, h, i) /\ h[i] = c /\ h[p[i]] = f[c]
      BY <1>3, <1>4, <1>5
    <3> HIDE DEF i
    <3> QED BY <1>1, <3>1
  <2> QED BY <2>1, <2>2
<1>9. U \cap D = {}
  <2> SUFFICES ASSUME NEW a \in R, NEW b \in R, <<a, f[a]>> = <<f[b], b>> PROVE FALSE
    OBVIOUS
  <2>1. a = f[b] /\ b = f[a]
    OBVIOUS
  <2>2. t[b] < t[a] /\ t[a] < t[b] /\ t[a] \in Joints(p) /\ t[b] \in Joints(p)
    BY <1>3, <1>6, <2>1
  <2> QED BY <1>2, <2>2
<1>10. /\ IsFiniteSet(R) /\ Cardinality(R) = Cardinality(C) - 1 /\ Cardinality(C) \in Nat
  <2>1. h[0] \in C
    BY <1>2
  <2> QED BY <2>1, FS_RemoveElement, FS_CardinalityType
<1> HIDE DEF R
<1>11. /\ IsFiniteSet(U) /\ Cardinality(U) = Cardinality(R)
       /\ IsFiniteSet(D) /\ Cardinality(D) = Cardinality(R)
  <2>1. U = PairsOf(R, f) /\ D = TurnedOf(R, f)
    BY DEF PairsOf, TurnedOf
  <2> HIDE DEF U, D, f
  <2> QED BY <1>10, <2>1, PairCount
<1> HIDE DEF U, D
<1>12. Cardinality(U \cup D) = Cardinality(U) + Cardinality(D) - Cardinality(U \cap D)
  BY <1>11, FS_Union
<1>13. Cardinality(U \cap D) = 0
  BY <1>9, FS_EmptySet
<1> QED BY <1>8, <1>10, <1>11, <1>12, <1>13

(* When the numbers grow downwards, a cell has one lower neighbour.        *)
LEMMA CellOrder ==
  ASSUME NEW p, NEW n, Tree(p, n), NEW C \in SUBSET Nat, NEW h, \A j \in Joints(p) : h[j] \in C,
         \A c \in C : \E j \in Joints(p) : h[j] = c,
         \A i, j \in Joints(p) : IsTop(p, h, i) /\ h[i] = h[j] => i <= j,
         h[0] = 0, \A i \in Joints(p) \ {0} : IsTop(p, h, i) => h[p[i]] < h[i],
         NEW E, E = CoarseAdjacency(Adjacency(p), h, Joints(p), C), NEW c \in C \ {0}
  PROVE  Cardinality({d \in Neighbours(E, c) : d < c}) = 1
<1>1. \A x, y : <<x, y>> \in E
           <=> \E i \in Joints(p) \ {0} :
                 /\ IsTop(p, h, i)
                 /\ \/ x = h[i] /\ y = h[p[i]]
                    \/ y = h[i] /\ x = h[p[i]]
  <2> TAKE x, y
  <2> QED BY CellEdges
<1>2. E \subseteq C \X C
  <2> DEFINE F == CoarseAdjacency(Adjacency(p), h, Joints(p), C)
  <2>1. F \subseteq C \X C
    BY ContractedFacts
  <2>2. E = F
    OBVIOUS
  <2> HIDE DEF F
  <2> QED BY <2>1, <2>2
<1>3. PICK x \in Joints(p) : h[x] = c
  OBVIOUS
<1>4. \E i \in Joints(p) : /\ h[i] = h[x] /\ IsTop(p, h, i)
                           /\ \A j \in Joints(p) : h[j] = h[x] => i <= j
                           /\ \A j \in Joints(p) : IsTop(p, h, j) /\ h[j] = h[x] => j = i
  BY CellTop
<1>5. PICK i \in Joints(p) : /\ h[i] = c /\ IsTop(p, h, i)
                             /\ \A j \in Joints(p) : IsTop(p, h, j) /\ h[j] = c => j = i
  BY <1>3, <1>4
<1>6. i # 0 /\ i \in Joints(p) \ {0}
  BY <1>5
<1> DEFINE u == h[p[i]]
<1>7. u < c
  BY <1>5, <1>6
<1>8. \A d : d \in Neighbours(E, c) <=> <<c, d>> \in E
  <2> TAKE d
  <2>1. ASSUME d \in Neighbours(E, c) PROVE <<c, d>> \in E
    <3>1. PICK e \in E : e[1] = c /\ e[2] = d
      BY <2>1 DEF Neighbours
    <3>2. e = <<e[1], e[2]>>
      BY <1>2
    <3> QED BY <3>1, <3>2
  <2>2. ASSUME <<c, d>> \in E PROVE d \in Neighbours(E, c)
    <3> DEFINE e == <<c, d>>
    <3>1. e \in E /\ e[1] = c /\ e[2] = d
      BY <2>2
    <3> HIDE DEF e
    <3> QED BY <3>1 DEF Neighbours
  <2> QED BY <2>1, <2>2
<1>9. u \in Neighbours(E, c)
  <2>1. c = h[i] /\ u = h[p[i]]
    BY <1>5
  <2> HIDE DEF u
  <2>2. <<c, u>> \in E
    BY <1>1, <1>5, <1>6, <2>1
  <2> QED BY <1>8, <2>2
<1>10. ASSUME NEW d \in Neighbours(E, c), d < c PROVE d = u
  <2>1. <<c, d>> \in E
    BY <1>8
  <2>2. PICK j \in Joints(p) \ {0} : /\ IsTop(p, h, j)
                                     /\ \/ c = h[j] /\ d = h[p[j]]
                                        \/ d = h[j] /\ c = h[p[j]]
    BY <1>1, <2>1
  <2>3. CASE c = h[j] /\ d = h[p[j]]
    BY <1>5, <2>2, <2>3
  <2>4. CASE d = h[j] /\ c = h[p[j]]
    <3>1. c < d /\ c \in Nat /\ d \in Nat
      BY <2>2, <2>4
    <3> QED BY <1>10, <3>1
  <2> QED BY <2>2, <2>3, <2>4
<1> HIDE DEF u
<1>11. {d \in Neighbours(E, c) : d < c} = {u}
  BY <1>7, <1>9, <1>10
<1> QED BY <1>11, FS_Singleton

(* One edge of a tree brings a joint one hop nearer to another joint, or   *)
(* farther, and some edge brings it nearer.                                *)
LEMMA GeoStep ==
  ASSUME NEW p, NEW n, Tree(p, n), n <= Inf, NEW x \in Joints(p), NEW a \in Joints(p)
  PROVE  /\ GeodesicDist(p)[x][a] \in Nat
         /\ GeodesicDist(p)[x][a] = 0 <=> x = a
         /\ \A y : <<x, y>> \in Adjacency(p) =>
                     GeodesicDist(p)[y][a] <= GeodesicDist(p)[x][a] + 1
         /\ x # a => \E y \in Joints(p) : /\ <<x, y>> \in Adjacency(p)
                                          /\ GeodesicDist(p)[y][a] + 1 = GeodesicDist(p)[x][a]
<1> DEFINE A == Adjacency(p)
           V == Joints(p)
           g == [y \in V |-> GeodesicDist(p)[y][a]]
<1>1. \A y \in V : g[y] = GeodesicDist(p)[y][a]
  OBVIOUS
<1>2. \A y \in V : g[y] \in Nat /\ Shortest(A, V, y, a, g[y])
  <2> TAKE y \in V
  <2>1. GeodesicDist(p)[y][a] \in 0 .. (n - 1) /\ Shortest(A, V, y, a, GeodesicDist(p)[y][a])
    BY GeodesicIs
  <2>2. GeodesicDist(p)[y][a] \in Nat
    BY <2>1
  <2> QED BY <1>1, <2>1, <2>2
<1>3. A \subseteq V \X V /\ \A u, v : <<u, v>> \in A => <<v, u>> \in A
  <2>1. \A e \in A : <<e[2], e[1]>> \in A
    BY AdjacencyFacts
  <2>2. A \subseteq V \X V
    BY AdjacencyFacts
  <2>3. ASSUME NEW u, NEW v, <<u, v>> \in A PROVE <<v, u>> \in A
    <3> DEFINE e == <<u, v>>
    <3>1. e \in A /\ e[1] = u /\ e[2] = v
      BY <2>3
    <3> HIDE DEF e, A
    <3> QED BY <2>1, <3>1
  <2> QED BY <2>2, <2>3
<1>4. \A y, z \in V : \A m \in Nat : Near(A, V, y, z, m) => Near(A, V, z, y, m)
  <2>1. \A e \in A : <<e[2], e[1]>> \in A
    BY AdjacencyFacts
  <2> HIDE DEF A, V
  <2> QED BY <1>3, <2>1, NearBack
<1> HIDE DEF A, V, g
<1>5. x \in V /\ a \in V
  BY DEF V
<1>6. \A y \in V : /\ Near(A, V, a, y, g[y])
                   /\ \A m \in Nat : Near(A, V, a, y, m) => g[y] <= m
  BY <1>2, <1>4, <1>5 DEF Shortest
<1>7. \A y \in V : g[y] = 0 <=> y = a
  <2> TAKE y \in V
  <2>1. g[y] = 0 => y = a
    BY <1>6, NearZero
  <2>2. y = a => Near(A, V, a, y, 0)
    BY NearZero
  <2>3. y = a => g[y] <= 0
    BY <1>6, <2>2
  <2> QED BY <1>2, <2>1, <2>3
<1>8. \A y, z \in V : <<y, z>> \in A => g[z] <= g[y] + 1
  <2> TAKE y, z \in V
  <2> HAVE <<y, z>> \in A
  <2> DEFINE m == g[y]
  <2>1. m \in Nat /\ Near(A, V, a, y, m)
    BY <1>2, <1>6
  <2> HIDE DEF m
  <2>2. Near(A, V, a, z, m + 1)
    BY <2>1, NearNext
  <2>3. m + 1 \in Nat
    BY <2>1
  <2>4. g[z] <= m + 1
    BY <1>6, <2>2, <2>3
  <2> QED BY <2>4 DEF m
<1>9. ASSUME x # a PROVE \E y \in V : <<x, y>> \in A /\ g[y] + 1 = g[x]
  <2> DEFINE m == g[x] - 1
  <2>1. m \in Nat /\ m + 1 = g[x]
    BY <1>2, <1>5, <1>7, <1>9
  <2> HIDE DEF m
  <2>2. Near(A, V, a, x, m + 1) /\ ~ Near(A, V, a, x, m)
    <3>1. Near(A, V, a, x, m + 1)
      BY <1>5, <1>6, <2>1
    <3>2. Near(A, V, a, x, m) => g[x] <= m
      BY <1>5, <1>6, <2>1
    <3>3. ~ (g[x] <= m)
      BY <2>1
    <3> QED BY <3>1, <3>2, <3>3
  <2>3. PICK y : Near(A, V, a, y, m) /\ <<y, x>> \in A
    BY <2>1, <2>2, NearNext
  <2>4. y \in V
    BY <1>3, <2>3
  <2>5. <<x, y>> \in A
    BY <1>3, <2>3
  <2>6. g[y] <= m /\ g[x] <= g[y] + 1 /\ g[y] \in Nat
    BY <1>2, <1>5, <1>6, <1>8, <2>1, <2>3, <2>4
  <2>7. g[y] + 1 = g[x]
    BY <2>1, <2>6
  <2> QED BY <2>4, <2>5, <2>7
<1>10. \A y : <<x, y>> \in A => y \in V
  BY <1>3
<1>11. \A y : <<x, y>> \in A => g[y] <= g[x] + 1
  BY <1>5, <1>8, <1>10
<1>12. g[x] \in Nat /\ (g[x] = 0 <=> x = a)
  BY <1>2, <1>5, <1>7
<1>13. \A y \in V : GeodesicDist(p)[y][a] = g[y]
  BY <1>1
<1> HIDE DEF GeodesicDist
<1> QED BY <1>5, <1>9, <1>10, <1>11, <1>12, <1>13 DEF A, V

(* Every joint is in the cell of its nearest anchor, the lowest one when   *)
(* several are as near; at[c] is the anchor of cell c.                     *)
Voronoi(p, at, C, h) ==
  /\ \A c \in C : c \in Nat /\ at[c] \in Joints(p)
  /\ \A c, d \in C : c # d => at[c] # at[d]
  /\ \A x \in Joints(p) :
       /\ h[x] \in C
       /\ \A d \in C : \/ GeodesicDist(p)[x][at[h[x]]] < GeodesicDist(p)[x][at[d]]
                       \/ /\ GeodesicDist(p)[x][at[h[x]]] = GeodesicDist(p)[x][at[d]]
                          /\ h[x] <= d

(* An anchor is in its own cell, and from another joint of the cell an     *)
(* edge within the cell leads nearer to the anchor.                        *)
LEMMA VoronoiStep ==
  ASSUME NEW p, NEW n, Tree(p, n), n <= Inf, NEW at, NEW C, NEW h, Voronoi(p, at, C, h)
  PROVE  /\ \A c \in C : h[at[c]] = c
         /\ \A x \in Joints(p) : x # at[h[x]] =>
              \E y \in Joints(p) :
                /\ <<x, y>> \in Adjacency(p) /\ h[y] = h[x]
                /\ GeodesicDist(p)[y][at[h[x]]] + 1 = GeodesicDist(p)[x][at[h[x]]]
<1> DEFINE G(x, c) == GeodesicDist(p)[x][at[c]]
           V == Joints(p)
<1>1. /\ \A c \in C : c \in Nat /\ at[c] \in V
      /\ \A c, d \in C : c # d => at[c] # at[d]
      /\ \A x \in V : h[x] \in C
      /\ \A x \in V : \A d \in C : G(x, h[x]) < G(x, d) \/ (G(x, h[x]) = G(x, d) /\ h[x] <= d)
  BY DEF Voronoi
<1>2. \A x \in V : \A c \in C :
        /\ G(x, c) \in Nat /\ (G(x, c) = 0 <=> x = at[c])
        /\ \A y : <<x, y>> \in Adjacency(p) => G(y, c) <= G(x, c) + 1
        /\ x # at[c] => \E y \in V : <<x, y>> \in Adjacency(p) /\ G(y, c) + 1 = G(x, c)
  <2> TAKE x \in V
  <2> TAKE c \in C
  <2> DEFINE a == at[c]
  <2>1. a \in Joints(p)
    BY <1>1
  <2> HIDE DEF a
  <2>2. /\ GeodesicDist(p)[x][a] \in Nat
        /\ GeodesicDist(p)[x][a] = 0 <=> x = a
        /\ \A y : <<x, y>> \in Adjacency(p) =>
                    GeodesicDist(p)[y][a] <= GeodesicDist(p)[x][a] + 1
        /\ x # a => \E y \in Joints(p) : /\ <<x, y>> \in Adjacency(p)
                                         /\ GeodesicDist(p)[y][a] + 1 = GeodesicDist(p)[x][a]
    BY <2>1, GeoStep
  <2> QED BY <2>2 DEF a
<1>3. \A x, y : <<x, y>> \in Adjacency(p) => <<y, x>> \in Adjacency(p)
  <2>1. \A x, y : <<x, y>> \in Adjacency(p)
                        <=> x \in Joints(p) /\ y \in Joints(p) /\ (p[x] = y \/ p[y] = x)
    BY AdjacencyFacts
  <2> QED BY <2>1
<1> HIDE DEF G, V
<1>4. ASSUME NEW c \in C PROVE h[at[c]] = c
  <2> DEFINE x == at[c]
             e == h[x]
  <2>1. x \in V /\ e \in C /\ G(x, c) = 0 /\ G(x, e) \in Nat
    BY <1>1, <1>2
  <2>2. G(x, e) < G(x, c) \/ G(x, e) = G(x, c)
    BY <1>1, <2>1
  <2>3. G(x, e) = 0
    BY <2>1, <2>2
  <2>4. x = at[e]
    BY <1>2, <2>1, <2>3
  <2> QED BY <1>1, <2>1, <2>4
<1>5. ASSUME NEW x \in V, x # at[h[x]]
      PROVE  \E y \in V : <<x, y>> \in Adjacency(p) /\ h[y] = h[x] /\ G(y, h[x]) + 1 = G(x, h[x])
  <2> DEFINE c == h[x]
  <2>1. c \in C /\ x # at[c]
    BY <1>1, <1>5
  <2>2. PICK y \in V : <<x, y>> \in Adjacency(p) /\ G(y, c) + 1 = G(x, c)
    BY <1>2, <2>1
  <2> DEFINE e == h[y]
  <2>3. e \in C /\ <<y, x>> \in Adjacency(p)
    BY <1>1, <1>3, <2>2
  <2>4. G(x, c) < G(x, e) \/ (G(x, c) = G(x, e) /\ c <= e)
    BY <1>1, <2>3
  <2>5. G(y, e) < G(y, c) \/ (G(y, e) = G(y, c) /\ e <= c)
    BY <1>1, <2>1
  <2> HIDE DEF c, e
  <2>6. G(x, e) <= G(y, e) + 1
    BY <1>2, <2>2, <2>3
  <2>7. /\ G(x, c) \in Nat /\ G(x, e) \in Nat /\ G(y, c) \in Nat /\ G(y, e) \in Nat
        /\ c \in Nat /\ e \in Nat
    BY <1>1, <1>2, <2>1, <2>2, <2>3
  <2>8. c = e
    BY <2>2, <2>4, <2>5, <2>6, <2>7
  <2> QED BY <2>2, <2>8 DEF c, e
<1> QED BY <1>4, <1>5 DEF G, V

(* The top of a cell is above all of it.                                   *)
LEMMA VoronoiTop ==
  ASSUME NEW p, NEW n, Tree(p, n), n <= Inf, NEW at, NEW C, NEW h, Voronoi(p, at, C, h),
         NEW i \in Joints(p), IsTop(p, h, i), NEW j \in Joints(p), h[j] = h[i]
  PROVE  i <= j
<1> DEFINE c == h[i]
           a == at[c]
           D == {x \in Joints(p) : \E m \in Nat : Climb(p, x, i, m)}
           g == [x \in Joints(p) |-> GeodesicDist(p)[x][a]]
<1>1. /\ \A d \in C : h[at[d]] = d
      /\ \A x \in Joints(p) : x # at[h[x]] =>
              \E y \in Joints(p) :
                /\ <<x, y>> \in Adjacency(p) /\ h[y] = h[x]
                /\ GeodesicDist(p)[y][at[h[x]]] + 1 = GeodesicDist(p)[x][at[h[x]]]
  BY VoronoiStep
<1>2. c \in C /\ a \in Joints(p) /\ c = h[i] /\ a = at[c] /\ h[j] = c
  BY DEF Voronoi
<1>3. \A x \in Joints(p) : g[x] \in Nat
  <2> TAKE x \in Joints(p)
  <2> HIDE DEF a
  <2>1. GeodesicDist(p)[x][a] \in Nat
    BY <1>2, GeoStep
  <2> QED BY <2>1
<1>4. \A x \in Joints(p) : h[x] = c /\ x # a =>
        \E y \in Joints(p) : <<x, y>> \in Adjacency(p) /\ h[y] = c /\ g[y] + 1 = g[x]
  <2>1. \A x \in Joints(p) : g[x] = GeodesicDist(p)[x][a]
    OBVIOUS
  <2> HIDE DEF g, c
  <2> TAKE x \in Joints(p)
  <2> HAVE h[x] = c /\ x # a
  <2>2. at[h[x]] = a
    OBVIOUS
  <2> HIDE DEF a
  <2>3. PICK y \in Joints(p) :
           /\ <<x, y>> \in Adjacency(p) /\ h[y] = h[x]
           /\ GeodesicDist(p)[y][at[h[x]]] + 1 = GeodesicDist(p)[x][at[h[x]]]
    BY <1>1, <2>2
  <2>4. g[y] + 1 = g[x]
    BY <2>1, <2>2, <2>3
  <2> QED BY <2>3, <2>4
<1>5. /\ \A x, y : <<x, y>> \in Adjacency(p)
                     <=> x \in Joints(p) /\ y \in Joints(p) /\ (p[x] = y \/ p[y] = x)
  BY AdjacencyFacts
<1>6. /\ \A x \in Joints(p) : x # 0 => p[x] \in Joints(p)
      /\ \A x \in Joints(p) : p[x] \in Joints(p) => x # 0
      /\ \A x \in Joints(p) : x \in Nat
  BY TreeFacts
<1> HIDE DEF c, a, g
<1>7. i \in D /\ \A x \in D : i <= x
  <2>1. Climb(p, i, i, 0)
    BY ClimbNone
  <2>2. ASSUME NEW x \in D PROVE i <= x
    <3>1. PICK m \in Nat : Climb(p, x, i, m)
      OBVIOUS
    <3>2. i + m <= x
      BY <3>1, ClimbOne
    <3> QED BY <1>6, <3>2
  <2> QED BY <2>1, <2>2
<1>8. ASSUME NEW x \in D, NEW y \in Joints(p), p[y] = x PROVE y \in D
  <2>1. PICK m \in Nat : Climb(p, x, i, m)
    OBVIOUS
  <2>2. y # 0
    BY <1>6, <1>8
  <2>3. Climb(p, y, i, m + 1)
    BY <1>8, <2>1, <2>2, ClimbFirst
  <2>4. m + 1 \in Nat
    OBVIOUS
  <2> QED BY <2>3, <2>4
<1>9. ASSUME NEW x \in D, x # i PROVE p[x] \in D
  <2>1. PICK m \in Nat : Climb(p, x, i, m)
    OBVIOUS
  <2>2. m # 0
    BY <1>9, <2>1, ClimbNone
  <2> DEFINE l == m - 1
  <2>3. l \in Nat /\ l + 1 = m
    BY <2>2
  <2> HIDE DEF l
  <2>4. Climb(p, x, i, l + 1)
    BY <2>1, <2>3
  <2>5. x # 0 /\ Climb(p, p[x], i, l)
    BY <2>3, <2>4, ClimbFirst
  <2> QED BY <1>6, <2>3, <2>5
<1> HIDE DEF D
<1>10. D \subseteq Joints(p)
  BY DEF D
<1>11. ASSUME NEW x \in D, NEW y, <<x, y>> \in Adjacency(p), h[x] = c, h[y] = c PROVE y \in D
  <2>1. x \in Joints(p) /\ y \in Joints(p) /\ (p[x] = y \/ p[y] = x)
    BY <1>5, <1>11
  <2>2. CASE p[y] = x
    BY <1>8, <2>1, <2>2
  <2>3. CASE p[x] = y
    <3>1. x # i
      BY <1>2, <1>6, <1>11, <2>1, <2>3 DEF IsTop
    <3> QED BY <1>9, <2>3, <3>1
  <2> QED BY <2>1, <2>2, <2>3
<1>12. \A x, y : <<x, y>> \in Adjacency(p) => <<y, x>> \in Adjacency(p)
  BY <1>5
<1> DEFINE G == {m \in Nat : \A x \in Joints(p) : h[x] = c /\ g[x] = m => (x \in D <=> a \in D)}
<1>13. ASSUME NEW m \in Nat, \A l \in 0 .. (m - 1) : l \in G PROVE m \in G
  <2> SUFFICES ASSUME NEW x \in Joints(p), h[x] = c, g[x] = m, x # a PROVE x \in D <=> a \in D
    OBVIOUS
  <2>1. PICK y \in Joints(p) : <<x, y>> \in Adjacency(p) /\ h[y] = c /\ g[y] + 1 = g[x]
    BY <1>4
  <2>2. g[y] \in 0 .. (m - 1)
    BY <1>3, <2>1
  <2>3. y \in D <=> a \in D
    BY <1>13, <2>1, <2>2
  <2>4. x \in D <=> y \in D
    BY <1>11, <1>12, <2>1
  <2> QED BY <2>3, <2>4
<1>14. \A m \in Nat : m \in G
  <2> HIDE DEF G
  <2> QED BY <1>13, StrongInduction
<1>15. \A x \in Joints(p) : h[x] = c => (x \in D <=> a \in D)
  BY <1>3, <1>14
<1>16. j \in D
  BY <1>2, <1>7, <1>15
<1> QED BY <1>7, <1>16

(* With the rules' anchors, numbered in ascending order, a cell hangs      *)
(* below one with a lower number.                                          *)
LEMMA VoronoiRise ==
  ASSUME NEW p, NEW n, Tree(p, n), n <= Inf, NEW at, NEW C, NEW h, Voronoi(p, at, C, h),
         \A c, d \in C : c < d => at[c] < at[d],
         \A x \in RuleAnchors(p) : \E c \in C : at[c] = x,
         NEW i \in Joints(p), i # 0, IsTop(p, h, i)
  PROVE  h[p[i]] < h[i]
<1> DEFINE q == p[i]
           e == h[q]
           c == h[i]
           a == at[e]
           g == [x \in Joints(p) |-> GeodesicDist(p)[x][a]]
<1>1. /\ \A d \in C : h[at[d]] = d
      /\ \A x \in Joints(p) : x # at[h[x]] =>
              \E y \in Joints(p) :
                /\ <<x, y>> \in Adjacency(p) /\ h[y] = h[x]
                /\ GeodesicDist(p)[y][at[h[x]]] + 1 = GeodesicDist(p)[x][at[h[x]]]
  BY VoronoiStep
<1>2. /\ \A x \in Joints(p) : x # 0 => p[x] \in Joints(p) /\ p[x] < x
      /\ \A x \in Joints(p) : p[x] \in Joints(p) => x # 0
      /\ \A x \in Joints(p) : x \in Nat
      /\ IsFiniteSet(Joints(p))
  BY TreeFacts
<1>3. /\ q \in Joints(p) /\ q < i /\ e \in C /\ c \in C /\ e # c
      /\ a \in Joints(p) /\ a = at[e] /\ at[c] \in Joints(p)
  BY <1>2 DEF Voronoi, IsTop
<1>4. /\ \A x, y : <<x, y>> \in Adjacency(p)
                     <=> x \in Joints(p) /\ y \in Joints(p) /\ (p[x] = y \/ p[y] = x)
  BY AdjacencyFacts
<1>5. \A x \in Joints(p) : g[x] \in Nat
  <2> TAKE x \in Joints(p)
  <2>0. a \in Joints(p)
    BY <1>3
  <2> HIDE DEF a
  <2>1. GeodesicDist(p)[x][a] \in Nat
    BY <2>0, GeoStep
  <2> QED BY <2>1
<1>6. \A x \in Joints(p) : h[x] = e /\ x # a =>
        \E y \in Joints(p) : <<x, y>> \in Adjacency(p) /\ h[y] = e /\ g[y] + 1 = g[x]
  <2>1. \A x \in Joints(p) : g[x] = GeodesicDist(p)[x][a]
    OBVIOUS
  <2> HIDE DEF g, e
  <2> TAKE x \in Joints(p)
  <2> HAVE h[x] = e /\ x # a
  <2>2. at[h[x]] = a
    OBVIOUS
  <2> HIDE DEF a
  <2>3. PICK y \in Joints(p) :
           /\ <<x, y>> \in Adjacency(p) /\ h[y] = h[x]
           /\ GeodesicDist(p)[y][at[h[x]]] + 1 = GeodesicDist(p)[x][at[h[x]]]
    BY <1>1, <2>2
  <2>4. g[y] + 1 = g[x]
    BY <2>1, <2>2, <2>3
  <2> QED BY <2>3, <2>4
<1>7. i <= at[c]
  <2>1. h[at[c]] = h[i]
    BY <1>1, <1>3
  <2> QED BY <1>3, <2>1, VoronoiTop
<1>8. h[i] = c /\ h[q] = e /\ p[i] = q
  OBVIOUS
<1> HIDE DEF q, e, c, a, g
<1> DEFINE G == {m \in Nat : \A x \in Joints(p) :
                   (/\ h[x] = e /\ g[x] = m
                    /\ \E y \in Children(p, x) : ~ (h[y] = e /\ g[y] < m)) => a <= x}
<1>9. ASSUME NEW m \in Nat, \A l \in 0 .. (m - 1) : l \in G PROVE m \in G
  <2> SUFFICES ASSUME NEW x \in Joints(p), h[x] = e, g[x] = m,
                      NEW y \in Children(p, x), ~ (h[y] = e /\ g[y] < m)
               PROVE  a <= x
    OBVIOUS
  <2>1. CASE x = a
    BY <1>2, <2>1
  <2>2. CASE x # a
    <3>1. PICK z \in Joints(p) : <<x, z>> \in Adjacency(p) /\ h[z] = e /\ g[z] + 1 = g[x]
      BY <1>6, <2>2
    <3>2. g[z] \in 0 .. (m - 1) /\ g[z] \in Nat /\ g[z] < m
      BY <1>5, <3>1
    <3>3. x \notin RuleAnchors(p)
      <4> SUFFICES ASSUME x \in RuleAnchors(p) PROVE FALSE
        OBVIOUS
      <4>1. PICK d \in C : at[d] = x
        OBVIOUS
      <4>2. d = e
        BY <1>1, <4>1
      <4> QED BY <1>3, <2>2, <4>1, <4>2
    <3>4. Cardinality(Children(p, x)) = 1 /\ p[x] # -1
      BY <3>3 DEF RuleAnchors
    <3>5. IsFiniteSet(Children(p, x))
      BY <1>2, FS_Subset DEF Children
    <3>6. PICK w : Children(p, x) = {w}
      BY <3>4, <3>5, FS_Singleton
    <3>7. p[z] # x
      <4> SUFFICES ASSUME p[z] = x PROVE FALSE
        OBVIOUS
      <4>1. z \in Children(p, x)
        BY DEF Children
      <4>2. z = y
        BY <3>6, <4>1
      <4> QED BY <3>1, <3>2, <4>2
    <3>8. p[x] = z /\ x # 0 /\ z < x
      BY <1>2, <1>4, <3>1, <3>7
    <3>9. x \in Children(p, z)
      BY <3>8 DEF Children
    <3>10. ~ (g[x] < g[z])
      BY <3>1, <3>2
    <3>11. a <= z
      BY <1>9, <3>1, <3>2, <3>9, <3>10
    <3> QED BY <1>2, <1>3, <3>8, <3>11
  <2> QED BY <2>1, <2>2
<1>10. \A m \in Nat : m \in G
  <2> HIDE DEF G
  <2> QED BY <1>9, StrongInduction
<1>11. i \in Children(p, q)
  BY <1>8 DEF Children
<1>12. a <= q
  <2>1. g[q] \in Nat /\ h[i] # e
    BY <1>3, <1>5, <1>8
  <2> QED BY <1>3, <1>8, <1>10, <1>11, <2>1
<1>13. at[e] < at[c]
  BY <1>2, <1>3, <1>7, <1>12
<1>14. ~ (c < e)
  <2>1. c < e => at[c] < at[e]
    BY <1>3
  <2> QED BY <1>2, <1>3, <1>13, <2>1
<1>15. c \in Nat /\ e \in Nat
  BY <1>3 DEF Voronoi
<1>16. e < c
  BY <1>3, <1>14, <1>15
<1> QED BY <1>8, <1>16

(* Every coarse node has a joint, its lowest is above the others, and,     *)
(* where the numbers matter, it hangs below a coarse node of lower number. *)
Celled(p, C, h) ==
  /\ \A c \in C : \E j \in Joints(p) : h[j] = c
  /\ \A i, j \in Joints(p) : IsTop(p, h, i) /\ h[i] = h[j] => i <= j

Rising(p, h) ==
  h[0] = 0 /\ \A i \in Joints(p) \ {0} : IsTop(p, h, i) => h[p[i]] < h[i]

(* Every joint a coarse node of its own.                                   *)
LEMMA CelledNone ==
  ASSUME NEW p, NEW n, Tree(p, n), NEW C, C = Joints(p), NEW h, \A j \in Joints(p) : h[j] = j
  PROVE  Celled(p, C, h) /\ Rising(p, h)
<1>1. /\ 0 \in Joints(p) /\ \A i \in Joints(p) : i \in Nat
      /\ \A i \in Joints(p) : i # 0 => p[i] \in Joints(p) /\ p[i] < i
  BY TreeFacts
<1>2. Celled(p, C, h)
  BY <1>1 DEF Celled
<1>3. Rising(p, h)
  BY <1>1 DEF Rising
<1> QED BY <1>2, <1>3

(* The segments: a joint is the top of its segment when it is its first.   *)
LEMMA CelledSegments ==
  ASSUME NEW p, NEW n, Tree(p, n), NEW s, NEW id, SegInv(p, s, id, <<>>),
         NEW C, C = 0 .. (Len(s) - 1),
         NEW h, \A j \in Joints(p) : h[j] \in C /\ j \in ElementsOf(s[h[j] + 1])
  PROVE  Celled(p, C, h) /\ Rising(p, h)
<1> DEFINE L == Len(s)
<1>1. /\ L \in Nat /\ L >= 1 /\ s[1] = <<0>>
      /\ \A a \in 2 .. L : \E b \in 1 .. (a - 1) : p[s[a][1]] \in ElementsOf(s[b])
  BY SMTT(30) DEF SegInv, Hanging
<1>2. \A a \in 1 .. L : /\ s[a] \in Seq(Joints(p)) /\ Len(s[a]) >= 1
                        /\ \A i \in 1 .. (Len(s[a]) - 1) : p[s[a][i + 1]] = s[a][i]
  BY DEF SegInv, Paths
<1>3. \A a, b \in 1 .. L : a # b => ElementsOf(s[a]) \cap ElementsOf(s[b]) = {}
  BY DEF SegInv, Apart
<1>4. /\ 0 \in Joints(p) /\ \A i \in Joints(p) : i \in Nat
      /\ \A i \in Joints(p) : i # 0 => p[i] \in Joints(p) /\ p[i] < i
  BY TreeFacts
<1>5. C = 0 .. (L - 1)
  OBVIOUS
<1> HIDE DEF L
<1>6. ASSUME NEW a \in 1 .. L, NEW j \in ElementsOf(s[a]) PROVE j \in Joints(p) /\ h[j] = a - 1
  <2>1. j \in Joints(p)
    BY <1>2 DEF ElementsOf
  <2> DEFINE b == h[j] + 1
  <2>2. h[j] \in C /\ j \in ElementsOf(s[b])
    BY <2>1
  <2>3. b \in 1 .. L /\ h[j] = b - 1
    BY <1>1, <1>5, <2>2
  <2> HIDE DEF b
  <2>4. a = b
    BY <1>3, <2>2, <2>3
  <2> QED BY <2>1, <2>3, <2>4
<1>7. ASSUME NEW a \in 1 .. L PROVE s[a][1] \in ElementsOf(s[a]) /\ s[a][1] \in Joints(p)
  <2>1. s[a] \in Seq(Joints(p)) /\ 1 \in 1 .. Len(s[a])
    BY <1>2
  <2> QED BY <2>1 DEF ElementsOf
<1>8. ASSUME NEW i \in Joints(p), IsTop(p, h, i)
      PROVE  \E a \in 1 .. L : a = h[i] + 1 /\ h[i] = a - 1 /\ i = s[a][1]
  <2> DEFINE a == h[i] + 1
  <2>1. h[i] \in C /\ i \in ElementsOf(s[a])
    OBVIOUS
  <2>2. a \in 1 .. L /\ h[i] = a - 1 /\ a = h[i] + 1
    BY SMTT(30), <1>1, <1>5, <2>1
  <2> HIDE DEF a
  <2>3. PICK m \in 1 .. Len(s[a]) : s[a][m] = i
    BY <2>1 DEF ElementsOf
  <2>4. m = 1
    <3> SUFFICES ASSUME m # 1 PROVE FALSE
      OBVIOUS
    <3>0. s[a] \in Seq(Joints(p)) /\ Len(s[a]) \in Nat
      BY <1>2, <2>2
    <3> DEFINE l == m - 1
    <3>1. l \in 1 .. (Len(s[a]) - 1) /\ l + 1 = m /\ l \in 1 .. Len(s[a])
      BY <3>0
    <3> HIDE DEF l
    <3>2. p[i] = s[a][l]
      BY <1>2, <2>2, <2>3, <3>1
    <3>3. p[i] \in ElementsOf(s[a])
      BY <3>1, <3>2 DEF ElementsOf
    <3>4. p[i] \in Joints(p) /\ h[p[i]] = h[i]
      BY <1>6, <2>2, <3>3
    <3>5. i # 0
      BY <3>4, TreeFacts
    <3>6. i = 0 \/ h[p[i]] # h[i]
      BY <1>8 DEF IsTop
    <3>7. h[p[i]] = h[i]
      BY <3>4
    <3> QED BY <3>5, <3>6, <3>7
  <2> QED BY <2>2, <2>3, <2>4
<1>9. \A c \in C : \E j \in Joints(p) : h[j] = c
  <2> TAKE c \in C
  <2> DEFINE a == c + 1
  <2>1. a \in 1 .. L /\ a - 1 = c
    BY <1>1, <1>5
  <2> HIDE DEF a
  <2>2. h[s[a][1]] = a - 1 /\ s[a][1] \in Joints(p)
    BY <1>6, <1>7, <2>1
  <2> QED BY <2>1, <2>2
<1>10. ASSUME NEW i \in Joints(p), NEW j \in Joints(p), IsTop(p, h, i), h[i] = h[j] PROVE i <= j
  <2> DEFINE S == {x \in Joints(p) : h[x] = h[j]}
  <2>1. S \in SUBSET Nat /\ S # {}
    BY <1>4
  <2> HIDE DEF S
  <2>2. PICK l \in S : \A x \in S : l <= x
    BY <2>1, LeastOf
  <2>3. l \in Joints(p) /\ h[l] = h[j] /\ l <= j
    BY <2>2 DEF S
  <2>4. IsTop(p, h, l)
    <3> SUFFICES ASSUME l # 0, h[p[l]] = h[l] PROVE FALSE
      BY DEF IsTop
    <3>1. p[l] \in Joints(p) /\ p[l] < l
      BY <1>4, <2>3
    <3>2. l <= p[l]
      BY <2>2, <2>3, <3>1 DEF S
    <3> QED BY <1>4, <2>3, <3>1, <3>2
  <2>5. PICK a \in 1 .. L : a = h[i] + 1 /\ i = s[a][1]
    BY <1>8, <1>10
  <2>6. PICK b \in 1 .. L : b = h[l] + 1 /\ l = s[b][1]
    BY <1>8, <2>3, <2>4
  <2>7. i = l
    BY <1>10, <2>3, <2>5, <2>6
  <2> QED BY <2>3, <2>7
<1>11. h[0] = 0
  <2>1. 0 \in ElementsOf(s[1]) /\ 1 \in 1 .. L
    BY <1>1 DEF ElementsOf
  <2>2. h[0] = 1 - 1
    BY <1>6, <2>1
  <2> QED BY <2>2
<1>12. ASSUME NEW i \in Joints(p) \ {0}, IsTop(p, h, i) PROVE h[p[i]] < h[i]
  <2>1. PICK a \in 1 .. L : h[i] = a - 1 /\ i = s[a][1]
    BY <1>8, <1>12
  <2>2. a # 1
    BY <1>1, <2>1
  <2>3. a \in 2 .. L
    BY <2>2
  <2>4. PICK b \in 1 .. (a - 1) : p[s[a][1]] \in ElementsOf(s[b])
    BY <1>1, <2>3
  <2>5. b \in 1 .. L /\ b < a
    BY <1>1
  <2>6. h[p[i]] = b - 1
    BY <1>6, <2>1, <2>4, <2>5
  <2> QED BY <2>1, <2>5, <2>6
<1> QED BY <1>9, <1>10, <1>11, <1>12 DEF Celled, Rising

(* The nearest anchors.                                                    *)
LEMMA CelledAnchors ==
  ASSUME NEW p, NEW n, Tree(p, n), n <= Inf, NEW at, NEW C, NEW h, Voronoi(p, at, C, h)
  PROVE  /\ Celled(p, C, h)
         /\ (/\ \A c, d \in C : c < d => at[c] < at[d]
             /\ \A x \in RuleAnchors(p) : \E c \in C : at[c] = x
             /\ 0 \in C /\ \E c \in C : at[c] = 0) => Rising(p, h)
<1>1. \A c \in C : h[at[c]] = c /\ at[c] \in Joints(p) /\ c \in Nat /\ at[c] \in Nat
  <2>1. \A c \in C : h[at[c]] = c
    BY VoronoiStep
  <2>2. \A c \in C : at[c] \in Joints(p) /\ c \in Nat
    BY DEF Voronoi
  <2>3. \A x \in Joints(p) : x \in Nat
    BY TreeFacts
  <2> QED BY <2>1, <2>2, <2>3
<1>2. \A i, j \in Joints(p) : IsTop(p, h, i) /\ h[i] = h[j] => i <= j
  BY VoronoiTop
<1>3. Celled(p, C, h)
  BY <1>1, <1>2 DEF Celled
<1>4. ASSUME \A c, d \in C : c < d => at[c] < at[d],
             \A x \in RuleAnchors(p) : \E c \in C : at[c] = x,
             0 \in C, NEW c \in C, at[c] = 0
      PROVE  Rising(p, h)
  <2>1. at[0] \in Nat /\ c \in Nat
    BY <1>1, <1>4
  <2>2. ~ (0 < c)
    <3>1. 0 < c => at[0] < at[c]
      BY <1>4
    <3> QED BY <1>4, <2>1, <3>1
  <2>3. c = 0
    BY <2>1, <2>2
  <2>4. h[0] = 0
    BY <1>1, <1>4, <2>3
  <2>5. \A i \in Joints(p) \ {0} : IsTop(p, h, i) => h[p[i]] < h[i]
    BY <1>4, VoronoiRise
  <2> QED BY <2>4, <2>5 DEF Rising
<1> QED BY <1>3, <1>4
(* What every kind of pool but the dynamic one makes of a skeleton.        *)
LEMMA CellsHold ==
  ASSUME AssignInv, pc \in Shared, kind # "dynamic"
  PROVE  Celled(par, Coarse, hard) /\ (~ given => Rising(par, hard))
<1>0. /\ ValidInv /\ ChosenInv /\ SegmentInv /\ CapInv /\ SharedInv /\ pc \in Settled
      /\ kind \in Kinds
  BY DEF AssignInv, Settled, ValidInv, BaseInv
<1>1. PICK n \in 1 .. J : Tree(par, n) /\ n <= Inf /\ Joints(par) = Valid
  BY <1>0, CoarseFacts
<1>2. CASE kind = "none"
  <2>1. Coarse = Joints(par) /\ \A j \in Joints(par) : hard[j] = j
    BY <1>0, <1>1, <1>2 DEF Coarse, SharedInv
  <2> QED BY <1>1, <2>1, CelledNone
<1>3. CASE kind = "edge"
  <2>1. SegInv(par, segs, chainOf, <<>>)
    BY <1>0, <1>3 DEF SegmentInv, Settled, Shared, Early, Unchecked
  <2>2. Coarse = 0 .. (Len(segs) - 1)
    BY <1>3 DEF Coarse
  <2>3. ASSUME NEW j \in Joints(par)
        PROVE hard[j] \in Coarse /\ j \in ElementsOf(segs[hard[j] + 1])
    <3>1. hard[j] = SegmentOf[j]
      BY <1>0, <1>1, <1>3 DEF SharedInv
    <3>2. SegmentOf[j] \in Coarse /\ j \in ElementsOf(segs[SegmentOf[j] + 1])
      BY <1>0, <1>1, <1>3, SegmentOfIs
    <3> QED BY <3>1, <3>2
  <2> QED BY <1>1, <2>1, <2>2, <2>3, CelledSegments
<1>4. CASE kind \in {"hard", "soft"}
  <2> DEFINE at == [c \in Coarse |-> Sorted(anchors)[c + 1]]
  <2>1. /\ \A c \in Coarse : c \in Nat /\ at[c] \in anchors
        /\ \A a \in anchors : \E c \in Coarse : at[c] = a
        /\ \A c, d \in Coarse : c < d => at[c] < at[d]
        /\ anchors \subseteq Valid /\ 0 \in anchors
        /\ \A j \in Valid : \A c \in Coarse :
             AnchorHops[j][c] = GeodesicDist(par)[j][at[c]]
    <3>1. kind \in Anchored
      BY <1>4 DEF Anchored
    <3> QED BY <1>0, <3>1, AnchorFacts
  <2> HIDE DEF at
  <2>2. \A c \in Coarse : c \in Nat /\ at[c] \in Joints(par) /\ at[c] \in Nat
    <3>1. \A x \in Joints(par) : x \in Nat
      BY <1>1, TreeFacts
    <3> QED BY <1>1, <2>1, <3>1
  <2>3. ASSUME NEW c \in Coarse, NEW d \in Coarse, c # d PROVE at[c] # at[d]
    <3>1. c \in Nat /\ d \in Nat /\ at[c] \in Nat /\ at[d] \in Nat
      BY <2>2
    <3>2. c < d \/ d < c
      BY <2>3, <3>1
    <3>3. at[c] < at[d] \/ at[d] < at[c]
      BY <2>1, <3>2
    <3> QED BY <3>1, <3>3
  <2>4. ASSUME NEW x \in Joints(par)
        PROVE  /\ hard[x] \in Coarse
               /\ \A d \in Coarse :
                    \/ GeodesicDist(par)[x][at[hard[x]]] < GeodesicDist(par)[x][at[d]]
                    \/ /\ GeodesicDist(par)[x][at[hard[x]]] = GeodesicDist(par)[x][at[d]]
                       /\ hard[x] <= d
    <3>1. hard[x] = NearestOf(AnchorHops)[x]
      BY <1>0, <1>1, <1>4 DEF SharedInv
    <3>2. /\ hard[x] \in Coarse
          /\ \A d \in Coarse : \/ AnchorHops[x][hard[x]] < AnchorHops[x][d]
                               \/ AnchorHops[x][hard[x]] = AnchorHops[x][d] /\ hard[x] <= d
      <4>1. kind \in Anchored /\ x \in Valid
        BY <1>1, <1>4 DEF Anchored
      <4> QED BY <1>0, <3>1, <4>1, NearestFacts
    <3>3. \A d \in Coarse : AnchorHops[x][d] = GeodesicDist(par)[x][at[d]]
      BY <1>1, <2>1
    <3> QED BY <3>2, <3>3
  <2>5. Voronoi(par, at, Coarse, hard)
    BY <2>2, <2>3, <2>4 DEF Voronoi
  <2>6. ~ given => RuleAnchors(par) \subseteq anchors
    BY <1>0, <1>4 DEF ChosenInv, Anchored, Settled, Shared, Early, Unchecked
  <2>7. 0 \in Coarse /\ \E c \in Coarse : at[c] = 0
    <3>1. PICK c \in Coarse : at[c] = 0
      BY <2>1
    <3>2. PICK n2 \in 1 .. J : \E m \in 1 .. n2 : Coarse = 0 .. (m - 1)
      BY <1>0, CoarseFacts
    <3>3. PICK m \in 1 .. n2 : Coarse = 0 .. (m - 1)
      BY <3>2
    <3>4. 0 \in Coarse
      BY <3>1, <3>3
    <3> QED BY <3>1, <3>4
  <2>8. Celled(par, Coarse, hard)
    BY <1>1, <2>5, CelledAnchors
  <2>9. ASSUME ~ given PROVE Rising(par, hard)
    <3>1. \A x \in RuleAnchors(par) : \E c \in Coarse : at[c] = x
      BY <2>1, <2>6, <2>9
    <3> QED BY <1>1, <2>1, <2>5, <2>7, <3>1, CelledAnchors
  <2> QED BY <2>8, <2>9
<1> QED BY <1>0, <1>2, <1>3, <1>4 DEF Kinds

(* The pooled skeleton is a tree, and without given anchors one whose      *)
(* numbers grow from the root downwards.                                   *)
LEMMA TreeHolds == AssignInv /\ PooledInv => CoarseTree
<1> SUFFICES ASSUME AssignInv, PooledInv, pc = "floyd", kind # "dynamic"
             PROVE  /\ IsTreeGraph(padj, Coarse)
                    /\ ~ given => \A c \in Coarse \ {0} :
                                    Cardinality({d \in Neighbours(padj, c) : d < c}) = 1
  BY DEF CoarseTree
<1>1. pc \in Shared /\ pc \in Settled /\ pc \in Pooled
  BY DEF Shared, Settled, Pooled
<1>2. PICK n \in 1 .. J : /\ Tree(par, n) /\ n <= Inf /\ Joints(par) = Valid
                           /\ \E c \in 1 .. n : Coarse = 0 .. (c - 1) /\ Cardinality(Coarse) = c
                           /\ IsFiniteSet(Coarse)
  BY <1>1, CoarseFacts DEF AssignInv
<1>20. Coarse \in SUBSET Nat /\ Cardinality(Coarse) <= Inf
  <2>1. PICK c \in 1 .. n : Coarse = 0 .. (c - 1) /\ Cardinality(Coarse) = c
    BY <1>2
  <2>2. Inf \in Nat /\ J \in Nat
    BY PoolAssumption DEF Inf
  <2>3. c <= n /\ n <= Inf /\ n \in Nat
    BY <1>2
  <2> QED BY <2>1, <2>2, <2>3
<1>3. padj = CoarseAdjacency(Adjacency(par), hard, Joints(par), Coarse)
  BY <1>1, <1>2 DEF PooledInv
<1>4. Celled(par, Coarse, hard) /\ (~ given => Rising(par, hard))
  BY <1>1, CellsHold
<1>5. \A j \in Joints(par) : hard[j] \in Coarse
  BY <1>1, <1>2 DEF AssignInv, SharedInv
<1>6. /\ \A c \in Coarse : \E j \in Joints(par) : hard[j] = c
      /\ \A i, j \in Joints(par) : IsTop(par, hard, i) /\ hard[i] = hard[j] => i <= j
  BY <1>4 DEF Celled
<1>7. IsTreeGraph(padj, Coarse)
  <2>1. Connected(padj, Coarse)
    BY <1>2, <1>20, <1>3, <1>5, <1>6, ContractedConnected
  <2>2. Cardinality(padj) = 2 * (Cardinality(Coarse) - 1)
    BY <1>2, <1>3, <1>5, <1>6, CellTree
  <2> QED BY <2>1, <2>2 DEF IsTreeGraph
<1>8. ASSUME ~ given, NEW c \in Coarse \ {0}
      PROVE  Cardinality({d \in Neighbours(padj, c) : d < c}) = 1
  <2>1. /\ hard[0] = 0
        /\ \A i \in Joints(par) \ {0} : IsTop(par, hard, i) => hard[par[i]] < hard[i]
    BY <1>4, <1>8 DEF Rising
  <2>2. Coarse \in SUBSET Nat /\ Tree(par, n)
    BY <1>2, <1>20
  <2> QED BY <1>3, <1>5, <1>6, <1>8, <2>1, <2>2, CellOrder
<1> QED BY <1>7, <1>8

(* The pooled graph of a skeleton is a tree of its cells; the loop over    *)
(* its nodes has the exact distances, layer by layer; no distance grows;   *)
(* what attention reads is there; and unpooling gives every joint back.    *)
THEOREM PooledCorrect == Spec => []PooledSound
<1>1. SoundInv => PooledSound
  <2> SUFFICES ASSUME SoundInv PROVE PooledSound
    OBVIOUS
  <2>1. AssignInv /\ PooledInv /\ MotionInv
    BY DEF SoundInv
  <2>2. CoarseTree /\ FloydLayers /\ Contracts
    BY <2>1, TreeHolds, FloydHolds, ContractsHold
  <2>3. ReadsValid /\ RoundTrip
    BY <2>1, ReadsHold, RoundTripHolds
  <2> QED BY <2>2, <2>3 DEF PooledSound
<1>2. Spec => []SoundInv
  BY SoundAlways
<1> QED BY <1>1, <1>2, PTL
===============================================================================
