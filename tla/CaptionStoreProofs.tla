-------------------------- MODULE CaptionStoreProofs --------------------------
(***************************************************************************)
(* Proofs about CaptionStore for any motions, any revisions of the corpus  *)
(* with any texts, any blacklist and any bounds on edits and script runs.  *)
(* The three enumerations of captions are compared by induction over the   *)
(* lists and by counting the keys before a key.                            *)
(***************************************************************************)
EXTENDS CaptionStore, FiniteSetTheorems, WellFoundedInduction, TLAPS

(* Induction over the numbers, from the least number outside a set.        *)
LEMMA Induction ==
  ASSUME NEW S, 0 \in S, \A n \in Nat : n \in S => n + 1 \in S
  PROVE  \A n \in Nat : n \in S
<1> DEFINE Out == {n \in Nat : n \notin S}
<1>1. SUFFICES ASSUME Out # {} PROVE FALSE
  OBVIOUS
<1>2. PICK x \in Out : \A y \in Out : ~ (<<y, x>> \in OpToRel(<, Nat))
  BY <1>1, WFMin, NatLessThanWellFounded
<1>3. x \in Nat /\ x # 0 /\ x - 1 \in Nat
  OBVIOUS
<1>4. x - 1 \in Out
  BY <1>3
<1>5. <<x - 1, x>> \in OpToRel(<, Nat)
  BY <1>3 DEF OpToRel
<1> QED BY <1>2, <1>4, <1>5

(* The list after n texts, from the list after n - 1.                      *)
KeptRow(s, drop, k, n) ==
  IF n = 0 THEN <<>>
  ELSE IF s[n] \in drop THEN k[n - 1] ELSE Append(k[n - 1], s[n])

KeptRows(s, drop, k, m) == k = [n \in 0 .. m |-> KeptRow(s, drop, k, n)]

(* The recursive definition of Kept has a solution for every length.       *)
LEMMA KeptRowsExist ==
  ASSUME NEW s, NEW drop
  PROVE  \A m \in Nat : \E k : KeptRows(s, drop, k, m)
<1> DEFINE G == {m \in Nat : \E k : KeptRows(s, drop, k, m)}
<1>1. 0 \in G
  <2>1. KeptRows(s, drop, [n \in 0 .. 0 |-> <<>>], 0)
    BY DEF KeptRows, KeptRow
  <2> QED BY <2>1
<1>2. ASSUME NEW n \in Nat, n \in G PROVE \E k : KeptRows(s, drop, k, n + 1)
  <2>1. PICK k : KeptRows(s, drop, k, n)
    BY <1>2
  <2> DEFINE v == KeptRow(s, drop, k, n + 1)
             K == [i \in 0 .. n + 1 |-> IF i <= n THEN k[i] ELSE v]
  <2>2. \A i \in 0 .. n : k[i] = KeptRow(s, drop, k, i)
    BY <2>1 DEF KeptRows
  <2> HIDE DEF v
  <2>3. (\A i \in 0 .. n : K[i] = k[i]) /\ K[n + 1] = v
    OBVIOUS
  <2>4. K = [i \in 0 .. n + 1 |-> K[i]]
    OBVIOUS
  <2> HIDE DEF K
  <2>5. ASSUME NEW i \in 0 .. n + 1 PROVE K[i] = KeptRow(s, drop, K, i)
    <3>1. CASE i = 0 BY <3>1, <2>2, <2>3 DEF KeptRow
    <3>2. CASE i \in 1 .. n
      <4>1. K[i - 1] = k[i - 1] /\ K[i] = k[i] /\ k[i] = KeptRow(s, drop, k, i)
        BY <3>2, <2>2, <2>3
      <4> QED BY <4>1, <3>2 DEF KeptRow
    <3>3. CASE i = n + 1
      <4>1. K[i - 1] = k[i - 1] /\ K[i] = v
        BY <3>3, <2>3
      <4> QED BY <4>1, <3>3 DEF KeptRow, v
    <3> QED BY <3>1, <3>2, <3>3
  <2>6. K = [i \in 0 .. n + 1 |-> KeptRow(s, drop, K, i)]
    BY <2>4, <2>5
  <2> QED BY <2>6 DEF KeptRows
<1>3. \A n \in Nat : n \in G => n + 1 \in G
  BY <1>2
<1> HIDE DEF G
<1>4. \A n \in Nat : n \in G
  BY <1>1, <1>3, Induction
<1> QED BY <1>4 DEF G

(* What Kept returns is the last row of such a solution.                   *)
LEMMA KeptIsLastRow ==
  ASSUME NEW T, NEW s \in Seq(T), NEW drop
  PROVE  \E k : KeptRows(s, drop, k, Len(s)) /\ Kept(s, drop) = k[Len(s)]
<1> DEFINE F(f) == [n \in 0 .. Len(s) |-> KeptRow(s, drop, f, n)]
           C == CHOOSE f : f = F(f)
<1>0. Len(s) \in Nat
  OBVIOUS
<1>1. PICK k : KeptRows(s, drop, k, Len(s))
  BY <1>0, KeptRowsExist
<1>2. k = F(k)
  BY <1>1 DEF KeptRows
<1>3. C = F(C)
  <2> HIDE DEF F
  <2> QED BY <1>2
<1>4. Kept(s, drop) = C[Len(s)]
  BY DEF Kept, KeptRow
<1> HIDE DEF C
<1> QED BY <1>3, <1>4 DEF KeptRows

(* What is kept of a list of texts is a list of texts, none of them        *)
(* dropped; it is empty only when all are.                                 *)
LEMMA KeptFacts ==
  ASSUME NEW T, NEW s \in Seq(T), NEW drop
  PROVE  /\ Kept(s, drop) \in Seq(T)
         /\ \A i \in 1 .. Len(Kept(s, drop)) : Kept(s, drop)[i] \notin drop
         /\ (\E i \in 1 .. Len(s) : s[i] \notin drop) => Len(Kept(s, drop)) >= 1
<1>1. PICK k : KeptRows(s, drop, k, Len(s)) /\ Kept(s, drop) = k[Len(s)]
  BY KeptIsLastRow
<1>2. \A n \in 0 .. Len(s) : k[n] = KeptRow(s, drop, k, n)
  BY <1>1 DEF KeptRows
<1> DEFINE Good(n) == /\ k[n] \in Seq(T)
                      /\ \A i \in 1 .. Len(k[n]) : k[n][i] \notin drop
                      /\ (\E i \in 1 .. n : s[i] \notin drop) => Len(k[n]) >= 1
           G == {n \in Nat : n <= Len(s) => Good(n)}
<1>3. 0 \in G
  <2>1. k[0] = <<>>
    BY <1>2 DEF KeptRow
  <2>2. Len(<<>>) = 0 /\ <<>> \in Seq(T)
    OBVIOUS
  <2>3. Good(0)
    BY <2>1, <2>2
  <2> QED BY <2>3
<1>4. ASSUME NEW n \in Nat, n \in G, n + 1 <= Len(s) PROVE Good(n + 1)
  <2>1. Good(n)
    BY <1>4
  <2>2. k[n] \in Seq(T) /\ s[n + 1] \in T
    BY <2>1, <1>4
  <2>3. k[n + 1] = IF s[n + 1] \in drop THEN k[n] ELSE Append(k[n], s[n + 1])
    BY <1>2, <1>4 DEF KeptRow
  <2>4. CASE s[n + 1] \in drop
    <3>1. k[n + 1] = k[n]
      BY <2>3, <2>4
    <3> QED BY <2>1, <2>2, <2>4, <3>1
  <2>5. CASE s[n + 1] \notin drop
    <3>1. k[n + 1] = Append(k[n], s[n + 1])
      BY <2>3, <2>5
    <3>2. /\ k[n + 1] \in Seq(T)
          /\ Len(k[n + 1]) = Len(k[n]) + 1
          /\ \A i \in 1 .. Len(k[n]) : k[n + 1][i] = k[n][i]
          /\ k[n + 1][Len(k[n]) + 1] = s[n + 1]
      BY <2>2, <3>1
    <3>3. ASSUME NEW i \in 1 .. Len(k[n + 1]) PROVE k[n + 1][i] \notin drop
      <4>1. i \in 1 .. Len(k[n]) \/ i = Len(k[n]) + 1
        BY <2>2, <3>2
      <4> QED BY <2>1, <2>5, <3>2, <4>1
    <3> QED BY <2>2, <3>2, <3>3
  <2> QED BY <2>4, <2>5
<1>5. Len(s) \in G
  <2> HIDE DEF Good
  <2>1. \A n \in Nat : n \in G => n + 1 \in G
    BY <1>4
  <2> HIDE DEF G
  <2>2. Len(s) \in Nat
    OBVIOUS
  <2> QED BY <1>3, <2>1, <2>2, Induction
<1> QED BY <1>1, <1>5

(* below[x] are the members of S before x in a strict total order.         *)
Orders(S, below) ==
  /\ IsFiniteSet(S)
  /\ \A x \in S : below[x] \subseteq S /\ x \notin below[x]
  /\ \A x, y \in S : x # y => x \in below[y] \/ y \in below[x]
  /\ \A x, y \in S : y \in below[x] => below[y] \subseteq below[x]

(* A member comes after fewer members than the set has, and after more     *)
(* than any member before it does.                                         *)
LEMMA BelowSmaller ==
  ASSUME NEW S, NEW below, Orders(S, below), NEW x \in S
  PROVE  /\ IsFiniteSet(below[x])
         /\ Cardinality(below[x]) \in 0 .. (Cardinality(S) - 1)
         /\ \A y \in S : y \in below[x] => Cardinality(below[y]) < Cardinality(below[x])
<1>1. below[x] \in SUBSET (S \ {x}) /\ IsFiniteSet(S)
  BY DEF Orders
<1>2. IsFiniteSet(S \ {x}) /\ Cardinality(S \ {x}) = Cardinality(S) - 1
  BY <1>1, FS_RemoveElement
<1>3. IsFiniteSet(below[x]) /\ Cardinality(below[x]) <= Cardinality(S) - 1
  BY <1>1, <1>2, FS_Subset
<1>4. Cardinality(below[x]) \in Nat /\ Cardinality(S) \in Nat
  BY <1>1, <1>3, FS_CardinalityType
<1>5. ASSUME NEW y \in S, y \in below[x] PROVE Cardinality(below[y]) < Cardinality(below[x])
  <2>1. below[y] \in SUBSET below[x] /\ y \notin below[y]
    BY <1>5 DEF Orders
  <2>2. below[x] # below[y]
    BY <2>1, <1>5
  <2>3. /\ IsFiniteSet(below[y]) /\ Cardinality(below[y]) <= Cardinality(below[x])
        /\ Cardinality(below[x]) = Cardinality(below[y]) => below[x] = below[y]
    BY <1>3, <2>1, FS_Subset
  <2>4. Cardinality(below[y]) \in Nat
    BY <2>3, FS_CardinalityType
  <2> QED BY <1>4, <2>2, <2>3, <2>4
<1> QED BY <1>3, <1>4, <1>5

(* The list holds every member once, each after as many as are before it.  *)
LEMMA InOrderFacts ==
  ASSUME NEW S, NEW below, Orders(S, below)
  PROVE  LET list == InOrder(S, below)
         IN  /\ Cardinality(S) \in Nat
             /\ list \in [1 .. Cardinality(S) -> S]
             /\ \A i \in 1 .. Cardinality(S) : Cardinality(below[list[i]]) = i - 1
             /\ \A x \in S : \E i \in 1 .. Cardinality(S) : list[i] = x
             /\ \A i, j \in 1 .. Cardinality(S) : list[i] = list[j] => i = j
<1> DEFINE n == Cardinality(S)
           rank == [x \in S |-> Cardinality(below[x]) + 1]
           list == InOrder(S, below)
<1>1. IsFiniteSet(S) /\ n \in Nat
  BY FS_CardinalityType DEF Orders
<1>2. \A x \in S : Cardinality(below[x]) \in 0 .. (n - 1)
  BY BelowSmaller
<1>3. rank \in [S -> 1 .. n]
  BY <1>1, <1>2
<1>4. ASSUME NEW x \in S, NEW y \in S, Cardinality(below[x]) = Cardinality(below[y])
      PROVE  x = y
  <2>1. SUFFICES ASSUME x # y PROVE FALSE
    OBVIOUS
  <2>2. x \in below[y] \/ y \in below[x]
    BY <2>1 DEF Orders
  <2>3. \/ Cardinality(below[x]) < Cardinality(below[y])
        \/ Cardinality(below[y]) < Cardinality(below[x])
    BY <2>2, BelowSmaller
  <2>4. Cardinality(below[x]) \in Nat
    BY <1>1, <1>2
  <2> QED BY <1>4, <2>3, <2>4
<1>5. \A x, y \in S : rank[x] = rank[y] => x = y
  BY <1>1, <1>2, <1>4
<1> HIDE DEF rank
<1>6. rank \in Injection(S, 1 .. n)
  BY <1>3, <1>5 DEF Injection, IsInjective
<1>7. IsFiniteSet(1 .. n) /\ Cardinality(1 .. n) = n
  BY <1>1, FS_Interval
<1>8. rank \in Surjection(S, 1 .. n)
  BY <1>6, <1>7, FS_Injection
<1>9. \A i \in 1 .. n : \E x \in S : rank[x] = i
  BY <1>8 DEF Surjection
<1>10. \A i \in 1 .. n : \E x \in S : Cardinality(below[x]) = i - 1
  BY <1>1, <1>2, <1>9 DEF rank
<1>11. list = [i \in 1 .. n |-> CHOOSE x \in S : Cardinality(below[x]) = i - 1]
  BY DEF InOrder
<1>12. ASSUME NEW i \in 1 .. n PROVE list[i] \in S /\ Cardinality(below[list[i]]) = i - 1
  <2>1. list[i] = CHOOSE x \in S : Cardinality(below[x]) = i - 1
    BY <1>11
  <2> QED BY <2>1, <1>10
<1>13. list \in [1 .. n -> S]
  BY <1>11, <1>12
<1>14. ASSUME NEW x \in S PROVE \E i \in 1 .. n : list[i] = x
  <2>1. Cardinality(below[x]) + 1 \in 1 .. n
    BY <1>1, <1>2
  <2>2. Cardinality(below[list[Cardinality(below[x]) + 1]]) = Cardinality(below[x])
    BY <1>1, <1>2, <1>12, <2>1
  <2> QED BY <1>4, <1>12, <2>1, <2>2
<1>15. \A i, j \in 1 .. n : list[i] = list[j] => i = j
  <2> TAKE i, j \in 1 .. n
  <2>1. Cardinality(below[list[i]]) = i - 1 /\ Cardinality(below[list[j]]) = j - 1
    BY <1>12
  <2> QED BY <2>1, <1>1
<1> QED BY <1>1, <1>12, <1>13, <1>14, <1>15

-----------------------------------------------------------------------------
(* The lists of keys and the groups of rows.                               *)

(* Lists of texts are closed under concatenation.                          *)
LEMMA Joined ==
  ASSUME NEW T, NEW a \in Seq(T), NEW b \in Seq(T)
  PROVE  /\ a \o b \in Seq(T)
         /\ \A x \in T : <<x>> \in Seq(T)
         /\ <<>> \in Seq(T)
OBVIOUS

(* The enumeration of captions is a list of texts.                         *)
LEMMA OrderedType ==
  ASSUME NEW T, NEW info, info.primary \in T, info.captions \in Seq(T)
  PROVE  Ordered(info) \in Seq(T)
<1> DEFINE a == IF info.primary = "" THEN <<>> ELSE <<info.primary>>
           b == Kept(info.captions, {"", info.primary})
<1>1. b \in Seq(T)
  BY KeptFacts
<1>2. a = <<>> \/ a = <<info.primary>>
  OBVIOUS
<1>3. Ordered(info) = a \o b
  BY DEF Ordered
<1> HIDE DEF a, b
<1>4. a \in Seq(T)
  BY <1>1, <1>2, Joined
<1> QED BY <1>1, <1>3, <1>4, Joined

(* The types of a motion's texts in any revision.                          *)
LEMMA TextsType ==
  ASSUME NEW c \in Corpora, NEW m \in Motions
  PROVE  /\ Texts[c][m] \in [primary : STRING, captions : Seq(STRING)]
         /\ Texts[c][m].captions \in Seq(STRING)
         /\ Len(Ordered(Texts[c][m])) \in Nat
<1>1. Texts[c][m] \in [primary : STRING, captions : Seq(STRING)]
  BY CaptionAssumption
<1>2. Ordered(Texts[c][m]) \in Seq(STRING)
  BY <1>1, OrderedType
<1> QED BY <1>1, <1>2

(* A key is a motion and an index of one of its captions.                  *)
LEMMA KeysMembers ==
  ASSUME NEW c \in Corpora, NEW k
  PROVE  k \in KeysOf(c) <=>
           \E m \in Motions : \E i \in 0 .. (Len(Ordered(Texts[c][m])) - 1) : k = <<m, i>>
BY DEF KeysOf

(* A corpus has finitely many keys,                                        *)
LEMMA KeysFinite ==
  ASSUME NEW c \in Corpora
  PROVE  IsFiniteSet(KeysOf(c))
<1> DEFINE keysOf(m) == {<<m, i>> : i \in 0 .. (Len(Ordered(Texts[c][m])) - 1)}
           all == {keysOf(m) : m \in Motions}
<1>1. ASSUME NEW m \in Motions PROVE IsFiniteSet(keysOf(m))
  <2> DEFINE D == 0 .. (Len(Ordered(Texts[c][m])) - 1)
             f == [i \in D |-> <<m, i>>]
  <2>1. IsFiniteSet(D)
    BY TextsType, FS_Interval
  <2>2. f \in Surjection(D, keysOf(m))
    BY DEF Surjection
  <2> QED BY <2>1, <2>2, FS_Surjection
<1>2. IsFiniteSet(all)
  <2> DEFINE f == [m \in Motions |-> keysOf(m)]
  <2> HIDE DEF keysOf
  <2>1. f \in Surjection(Motions, all)
    BY DEF Surjection
  <2> QED BY <2>1, CaptionAssumption, FS_Surjection
<1>3. \A A \in all : IsFiniteSet(A)
  <2> HIDE DEF keysOf
  <2> QED BY <1>1
<1>4. IsFiniteSet(UNION all)
  <2> HIDE DEF all
  <2> QED BY <1>2, <1>3, FS_UNION
<1> QED BY <1>4 DEF KeysOf

(* and they are ordered by motion, then by index.                          *)
LEMMA KeysOrdered ==
  ASSUME NEW c \in Corpora
  PROVE  Orders(KeysOf(c), KeysBelow(c))
<1> DEFINE K == KeysOf(c)
           below == KeysBelow(c)
<1>1. \A k \in K : k[1] \in Nat /\ k[2] \in Nat /\ k = <<k[1], k[2]>>
  <2> TAKE k \in K
  <2>1. PICK m \in Motions : \E i \in 0 .. (Len(Ordered(Texts[c][m])) - 1) : k = <<m, i>>
    BY KeysMembers
  <2> QED BY <2>1, CaptionAssumption, TextsType
<1>2. \A k \in K : below[k] = {j \in K : j[1] < k[1] \/ (j[1] = k[1] /\ j[2] < k[2])}
  BY DEF KeysBelow
<1>3. \A x \in K : below[x] \subseteq K /\ x \notin below[x]
  BY <1>1, <1>2
<1>4. ASSUME NEW x \in K, NEW y \in K, x # y PROVE x \in below[y] \/ y \in below[x]
  <2>1. x[1] # y[1] \/ x[2] # y[2]
    BY <1>1, <1>4
  <2> QED BY <1>1, <1>2, <2>1
<1>5. ASSUME NEW x \in K, NEW y \in K, y \in below[x] PROVE below[y] \subseteq below[x]
  BY <1>1, <1>2, <1>5
<1> QED BY <1>3, <1>4, <1>5, KeysFinite DEF Orders

(* The list holds every key of its corpus, each in one row.                *)
LEMMA KeyListFacts ==
  ASSUME NEW c \in Corpora
  PROVE  /\ Len(KeyList[c]) \in Nat
         /\ KeyList[c] \in [1 .. Len(KeyList[c]) -> KeysOf(c)]
         /\ \A k \in KeysOf(c) : \E r \in 1 .. Len(KeyList[c]) : KeyList[c][r] = k
         /\ \A q, r \in 1 .. Len(KeyList[c]) : KeyList[c][q] = KeyList[c][r] => q = r
<1> DEFINE list == InOrder(KeysOf(c), KeysBelow(c))
           n == Cardinality(KeysOf(c))
<1>1. KeyList[c] = list
  BY DEF KeyList
<1>2. /\ n \in Nat
      /\ list \in [1 .. n -> KeysOf(c)]
      /\ \A x \in KeysOf(c) : \E i \in 1 .. n : list[i] = x
      /\ \A i, j \in 1 .. n : list[i] = list[j] => i = j
  BY KeysOrdered, InOrderFacts
<1> HIDE DEF list, n
<1>3. Len(list) = n
  BY <1>2
<1> QED BY <1>1, <1>2, <1>3

(* The rows of a motion are ordered by caption index.                      *)
LEMMA RowsOrdered ==
  ASSUME NEW c \in Corpora, NEW m \in Motions
  PROVE  /\ Orders(RowsOf(c, m), RowsBelow(c, m))
         /\ \A r \in RowsOf(c, m) :
              /\ r \in 1 .. Len(KeyList[c])
              /\ KeyList[c][r] = <<m, KeyList[c][r][2]>>
              /\ KeyList[c][r][2] \in 0 .. (Len(Ordered(Texts[c][m])) - 1)
<1> DEFINE R == RowsOf(c, m)
           below == RowsBelow(c, m)
           idx(r) == KeyList[c][r][2]
<1>1. ASSUME NEW r \in R
      PROVE  /\ r \in 1 .. Len(KeyList[c])
             /\ KeyList[c][r] = <<m, idx(r)>>
             /\ idx(r) \in 0 .. (Len(Ordered(Texts[c][m])) - 1)
  <2>1. r \in 1 .. Len(KeyList[c]) /\ KeyList[c][r][1] = m
    BY DEF RowsOf
  <2>2. KeyList[c][r] \in KeysOf(c)
    BY <2>1, KeyListFacts
  <2>3. PICK m2 \in Motions : \E i \in 0 .. (Len(Ordered(Texts[c][m2])) - 1) :
          KeyList[c][r] = <<m2, i>>
    BY <2>2, KeysMembers
  <2> QED BY <2>1, <2>3
<1>2. IsFiniteSet(R)
  <2>1. IsFiniteSet(1 .. Len(KeyList[c]))
    BY KeyListFacts, FS_Interval
  <2> QED BY <2>1, FS_Subset DEF RowsOf
<1>3. \A r \in R : below[r] = {q \in R : idx(q) < idx(r)}
  BY DEF RowsBelow
<1>4. \A r \in R : idx(r) \in Int
  BY <1>1
<1>5. \A q, r \in R : idx(q) = idx(r) => q = r
  <2> TAKE q, r \in R
  <2> HAVE idx(q) = idx(r)
  <2> HIDE DEF R
  <2>1. q \in 1 .. Len(KeyList[c]) /\ r \in 1 .. Len(KeyList[c])
    BY <1>1
  <2>2. KeyList[c][q] = <<m, idx(q)>> /\ KeyList[c][r] = <<m, idx(r)>>
    BY <1>1
  <2>3. KeyList[c][q] = KeyList[c][r]
    BY <2>2
  <2> QED BY <2>1, <2>3, KeyListFacts
<1> HIDE DEF idx, R, below
<1>6. \A x, y \in R : x # y => x \in below[y] \/ y \in below[x]
  BY <1>3, <1>4, <1>5
<1>7. \A x, y \in R : y \in below[x] => below[y] \subseteq below[x]
  BY <1>3, <1>4
<1>8. \A x \in R : below[x] \subseteq R /\ x \notin below[x]
  BY <1>3, <1>4
<1>9. Orders(R, below)
  BY <1>2, <1>6, <1>7, <1>8 DEF Orders
<1> QED BY <1>1, <1>9 DEF R, below, idx

(* In a group, row i is that of caption i - 1: no caption is missing and   *)
(* none comes twice.                                                       *)
LEMMA GroupFacts ==
  ASSUME NEW c \in Corpora, NEW m \in Motions
  PROVE  /\ Len(Groups[c][m]) \in Nat
         /\ (Groups[c][m] = <<>>) => Len(Groups[c][m]) = 0
         /\ \A i \in 1 .. Len(Groups[c][m]) :
              /\ Groups[c][m][i] \in 1 .. Len(KeyList[c])
              /\ KeyList[c][Groups[c][m][i]] = <<m, i - 1>>
              /\ i <= Len(Ordered(Texts[c][m]))
<1> DEFINE R == RowsOf(c, m)
           below == RowsBelow(c, m)
           list == InOrder(R, below)
           n == Cardinality(R)
           idx == [r \in R |-> KeyList[c][r][2]]
<1>1. Groups[c][m] = list
  BY DEF Groups
<1>2. /\ n \in Nat
      /\ list \in [1 .. n -> R]
      /\ \A i \in 1 .. n : Cardinality(below[list[i]]) = i - 1
  BY RowsOrdered, InOrderFacts
<1>3. Len(list) = n
  <2> HIDE DEF list, n
  <2> QED BY <1>2
<1>4. ASSUME NEW i \in 1 .. n
      PROVE  KeyList[c][list[i]][2] = i - 1
  <2> DEFINE r == list[i]
             k == KeyList[c][r][2]
  <2>1. r \in R /\ Cardinality(below[r]) = i - 1
    BY <1>2
  <2> HIDE DEF r
  <2>2. k \in 0 .. (Len(Ordered(Texts[c][m])) - 1) /\ Len(Ordered(Texts[c][m])) \in Nat
    BY <2>1, RowsOrdered, TextsType
  <2>3. ASSUME NEW j \in 0 .. (k - 1) PROVE \E q \in below[r] : KeyList[c][q][2] = j
    <3>1. <<m, j>> \in KeysOf(c)
      BY <2>2, KeysMembers
    <3>2. PICK q \in 1 .. Len(KeyList[c]) : KeyList[c][q] = <<m, j>>
      BY <3>1, KeyListFacts
    <3>3. q \in R
      BY <3>2 DEF RowsOf
    <3>4. q \in below[r]
      BY <2>1, <2>2, <3>2, <3>3 DEF RowsBelow
    <3> QED BY <3>2, <3>4
  <2>4. below[r] = {q \in R : KeyList[c][q][2] < k}
    BY <2>1 DEF RowsBelow
  <2> DEFINE f == [q \in below[r] |-> KeyList[c][q][2]]
  <2>5. f \in [below[r] -> 0 .. (k - 1)]
    <3>1. \A q \in below[r] : KeyList[c][q][2] \in Nat /\ KeyList[c][q][2] < k
      BY <2>4, RowsOrdered, TextsType
    <3> QED BY <2>2, <3>1
  <2>6. ASSUME NEW p \in below[r], NEW q \in below[r], f[p] = f[q] PROVE p = q
    <3>1. p \in R /\ q \in R /\ KeyList[c][p][2] = KeyList[c][q][2]
      BY <2>4, <2>6
    <3>2. KeyList[c][p] = KeyList[c][q] /\ p \in 1 .. Len(KeyList[c]) /\ q \in 1 .. Len(KeyList[c])
      BY <3>1, RowsOrdered
    <3> QED BY <3>2, KeyListFacts
  <2>7. f \in Bijection(below[r], 0 .. (k - 1))
    BY <2>3, <2>5, <2>6 DEF Bijection, Injection, Surjection, IsInjective
  <2>8. IsFiniteSet(below[r])
    BY <2>1, RowsOrdered, BelowSmaller
  <2>9. Cardinality(0 .. (k - 1)) = Cardinality(below[r])
    BY <2>7, <2>8, FS_Bijection DEF ExistsBijection
  <2>10. Cardinality(0 .. (k - 1)) = k
    <3>1. k \in Nat
      BY <2>2
    <3> HIDE DEF k
    <3>2. Cardinality(0 .. (k - 1)) = IF 0 > k - 1 THEN 0 ELSE (k - 1) - 0 + 1
      BY <3>1, FS_Interval
    <3> QED BY <3>1, <3>2
  <2> QED BY <2>1, <2>9, <2>10 DEF r
<1>5. ASSUME NEW i \in 1 .. n
      PROVE  /\ list[i] \in 1 .. Len(KeyList[c])
             /\ KeyList[c][list[i]] = <<m, i - 1>>
             /\ i <= Len(Ordered(Texts[c][m]))
  <2>1. list[i] \in R
    BY <1>2
  <2> QED BY <2>1, <1>4, RowsOrdered, TextsType
<1>6. list = <<>> => Len(list) = 0
  OBVIOUS
<1> QED BY <1>1, <1>2, <1>3, <1>5, <1>6

-----------------------------------------------------------------------------
(* The invariant.                                                          *)

Revision == Corpora \cup {NoFile}
Pair == [keys : Revision, texts : Revision]

(* What a running script holds is a revision.  The t5 scripts never write  *)
(* provenance, and the sidecar builder writes all files of one revision.   *)
Scripts == {"none", "means", "convert", "tokens", "sidecar"}

Holds(j) ==
  /\ j \in [script : Scripts, read : Pair, part : 0 .. 1]
  /\ j.script # "none" => j.read.texts # NoFile
  /\ j.script = "tokens" => j.read.keys # NoFile

PlacesInv ==
  /\ corpus \in Corpora
  /\ npz \in Revision /\ embs \in Revision /\ keys \in Revision /\ meta \in Revision
  /\ tokens \in Pair /\ (tokens # NoTokens => tokens.keys # NoFile /\ tokens.texts # NoFile)
  /\ family = "t5" => meta = NoFile /\ job.script # "sidecar"
  /\ family # "t5" => /\ keys = embs /\ meta = embs /\ npz = NoFile
                      /\ tokens = [keys |-> embs, texts |-> embs]
                      /\ job.script \in {"none", "sidecar"}

FilesInv == Holds(job) /\ PlacesInv

(* While no array is replaced, what the loader has built is of the files   *)
(* in place, and behind the gate the corpus it parsed is the one that they *)
(* name.                                                                   *)
LoaderInv ==
  /\ loader \in [pc : {"closed", "gate", "vectors", "tokens", "serving"}, gated : BOOLEAN,
                 texts : Revision, labels : Revision, tokenLabels : Revision]
  /\ moved \in BOOLEAN
  /\ loader.pc # "closed" => embs # NoFile /\ keys # NoFile /\ loader.texts # NoFile
  /\ loader.pc \in {"closed", "gate"} => ~ loader.gated
  /\ loader.pc \in {"closed", "gate", "vectors"} => loader.labels = NoFile
  /\ loader.pc \in {"tokens", "serving"} => loader.labels # NoFile
  /\ loader.pc # "serving" => loader.tokenLabels = NoFile /\ item = NoItem
  /\ loader.tokenLabels # NoFile => Counted(loader.labels, loader.tokenLabels)
  /\ ~ moved =>
       /\ loader.pc = "gate" => loader.texts = corpus
       /\ loader.gated => meta = loader.texts
       /\ loader.labels \in {NoFile, keys} /\ loader.tokenLabels \in {NoFile, keys}

(* A sample is what the loader would serve again while no file changes.    *)
ItemInv ==
  item.hasText /\ ~ moved =>
    /\ loader.pc = "serving"
    /\ \E m \in Motions : \E i \in 1 .. Len(Groups[loader.labels][m]) : item = Served(m, i)

(* What the manifest of a revision holds of a motion, and which captions   *)
(* a view plans.                                                           *)
HeldOf(c, m) == Kept(Texts[c][m].captions, Corrupt)

IndexOf(c, m, stripped) ==
  IF stripped THEN {i \in 1 .. Len(HeldOf(c, m)) :
                      /\ HeldOf(c, m)[i] \in AnimalOnly
                      /\ \A k \in 1 .. (i - 1) : HeldOf(c, m)[k] \notin AnimalOnly}
  ELSE {1}

PlannedOf(c, stripped) == {m \in Motions : IndexOf(c, m, stripped) # {}}

RowAt(labels, key) == CHOOSE r \in 1 .. Len(KeyList[labels]) : KeyList[labels][r] = key

VectorAt(e, row) == Ordered(Texts[e][KeyList[e][row][1]])[KeyList[e][row][2] + 1]

(* The view's operators of the model are these, of the files in place.     *)
LEMMA PlanFacts ==
  /\ \A m : Filtered(m) = HeldOf(manifest.corpus, m)
  /\ \A m, stripped : ViewIndex(m, stripped) = IndexOf(manifest.corpus, m, stripped)
  /\ \A stripped : Planned(stripped) = PlannedOf(manifest.corpus, stripped)
  /\ \A key : RowOf(key) = RowAt(view.labels, key)
  /\ \A row : VectorText(row) = VectorAt(embs, row)
<1>1. \A m : Filtered(m) = HeldOf(manifest.corpus, m)
  BY DEF Filtered, HeldOf
<1>2. \A m, stripped : ViewIndex(m, stripped) = IndexOf(manifest.corpus, m, stripped)
  BY <1>1 DEF ViewIndex, Stripped, IndexOf
<1>3. \A stripped : Planned(stripped) = PlannedOf(manifest.corpus, stripped)
  BY <1>2 DEF Planned, PlannedOf
<1> QED BY <1>1, <1>2, <1>3 DEF RowOf, RowAt, VectorText, VectorAt

IsView(v) == v = [pc |-> v.pc, labels |-> v.labels, stripped |-> v.stripped,
                  motion |-> v.motion, text |-> v.text, vector |-> v.vector]

(* A manifest holds a caption of every motion, and an open view has found  *)
(* a row for each that it serves.                                          *)
ViewInv ==
  /\ manifest \in [corpus : Revision, stamp : BOOLEAN]
  /\ manifest # NoManifest => manifest.corpus # NoFile
  /\ manifest.corpus # NoFile =>
       \A m \in Motions : \E i \in 1 .. Len(Texts[manifest.corpus][m].captions) :
         Texts[manifest.corpus][m].captions[i] \notin Corrupt
  /\ IsView(view)
  /\ view.pc # "closed" =>
       /\ view.stripped \in BOOLEAN /\ view.labels \in Corpora
       /\ manifest.corpus # NoFile /\ embs # NoFile
       /\ ~ moved => view.labels = keys
       /\ \A m \in PlannedOf(manifest.corpus, view.stripped) :
            \A i \in IndexOf(manifest.corpus, m, view.stripped) :
              <<m, i - 1>> \in KeysOf(view.labels)
  /\ view.pc = "served" =>
       \E m \in PlannedOf(manifest.corpus, view.stripped) :
         \E i \in IndexOf(manifest.corpus, m, view.stripped) :
           /\ view.motion = m
           /\ view.text = HeldOf(manifest.corpus, m)[i]
           /\ ~ moved => view.vector = VectorAt(embs, RowAt(view.labels, <<m, i - 1>>))

IInv == FilesInv /\ LoaderInv /\ ItemInv /\ ViewInv

-----------------------------------------------------------------------------
(* Steps.                                                                  *)

(* A started script holds revisions.                                       *)
LEMMA StartHolds ==
  ASSUME NEW script \in Scripts \ {"none"}, NEW k \in Revision, NEW source \in Corpora,
         script = "tokens" => k # NoFile,
         NEW j, j = [script |-> script, read |-> [keys |-> k, texts |-> source], part |-> 0]
  PROVE  Holds(j) /\ j.script = script
<1> DEFINE read == [keys |-> k, texts |-> source]
<1>1. read \in Pair /\ read.keys = k /\ read.texts = source
  BY DEF Pair, Revision
<1>2. j = [script |-> script, read |-> read, part |-> 0]
  OBVIOUS
<1> HIDE DEF read
<1>3. j.script = script /\ j.read = read /\ j \in [script : Scripts, read : Pair, part : 0 .. 1]
  BY <1>1, <1>2
<1> QED BY <1>1, <1>3, NoFileAssumption DEF Holds

(* So does one that has ended.                                             *)
LEMMA IdleHolds == Holds(Idle) /\ Idle.script = "none"
<1>1. NoTokens \in Pair
  BY DEF NoTokens, Pair, Revision
<1>2. Idle \in [script : Scripts, read : Pair, part : 0 .. 1] /\ Idle.script = "none"
  BY <1>1 DEF Idle, Scripts
<1> QED BY <1>2 DEF Holds

(* The invariant holds initially.                                          *)
LEMMA InitInv == Init => IInv
<1> SUFFICES ASSUME Init PROVE IInv
  OBVIOUS
<1> USE NoFileAssumption DEF Init
<1>1. FilesInv
  <2>1. Holds(job)
    BY IdleHolds
  <2>2. job.script = "none" /\ tokens \in Pair
    BY DEF Idle, NoTokens, Pair, Revision
  <2> QED BY <2>1, <2>2 DEF FilesInv, PlacesInv, NoTokens, Revision
<1>2. LoaderInv
  BY DEF LoaderInv, Closed, NoItem, Revision
<1>3. ItemInv
  BY DEF ItemInv, NoItem
<1>4. ViewInv
  BY DEF ViewInv, NoManifest, NoView, Revision, IsView
<1> QED BY <1>1, <1>2, <1>3, <1>4 DEF IInv

(* What changes a file of the store.                                       *)
Writing ==
  Edit \/ WriteMeans \/ WriteVectors \/ WriteKeys \/ WriteTokens \/ WriteSidecar

Starting ==
  StartMeans \/ StartConvert \/ StartTokens \/ StartSidecar \/ Kill

Loading ==
  ReadTexts \/ Gate \/ LoadVectors \/ LoadTokens \/ ServeCaption \/ ServeNone \/ CloseLoader

Viewing ==
  BuildManifest \/ (\E stripped \in BOOLEAN : OpenView(stripped)) \/ ServeView \/ CloseView

(* Every step is of one of these classes, or stutters.                     *)
LEMMA StepCases ==
  ASSUME [Next]_vars
  PROVE  Writing \/ Starting \/ Loading \/ Viewing \/ UNCHANGED vars
BY DEF Next, Writing, Starting, Loading, Viewing

(* Only the writers change a file, and the loader or the view then knows   *)
(* nothing any more, unless it is the corpus, past the loader's gate.      *)
LEMMA WritingStep ==
  ASSUME Writing
  PROVE  /\ loader' = loader /\ item' = item /\ view' = view /\ manifest' = manifest
         /\ \/ moved' = TRUE
            \/ /\ moved' = moved /\ loader.pc # "gate"
               /\ embs' = embs /\ keys' = keys /\ meta' = meta /\ tokens' = tokens
<1>1. CASE Edit
  <2>1. /\ loader' = loader /\ item' = item /\ view' = view /\ manifest' = manifest
        /\ embs' = embs /\ keys' = keys /\ meta' = meta /\ tokens' = tokens
    BY <1>1 DEF Edit, files
  <2>2. CASE loader.pc = "gate"
    BY <1>1, <2>1, <2>2 DEF Edit
  <2>3. CASE loader.pc # "gate"
    BY <1>1, <2>1, <2>3 DEF Edit
  <2> QED BY <2>2, <2>3
<1>2. CASE ~ Edit
  BY <1>2 DEF Writing, WriteMeans, WriteVectors, WriteKeys, WriteTokens, WriteSidecar, Touch
<1> QED BY <1>1, <1>2

(* All other steps leave the files alone.                                  *)
LEMMA QuietStep ==
  ASSUME Starting \/ Loading \/ Viewing \/ UNCHANGED vars
  PROVE  /\ family' = family /\ corpus' = corpus /\ npz' = npz /\ embs' = embs
         /\ keys' = keys /\ meta' = meta /\ tokens' = tokens
<1>1. CASE Starting
  BY SMTT(30), <1>1 DEF Starting, StartMeans, StartConvert, StartTokens, StartSidecar, Kill,
     Start, files
<1>2. CASE Loading
  BY <1>2 DEF Loading, ReadTexts, Gate, LoadVectors, LoadTokens, ServeCaption, ServeNone,
              CloseLoader, LoaderStep, files
<1>3. CASE Viewing
  BY <1>3 DEF Viewing, BuildManifest, OpenView, ServeView, CloseView, files
<1>4. CASE UNCHANGED vars
  BY <1>4 DEF vars, files
<1> QED BY <1>1, <1>2, <1>3, <1>4

(* A script that starts has read revisions that were there.                *)
LEMMA StartFacts ==
  ASSUME NEW script \in Scripts \ {"none"}, NEW k \in Revision, NEW source \in Corpora,
         script = "tokens" => k # NoFile,
         Start(script, k, source)
  PROVE  Holds(job') /\ job'.script = script
BY StartHolds DEF Start

(* What runs after a start or a kill belongs to the cache's family.        *)
LEMMA StartingStep ==
  ASSUME FilesInv, Starting
  PROVE  /\ Holds(job')
         /\ \/ job'.script = "none"
            \/ family = "t5" /\ job'.script # "sidecar"
            \/ family # "t5" /\ job'.script = "sidecar"
<1>0. /\ corpus \in Corpora /\ npz \in Revision /\ keys \in Revision /\ NoFile \in Revision
      /\ family # "t5" => npz = NoFile
  BY DEF FilesInv, PlacesInv, Revision
<1>1. CASE StartMeans
  <2>1. "means" \in Scripts \ {"none"}
    BY DEF Scripts
  <2>2. Holds(job') /\ job'.script = "means"
    BY <1>0, <1>1, <2>1, StartFacts DEF StartMeans
  <2> QED BY <1>1, <2>2 DEF StartMeans
<1>2. CASE StartConvert
  <2>1. "convert" \in Scripts \ {"none"}
    BY DEF Scripts
  <2>2. family = "t5" /\ npz \in Corpora /\ Start("convert", NoFile, npz)
    BY <1>0, <1>2 DEF StartConvert, Revision
  <2>3. Holds(job') /\ job'.script = "convert"
    BY <1>0, <2>1, <2>2, StartFacts
  <2> QED BY <2>2, <2>3
<1>3. CASE StartTokens
  <2>1. "tokens" \in Scripts \ {"none"}
    BY DEF Scripts
  <2>2. Holds(job') /\ job'.script = "tokens"
    BY <1>0, <1>3, <2>1, StartFacts DEF StartTokens
  <2> QED BY <1>3, <2>2 DEF StartTokens
<1>4. CASE StartSidecar
  <2>1. "sidecar" \in Scripts \ {"none"}
    BY DEF Scripts
  <2>2. family # "t5" /\ Start("sidecar", NoFile, corpus)
    BY <1>4 DEF StartSidecar
  <2>3. Holds(job') /\ job'.script = "sidecar"
    BY <1>0, <2>1, <2>2, StartFacts
  <2> QED BY <2>2, <2>3
<1>5. CASE Kill
  BY <1>5, IdleHolds DEF Kill
<1> QED BY <1>1, <1>2, <1>3, <1>4, <1>5 DEF Starting

(* Every step keeps FilesInv, and a file that is there stays.              *)
LEMMA FilesStep ==
  ASSUME FilesInv, [Next]_vars
  PROVE  FilesInv' /\ (embs # NoFile => embs' # NoFile) /\ (keys # NoFile => keys' # NoFile)
<1>1. CASE Writing
  <2> USE NoFileAssumption
  <2>0. Holds(job) /\ job.read \in Pair /\ job.read.texts \in Revision /\ job.read.keys \in Revision
    BY DEF FilesInv, Holds, Pair
  <2>1. CASE Edit
    BY <1>1, <2>1, <2>0 DEF FilesInv, PlacesInv, Edit, files
  <2>2. CASE Writing /\ ~ Edit
    <3>1. CASE WriteVectors
      <4>1. /\ job'.script = job.script /\ job'.read = job.read
              /\ job' \in [script : Scripts, read : Pair, part : 0 .. 1]
        BY <2>0, <3>1 DEF WriteVectors, Holds
      <4>2. Holds(job')
        BY <2>0, <4>1 DEF Holds
      <4> QED BY <2>0, <3>1, <4>1, <4>2
            DEF FilesInv, PlacesInv, WriteVectors, Running, Holds, Revision
    <3>2. ASSUME job' = Idle PROVE Holds(job') /\ job'.script = "none"
      BY <3>2, IdleHolds
    <3>3. CASE WriteMeans
      BY <2>0, <3>2, <3>3 DEF FilesInv, PlacesInv, WriteMeans, Running, Holds, Revision
    <3>4. CASE WriteKeys
      BY <2>0, <3>2, <3>4 DEF FilesInv, PlacesInv, WriteKeys, Running, Holds, Revision
    <3>5. CASE WriteTokens
      BY <2>0, <3>2, <3>5 DEF FilesInv, PlacesInv, WriteTokens, Running, Holds, Revision
    <3>6. CASE WriteSidecar
      <4>1. tokens' \in Pair /\ tokens'.keys = embs' /\ tokens'.texts = embs'
        BY <2>0, <3>6 DEF WriteSidecar, Pair
      <4> QED BY <2>0, <3>2, <3>6, <4>1
            DEF FilesInv, PlacesInv, WriteSidecar, Running, Holds, Revision
    <3> QED BY <2>2, <3>1, <3>3, <3>4, <3>5, <3>6 DEF Writing
  <2> QED BY <1>1, <2>1, <2>2
<1>2. CASE Starting
  BY <1>2, StartingStep, QuietStep DEF FilesInv, PlacesInv
<1>3. CASE Loading \/ Viewing \/ UNCHANGED vars
  <2>1. job' = job
    BY <1>3 DEF Loading, ReadTexts, Gate, LoadVectors, LoadTokens, ServeCaption, ServeNone,
                CloseLoader, LoaderStep, Viewing, BuildManifest, OpenView, ServeView, CloseView,
                vars
  <2> QED BY <1>3, <2>1, QuietStep DEF FilesInv, PlacesInv
<1> QED BY <1>1, <1>2, <1>3, StepCases

(* A step that leaves the loader alone keeps LoaderInv.                    *)
LEMMA LoaderKept ==
  ASSUME FilesInv, LoaderInv, [Next]_vars,
         loader' = loader, item' = item, moved' = TRUE \/ (moved' = moved /\ keys' = keys
           /\ meta' = meta /\ (corpus' = corpus \/ loader.pc # "gate"))
  PROVE  LoaderInv'
<1>1. (embs # NoFile => embs' # NoFile) /\ (keys # NoFile => keys' # NoFile)
  BY FilesStep
<1> QED BY <1>1 DEF LoaderInv

(* A loader that gives up, or is closed.                                   *)
LEMMA ClosedInv ==
  ASSUME FilesInv, LoaderInv, loader' = Closed, moved' \in BOOLEAN, item' = NoItem
  PROVE  LoaderInv'
<1>1. /\ Closed.pc = "closed" /\ ~ Closed.gated /\ Closed.texts = NoFile
      /\ Closed.labels = NoFile /\ Closed.tokenLabels = NoFile
      /\ Closed \in [pc : {"closed", "gate", "vectors", "tokens", "serving"}, gated : BOOLEAN,
                     texts : Revision, labels : Revision, tokenLabels : Revision]
  BY DEF Closed, Revision
<1> QED BY <1>1 DEF LoaderInv

(* The loader's own steps keep LoaderInv.                                  *)
LEMMA LoadingStep ==
  ASSUME FilesInv, LoaderInv, Loading
  PROVE  LoaderInv'
<1> USE NoFileAssumption
<1>0. /\ family' = family /\ corpus' = corpus /\ embs' = embs /\ keys' = keys
      /\ meta' = meta /\ tokens' = tokens
  BY QuietStep
<1>f. corpus \in Corpora /\ keys \in Revision /\ meta \in Revision
  BY DEF FilesInv, PlacesInv
<1>1. CASE ReadTexts
  <2>1. /\ loader'.pc = "gate" /\ loader'.gated = FALSE /\ loader'.texts = corpus
        /\ loader'.labels = NoFile /\ loader'.tokenLabels = NoFile
        /\ loader' \in [pc : {"closed", "gate", "vectors", "tokens", "serving"}, gated : BOOLEAN,
                        texts : Revision, labels : Revision, tokenLabels : Revision]
    BY <1>1, <1>f DEF ReadTexts, Closed, Revision
  <2> QED BY <1>0, <1>1, <1>f, <2>1 DEF ReadTexts, LoaderInv
<1>2. CASE Gate
  <2>1. CASE meta \in {NoFile, corpus}
    <3>1. loader' = [loader EXCEPT !.pc = "vectors", !.gated = meta # NoFile]
      BY <1>2, <2>1 DEF Gate
    <3>2. /\ loader'.pc = "vectors" /\ loader'.gated = (meta # NoFile)
          /\ loader'.texts = loader.texts /\ loader'.labels = loader.labels
          /\ loader'.tokenLabels = loader.tokenLabels
          /\ loader' \in [pc : {"closed", "gate", "vectors", "tokens", "serving"}, gated : BOOLEAN,
                          texts : Revision, labels : Revision, tokenLabels : Revision]
      BY <3>1 DEF LoaderInv
    <3> QED BY <1>0, <1>2, <1>f, <2>1, <3>2 DEF Gate, LoaderInv
  <2>2. CASE meta \notin {NoFile, corpus}
    BY <1>2, <2>2, ClosedInv DEF Gate, Refuse, LoaderInv
  <2> QED BY <2>1, <2>2
<1>3. CASE LoadVectors
  <2>1. CASE loader' = Closed
    BY <1>3, <2>1, ClosedInv DEF LoadVectors, LoaderInv
  <2>2. CASE loader' # Closed
    <3>1. PICK pc \in {"tokens", "serving"} : loader' = [loader EXCEPT !.pc = pc, !.labels = keys]
      BY <1>3, <2>2 DEF LoadVectors, Refuse
    <3>2. /\ loader'.pc = pc /\ loader'.gated = loader.gated
          /\ loader'.texts = loader.texts /\ loader'.labels = keys
          /\ loader'.tokenLabels = loader.tokenLabels
          /\ loader' \in [pc : {"closed", "gate", "vectors", "tokens", "serving"}, gated : BOOLEAN,
                          texts : Revision, labels : Revision, tokenLabels : Revision]
      BY <1>f, <3>1 DEF LoaderInv
    <3> QED BY <1>0, <1>3, <1>f, <3>2 DEF LoadVectors, LoaderInv
  <2> QED BY <2>1, <2>2
<1>4. CASE LoadTokens
  <2>1. CASE loader' = Closed
    BY <1>4, <2>1, ClosedInv DEF LoadTokens, LoaderInv
  <2>2. CASE loader' # Closed
    <3>1. /\ loader' = [loader EXCEPT !.pc = "serving", !.tokenLabels = keys]
          /\ Counted(loader.labels, keys)
      BY <1>4, <2>2 DEF LoadTokens, Refuse
    <3>2. /\ loader'.pc = "serving" /\ loader'.gated = loader.gated
          /\ loader'.texts = loader.texts /\ loader'.labels = loader.labels
          /\ loader'.tokenLabels = keys
          /\ loader' \in [pc : {"closed", "gate", "vectors", "tokens", "serving"}, gated : BOOLEAN,
                          texts : Revision, labels : Revision, tokenLabels : Revision]
      BY <1>f, <3>1 DEF LoaderInv
    <3> QED BY <1>0, <1>4, <1>f, <3>1, <3>2 DEF LoadTokens, LoaderInv
  <2> QED BY <2>1, <2>2
<1>5. CASE ServeCaption \/ ServeNone
  <2>1. loader' = loader /\ moved' = moved /\ loader.pc = "serving"
    BY <1>5 DEF ServeCaption, ServeNone
  <2> QED BY <1>0, <2>1 DEF LoaderInv
<1>6. CASE CloseLoader
  BY <1>6, ClosedInv DEF CloseLoader, LoaderInv
<1> QED BY <1>1, <1>2, <1>3, <1>4, <1>5, <1>6 DEF Loading

(* So does every step.                                                     *)
LEMMA LoaderStepKeeps ==
  ASSUME FilesInv, LoaderInv, [Next]_vars
  PROVE  LoaderInv'
<1>1. CASE Writing
  <2>1. loader' = loader /\ item' = item
    BY <1>1, WritingStep
  <2>2. moved' = TRUE \/ (moved' = moved /\ keys' = keys /\ meta' = meta /\ loader.pc # "gate")
    BY <1>1, WritingStep
  <2> QED BY <2>1, <2>2, LoaderKept
<1>2. CASE Starting \/ UNCHANGED vars
  <2>1. loader' = loader /\ item' = item /\ moved' = moved
    BY <1>2 DEF Starting, StartMeans, StartConvert, StartTokens, StartSidecar, Start, Kill,
                readers, vars
  <2> QED BY <1>2, <2>1, QuietStep, LoaderKept
<1>3. CASE Loading
  BY <1>3, LoadingStep
<1>4. CASE Viewing
  <2>1. loader' = loader /\ item' = item
    BY <1>4 DEF Viewing, BuildManifest, OpenView, ServeView, CloseView, readers
  <2>2. CASE \E stripped \in BOOLEAN : OpenView(stripped)
    <3>1. loader.pc = "closed" /\ moved' = FALSE
      BY <2>2 DEF OpenView
    <3> QED BY <1>4, <2>1, <3>1, QuietStep DEF LoaderInv
  <2>3. CASE ~ \E stripped \in BOOLEAN : OpenView(stripped)
    <3>1. moved' = moved
      BY <1>4, <2>3 DEF Viewing, BuildManifest, ServeView, CloseView, readers
    <3> QED BY <1>4, <2>1, <3>1, QuietStep, LoaderKept
  <2> QED BY <2>2, <2>3
<1> QED BY <1>1, <1>2, <1>3, <1>4, StepCases

(* Every step keeps ItemInv: a sample stays what the loader would serve.   *)
LEMMA ItemStep ==
  ASSUME LoaderInv, ItemInv, [Next]_vars
  PROVE  ItemInv'
<1> USE DEF ItemInv
<1>2. ASSUME loader' = loader, item' = item, embs' = embs, tokens' = tokens, moved' = moved
      PROVE  ItemInv'
  BY ZenonT(40), <1>2 DEF Served, StringOf, VectorText, TokenText
<1>1. CASE Writing
  <2>1. CASE moved' = TRUE
    BY <2>1
  <2>2. CASE moved' # TRUE
    <3>1. loader' = loader /\ item' = item /\ embs' = embs /\ tokens' = tokens /\ moved' = moved
      BY <1>1, <2>2, WritingStep
    <3> QED BY <1>2, <3>1
  <2> QED BY <2>1, <2>2
<1>3. ASSUME item' = NoItem PROVE ItemInv'
  BY <1>3 DEF NoItem
<1>4. CASE Starting \/ UNCHANGED vars
  <2>1. loader' = loader /\ item' = item /\ moved' = moved
    BY <1>4 DEF Starting, StartMeans, StartConvert, StartTokens, StartSidecar, Start, Kill,
                readers, vars
  <2> QED BY <1>2, <1>4, <2>1, QuietStep
<1>5. CASE ReadTexts \/ Gate \/ LoadVectors \/ LoadTokens
  <2>1. loader.pc # "serving" /\ item' = item
    BY <1>5 DEF ReadTexts, Gate, LoadVectors, LoadTokens
  <2> QED BY <1>3, <2>1 DEF LoaderInv
<1>6. CASE ServeCaption
  <2>1. PICK m \in Motions : \E i \in 1 .. Len(Groups[loader.labels][m]) : item' = Served(m, i)
    BY <1>6 DEF ServeCaption
  <2>2. PICK i \in 1 .. Len(Groups[loader.labels][m]) : item' = Served(m, i)
    BY <2>1
  <2>3. loader' = loader /\ embs' = embs /\ tokens' = tokens /\ loader.pc = "serving"
    BY <1>6, QuietStep DEF ServeCaption, Loading
  <2>4. Served(m, i)' = Served(m, i)
    BY <2>3 DEF Served, StringOf, VectorText, TokenText
  <2> QED BY <2>2, <2>3, <2>4
<1>7. CASE ServeNone
  BY <1>7 DEF ServeNone, NoItem
<1>8. CASE CloseLoader
  BY <1>3, <1>8 DEF CloseLoader
<1>9. CASE Viewing
  <2>1. loader' = loader /\ item' = item
    BY <1>9 DEF Viewing, BuildManifest, OpenView, ServeView, CloseView, readers
  <2>2. CASE \E stripped \in BOOLEAN : OpenView(stripped)
    <3>1. loader.pc = "closed"
      BY <2>2 DEF OpenView
    <3> QED BY <1>3, <2>1, <3>1 DEF LoaderInv
  <2>3. CASE ~ \E stripped \in BOOLEAN : OpenView(stripped)
    <3>1. moved' = moved
      BY <1>9, <2>3 DEF Viewing, BuildManifest, ServeView, CloseView, readers
    <3> QED BY <1>2, <1>9, <2>1, <3>1, QuietStep
  <2> QED BY <2>2, <2>3
<1> QED BY <1>1, <1>4, <1>5, <1>6, <1>7, <1>8, <1>9, StepCases DEF Loading

(* Every step keeps ViewInv.                                               *)
LEMMA ViewStep ==
  ASSUME FilesInv, ViewInv, [Next]_vars
  PROVE  ViewInv'
<1> USE NoFileAssumption
<1>0. (embs # NoFile => embs' # NoFile) /\ keys \in Revision /\ corpus \in Corpora
  BY FilesStep DEF FilesInv, PlacesInv
<1>1. ASSUME view' = view, manifest' = manifest, moved' = TRUE
      PROVE  ViewInv'
  BY <1>0, <1>1 DEF ViewInv
<1>2. ASSUME view' = view, manifest' = manifest, moved' = moved, embs' = embs, keys' = keys
      PROVE  ViewInv'
  BY <1>2 DEF ViewInv
<1>3. CASE Writing
  <2>1. view' = view /\ manifest' = manifest
    BY <1>3, WritingStep
  <2>2. moved' = TRUE \/ (moved' = moved /\ embs' = embs /\ keys' = keys)
    BY <1>3, WritingStep
  <2> QED BY <1>1, <1>2, <2>1, <2>2
<1>4. CASE Starting \/ UNCHANGED vars
  <2>1. view' = view /\ manifest' = manifest /\ moved' = moved
    BY <1>4 DEF Starting, StartMeans, StartConvert, StartTokens, StartSidecar, Start, Kill,
                readers, vars
  <2> QED BY <1>2, <1>4, <2>1, QuietStep
<1>5. CASE Loading
  <2>1. view' = view /\ manifest' = manifest
    BY <1>5 DEF Loading, ReadTexts, Gate, LoadVectors, LoadTokens, ServeCaption, ServeNone,
                CloseLoader, LoaderStep
  <2>2. CASE ReadTexts
    <3>1. view.pc = "closed"
      BY <2>2 DEF ReadTexts, NoView
    <3> QED BY <2>1, <3>1 DEF ViewInv
  <2>3. CASE ~ ReadTexts
    <3>1. moved' = moved
      BY <1>5, <2>3 DEF Loading, Gate, LoadVectors, LoadTokens, ServeCaption, ServeNone, CloseLoader
    <3> QED BY <1>2, <1>5, <2>1, <3>1, QuietStep
  <2> QED BY <2>2, <2>3
<1>6. CASE BuildManifest
  <2>1. PICK stamp \in BOOLEAN : manifest' = [corpus |-> corpus, stamp |-> stamp]
    BY <1>6 DEF BuildManifest
  <2>2. manifest' \in [corpus : Revision, stamp : BOOLEAN] /\ manifest'.corpus = corpus
    BY <1>0, <2>1 DEF Revision
  <2>3. view' = view /\ view.pc = "closed"
    BY <1>6 DEF BuildManifest, readers, NoView
  <2> QED BY <1>0, <1>6, <2>2, <2>3 DEF BuildManifest, ViewInv
<1>7. ASSUME NEW stripped \in BOOLEAN, OpenView(stripped) PROVE ViewInv'
  <2>1. view' = [NoView EXCEPT !.pc = "open", !.stripped = stripped, !.labels = keys]
    BY <1>7 DEF OpenView
  <2>2. view'.pc = "open" /\ view'.stripped = stripped /\ view'.labels = keys
    BY <2>1 DEF NoView
  <2>5. IsView(view')
    BY <2>1 DEF NoView, IsView
  <2>3. embs' = embs /\ keys' = keys /\ manifest' = manifest
    BY <1>7 DEF OpenView, files
  <2>4. /\ manifest # NoManifest /\ embs # NoFile /\ keys # NoFile
        /\ \A m \in PlannedOf(manifest.corpus, stripped) :
             \A i \in IndexOf(manifest.corpus, m, stripped) : <<m, i - 1>> \in KeysOf(keys)
    BY <1>7, PlanFacts DEF OpenView
  <2> QED BY <1>0, <2>2, <2>3, <2>4, <2>5 DEF ViewInv, Revision
<1>8. CASE ServeView
  <2>1. /\ embs' = embs /\ keys' = keys /\ manifest' = manifest /\ moved' = moved
        /\ view.pc \in {"open", "served"}
    BY <1>8 DEF ServeView, files
  <2>2. PICK m \in PlannedOf(manifest.corpus, view.stripped) :
          \E i \in IndexOf(manifest.corpus, m, view.stripped) :
            view' = [view EXCEPT !.pc = "served", !.motion = m,
                                 !.text = HeldOf(manifest.corpus, m)[i],
                                 !.vector = VectorAt(embs, RowAt(view.labels, <<m, i - 1>>))]
    BY <1>8, PlanFacts DEF ServeView
  <2>3. PICK i \in IndexOf(manifest.corpus, m, view.stripped) :
            view' = [view EXCEPT !.pc = "served", !.motion = m,
                                 !.text = HeldOf(manifest.corpus, m)[i],
                                 !.vector = VectorAt(embs, RowAt(view.labels, <<m, i - 1>>))]
    BY <2>2
  <2> DEFINE vector == VectorAt(embs, RowAt(view.labels, <<m, i - 1>>))
             text == HeldOf(manifest.corpus, m)[i]
  <2>4. view = [pc |-> view.pc, labels |-> view.labels, stripped |-> view.stripped,
                motion |-> view.motion, text |-> view.text, vector |-> view.vector]
    BY DEF ViewInv, IsView
  <2>5. view' = [pc |-> "served", labels |-> view.labels, stripped |-> view.stripped,
                 motion |-> m, text |-> text, vector |-> vector]
    BY <2>3, <2>4
  <2>6. /\ view'.pc = "served" /\ view'.stripped = view.stripped /\ view'.labels = view.labels
        /\ view'.motion = m /\ view'.text = text /\ view'.vector = vector /\ IsView(view')
    BY <2>5 DEF IsView
  <2>7. \E n \in PlannedOf(manifest'.corpus, view'.stripped) :
          \E k \in IndexOf(manifest'.corpus, n, view'.stripped) :
            /\ view'.motion = n
            /\ view'.text = HeldOf(manifest'.corpus, n)[k]
            /\ ~ moved' => view'.vector = VectorAt(embs', RowAt(view'.labels, <<n, k - 1>>))
    BY <2>1, <2>6
  <2> HIDE DEF vector, text
  <2> QED BY <2>1, <2>6, <2>7 DEF ViewInv
<1>9. CASE CloseView
  <2>1. view'.pc = "closed" /\ manifest' = manifest /\ IsView(view')
    BY <1>9 DEF CloseView, NoView, IsView
  <2> QED BY <2>1 DEF ViewInv
<1> QED BY <1>3, <1>4, <1>5, <1>6, <1>7, <1>8, <1>9, StepCases DEF Viewing

-----------------------------------------------------------------------------
(* What the invariant gives.                                               *)

(* The types, and that tokens have a row wherever vectors have one.        *)
LEMMA InvTypes == IInv => TypeOK
<1> SUFFICES ASSUME IInv PROVE TypeOK
  OBVIOUS
<1>1. FilesInv /\ LoaderInv /\ ViewInv
  BY DEF IInv
<1>2. ASSUME loader.tokenLabels # NoFile, NEW m \in Motions
      PROVE  Len(Groups[loader.tokenLabels][m]) >= Len(Groups[loader.labels][m])
  <2>1. /\ loader.labels \in Corpora /\ loader.tokenLabels \in Corpora
        /\ Counted(loader.labels, loader.tokenLabels)
    BY <1>1, <1>2 DEF LoaderInv, Revision
  <2>2. /\ Len(Groups[loader.labels][m]) \in Nat /\ Len(Groups[loader.tokenLabels][m]) \in Nat
        /\ Groups[loader.labels][m] = <<>> => Len(Groups[loader.labels][m]) = 0
    BY <2>1, GroupFacts
  <2> QED BY <2>1, <2>2 DEF Counted
<1>3. tokens \in [keys : Corpora \cup {NoFile}, texts : Corpora \cup {NoFile}]
  BY <1>1 DEF FilesInv, PlacesInv, Pair, Revision
<1>4. /\ corpus \in Corpora /\ {npz, embs, keys, meta} \subseteq Corpora \cup {NoFile}
      /\ loader.pc \in {"closed", "gate", "vectors", "tokens", "serving"}
      /\ manifest.corpus \in Corpora \cup {NoFile}
  BY <1>1 DEF FilesInv, PlacesInv, LoaderInv, ViewInv, Revision
<1> QED BY <1>2, <1>3, <1>4 DEF TypeOK

(* When strings, vectors and labels are of one revision, row i of a group  *)
(* encodes caption i of its motion.                                        *)
LEMMA RowText ==
  ASSUME NEW c \in Corpora, NEW m \in Motions, NEW i \in 1 .. Len(Groups[c][m])
  PROVE  /\ VectorAt(c, Groups[c][m][i]) = Ordered(Texts[c][m])[i]
         /\ Lookup(c, KeyList[c][Groups[c][m][i]]) = Ordered(Texts[c][m])[i]
         /\ i <= Len(Ordered(Texts[c][m]))
<1>1. KeyList[c][Groups[c][m][i]] = <<m, i - 1>> /\ i <= Len(Ordered(Texts[c][m]))
  BY GroupFacts
<1>2. Len(Groups[c][m]) \in Nat
  BY GroupFacts
<1>3. (i - 1) + 1 = i
  BY <1>2
<1> QED BY <1>1, <1>3 DEF VectorAt, Lookup

(* With everything of one revision, what is served is of one caption.      *)
LEMMA ServedAgrees ==
  ASSUME NEW c \in Corpora, loader.texts = c, loader.labels = c, embs = c,
         loader.tokenLabels # NoFile =>
           loader.tokenLabels = c /\ tokens = [keys |-> c, texts |-> c],
         NEW m \in Motions, NEW i \in 1 .. Len(Groups[c][m])
  PROVE  /\ Served(m, i).string = Served(m, i).vector
         /\ Served(m, i).token \in {"", Served(m, i).vector}
<1> DEFINE text == Ordered(Texts[c][m])[i]
           token == IF loader.tokenLabels = NoFile THEN ""
                    ELSE TokenText(Groups[loader.tokenLabels][m][i])
<1>1. StringOf(m, i) = text
  BY RowText DEF StringOf
<1>2. VectorText(Groups[loader.labels][m][i]) = text
  BY RowText, PlanFacts
<1>3. token \in {"", text}
  <2>1. CASE loader.tokenLabels = NoFile
    BY <2>1
  <2>2. CASE loader.tokenLabels # NoFile
    <3>1. tokens.keys = c /\ tokens.texts = c /\ loader.tokenLabels = c
      BY <2>2
    <3> QED BY <2>2, <3>1, RowText DEF TokenText
  <2> QED BY <2>1, <2>2
<1>4. /\ Served(m, i).string = StringOf(m, i)
      /\ Served(m, i).vector = VectorText(Groups[loader.labels][m][i])
      /\ Served(m, i).token = token
  BY DEF Served
<1> HIDE DEF text, token
<1> QED BY <1>1, <1>2, <1>3, <1>4

(* The sample that is out agrees once the vectors are of its texts.        *)
LEMMA ItemAgrees ==
  ASSUME IInv, item.hasText, ~ moved, embs = loader.texts, keys = embs,
         loader.tokenLabels # NoFile => tokens = [keys |-> keys, texts |-> keys]
  PROVE  item.string = item.vector /\ item.token \in {"", item.vector}
<1>1. FilesInv /\ LoaderInv /\ ItemInv
  BY DEF IInv
<1>2. loader.pc = "serving"
  BY <1>1 DEF ItemInv
<1>3. PICK m \in Motions : \E i \in 1 .. Len(Groups[loader.labels][m]) : item = Served(m, i)
  BY <1>1 DEF ItemInv
<1>4. PICK i \in 1 .. Len(Groups[loader.labels][m]) : item = Served(m, i)
  BY <1>3
<1>5. /\ embs \in Corpora /\ loader.labels = embs
      /\ loader.tokenLabels # NoFile => loader.tokenLabels = embs
  BY <1>1, <1>2 DEF LoaderInv, Revision
<1> QED BY <1>4, <1>5, ServedAgrees

(* Behind the gate the vectors are of the corpus the loader has read.      *)
LEMMA InvGate == IInv => GateBinds
<1> SUFFICES ASSUME IInv, item.hasText, loader.gated, ~ moved
             PROVE  item.string = item.vector /\ item.token \in {"", item.vector}
  BY DEF GateBinds
<1>1. FilesInv /\ LoaderInv /\ ItemInv
  BY DEF IInv
<1>2. meta = loader.texts /\ meta # NoFile
  BY <1>1 DEF LoaderInv, ItemInv
<1>3. keys = embs /\ meta = embs /\ tokens = [keys |-> embs, texts |-> embs]
  BY <1>1, <1>2 DEF FilesInv, PlacesInv
<1> QED BY <1>2, <1>3, ItemAgrees

(* The chain of scripts on one corpus.                                     *)
LEMMA InvPipeline == IInv => PipelineBinds
BY ItemAgrees DEF PipelineBinds

(* The views for evaluation.                                               *)
LEMMA InvViews == IInv => EvalViews
<1> SUFFICES ASSUME IInv, view.pc = "served" PROVE EvalViews
  BY DEF EvalViews
<1> DEFINE c == manifest.corpus
           plan == PlannedOf(c, view.stripped)
<1>1. FilesInv /\ ViewInv
  BY DEF IInv
<1>2. PICK m \in plan : \E i \in IndexOf(c, m, view.stripped) :
        /\ view.motion = m
        /\ view.text = HeldOf(c, m)[i]
        /\ ~ moved => view.vector = VectorAt(embs, RowAt(view.labels, <<m, i - 1>>))
  BY <1>1 DEF ViewInv
<1>3. PICK i \in IndexOf(c, m, view.stripped) :
        /\ view.motion = m
        /\ view.text = HeldOf(c, m)[i]
        /\ ~ moved => view.vector = VectorAt(embs, RowAt(view.labels, <<m, i - 1>>))
  BY <1>2
<1>4. /\ c \in Corpora /\ view.stripped \in BOOLEAN /\ view.labels \in Corpora
      /\ <<m, i - 1>> \in KeysOf(view.labels) /\ m \in Motions
      /\ ~ moved => view.labels = keys
      /\ \E n \in 1 .. Len(Texts[c][m].captions) : Texts[c][m].captions[n] \notin Corrupt
  BY <1>1 DEF ViewInv, Revision, PlannedOf
<1>5. /\ HeldOf(c, m) \in Seq(STRING)
      /\ \A n \in 1 .. Len(HeldOf(c, m)) : HeldOf(c, m)[n] \notin Corrupt
      /\ Len(HeldOf(c, m)) >= 1
  BY ZenonT(40), <1>4, TextsType, KeptFacts DEF HeldOf
<1>6. i \in 1 .. Len(HeldOf(c, m)) /\ (view.stripped => HeldOf(c, m)[i] \in AnimalOnly)
  BY <1>5 DEF IndexOf
<1>7. ASSUME ~ moved, keys = embs, embs = c, Regular(view.motion)
      PROVE  view.vector = view.text
  <2>1. HeldOf(c, m) = Ordered(Texts[c][m])
    BY <1>3, <1>7, PlanFacts DEF Regular
  <2>2. \E r \in 1 .. Len(KeyList[c]) : KeyList[c][r] = <<m, i - 1>>
    BY SMTT(30), <1>4, <1>7, KeyListFacts
  <2>3. KeyList[c][RowAt(c, <<m, i - 1>>)] = <<m, i - 1>>
    BY <2>2 DEF RowAt
  <2>4. (i - 1) + 1 = i
    BY <1>5, <1>6
  <2>5. VectorAt(c, RowAt(c, <<m, i - 1>>)) = Ordered(Texts[c][m])[i]
    BY <2>3, <2>4 DEF VectorAt
  <2> QED BY <1>3, <1>4, <1>7, <2>1, <2>5
<1> QED BY <1>3, <1>5, <1>6, <1>7 DEF EvalViews

(* For any corpora, and edits, builds, kills and readers in any order,     *)
(* what is served together is of one caption: behind the provenance gate,  *)
(* after an unbroken chain of scripts, and in both views for evaluation    *)
(* (AnyTopDataset.__getitem__, AnyTopT2MEvalDataset.__getitem__).  Two     *)
(* things are excepted: arrays replaced under a reader that maps them, and *)
(* an edit of the corpus between its parsing and its hashing by the gate.  *)
THEOREM CaptionsBoundCorrect == Spec => []CaptionsBound
<1>1. IInv /\ [Next]_vars => IInv'
  BY FilesStep, LoaderStepKeeps, ItemStep, ViewStep DEF IInv
<1>2. IInv => CaptionsBound
  BY InvTypes, InvGate, InvPipeline, InvViews DEF CaptionsBound
<1> QED BY InitInv, <1>1, <1>2, PTL DEF Spec
=============================================================================
