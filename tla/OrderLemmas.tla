---------------------------- MODULE OrderLemmas ----------------------------
(***************************************************************************)
(* Finite sets of integers and orders of keys, for the proofs about        *)
(* several components.  The heart of the first part is a counting          *)
(* argument: ranking the elements of a finite set of integers by the       *)
(* number of smaller ones numbers them 0, 1, 2, ...  The second part is    *)
(* about taking elements out of a sequence.                                *)
(***************************************************************************)
EXTENDS KeyLists, Integers, FiniteSets, Sequences, SequencesExt,
        FiniteSetTheorems, SequenceTheorems, TLAPS

Below(S, p) == {q \in S : q < p}
Rank(S) == [p \in S |-> Cardinality(Below(S, p))]

\* The rank of an element is smaller than the size of the set, and a smaller
\* element has a smaller rank.
LEMMA RankBounds ==
    ASSUME NEW S \in SUBSET Int, IsFiniteSet(S)
    PROVE  /\ \A p \in S : /\ Cardinality(Below(S, p)) \in Nat
                           /\ Cardinality(Below(S, p)) < Cardinality(S)
           /\ \A p, q \in S : p < q => Cardinality(Below(S, p)) < Cardinality(Below(S, q))
<1>0. Cardinality(S) \in Nat
  BY FS_CardinalityType
<1>1. ASSUME NEW p \in S, NEW T \in SUBSET S, Below(S, p) \subseteq T, p \in T
      PROVE  /\ Cardinality(Below(S, p)) \in Nat
             /\ Cardinality(Below(S, p)) < Cardinality(T)
  <2>1. IsFiniteSet(T) /\ Cardinality(T) \in Nat
    BY <1>1, FS_Subset, FS_CardinalityType
  <2>2. Below(S, p) \in SUBSET T /\ p \notin Below(S, p)
    BY <1>1 DEF Below
  <2>3. /\ IsFiniteSet(Below(S, p))
        /\ Cardinality(Below(S, p)) <= Cardinality(T)
        /\ Cardinality(T) = Cardinality(Below(S, p)) => T = Below(S, p)
    BY <2>1, <2>2, FS_Subset
  <2>4. Cardinality(Below(S, p)) \in Nat
    BY <2>3, FS_CardinalityType
  <2> QED
    BY <1>1, <2>1, <2>2, <2>3, <2>4
<1>2. \A p \in S : Below(S, p) \subseteq S
  BY DEF Below
<1>3. \A p, q \in S : p < q => /\ Below(S, p) \subseteq Below(S, q)
                               /\ p \in Below(S, q)
                               /\ Below(S, q) \subseteq S
  <2> SUFFICES ASSUME NEW p \in S, NEW q \in S, p < q
               PROVE  /\ Below(S, p) \subseteq Below(S, q)
                      /\ p \in Below(S, q)
                      /\ Below(S, q) \subseteq S
    OBVIOUS
  <2>1. \A r \in S : r < p => r < q
    OBVIOUS
  <2> QED
    BY <2>1 DEF Below
<1> QED
  BY <1>1, <1>2, <1>3

\* Ranking is a bijection onto the numbers below the size of the set.
LEMMA RankBijection ==
    ASSUME NEW S \in SUBSET Int, IsFiniteSet(S)
    PROVE  /\ Rank(S) \in Injection(S, 0 .. Cardinality(S) - 1)
           /\ Rank(S) \in Surjection(S, 0 .. Cardinality(S) - 1)
<1> DEFINE C == Cardinality(S)
<1>0. C \in Nat
  BY FS_CardinalityType
<1>1. Rank(S) \in [S -> 0 .. C - 1]
  BY <1>0, RankBounds DEF Rank
<1>2. \A p, q \in S : Rank(S)[p] = Rank(S)[q] => p = q
  <2> SUFFICES ASSUME NEW p \in S, NEW q \in S, p # q
               PROVE  Rank(S)[p] # Rank(S)[q]
    OBVIOUS
  <2>1. p < q \/ q < p
    OBVIOUS
  <2>2. /\ Cardinality(Below(S, p)) \in Nat
        /\ Cardinality(Below(S, q)) \in Nat
        /\ p < q => Cardinality(Below(S, p)) < Cardinality(Below(S, q))
        /\ q < p => Cardinality(Below(S, q)) < Cardinality(Below(S, p))
    BY RankBounds
  <2> QED
    BY <2>1, <2>2 DEF Rank
<1>3. Rank(S) \in Injection(S, 0 .. C - 1)
  BY <1>1, <1>2 DEF Injection, IsInjective
<1>4. IsFiniteSet(0 .. C - 1) /\ Cardinality(0 .. C - 1) = C
  <2>1. 0 \in Int /\ C - 1 \in Int
    BY <1>0
  <2>2. /\ IsFiniteSet(0 .. C - 1)
        /\ Cardinality(0 .. C - 1) = IF 0 > C - 1 THEN 0 ELSE C - 1 - 0 + 1
    BY <2>1, FS_Interval
  <2> QED
    BY <1>0, <2>2
<1>5. Rank(S) \in Surjection(S, 0 .. C - 1)
  BY <1>3, <1>4, FS_Injection
<1> QED
  BY <1>3, <1>5

\* A finite set of integers that is not empty has a least element.
LEMMA LeastElement ==
    ASSUME NEW S \in SUBSET Int, IsFiniteSet(S), S # {}
    PROVE  \E p \in S : \A q \in S : p <= q
<1>1. Cardinality(S) \in Nat /\ Cardinality(S) # 0
  BY FS_CardinalityType, FS_EmptySet
<1>2. PICK p \in S : Rank(S)[p] = 0
  BY <1>1, RankBijection DEF Surjection
<1>3. Below(S, p) \in SUBSET S /\ Cardinality(Below(S, p)) = 0
  BY <1>2 DEF Rank, Below
<1>4. Below(S, p) = {}
  BY <1>3, FS_Subset, FS_EmptySet
<1>5. \A q \in S : ~ (q < p)
  BY <1>4 DEF Below
<1> QED
  BY <1>5

\* Every set of numbers up to n is finite.
LEMMA UpToFinite ==
    ASSUME NEW n \in Int, NEW F \in SUBSET (0..n)
    PROVE  F \in SUBSET Int /\ IsFiniteSet(F) /\ Cardinality(F) \in Nat
<1>1. 0..n \in SUBSET Int /\ IsFiniteSet(0..n)
  <2>1. 0 \in Int
    OBVIOUS
  <2> QED
    BY <2>1, FS_Interval
<1> QED
  BY <1>1, FS_Subset, FS_CardinalityType

\* A nonempty set of numbers up to n has a greatest element.
LEMMA GreatestElement ==
    ASSUME NEW n \in Nat, NEW I \in SUBSET (0..n), I # {}
    PROVE  \E i \in I : \A j \in I : j <= i
<1> DEFINE T == {0 - i : i \in I}
<1>1. IsFiniteSet((0 - n)..0)
  <2>1. 0 - n \in Int /\ 0 \in Int
    OBVIOUS
  <2> QED
    BY <2>1, FS_Interval
<1>2. T \in SUBSET Int /\ T # {} /\ IsFiniteSet(T)
  <2>1. T \in SUBSET Int /\ T # {}
    <3>1. PICK i \in I : TRUE
      OBVIOUS
    <3>2. 0 - i \in T
      OBVIOUS
    <3>3. \A j \in I : 0 - j \in Int
      OBVIOUS
    <3> QED
      BY <3>2, <3>3
  <2>2. \A i \in I : 0 - i \in (0 - n)..0
    OBVIOUS
  <2>3. T \in SUBSET ((0 - n)..0)
    BY <2>2
  <2> HIDE DEF T
  <2> QED
    BY <1>1, <2>1, <2>3, FS_Subset
<1> HIDE DEF T
<1>3. PICK p \in T : \A q \in T : p <= q
  BY <1>2, LeastElement
<1>4. PICK i \in I : p = 0 - i
  BY DEF T
<1>5. ASSUME NEW j \in I
      PROVE  j <= i
  <2>1. p <= 0 - j
    BY <1>3 DEF T
  <2>2. i \in Int /\ j \in Int
    OBVIOUS
  <2> QED
    BY <1>4, <2>1, <2>2
<1> QED
  BY <1>5

----------------------------------------------------------------------------
(* Taking elements out of a sequence.                                      *)

\* K is L without the elements of X, in the order they have in L: the n-th
\* element of K is the one at position from[n] of L.
Thinned(L, X, K) ==
    \E from \in [1..Len(K) -> 1..Len(L)] :
        /\ \A i \in 1..Len(K) : K[i] = L[from[i]] /\ K[i] \notin X
        /\ \A i, j \in 1..Len(K) : i < j => from[i] < from[j]
        /\ \A p \in 1..Len(L) : L[p] \notin X => \E i \in 1..Len(K) : from[i] = p

\* L lists each element of D once and nothing else.
ListOf(L, D) ==
    /\ L \in Seq(D)
    /\ \A i, j \in 1..Len(L) : L[i] = L[j] => i = j
    /\ \A e \in D : \E i \in 1..Len(L) : L[i] = e

\* e comes before f in L.
Before(L, e, f) == \E m, n \in 1..Len(L) : m < n /\ L[m] = e /\ L[n] = f

\* What is left lists what was not taken out.
LEMMA ThinnedList ==
    ASSUME NEW L, NEW D, NEW X, NEW K, NEW S, K \in Seq(S),
           ListOf(L, D), Thinned(L, X, K)
    PROVE  ListOf(K, D \ X)
<1>1. PICK from \in [1..Len(K) -> 1..Len(L)] :
        /\ \A i \in 1..Len(K) : K[i] = L[from[i]] /\ K[i] \notin X
        /\ \A i, j \in 1..Len(K) : i < j => from[i] < from[j]
        /\ \A p \in 1..Len(L) : L[p] \notin X => \E i \in 1..Len(K) : from[i] = p
  BY DEF Thinned
<1>2. /\ Len(K) \in Nat /\ \A i \in 1..Len(L) : L[i] \in D
      /\ \A i, j \in 1..Len(L) : L[i] = L[j] => i = j
      /\ \A e \in D : \E i \in 1..Len(L) : L[i] = e
  BY DEF ListOf
<1>3. K \in Seq(D \ X)
  <2>1. \A i \in 1..Len(K) : K[i] \in D \ X
    BY <1>1, <1>2
  <2> QED
    BY <1>2, <2>1
<1>4. \A i, j \in 1..Len(K) : K[i] = K[j] => i = j
  <2> SUFFICES ASSUME NEW i \in 1..Len(K), NEW j \in 1..Len(K), K[i] = K[j]
               PROVE  i = j
    OBVIOUS
  <2>1. from[i] = from[j]
    <3>1. from[i] \in 1..Len(L) /\ from[j] \in 1..Len(L)
      OBVIOUS
    <3>2. L[from[i]] = L[from[j]]
      BY <1>1
    <3> QED
      BY <1>2, <3>1, <3>2
  <2>2. from[i] \in Int /\ from[j] \in Int /\ i \in Int /\ j \in Int
    BY <1>1, <1>2
  <2> QED
    BY <1>1, <2>1, <2>2
<1>5. ASSUME NEW e \in D \ X
      PROVE  \E i \in 1..Len(K) : K[i] = e
  <2>1. PICK p \in 1..Len(L) : L[p] = e
    BY <1>2
  <2>2. PICK i \in 1..Len(K) : from[i] = p
    BY <1>1, <2>1
  <2> QED
    BY <1>1, <2>1, <2>2
<1> QED
  BY <1>3, <1>4, <1>5 DEF ListOf

\* What is left keeps its order.
LEMMA ThinnedOrder ==
    ASSUME NEW L, NEW X, NEW K, NEW S, K \in Seq(S), Thinned(L, X, K),
           NEW e, NEW f, e \notin X, f \notin X, Before(L, e, f)
    PROVE  Before(K, e, f)
<1>1. PICK from \in [1..Len(K) -> 1..Len(L)] :
        /\ \A i \in 1..Len(K) : K[i] = L[from[i]] /\ K[i] \notin X
        /\ \A i, j \in 1..Len(K) : i < j => from[i] < from[j]
        /\ \A p \in 1..Len(L) : L[p] \notin X => \E i \in 1..Len(K) : from[i] = p
  BY DEF Thinned
<1>2. PICK m, n \in 1..Len(L) : m < n /\ L[m] = e /\ L[n] = f
  BY DEF Before
<1>3. PICK i \in 1..Len(K) : from[i] = m
  BY <1>1, <1>2
<1>4. PICK j \in 1..Len(K) : from[j] = n
  BY <1>1, <1>2
<1>5. i \in Int /\ j \in Int /\ m \in Int /\ n \in Int
  OBVIOUS
<1>6. ~ (j < i) /\ j # i
  BY <1>1, <1>2, <1>3, <1>4, <1>5
<1> QED
  BY <1>1, <1>2, <1>3, <1>4, <1>5, <1>6 DEF Before

\* Taking out nothing.
LEMMA ThinnedNothing ==
    ASSUME NEW S, NEW L \in Seq(S), NEW X, \A i \in 1..Len(L) : L[i] \notin X
    PROVE  Thinned(L, X, L)
<1> DEFINE id == [i \in 1..Len(L) |-> i]
<1>1. /\ id \in [1..Len(L) -> 1..Len(L)]
      /\ \A i \in 1..Len(L) : id[i] = i
  OBVIOUS
<1> HIDE DEF id
<1> QED
  BY <1>1 DEF Thinned

\* Taking out the element at position m.
LEMMA RemoveAtThinned ==
    ASSUME NEW S, NEW L \in Seq(S), NEW m \in 1..Len(L),
           \A i \in 1..Len(L) : L[i] = L[m] => i = m
    PROVE  /\ RemoveAt(L, m) \in Seq(S)
           /\ Len(RemoveAt(L, m)) = Len(L) - 1
           /\ Thinned(L, {L[m]}, RemoveAt(L, m))
<1> DEFINE K == RemoveAt(L, m)
           from == [i \in 1..(Len(L) - 1) |-> IF i < m THEN i ELSE i + 1]
<1>1. Len(L) \in Nat /\ m \in Nat
  OBVIOUS
<1>2. PICK front : front = SubSeq(L, 1, m - 1)
  OBVIOUS
<1>3. PICK back : back = SubSeq(L, m + 1, Len(L))
  OBVIOUS
<1>4. /\ K \in Seq(S) /\ Len(K) = Len(L) - 1
      /\ \A i \in 1..(Len(L) - 1) : K[i] = L[IF i < m THEN i ELSE i + 1]
  <2>1. K = front \o back
    BY <1>2, <1>3 DEF RemoveAt
  <2> HIDE DEF K
  <2>2. /\ front \in Seq(S) /\ Len(front) = m - 1
        /\ \A i \in 1..(m - 1) : front[i] = L[i]
    BY <1>1, <1>2
  <2>3. /\ back \in Seq(S) /\ Len(back) = Len(L) - m
        /\ \A i \in 1..(Len(L) - m) : back[i] = L[m + i]
    <3>1. m + 1 \in 1..(Len(L) + 1) /\ Len(L) \in m..Len(L)
      BY <1>1
    <3>2. back \in Seq(S) /\ Len(back) = Len(L) - m
      BY <1>1, <1>3, <3>1
    <3>3. \A i \in 1..(Len(L) - m) : back[i] = L[(m + 1) + i - 1]
      BY <1>1, <1>3, <3>1, <3>2
    <3>4. \A i \in 1..(Len(L) - m) : (m + 1) + i - 1 = m + i
      BY <1>1
    <3> QED
      BY <3>2, <3>3, <3>4
  <2>4. K \in Seq(S) /\ Len(K) = Len(front) + Len(back)
    BY <2>1, <2>2, <2>3, ConcatProperties
  <2>5. \A i \in 1..(Len(front) + Len(back)) :
          K[i] = IF i <= Len(front) THEN front[i] ELSE back[i - Len(front)]
    BY <2>1, <2>2, <2>3
  <2>6. Len(front) + Len(back) = Len(L) - 1
    BY <1>1, <2>2, <2>3
  <2>7. ASSUME NEW i \in 1..(Len(L) - 1)
        PROVE  K[i] = L[IF i < m THEN i ELSE i + 1]
    <3>1. CASE i < m
      <4>1. i <= Len(front) /\ i \in 1..(m - 1)
        BY <1>1, <2>2, <3>1
      <4> QED
        BY <2>2, <2>5, <2>6, <3>1, <4>1
    <3>2. CASE ~ (i < m)
      <4>1. /\ i - (m - 1) \in 1..(Len(L) - m) /\ m + (i - (m - 1)) = i + 1
            /\ ~ (i <= Len(front))
        BY <1>1, <2>2, <3>2
      <4>2. K[i] = back[i - (m - 1)]
        BY <2>2, <2>5, <2>6, <4>1
      <4> QED
        BY <2>3, <3>2, <4>1, <4>2
    <3> QED
      BY <3>1, <3>2
  <2> QED
    BY <2>4, <2>6, <2>7
<1>5. /\ from \in [1..(Len(L) - 1) -> 1..Len(L)]
      /\ \A i \in 1..(Len(L) - 1) : from[i] = (IF i < m THEN i ELSE i + 1) /\ from[i] # m
      /\ \A i, j \in 1..(Len(L) - 1) : i < j => from[i] < from[j]
  BY <1>1
<1>6. ASSUME NEW p \in 1..Len(L), p # m
      PROVE  \E i \in 1..(Len(L) - 1) : from[i] = p
  <2>1. CASE p < m
    BY <1>1, <1>5, <2>1
  <2>2. CASE ~ (p < m)
    <3>1. p - 1 \in 1..(Len(L) - 1) /\ ~ (p - 1 < m) /\ (p - 1) + 1 = p
      BY <1>1, <1>6, <2>2
    <3> HIDE DEF from
    <3> QED
      BY <1>5, <3>1
  <2> QED
    BY <2>1, <2>2
<1> HIDE DEF K, from
<1>7. \A i \in 1..Len(K) : K[i] = L[from[i]] /\ K[i] # L[m]
  BY <1>4, <1>5
<1>8. Thinned(L, {L[m]}, K)
  <2>1. from \in [1..Len(K) -> 1..Len(L)]
    BY <1>4, <1>5
  <2>2. \A i, j \in 1..Len(K) : i < j => from[i] < from[j]
    BY <1>4, <1>5
  <2>3. \A p \in 1..Len(L) : L[p] \notin {L[m]} => \E i \in 1..Len(K) : from[i] = p
    BY <1>4, <1>6
  <2> QED
    BY <1>7, <2>1, <2>2, <2>3 DEF Thinned
<1> QED
  BY <1>4, <1>8 DEF K

\* Without takes the elements of X out of a sequence.
LEMMA WithoutThinned ==
    ASSUME NEW S, NEW L \in Seq(S), NEW X
    PROVE  Without(L, X) \in Seq(S) /\ Thinned(L, X, Without(L, X))
<1> DEFINE kept == {i \in 1 .. Len(L) : L[i] \notin X}
           At(n) == CHOOSE i \in kept : Cardinality({j \in kept : j < i}) = n - 1
           K == Without(L, X)
<1>1. Len(L) \in Nat /\ \A i \in 1 .. Len(L) : L[i] \in S
  BY LenProperties, ElementOfSeq
<1>2. kept \in SUBSET Int /\ IsFiniteSet(kept)
  <2>1. 1 \in Int /\ Len(L) \in Int
    BY <1>1
  <2>2. IsFiniteSet(1 .. Len(L))
    BY <2>1, FS_Interval
  <2> QED
    BY <2>2, FS_Subset
<1>3. Cardinality(kept) \in Nat
  BY <1>2, FS_CardinalityType
<1>4. ASSUME NEW n \in 1 .. Cardinality(kept)
      PROVE  At(n) \in kept /\ Cardinality(Below(kept, At(n))) = n - 1
  <2>1. n - 1 \in 0 .. Cardinality(kept) - 1
    BY <1>3
  <2>2. \E i \in kept : Rank(kept)[i] = n - 1
    BY <1>2, <2>1, RankBijection DEF Surjection
  <2>3. \E i \in kept : Cardinality({j \in kept : j < i}) = n - 1
    BY <2>2 DEF Rank, Below
  <2> QED
    BY <2>3 DEF Below
<1>5. PICK from : from = [n \in 1 .. Cardinality(kept) |-> At(n)]
  OBVIOUS
<1>6. K = [n \in 1 .. Cardinality(kept) |-> L[At(n)]]
  BY DEF Without
<1>7. ASSUME NEW p \in kept
      PROVE  \E n \in 1 .. Cardinality(kept) : from[n] = p
  <2>1. PICK n : n = Cardinality(Below(kept, p)) + 1
    OBVIOUS
  <2>2. n \in 1 .. Cardinality(kept)
    BY <1>2, <1>3, <2>1, RankBounds
  <2>3. At(n) \in kept /\ Cardinality(Below(kept, At(n))) = n - 1
    BY <1>4, <2>2
  <2>4. Cardinality(Below(kept, At(n))) = Cardinality(Below(kept, p))
    <3>1. Cardinality(Below(kept, p)) \in Nat
      BY <1>2, RankBounds
    <3> QED
      BY <2>1, <2>3, <3>1
  <2>5. from[n] = At(n)
    BY <1>5, <2>2
  <2> HIDE DEF kept, At
  <2>6. /\ At(n) < p => Cardinality(Below(kept, At(n))) < Cardinality(Below(kept, p))
        /\ p < At(n) => Cardinality(Below(kept, p)) < Cardinality(Below(kept, At(n)))
        /\ Cardinality(Below(kept, p)) \in Nat
    BY <1>2, <2>3, RankBounds
  <2>7. At(n) = p
    <3>1. At(n) \in Int /\ p \in Int
      BY <1>2, <2>3
    <3> QED
      BY <2>4, <2>6, <3>1
  <2> QED
    BY <2>2, <2>5, <2>7
<1>8. ASSUME NEW i \in 1 .. Cardinality(kept), NEW j \in 1 .. Cardinality(kept), i < j
      PROVE  At(i) < At(j)
  <2>1. /\ At(i) \in kept /\ Cardinality(Below(kept, At(i))) = i - 1
        /\ At(j) \in kept /\ Cardinality(Below(kept, At(j))) = j - 1
    BY <1>4
  <2> HIDE DEF kept, At
  <2>2. At(i) \in Int /\ At(j) \in Int
    BY <1>2, <2>1
  <2>3. At(j) < At(i) => Cardinality(Below(kept, At(j))) < Cardinality(Below(kept, At(i)))
    BY <1>2, <2>1, RankBounds
  <2>4. ~ (At(j) < At(i)) /\ At(i) # At(j)
    BY <1>3, <1>8, <2>1, <2>3
  <2> QED
    BY <2>2, <2>4
<1>9. /\ K \in Seq(S) /\ Len(K) = Cardinality(kept)
      /\ \A n \in 1 .. Cardinality(kept) : K[n] = L[At(n)]
  <2>1. \A n \in 1 .. Cardinality(kept) : L[At(n)] \in S
    BY <1>1, <1>4
  <2>2. K \in [1 .. Cardinality(kept) -> S]
    BY <1>6, <2>1
  <2> HIDE DEF K, At, kept
  <2> QED
    BY <1>3, <1>6, <2>2
<1>10. Thinned(L, X, K)
  <2>1. /\ from \in [1 .. Len(K) -> 1 .. Len(L)]
        /\ \A n \in 1 .. Len(K) : from[n] = At(n) /\ At(n) \in kept
    BY <1>4, <1>5, <1>9
  <2>2. \A n \in 1 .. Len(K) : K[n] = L[from[n]] /\ K[n] \notin X
    BY <1>9, <2>1
  <2>3. \A p \in 1 .. Len(L) : L[p] \notin X => \E n \in 1 .. Len(K) : from[n] = p
    BY <1>7, <1>9
  <2>4. ASSUME NEW i \in 1 .. Len(K), NEW j \in 1 .. Len(K), i < j
        PROVE  from[i] < from[j]
    <3>1. i \in 1 .. Cardinality(kept) /\ j \in 1 .. Cardinality(kept)
      BY <1>9
    <3>2. from[i] = At(i) /\ from[j] = At(j)
      BY <2>1
    <3> HIDE DEF K, At, kept
    <3> QED
      BY <1>8, <2>4, <3>1, <3>2
  <2> HIDE DEF K, At, kept
  <2> QED
    BY <2>1, <2>2, <2>3, <2>4 DEF Thinned
<1> QED
  BY <1>9, <1>10

\* RemoveFirst takes the element out of a list without repetitions.
LEMMA RemoveFirstThinned ==
    ASSUME NEW L, NEW D, NEW k, ListOf(L, D)
    PROVE  RemoveFirst(L, k) \in Seq(D) /\ Thinned(L, {k}, RemoveFirst(L, k))
<1> DEFINE I == {i \in 1..Len(L) : L[i] = k}
<1>1. L \in Seq(D) /\ \A i, j \in 1..Len(L) : L[i] = L[j] => i = j
  BY DEF ListOf
<1>2. CASE I = {}
  <2>1. RemoveFirst(L, k) = L
    BY <1>2 DEF RemoveFirst
  <2> QED
    BY <1>1, <1>2, <2>1, ThinnedNothing
<1>3. CASE I # {}
  <2>1. PICK m \in 1..Len(L) : L[m] = k
    BY <1>3
  <2>2. I = {m}
    BY <1>1, <2>1
  <2>3. m \in Int
    BY <1>1
  <2>4. Min({m}) = m
    BY <2>3 DEF Min
  <2>5. RemoveFirst(L, k) = RemoveAt(L, m)
    <3>1. SelectInSeq(L, LAMBDA v : v = k) = Min(I)
      BY <1>3 DEF SelectInSeq
    <3> QED
      BY <2>1, <2>2, <2>4, <3>1 DEF RemoveFirst
  <2>6. \A i \in 1..Len(L) : L[i] = L[m] => i = m
    BY <1>1
  <2>7. RemoveAt(L, m) \in Seq(D) /\ Thinned(L, {L[m]}, RemoveAt(L, m))
    BY <1>1, <2>6, RemoveAtThinned
  <2> QED
    BY <2>1, <2>5, <2>7
<1> QED
  BY <1>2, <1>3

\* So what is left lists the other elements.
LEMMA RemoveFirstList ==
    ASSUME NEW L, NEW D, NEW k, ListOf(L, D)
    PROVE  ListOf(RemoveFirst(L, k), D \ {k})
  BY RemoveFirstThinned, ThinnedList

\* An element that is new comes in front.
LEMMA ConsList ==
    ASSUME NEW L, NEW D, NEW k, k \notin D, ListOf(L, D)
    PROVE  /\ ListOf(<<k>> \o L, D \cup {k})
           /\ (<<k>> \o L)[1] = k
           /\ \A e, f : Before(L, e, f) => Before(<<k>> \o L, e, f)
<1> DEFINE K == <<k>> \o L
<1>1. L \in Seq(D) /\ Len(L) \in Nat
  BY DEF ListOf
<1>2. L \in Seq(D \cup {k}) /\ <<k>> \in Seq(D \cup {k})
  <2>1. \A i \in 1..Len(L) : L[i] \in D \cup {k}
    BY <1>1
  <2> QED
    BY <1>1, <2>1
<1>3. /\ K \in Seq(D \cup {k}) /\ Len(K) = Len(L) + 1
      /\ K[1] = k /\ \A i \in 1..Len(L) : K[i + 1] = L[i]
  BY <1>1, <1>2
<1> HIDE DEF K
<1>4. \A i \in 1..Len(K) : i = 1 \/ (i - 1 \in 1..Len(L) /\ K[i] = L[i - 1] /\ K[i] \in D)
  <2> SUFFICES ASSUME NEW i \in 1..Len(K), i # 1
               PROVE  i - 1 \in 1..Len(L) /\ K[i] = L[i - 1] /\ K[i] \in D
    OBVIOUS
  <2>1. i - 1 \in 1..Len(L) /\ (i - 1) + 1 = i
    BY <1>1, <1>3
  <2>2. K[i] = L[i - 1]
    BY <1>3, <2>1
  <2> QED
    BY <1>1, <2>1, <2>2
<1>5. \A i, j \in 1..Len(K) : K[i] = K[j] => i = j
  <2> SUFFICES ASSUME NEW i \in 1..Len(K), NEW j \in 1..Len(K), K[i] = K[j]
               PROVE  i = j
    OBVIOUS
  <2>1. i - 1 = j - 1 => i = j
    BY <1>1, <1>3
  <2>2. i = 1 <=> j = 1
    BY <1>3, <1>4
  <2>3. CASE i = 1
    BY <2>2, <2>3
  <2>4. CASE i # 1
    <3>1. i - 1 \in 1..Len(L) /\ j - 1 \in 1..Len(L) /\ L[i - 1] = L[j - 1]
      BY <1>4, <2>2, <2>4
    <3>2. i - 1 = j - 1
      BY <3>1 DEF ListOf
    <3> QED
      BY <2>1, <3>2
  <2> QED
    BY <2>3, <2>4
<1>6. \A i \in 1..Len(L) : i + 1 \in 1..Len(K) /\ K[i + 1] = L[i]
  BY <1>1, <1>3
<1>7. \A e \in D \cup {k} : \E i \in 1..Len(K) : K[i] = e
  <2>1. 1 \in 1..Len(K)
    BY <1>1, <1>3
  <2> QED
    BY <1>3, <1>6, <2>1 DEF ListOf
<1>8. ASSUME NEW e, NEW f, Before(L, e, f)
      PROVE  Before(K, e, f)
  <2>1. PICK m, n \in 1..Len(L) : m < n /\ L[m] = e /\ L[n] = f
    BY <1>8 DEF Before
  <2>2. m + 1 < n + 1
    BY <1>1, <2>1
  <2> QED
    BY <1>6, <2>1, <2>2 DEF Before
<1> QED
  BY <1>3, <1>5, <1>7, <1>8 DEF ListOf, K

\* A list has as many elements as it lists.
LEMMA ListSize ==
    ASSUME NEW L, NEW D, ListOf(L, D)
    PROVE  IsFiniteSet(D) /\ Cardinality(D) = Len(L)
<1>1. L \in Seq(D) /\ Len(L) \in Nat
  BY DEF ListOf
<1>2. IsFiniteSet(1..Len(L)) /\ Cardinality(1..Len(L)) = Len(L)
  <2>1. 1 \in Int /\ Len(L) \in Int
    BY <1>1
  <2>2. /\ IsFiniteSet(1..Len(L))
        /\ Cardinality(1..Len(L)) = IF 1 > Len(L) THEN 0 ELSE Len(L) - 1 + 1
    BY <2>1, FS_Interval
  <2> QED
    BY <1>1, <2>2
<1>3. L \in [1..Len(L) -> D]
  BY <1>1
<1>4. L \in Injection(1..Len(L), D) /\ L \in Surjection(1..Len(L), D)
  BY <1>3 DEF ListOf, Injection, IsInjective, Surjection
<1>5. IsFiniteSet(D) /\ (Cardinality(D) = Cardinality(1..Len(L)) <=> L \in Injection(1..Len(L), D))
  BY <1>2, <1>4, FS_Surjection
<1> QED
  BY <1>2, <1>4, <1>5
----------------------------------------------------------------------------
(* Cutting and joining lists.                                              *)

\* What was taken out of a list does not change the order of the rest.
LEMMA ThinnedBefore ==
    ASSUME NEW L, NEW X, NEW K, NEW e, NEW f, Thinned(L, X, K), Before(K, e, f)
    PROVE  Before(L, e, f) /\ e \notin X /\ f \notin X
<1>1. PICK from \in [1..Len(K) -> 1..Len(L)] :
        /\ \A i \in 1..Len(K) : K[i] = L[from[i]] /\ K[i] \notin X
        /\ \A i, j \in 1..Len(K) : i < j => from[i] < from[j]
  BY DEF Thinned
<1>2. PICK m, n \in 1..Len(K) : m < n /\ K[m] = e /\ K[n] = f
  BY DEF Before
<1>3. from[m] \in 1..Len(L) /\ from[n] \in 1..Len(L) /\ from[m] < from[n]
  BY <1>1, <1>2
<1> QED
  BY <1>1, <1>2, <1>3 DEF Before

\* A part of a list lists the elements of that part, in the same order.
LEMMA SubSeqList ==
    ASSUME NEW L, NEW D, ListOf(L, D),
           NEW m \in Nat, NEW n \in Nat, 1 <= m, m <= n + 1, n <= Len(L)
    PROVE  /\ ListOf(SubSeq(L, m, n), {L[i] : i \in m..n})
           /\ \A e, f : Before(SubSeq(L, m, n), e, f) => Before(L, e, f)
<1>0. PICK K : K = SubSeq(L, m, n)
  OBVIOUS
<1>1. /\ L \in Seq(D) /\ Len(L) \in Nat
      /\ \A i, j \in 1..Len(L) : L[i] = L[j] => i = j
  BY DEF ListOf
<1>2. Len(K) = (n - m) + 1 /\ \A i \in 1..((n - m) + 1) : K[i] = L[(m + i) - 1]
  <2>1. m \in 1..(Len(L) + 1) /\ n \in (m - 1)..Len(L)
    BY <1>1
  <2> QED
    BY <1>0, <1>1, <2>1, SubSeqProperties
<1>3. PICK C : C = {L[i] : i \in m..n}
  OBVIOUS
<1>4. \A i \in 1..Len(K) : (m + i) - 1 \in m..n /\ (m + i) - 1 \in 1..Len(L) /\ K[i] = L[(m + i) - 1]
  BY <1>1, <1>2
<1>5. K \in Seq(C)
  <2>1. \A i \in 1..Len(K) : K[i] \in C
    BY <1>3, <1>4
  <2>2. K \in Seq(D)
    BY <1>0, <1>1, SubSeqProperties
  <2> QED
    BY <2>1, <2>2
<1>6. \A i, j \in 1..Len(K) : K[i] = K[j] => i = j
  <2> SUFFICES ASSUME NEW i \in 1..Len(K), NEW j \in 1..Len(K), K[i] = K[j]
               PROVE  i = j
    OBVIOUS
  <2>1. (m + i) - 1 = (m + j) - 1
    BY <1>1, <1>4
  <2> QED
    BY <1>2, <2>1
<1>7. ASSUME NEW e \in C
      PROVE  \E i \in 1..Len(K) : K[i] = e
  <2>1. PICK p \in m..n : e = L[p]
    BY <1>3
  <2>2. (p - m) + 1 \in 1..Len(K) /\ (m + ((p - m) + 1)) - 1 = p
    BY <1>1, <1>2
  <2> QED
    BY <1>4, <2>1, <2>2
<1>8. ASSUME NEW e, NEW f, Before(K, e, f)
      PROVE  Before(L, e, f)
  <2>1. PICK i, j \in 1..Len(K) : i < j /\ K[i] = e /\ K[j] = f
    BY <1>8 DEF Before
  <2>2. (m + i) - 1 < (m + j) - 1
    BY <1>2, <2>1
  <2> QED
    BY <1>4, <2>1, <2>2 DEF Before
<1> QED
  BY <1>0, <1>3, <1>5, <1>6, <1>7, <1>8 DEF ListOf

\* Two lists without a common element, joined.
LEMMA ConcatList ==
    ASSUME NEW K, NEW C, NEW L, NEW D, ListOf(K, C), ListOf(L, D), C \cap D = {}
    PROVE  ListOf(K \o L, C \cup D)
<1>1. /\ K \in Seq(C) /\ L \in Seq(D) /\ Len(K) \in Nat /\ Len(L) \in Nat
      /\ \A i, j \in 1..Len(K) : K[i] = K[j] => i = j
      /\ \A i, j \in 1..Len(L) : L[i] = L[j] => i = j
      /\ \A e \in C : \E i \in 1..Len(K) : K[i] = e
      /\ \A e \in D : \E i \in 1..Len(L) : L[i] = e
  BY DEF ListOf
<1>2. PICK J : J = K \o L
  OBVIOUS
<1>3. /\ Len(J) = Len(K) + Len(L)
      /\ \A i \in 1..Len(K) : J[i] = K[i]
      /\ \A i \in 1..Len(L) : J[Len(K) + i] = L[i]
  BY <1>1, <1>2
<1>4. ASSUME NEW i \in 1..Len(J)
      PROVE  \/ i \in 1..Len(K) /\ J[i] = K[i] /\ J[i] \in C
             \/ i - Len(K) \in 1..Len(L) /\ J[i] = L[i - Len(K)] /\ J[i] \in D
  <2>1. CASE i <= Len(K)
    BY <1>1, <1>3, <2>1
  <2>2. CASE ~ (i <= Len(K))
    <3>0. i - Len(K) \in 1..Len(L) /\ Len(K) + (i - Len(K)) = i
      BY <1>1, <1>3, <2>2
    <3>1. PICK p \in 1..Len(L) : p = i - Len(K) /\ Len(K) + p = i
      BY <3>0
    <3>2. J[Len(K) + p] = L[p] /\ L[p] \in D
      BY <1>1, <1>3
    <3> QED
      BY <3>1, <3>2
  <2> QED
    BY <2>1, <2>2
<1>5. J \in Seq(C \cup D)
  <2>1. K \in Seq(C \cup D) /\ L \in Seq(C \cup D)
    BY <1>1
  <2> QED
    BY <1>2, <2>1, ConcatProperties
<1>6. \A i, j \in 1..Len(J) : J[i] = J[j] => i = j
  <2> SUFFICES ASSUME NEW i \in 1..Len(J), NEW j \in 1..Len(J), J[i] = J[j]
               PROVE  i = j
    OBVIOUS
  <2>1. i \in Int /\ j \in Int /\ Len(K) \in Int
    BY <1>1, <1>3
  <2>2. CASE J[i] \in C
    BY <1>1, <1>4, <2>2
  <2>3. CASE J[i] \notin C
    <3>1. /\ i - Len(K) \in 1..Len(L) /\ J[i] = L[i - Len(K)]
          /\ j - Len(K) \in 1..Len(L) /\ J[j] = L[j - Len(K)]
      BY <1>4, <2>3
    <3>2. i - Len(K) = j - Len(K)
      BY <1>1, <3>1
    <3> QED
      BY <2>1, <3>2
  <2> QED
    BY <2>2, <2>3
<1>7. \A e \in C \cup D : \E i \in 1..Len(J) : J[i] = e
  <2>1. \A i \in 1..Len(K) : i \in 1..Len(J)
    BY <1>1, <1>3
  <2>2. \A i \in 1..Len(L) : Len(K) + i \in 1..Len(J)
    BY <1>1, <1>3
  <2>3. \A e \in C : \E i \in 1..Len(J) : J[i] = e
    BY <1>1, <1>3, <2>1
  <2>4. ASSUME NEW e \in D
        PROVE  \E i \in 1..Len(J) : J[i] = e
    <3>1. PICK p \in 1..Len(L) : L[p] = e
      BY <1>1
    <3> QED
      BY <1>3, <2>2, <3>1
  <2> QED
    BY <2>3, <2>4
<1> QED
  BY <1>2, <1>5, <1>6, <1>7 DEF ListOf

\* An element that is new comes at the end.
LEMMA AppendList ==
    ASSUME NEW L, NEW D, NEW k, k \notin D, ListOf(L, D)
    PROVE  /\ ListOf(Append(L, k), D \cup {k})
           /\ \A e, f : Before(Append(L, k), e, f) => \/ Before(L, e, f)
                                                      \/ e \in D /\ f = k
<1>1. L \in Seq(D) /\ Len(L) \in Nat
  BY DEF ListOf
<1>2. PICK K : K = Append(L, k)
  OBVIOUS
<1>3. /\ Len(K) = Len(L) + 1 /\ K[Len(L) + 1] = k
      /\ \A i \in 1..Len(L) : K[i] = L[i] /\ K[i] \in D
  BY <1>1, <1>2
<1>4. ListOf(K, D \cup {k})
  <2>1. <<k>> \in Seq({k}) /\ Len(<<k>>) = 1 /\ <<k>>[1] = k
    OBVIOUS
  <2>2. ListOf(<<k>>, {k})
    BY <2>1 DEF ListOf
  <2>3. K = L \o <<k>>
    BY <1>1, <1>2
  <2> QED
    BY <2>2, <2>3, ConcatList
<1>5. ASSUME NEW e, NEW f, Before(K, e, f)
      PROVE  Before(L, e, f) \/ (e \in D /\ f = k)
  <2>1. PICK i, j \in 1..Len(K) : i < j /\ K[i] = e /\ K[j] = f
    BY <1>5 DEF Before
  <2>2. i \in 1..Len(L) /\ (j \in 1..Len(L) \/ j = Len(L) + 1)
    BY <1>1, <1>3, <2>1
  <2> QED
    BY <1>3, <2>1, <2>2 DEF Before
<1> QED
  BY <1>2, <1>4, <1>5

\* An element in front comes before all others, and changes nothing else.
LEMMA ConsBefore ==
    ASSUME NEW L, NEW D, NEW k, ListOf(L, D)
    PROVE  \A e, f : Before(<<k>> \o L, e, f) => \/ Before(L, e, f)
                                                 \/ e = k /\ f \in D
<1>1. L \in Seq(D) /\ Len(L) \in Nat
  BY DEF ListOf
<1>2. PICK K : K = <<k>> \o L
  OBVIOUS
<1>3. /\ Len(K) = Len(L) + 1 /\ K[1] = k
      /\ \A i \in 1..Len(L) : K[i + 1] = L[i] /\ L[i] \in D
  BY <1>1, <1>2
<1>4. ASSUME NEW e, NEW f, Before(K, e, f)
      PROVE  Before(L, e, f) \/ (e = k /\ f \in D)
  <2>1. PICK i, j \in 1..Len(K) : i < j /\ K[i] = e /\ K[j] = f
    BY <1>4 DEF Before
  <2>2. j - 1 \in 1..Len(L) /\ (j - 1) + 1 = j
    BY <1>1, <1>3, <2>1
  <2>3. K[j] = L[j - 1] /\ L[j - 1] \in D
    BY <1>3, <2>2
  <2>4. CASE i = 1
    BY <1>3, <2>1, <2>3, <2>4
  <2>5. CASE i # 1
    <3>1. i - 1 \in 1..Len(L) /\ (i - 1) + 1 = i /\ i - 1 < j - 1
      BY <1>1, <1>3, <2>1, <2>5
    <3>2. K[i] = L[i - 1]
      BY <1>3, <3>1
    <3> QED
      BY <2>1, <2>2, <2>3, <3>1, <3>2 DEF Before
  <2> QED
    BY <2>4, <2>5
<1> QED
  BY <1>2, <1>4

\* One element replaced by a new one.
LEMMA ReplaceList ==
    ASSUME NEW L, NEW D, NEW x, x \notin D, ListOf(L, D), NEW m \in 1..Len(L)
    PROVE  /\ ListOf([L EXCEPT ![m] = x], (D \ {L[m]}) \cup {x})
           /\ Len([L EXCEPT ![m] = x]) = Len(L)
           /\ [L EXCEPT ![m] = x][m] = x
<1>1. /\ L \in Seq(D) /\ Len(L) \in Nat
      /\ \A i, j \in 1..Len(L) : L[i] = L[j] => i = j
      /\ \A e \in D : \E i \in 1..Len(L) : L[i] = e
  BY DEF ListOf
<1>2. PICK K : K = [L EXCEPT ![m] = x]
  OBVIOUS
<1>3. PICK C : C = (D \ {L[m]}) \cup {x}
  OBVIOUS
<1>4. L \in Seq(D \cup {x}) /\ x \in D \cup {x}
  BY <1>1
<1>5. K \in Seq(D \cup {x}) /\ Len(K) = Len(L)
  BY <1>1, <1>2, <1>4
<1>6. \A i \in 1..Len(L) : K[i] = IF i = m THEN x ELSE L[i]
  BY <1>1, <1>2
<1>7. ASSUME NEW i \in 1..Len(L)
      PROVE  K[i] \in C /\ (i # m => K[i] # x)
  <2>1. L[i] \in D /\ (L[i] = L[m] => i = m)
    BY <1>1
  <2> QED
    BY <1>3, <1>6, <2>1
<1>8. K \in Seq(C)
  BY <1>5, <1>7
<1>9. \A i, j \in 1..Len(K) : K[i] = K[j] => i = j
  BY <1>1, <1>5, <1>6, <1>7
<1>10. \A e \in C : \E i \in 1..Len(K) : K[i] = e
  BY <1>1, <1>3, <1>5, <1>6
<1> QED
  BY <1>2, <1>3, <1>5, <1>6, <1>8, <1>9, <1>10 DEF ListOf

\* The last element comes after all others.
LEMMA LastElement ==
    ASSUME NEW L, NEW D, ListOf(L, D), D # {}
    PROVE  /\ L # << >> /\ Last(L) \in D
           /\ ListOf(Front(L), D \ {Last(L)})
           /\ \A e, f : Before(Front(L), e, f) => Before(L, e, f)
           /\ \A e \in D : e = Last(L) \/ Before(L, e, Last(L))
<1>1. /\ L \in Seq(D) /\ Len(L) \in Nat
      /\ \A i, j \in 1..Len(L) : L[i] = L[j] => i = j
      /\ \A e \in D : \E i \in 1..Len(L) : L[i] = e
  BY DEF ListOf
<1>2. Len(L) \in 1..Len(L) /\ Len(L) >= 1 /\ Len(L) - 1 \in Nat
  BY <1>1
<1>3. PICK z : z = L[Len(L)]
  OBVIOUS
<1>4. Last(L) = z /\ z \in D
  BY <1>1, <1>2, <1>3 DEF Last
<1>5. PICK C : C = {L[i] : i \in 1..(Len(L) - 1)}
  OBVIOUS
<1>6. \A i \in 1..(Len(L) - 1) : i \in 1..Len(L) /\ i # Len(L) /\ i < Len(L)
  BY <1>1
<1>7. \A i \in 1..Len(L) : i = Len(L) \/ i \in 1..(Len(L) - 1)
  BY <1>1
<1>8. C = D \ {z}
  <2>1. ASSUME NEW e \in C
        PROVE  e \in D \ {z}
    <3>1. PICK i \in 1..(Len(L) - 1) : e = L[i]
      BY <1>5
    <3>2. i \in 1..Len(L) /\ i # Len(L)
      BY <1>6
    <3>3. L[i] \in D /\ L[i] # L[Len(L)]
      <4>1. PICK n \in 1..Len(L) : n = Len(L)
        BY <1>2
      <4>2. L[i] \in D /\ L[i] # L[n]
        BY <1>1, <3>2, <4>1
      <4> QED
        BY <4>1, <4>2
    <3> QED
      BY <1>3, <3>1, <3>3
  <2>2. ASSUME NEW e \in D, e # z
        PROVE  e \in C
    BY <1>1, <1>3, <1>5, <1>7, <2>2
  <2> QED
    BY <2>1, <2>2
<1>9. Front(L) = SubSeq(L, 1, Len(L) - 1)
  BY DEF Front
<1>10. /\ ListOf(Front(L), C)
       /\ \A e, f : Before(Front(L), e, f) => Before(L, e, f)
  <2>1. PICK n \in Nat : n = Len(L) - 1
    BY <1>2
  <2>2. 1 \in Nat /\ 1 <= 1 /\ 1 <= n + 1 /\ n <= Len(L)
    BY <1>2, <2>1
  <2> QED
    BY <1>5, <1>9, <2>1, <2>2, SubSeqList
<1>11. \A e \in D : e = z \/ Before(L, e, z)
  BY <1>1, <1>2, <1>3, <1>6, <1>7 DEF Before
<1>12. L # << >>
  BY <1>2
<1> QED
  BY <1>4, <1>8, <1>10, <1>11, <1>12

\* The first element comes before all others.
LEMMA FirstElement ==
    ASSUME NEW L, NEW D, ListOf(L, D), D # {}
    PROVE  /\ L # << >> /\ Head(L) \in D
           /\ ListOf(Tail(L), D \ {Head(L)})
           /\ \A e, f : Before(Tail(L), e, f) => Before(L, e, f)
           /\ \A e \in D : e = Head(L) \/ Before(L, Head(L), e)
<1>1. /\ L \in Seq(D) /\ Len(L) \in Nat
      /\ \A i, j \in 1..Len(L) : L[i] = L[j] => i = j
      /\ \A e \in D : \E i \in 1..Len(L) : L[i] = e
  BY DEF ListOf
<1>2. 1 \in 1..Len(L) /\ Len(L) >= 1
  BY <1>1
<1>3. PICK z : z = L[1]
  OBVIOUS
<1>4. Head(L) = z /\ z \in D
  BY <1>1, <1>2, <1>3
<1>5. PICK C : C = {L[i] : i \in 2..Len(L)}
  OBVIOUS
<1>6. \A i \in 2..Len(L) : i \in 1..Len(L) /\ i # 1 /\ 1 < i
  BY <1>1
<1>7. \A i \in 1..Len(L) : i = 1 \/ i \in 2..Len(L)
  BY <1>1
<1>8. C = D \ {z}
  <2>1. ASSUME NEW e \in C
        PROVE  e \in D \ {z}
    <3>1. PICK i \in 2..Len(L) : e = L[i]
      BY <1>5
    <3>2. i \in 1..Len(L) /\ i # 1
      BY <1>6
    <3>3. L[i] \in D /\ L[i] # L[1]
      BY <1>1, <1>2, <3>2
    <3> QED
      BY <1>3, <3>1, <3>3
  <2>2. ASSUME NEW e \in D, e # z
        PROVE  e \in C
    BY <1>1, <1>3, <1>5, <1>7, <2>2
  <2> QED
    BY <2>1, <2>2
<1>9. Tail(L) = SubSeq(L, 2, Len(L))
  BY <1>1, <1>2
<1>10. /\ ListOf(Tail(L), C)
       /\ \A e, f : Before(Tail(L), e, f) => Before(L, e, f)
  <2>1. PICK n \in Nat : n = Len(L)
    BY <1>1
  <2>2. 2 \in Nat /\ 1 <= 2 /\ 2 <= n + 1 /\ n <= Len(L)
    BY <1>2, <2>1
  <2>3. /\ ListOf(SubSeq(L, 2, n), {L[i] : i \in 2..n})
        /\ \A e, f : Before(SubSeq(L, 2, n), e, f) => Before(L, e, f)
    BY <2>2, SubSeqList
  <2> QED
    BY <1>5, <1>9, <2>1, <2>3
<1>11. \A e \in D : e = z \/ Before(L, z, e)
  BY <1>1, <1>2, <1>3, <1>6, <1>7 DEF Before
<1>12. L # << >>
  BY <1>2
<1> QED
  BY <1>4, <1>8, <1>10, <1>11, <1>12

----------------------------------------------------------------------------
(* Sums.                                                                   *)

\* One step of the recursion by which the folds of the library add up w.
SumStep(D, w, iter) ==
    [s \in SUBSET D |-> IF s = {} THEN 0
                        ELSE LET x == CHOOSE x \in s : TRUE
                             IN  w[x] + iter[s \ {x}]]

\* The recursion has one solution.
LEMMA SumUnique ==
    ASSUME NEW D, IsFiniteSet(D), NEW w, NEW f, NEW g,
           f = SumStep(D, w, f), g = SumStep(D, w, g)
    PROVE  f[D] = g[D]
<1>1. \A s \in SUBSET D : IsFiniteSet(s) /\ Cardinality(s) \in Nat
  BY FS_Subset, FS_CardinalityType
<1> DEFINE bad == {n \in 0..Cardinality(D) :
                     \E s \in SUBSET D : Cardinality(s) = n /\ f[s] # g[s]}
<1>2. CASE bad # {}
  <2>1. Cardinality(D) \in Nat
    BY <1>1
  <2>2. bad \in SUBSET Int /\ IsFiniteSet(bad)
    <3>1. IsFiniteSet(0..Cardinality(D))
      BY <2>1, FS_Interval
    <3> QED
      BY <2>1, <3>1, FS_Subset
  <2>3. PICK n \in bad : \A m \in bad : n <= m
    BY <1>2, <2>2, LeastElement
  <2>4. PICK s \in SUBSET D : Cardinality(s) = n /\ f[s] # g[s]
    OBVIOUS
  <2>5. s # {}
    <3>1. ASSUME s = {}
          PROVE  f[s] = 0 /\ g[s] = 0
      BY <3>1 DEF SumStep
    <3> QED
      BY <2>4, <3>1
  <2>6. PICK x : x = CHOOSE y \in s : TRUE
    OBVIOUS
  <2>7. x \in s
    BY <2>5, <2>6
  <2>8. f[s] = w[x] + f[s \ {x}] /\ g[s] = w[x] + g[s \ {x}]
    BY <2>5, <2>6 DEF SumStep
  <2>9. Cardinality(s \ {x}) = n - 1 /\ n - 1 \in 0..Cardinality(D)
    <3>1. IsFiniteSet(s) /\ Cardinality(s) \in Nat /\ n \in 0..Cardinality(D)
      BY <1>1
    <3>2. Cardinality(s \ {x}) = Cardinality(s) - 1
      BY <2>7, <3>1, FS_RemoveElement
    <3>3. Cardinality(s \ {x}) \in Nat
      BY <1>1
    <3> QED
      BY <2>1, <2>4, <3>1, <3>2, <3>3
  <2>10. n - 1 \notin bad
    <3>1. n \in Int
      BY <2>1
    <3>2. ~ (n <= n - 1)
      BY <3>1
    <3> QED
      BY <2>3, <3>2
  <2>11. f[s \ {x}] = g[s \ {x}]
    BY <2>9, <2>10
  <2> QED
    BY <2>4, <2>8, <2>11
<1>3. CASE bad = {}
  <2>1. Cardinality(D) \in 0..Cardinality(D)
    BY <1>1
  <2> QED
    BY <1>3, <2>1
<1> QED
  BY <1>2, <1>3

\* The sets P[x] are disjoint parts of U, and w[x] is their size.
Measured(D, P, w, U) ==
    /\ \A x \in D : P[x] \subseteq U /\ w[x] = Cardinality(P[x])
    /\ \A x, y \in D : x # y => P[x] \cap P[y] = {}

\* The size of the union of some of the sets P[x].
Sizes(D, P) == [s \in SUBSET D |-> Cardinality(UNION {P[x] : x \in s})]

\* The sizes of disjoint sets add up to the size of their union.
LEMMA SizesAddUp ==
    ASSUME NEW D, NEW P, NEW w, NEW U, IsFiniteSet(U), Measured(D, P, w, U)
    PROVE  Sizes(D, P) = SumStep(D, w, Sizes(D, P))
<1> USE DEF Measured
<1>1. PICK g : g = Sizes(D, P)
  OBVIOUS
<1>2. g = [s \in SUBSET D |-> Cardinality(UNION {P[x] : x \in s})]
  BY <1>1 DEF Sizes
<1>3. ASSUME NEW s \in SUBSET D, s = {}
      PROVE  g[s] = 0
  <2>1. UNION {P[x] : x \in s} = {}
    BY <1>3
  <2> QED
    BY <1>2, <2>1, FS_EmptySet
<1>4. ASSUME NEW s \in SUBSET D, NEW x \in s
      PROVE  g[s] = w[x] + g[s \ {x}]
  <2>1. PICK A, B : A = P[x] /\ B = UNION {P[y] : y \in s \ {x}}
    OBVIOUS
  <2>2. UNION {P[y] : y \in s} = A \cup B
    BY <2>1
  <2>3. A \cap B = {}
    BY <2>1
  <2>4. IsFiniteSet(A) /\ IsFiniteSet(B)
    <3>1. A \subseteq U /\ B \subseteq U
      BY <2>1
    <3> QED
      BY <3>1, FS_Subset
  <2>5. Cardinality(A \cup B) = Cardinality(A) + Cardinality(B)
    <3>1. Cardinality(A \cup B) = Cardinality(A) + Cardinality(B) - Cardinality(A \cap B)
      BY <2>4, FS_Union
    <3>2. Cardinality(A \cap B) = 0
      BY <2>3, FS_EmptySet
    <3>3. Cardinality(A) \in Nat /\ Cardinality(B) \in Nat
      BY <2>4, FS_CardinalityType
    <3> QED
      BY <3>1, <3>2, <3>3
  <2>6. g[s] = Cardinality(A \cup B)
    BY <1>2, <2>2
  <2>7. s \ {x} \in SUBSET D /\ g[s \ {x}] = Cardinality(B)
    BY <1>2, <2>1
  <2>8. w[x] = Cardinality(A)
    BY <2>1
  <2> QED
    BY <2>5, <2>6, <2>7, <2>8
<1> DEFINE h == SumStep(D, w, g)
<1>5. ASSUME NEW s \in SUBSET D
      PROVE  g[s] = h[s]
  <2>1. CASE s = {}
    BY <1>3, <2>1 DEF SumStep
  <2>2. CASE s # {}
    <3>1. PICK x : x = CHOOSE y \in s : TRUE
      OBVIOUS
    <3>2. x \in s
      BY <2>2, <3>1
    <3>3. h[s] = w[x] + g[s \ {x}]
      BY <2>2, <3>1 DEF SumStep
    <3> QED
      BY <1>4, <3>2, <3>3
  <2> QED
    BY <2>1, <2>2
<1>6. g = [s \in SUBSET D |-> g[s]] /\ h = [s \in SUBSET D |-> h[s]]
  BY <1>2 DEF SumStep
<1> HIDE DEF h
<1>7. g = h
  BY <1>5, <1>6
<1> QED
  BY <1>1, <1>7 DEF h
=============================================================================
