--------------------------- MODULE FreeListProofs ---------------------------
(***************************************************************************)
(* The loops of the free list, for every number of pages: the blocks stay  *)
(* sorted, disjoint and in step with the bitmap at every iteration, are    *)
(* coalesced between calls, and the calls implement PageAllocator.         *)
(*                                                                         *)
(* The first part is about one list and what an iteration of each of the   *)
(* three loops makes of it; the second joins the iterations to the         *)
(* inductive invariant; the third is the refinement.                       *)
(***************************************************************************)
EXTENDS FreeList, OrderLemmas

FreeBlock == [start_page : Nat, num_pages : Nat \ {0}]

\* The page behind the last one of block b.
EndOf(b) == b.start_page + b.num_pages

\* A sorted list of blocks that do not overlap.
BlockList(L) ==
    /\ L \in Seq(FreeBlock)
    /\ \A i, j \in 1..Len(L) : i < j => EndOf(L[i]) <= L[j].start_page

\* The blocks before position c can not be merged with a later one.
ApartBelow(L, c) ==
    \A i, j \in 1..Len(L) : i < j /\ i < c => EndOf(L[i]) < L[j].start_page

\* No two blocks can be merged.
Apart(L) == ApartBelow(L, Len(L))

\* The pages the blocks of L cover.
Cover(L) == {p \in Nat : \E i \in 1..Len(L) : L[i].start_page <= p /\ p < EndOf(L[i])}

\* Every set of pages is finite.
LEMMA PagesFinite ==
    ASSUME NEW F \in SUBSET Page
    PROVE  F \in SUBSET Int /\ IsFiniteSet(F) /\ Cardinality(F) \in Nat
<1>1. TOTAL_PAGES - 1 \in Int
  BY TotalPagesAssumption
<1> QED
  BY <1>1, UpToFinite DEF Page

----------------------------------------------------------------------------
(* Lists of blocks.                                                        *)

\* The elements of a list with one of them taken out.
LEMMA RemoveAtElements ==
    ASSUME NEW S, NEW L \in Seq(S), NEW m \in 1..Len(L)
    PROVE  /\ RemoveAt(L, m) \in Seq(S)
           /\ Len(RemoveAt(L, m)) = Len(L) - 1
           /\ \A i \in 1..(Len(L) - 1) : RemoveAt(L, m)[i] = IF i < m THEN L[i] ELSE L[i + 1]
<1>1. Len(L) \in Nat /\ m \in Nat /\ 1 <= m /\ m <= Len(L)
  BY LenProperties
<1>2. PICK A : A = SubSeq(L, 1, m - 1)
  OBVIOUS
<1>3. PICK B : B = SubSeq(L, m + 1, Len(L))
  OBVIOUS
<1>4. A \in Seq(S) /\ Len(A) = m - 1 /\ \A i \in 1..(m - 1) : A[i] = L[i]
  BY <1>1, <1>2, SubSeqProperties
<1>5. B \in Seq(S) /\ Len(B) = Len(L) - m /\ \A i \in 1..(Len(L) - m) : B[i] = L[m + i]
  BY <1>1, <1>3, SubSeqProperties
<1>6. RemoveAt(L, m) = A \o B
  BY <1>2, <1>3 DEF RemoveAt
<1>7. A \o B \in Seq(S) /\ Len(A \o B) = Len(L) - 1
  <2>1. A \o B \in Seq(S) /\ Len(A \o B) = Len(A) + Len(B)
    BY <1>4, <1>5, ConcatProperties
  <2> QED
    BY <1>1, <1>4, <1>5, <2>1
<1>8. ASSUME NEW i \in 1..(Len(L) - 1)
      PROVE  (A \o B)[i] = IF i < m THEN L[i] ELSE L[i + 1]
  <2>1. CASE i < m
    BY <1>1, <1>4, <1>5, <2>1
  <2>2. CASE i >= m
    <3>1. (A \o B)[i] = B[i - (m - 1)]
      BY <1>1, <1>4, <1>5, <2>2
    <3>2. i - (m - 1) \in 1..(Len(L) - m) /\ m + (i - (m - 1)) = i + 1
      BY <1>1, <2>2
    <3> QED
      BY <1>1, <1>5, <2>2, <3>1, <3>2
  <2>3. i < m \/ i >= m
    BY <1>1
  <2> QED
    BY <2>1, <2>2, <2>3
<1> QED
  BY <1>6, <1>7, <1>8

\* K is L with e put in at position m.
Inserted(L, m, e, K) ==
    /\ Len(K) = Len(L) + 1
    /\ \A i \in 1..(Len(L) + 1) : K[i] = IF i < m THEN L[i] ELSE IF i = m THEN e ELSE L[i - 1]

\* The elements of a list with one put in.
LEMMA InsertAtElements ==
    ASSUME NEW S, NEW L \in Seq(S), NEW m \in 1..(Len(L) + 1), NEW e \in S
    PROVE  InsertAt(L, m, e) \in Seq(S) /\ Inserted(L, m, e, InsertAt(L, m, e))
<1>1. Len(L) \in Nat /\ m \in Nat /\ 1 <= m /\ m <= Len(L) + 1
  BY LenProperties
<1>2. PICK A : A = SubSeq(L, 1, m - 1)
  OBVIOUS
<1>3. PICK B : B = SubSeq(L, m, Len(L))
  OBVIOUS
<1>4. A \in Seq(S) /\ Len(A) = m - 1 /\ \A i \in 1..(m - 1) : A[i] = L[i]
  BY <1>1, <1>2, SubSeqProperties
<1>5. B \in Seq(S) /\ Len(B) = Len(L) - m + 1 /\ \A i \in 1..(Len(L) - m + 1) : B[i] = L[m + i - 1]
  BY <1>1, <1>3, SubSeqProperties
<1>6. PICK C : C = A \o <<e>>
  OBVIOUS
<1>7. C \in Seq(S) /\ Len(C) = m /\ C[m] = e /\ \A i \in 1..(m - 1) : C[i] = L[i]
  <2>1. <<e>> \in Seq(S) /\ Len(<<e>>) = 1 /\ <<e>>[1] = e
    OBVIOUS
  <2> QED
    BY <1>1, <1>4, <1>6, <2>1
<1>8. InsertAt(L, m, e) = C \o B
  BY <1>2, <1>3, <1>6 DEF InsertAt
<1>9. C \o B \in Seq(S) /\ Len(C \o B) = Len(L) + 1
  <2>1. C \o B \in Seq(S) /\ Len(C \o B) = Len(C) + Len(B)
    BY <1>5, <1>7, ConcatProperties
  <2> QED
    BY <1>1, <1>5, <1>7, <2>1
<1>10. ASSUME NEW i \in 1..(Len(L) + 1)
       PROVE  (C \o B)[i] = IF i < m THEN L[i] ELSE IF i = m THEN e ELSE L[i - 1]
  <2>1. CASE i <= m
    <3>1. (C \o B)[i] = C[i]
      BY <1>1, <1>5, <1>7, <2>1
    <3> QED
      BY <1>1, <1>7, <2>1, <3>1
  <2>2. CASE i > m
    <3>1. (C \o B)[i] = B[i - m]
      BY <1>1, <1>5, <1>7, <2>2
    <3>2. i - m \in 1..(Len(L) - m + 1) /\ m + (i - m) - 1 = i - 1
      BY <1>1, <2>2
    <3> QED
      BY <1>1, <1>5, <2>2, <3>1, <3>2
  <2>3. i <= m \/ i > m
    BY <1>1
  <2> QED
    BY <2>1, <2>2, <2>3
<1> QED
  BY <1>8, <1>9, <1>10 DEF Inserted

\* What the members of a block are.
LEMMA BlockFields ==
    ASSUME NEW b \in FreeBlock
    PROVE  /\ b.start_page \in Nat /\ b.num_pages \in Nat /\ b.num_pages >= 1
           /\ EndOf(b) \in Nat /\ b.start_page < EndOf(b)
  BY DEF FreeBlock, EndOf

\* A new block.
LEMMA NewBlock ==
    ASSUME NEW s \in Nat, NEW n \in Nat \ {0}
    PROVE  /\ Block(s, n) \in FreeBlock /\ EndOf(Block(s, n)) = s + n
           /\ Block(s, n).start_page = s /\ Block(s, n).num_pages = n
           /\ PagesOf(Block(s, n)) = {p \in Nat : s <= p /\ p < s + n}
  BY DEF Block, FreeBlock, EndOf, PagesOf

\* The blocks of a list and where they are.
LEMMA Blocks ==
    ASSUME NEW L, BlockList(L)
    PROVE  /\ L \in Seq(FreeBlock) /\ Len(L) \in Nat
           /\ \A i \in 1..Len(L) :
                /\ L[i] \in FreeBlock
                /\ L[i].start_page \in Nat /\ EndOf(L[i]) \in Nat
                /\ L[i].start_page < EndOf(L[i])
           /\ \A i, j \in 1..Len(L) : i < j => EndOf(L[i]) <= L[j].start_page
<1>1. L \in Seq(FreeBlock)
  BY DEF BlockList
<1>2. Len(L) \in Nat /\ \A i \in 1..Len(L) : L[i] \in FreeBlock
  BY <1>1
<1> QED
  BY <1>1, <1>2, BlockFields DEF BlockList

\* An iteration of allocate_pages_linked that takes n pages of the first block:
\* they are the lowest ones of the list.
LEMMA TakePart ==
    ASSUME NEW L, BlockList(L), Len(L) >= 1, NEW n \in 1..L[1].num_pages,
           NEW X, X = PagesOf(Block(L[1].start_page, n)),
           NEW K, K = AfterTaking(L, 1, n)
    PROVE  /\ BlockList(K)
           /\ Apart(L) => Apart(K)
           /\ X \subseteq Cover(L)
           /\ Cover(K) = Cover(L) \ X
           /\ \A p \in X, q \in Cover(K) : p < q
<1>1. /\ L \in Seq(FreeBlock) /\ Len(L) \in Nat
      /\ \A i \in 1..Len(L) : /\ L[i] \in FreeBlock
                              /\ L[i].start_page \in Nat /\ EndOf(L[i]) \in Nat
                              /\ L[i].start_page < EndOf(L[i])
      /\ \A i, j \in 1..Len(L) : i < j => EndOf(L[i]) <= L[j].start_page
  BY Blocks
<1>2. 1 \in 1..Len(L)
  BY <1>1
<1>3. PICK s, m : s = L[1].start_page /\ m = L[1].num_pages
  OBVIOUS
<1>4. s \in Nat /\ m \in Nat /\ n \in Nat /\ 1 <= n /\ n <= m /\ EndOf(L[1]) = s + m
  BY <1>1, <1>2, <1>3, BlockFields DEF EndOf
<1>5. X = {p \in Nat : s <= p /\ p < s + n}
  BY <1>3, <1>4, NewBlock
<1>6. X \subseteq Cover(L)
  BY <1>1, <1>2, <1>3, <1>4, <1>5 DEF Cover
<1>7. \A p \in Cover(L) : p >= s
  <2> SUFFICES ASSUME NEW p \in Nat, NEW i \in 1..Len(L), L[i].start_page <= p
               PROVE  p >= s
    BY DEF Cover
  <2>1. CASE i = 1
    BY <1>3, <2>1
  <2>2. CASE i # 1
    <3>1. EndOf(L[1]) <= L[i].start_page
      BY <1>1, <1>2, <2>2
    <3> QED
      BY <1>1, <1>4, <3>1
  <2> QED
    BY <2>1, <2>2
<1>8. CASE n = m
  <2>1. K = RemoveAt(L, 1)
    BY <1>3, <1>8 DEF AfterTaking
  <2>2. /\ K \in Seq(FreeBlock) /\ Len(K) = Len(L) - 1
        /\ \A i \in 1..(Len(L) - 1) : K[i] = L[i + 1]
    <3>1. /\ RemoveAt(L, 1) \in Seq(FreeBlock) /\ Len(RemoveAt(L, 1)) = Len(L) - 1
          /\ \A i \in 1..(Len(L) - 1) : RemoveAt(L, 1)[i] = IF i < 1 THEN L[i] ELSE L[i + 1]
      BY <1>1, <1>2, RemoveAtElements
    <3> QED
      BY <2>1, <3>1
  <2>3. ASSUME NEW i \in 1..Len(K)
        PROVE  i + 1 \in 1..Len(L) /\ K[i] = L[i + 1] /\ 1 < i + 1
    BY <1>1, <2>2
  <2>4. BlockList(K) /\ (Apart(L) => Apart(K))
    <3>1. ASSUME NEW i \in 1..Len(K), NEW j \in 1..Len(K), i < j
          PROVE  /\ EndOf(K[i]) <= K[j].start_page
                 /\ Apart(L) => EndOf(K[i]) < K[j].start_page
      <4>1. /\ i + 1 \in 1..Len(L) /\ j + 1 \in 1..Len(L) /\ i + 1 < j + 1 /\ i + 1 < Len(L)
            /\ K[i] = L[i + 1] /\ K[j] = L[j + 1]
        BY <1>1, <2>2, <2>3, <3>1
      <4>2. Apart(L) => EndOf(L[i + 1]) < L[j + 1].start_page
        BY <4>1 DEF Apart, ApartBelow
      <4> QED
        BY <1>1, <4>1, <4>2
    <3> QED
      BY <2>2, <3>1 DEF BlockList, Apart, ApartBelow
  <2>5. ASSUME NEW p \in Nat
        PROVE  p \in Cover(K) <=> p \in Cover(L) /\ p >= s + n
    <3>1. ASSUME NEW i \in 1..Len(K), K[i].start_page <= p, p < EndOf(K[i])
          PROVE  p \in Cover(L) /\ p >= s + n
      <4>1. i + 1 \in 1..Len(L) /\ K[i] = L[i + 1] /\ 1 < i + 1
        BY <2>3
      <4>2. EndOf(L[1]) <= L[i + 1].start_page
        BY <1>1, <1>2, <4>1
      <4> QED
        BY <1>1, <1>4, <1>8, <3>1, <4>1, <4>2 DEF Cover
    <3>2. ASSUME NEW i \in 1..Len(L), L[i].start_page <= p, p < EndOf(L[i]), p >= s + n
          PROVE  p \in Cover(K)
      <4>1. i # 1
        BY <1>4, <1>8, <3>2
      <4>2. i - 1 \in 1..Len(K) /\ K[i - 1] = L[i]
        BY <1>1, <2>2, <4>1
      <4> QED
        BY <3>2, <4>2 DEF Cover
    <3> QED
      BY <3>1, <3>2 DEF Cover
  <2>6. Cover(K) = Cover(L) \ X /\ \A p \in X, q \in Cover(K) : p < q
    <3>1. Cover(K) \subseteq Nat /\ Cover(L) \subseteq Nat /\ X \subseteq Nat
      BY <1>5 DEF Cover
    <3> QED
      BY <1>4, <1>5, <1>7, <2>5, <3>1
  <2> QED
    BY <1>6, <2>4, <2>6
<1>9. CASE n < m
  <2>1. PICK b : b = Block(s + n, m - n)
    OBVIOUS
  <2>2. /\ b \in FreeBlock /\ EndOf(b) = s + m /\ b.start_page = s + n
    <3>1. s + n \in Nat /\ m - n \in Nat \ {0} /\ (s + n) + (m - n) = s + m
      BY <1>4, <1>9
    <3> QED
      BY <2>1, <3>1, NewBlock
  <2>3. K = [L EXCEPT ![1] = b]
    BY <1>3, <1>9, <1>4, <2>1 DEF AfterTaking
  <2>4. /\ K \in Seq(FreeBlock) /\ Len(K) = Len(L)
        /\ K[1] = b /\ \A i \in 1..Len(L) : i # 1 => K[i] = L[i]
    <3>1. /\ [L EXCEPT ![1] = b] \in Seq(FreeBlock) /\ Len([L EXCEPT ![1] = b]) = Len(L)
      BY <1>1, <2>2, ExceptSeq
    <3>2. /\ [L EXCEPT ![1] = b][1] = b
          /\ \A i \in 1..Len(L) : i # 1 => [L EXCEPT ![1] = b][i] = L[i]
      BY <1>1, <1>2
    <3> QED
      BY <2>3, <3>1, <3>2
  <2>5. \A i \in 1..Len(L) : EndOf(K[i]) = EndOf(L[i]) /\ L[i].start_page <= K[i].start_page
    BY <1>1, <1>3, <1>4, <2>2, <2>4
  <2>6. BlockList(K)
    <3>1. ASSUME NEW i \in 1..Len(K), NEW j \in 1..Len(K), i < j
          PROVE  EndOf(K[i]) <= K[j].start_page
      <4>1. K[j] = L[j] /\ EndOf(K[i]) = EndOf(L[i]) /\ EndOf(L[i]) <= L[j].start_page
        BY <1>1, <2>4, <2>5, <3>1
      <4> QED
        BY <4>1
    <3> QED
      BY <2>4, <3>1 DEF BlockList
  <2>7. Apart(L) => Apart(K)
    <3>1. ASSUME Apart(L), NEW i \in 1..Len(K), NEW j \in 1..Len(K), i < j
          PROVE  EndOf(K[i]) < K[j].start_page
      <4>1. K[j] = L[j] /\ EndOf(K[i]) = EndOf(L[i]) /\ i < Len(L)
        BY <1>1, <2>4, <2>5, <3>1
      <4>2. EndOf(L[i]) < L[j].start_page
        BY <2>4, <3>1, <4>1 DEF Apart, ApartBelow
      <4> QED
        BY <4>1, <4>2
    <3> QED
      BY <3>1 DEF Apart, ApartBelow
  <2>8. ASSUME NEW p \in Nat
        PROVE  p \in Cover(K) <=> p \in Cover(L) /\ p >= s + n
    <3>1. ASSUME NEW i \in 1..Len(L)
          PROVE  (K[i].start_page <= p /\ p < EndOf(K[i]))
                   <=> (L[i].start_page <= p /\ p < EndOf(L[i]) /\ p >= s + n)
      <4>1. CASE i = 1
        BY <1>3, <1>4, <2>2, <2>4, <4>1
      <4>2. CASE i # 1
        <5>1. K[i] = L[i] /\ s + m <= L[i].start_page
          BY <1>1, <1>2, <1>4, <2>4, <4>2
        <5> QED
          BY <1>1, <1>4, <1>9, <5>1
      <4> QED
        BY <4>1, <4>2
    <3> QED
      BY <2>4, <3>1 DEF Cover
  <2>9. Cover(K) = Cover(L) \ X /\ \A p \in X, q \in Cover(K) : p < q
    <3>1. Cover(K) \subseteq Nat /\ Cover(L) \subseteq Nat /\ X \subseteq Nat
      BY <1>5 DEF Cover
    <3> QED
      BY <1>4, <1>5, <1>7, <2>8, <3>1
  <2> QED
    BY <1>6, <2>6, <2>7, <2>9
<1> QED
  BY <1>4, <1>8, <1>9

\* The blocks that start before page p come first.
LEMMA StartBefore ==
    ASSUME NEW L, BlockList(L), NEW p \in Nat,
           NEW before, before = {i \in 1..Len(L) : \A j \in 1..i : L[j].start_page < p}
    PROVE  /\ Cardinality(before) \in 0..Len(L)
           /\ \A j \in 1..Cardinality(before) : L[j].start_page < p
           /\ \A j \in (Cardinality(before) + 1)..Len(L) : p <= L[j].start_page
<1>1. /\ Len(L) \in Nat
      /\ \A i \in 1..Len(L) : /\ L[i].start_page \in Nat /\ EndOf(L[i]) \in Nat
                              /\ L[i].start_page < EndOf(L[i])
      /\ \A i, j \in 1..Len(L) : i < j => EndOf(L[i]) <= L[j].start_page
  BY Blocks
<1>2. PICK rest : rest = (1..(Len(L) + 1)) \ before
  OBVIOUS
<1>3. rest \in SUBSET Int /\ IsFiniteSet(rest) /\ rest # {}
  <2>1. IsFiniteSet(1..(Len(L) + 1))
    BY <1>1, FS_Interval
  <2>2. IsFiniteSet(rest)
    BY <1>2, <2>1, FS_Subset
  <2>3. Len(L) + 1 \in rest
    BY <1>1, <1>2
  <2> QED
    BY <1>1, <1>2, <2>2, <2>3
<1>4. PICK k \in rest : \A q \in rest : k <= q
  BY <1>3, LeastElement
<1>5. k \in Nat /\ 1 <= k /\ k <= Len(L) + 1 /\ k \notin before
  BY <1>1, <1>2
<1>6. \A j \in 1..(k - 1) : j \in before
  BY <1>1, <1>2, <1>4, <1>5
<1>7. \A j \in 1..(k - 1) : L[j].start_page < p
  <2> SUFFICES ASSUME NEW j \in 1..(k - 1)
               PROVE  L[j].start_page < p
    OBVIOUS
  <2>1. j \in before /\ j \in 1..j
    BY <1>5, <1>6
  <2> QED
    BY <2>1
<1>8. \A j \in k..Len(L) : p <= L[j].start_page
  <2> SUFFICES ASSUME NEW j \in k..Len(L)
               PROVE  p <= L[j].start_page
    OBVIOUS
  <2>1. k \in 1..Len(L) /\ j \in 1..Len(L) /\ k <= j
    BY <1>1, <1>5
  <2>2. p <= L[k].start_page
    <3>1. PICK i \in 1..k : ~ (L[i].start_page < p)
      BY <1>5, <2>1
    <3>2. i = k
      BY <1>5, <1>7, <3>1
    <3> QED
      BY <1>1, <2>1, <3>1, <3>2
  <2>3. CASE k = j
    BY <2>2, <2>3
  <2>4. CASE k < j
    <3>1. EndOf(L[k]) <= L[j].start_page
      BY <1>1, <2>1, <2>4
    <3> QED
      BY <1>1, <2>1, <2>2, <3>1
  <2> QED
    BY <1>1, <1>5, <2>1, <2>3, <2>4
<1>9. before = 1..(k - 1)
  <2>1. ASSUME NEW i \in before
        PROVE  i \in 1..(k - 1)
    <3>1. i \in 1..Len(L) /\ \A j \in 1..i : L[j].start_page < p
      OBVIOUS
    <3>2. CASE k <= i
      <4>1. k \in 1..i /\ k \in 1..Len(L)
        BY <1>1, <1>5, <3>1, <3>2
      <4>2. k \in before
        <5>1. \A j \in 1..k : j \in 1..i
          BY <1>1, <1>5, <3>1, <3>2
        <5> QED
          BY <3>1, <4>1, <5>1
      <4> QED
        BY <1>5, <4>2
    <3> QED
      BY <1>1, <1>5, <3>1, <3>2
  <2> QED
    BY <1>6, <2>1
<1>10. Cardinality(before) = k - 1
  <2>1. 1 \in Int /\ k - 1 \in Int
    BY <1>5
  <2>2. Cardinality(1..(k - 1)) = IF 1 > k - 1 THEN 0 ELSE k - 1 - 1 + 1
    BY <2>1, FS_Interval
  <2> QED
    <3>1. (IF 1 > k - 1 THEN 0 ELSE k - 1 - 1 + 1) = k - 1
      BY <1>5
    <3> QED
      BY <1>9, <2>2, <3>1
<1>11. k - 1 \in 0..Len(L) /\ (k - 1) + 1 = k
  BY <1>1, <1>5
<1> QED
  BY <1>7, <1>8, <1>10, <1>11

\* An iteration of deallocate_pages_linked gives one page back.
LEMMA AddPage ==
    ASSUME NEW L, BlockList(L), NEW p \in Nat, p \notin Cover(L),
           NEW K, K = add_to_free_list(L, p, 1)
    PROVE  BlockList(K) /\ Cover(K) = Cover(L) \cup {p}
<1>1. /\ L \in Seq(FreeBlock) /\ Len(L) \in Nat
      /\ \A i \in 1..Len(L) : /\ L[i] \in FreeBlock
                              /\ L[i].start_page \in Nat /\ EndOf(L[i]) \in Nat
                              /\ L[i].start_page < EndOf(L[i])
      /\ \A i, j \in 1..Len(L) : i < j => EndOf(L[i]) <= L[j].start_page
  BY Blocks
<1>2. PICK before : before = {i \in 1..Len(L) : \A j \in 1..i : L[j].start_page < p}
  OBVIOUS
<1>3. PICK m : m = Cardinality(before) + 1
  OBVIOUS
<1>4. PICK b : b = Block(p, 1)
  OBVIOUS
<1>5. b \in FreeBlock /\ b.start_page = p /\ EndOf(b) = p + 1
  <2>1. 1 \in Nat \ {0}
    OBVIOUS
  <2> QED
    BY <1>4, <2>1, NewBlock
<1>6. K = InsertAt(L, m, b)
  <2>1. \A i \in 1..Len(L) : L[i].start_page # p
    BY <1>1 DEF Cover
  <2>2. ASSUME NEW i \in 1..Len(L)
        PROVE  (\A j \in 1..i : L[j].start_page < p) <=>
                   /\ L[1].start_page <= p
                   /\ \A j \in 2..i : L[j].start_page < p
    <3>1. 1 \in 1..Len(L) /\ L[1].start_page \in Nat /\ L[1].start_page # p
      BY <1>1, <2>1
    <3>2. L[1].start_page <= p <=> L[1].start_page < p
      BY <3>1
    <3>3. 1..i = {1} \cup 2..i
      OBVIOUS
    <3> QED
      BY <3>2, <3>3
  <2>3. before = {i \in 1..Len(L) : /\ L[1].start_page <= p
                                     /\ \A j \in 2..i : L[j].start_page < p}
    BY <1>2, <2>2
  <2> QED
    BY <1>3, <1>4, <2>3 DEF add_to_free_list
<1>7. /\ m \in Nat /\ 1 <= m /\ m <= Len(L) + 1
      /\ \A j \in 1..(m - 1) : L[j].start_page < p
      /\ \A j \in m..Len(L) : p <= L[j].start_page
  <2>1. /\ Cardinality(before) \in 0..Len(L)
        /\ \A j \in 1..Cardinality(before) : L[j].start_page < p
        /\ \A j \in (Cardinality(before) + 1)..Len(L) : p <= L[j].start_page
    BY <1>2, StartBefore
  <2>2. m - 1 = Cardinality(before) /\ m \in Nat /\ 1 <= m /\ m <= Len(L) + 1
    BY <1>1, <1>3, <2>1
  <2> QED
    BY <1>3, <2>1, <2>2
<1>8. \A j \in 1..(m - 1) : EndOf(L[j]) <= p
  <2> SUFFICES ASSUME NEW j \in 1..(m - 1)
               PROVE  EndOf(L[j]) <= p
    OBVIOUS
  <2>1. j \in 1..Len(L) /\ L[j].start_page < p
    BY <1>1, <1>7
  <2>2. ~ (L[j].start_page <= p /\ p < EndOf(L[j]))
    BY <2>1 DEF Cover
  <2> QED
    BY <1>1, <2>1, <2>2
<1>9. \A j \in m..Len(L) : p + 1 <= L[j].start_page
  BY <1>1, <1>7 DEF Cover
<1>10. /\ K \in Seq(FreeBlock) /\ Len(K) = Len(L) + 1
       /\ \A i \in 1..(Len(L) + 1) : K[i] = IF i < m THEN L[i] ELSE IF i = m THEN b ELSE L[i - 1]
  <2>1. m \in 1..(Len(L) + 1) /\ L \in Seq(FreeBlock) /\ b \in FreeBlock
    BY <1>1, <1>5, <1>7
  <2>2. InsertAt(L, m, b) \in Seq(FreeBlock) /\ Inserted(L, m, b, InsertAt(L, m, b))
    BY <2>1, InsertAtElements
  <2> QED
    BY <1>6, <2>2 DEF Inserted
<1>11. ASSUME NEW i \in 1..Len(K)
       PROVE  /\ i \in Int /\ (i < m \/ i = m \/ i > m)
              /\ i < m => i \in 1..Len(L) /\ K[i] = L[i]
              /\ i = m => K[i] = b
              /\ i > m => i - 1 \in 1..Len(L) /\ i - 1 \in m..Len(L) /\ K[i] = L[i - 1]
  <2>1. i \in 1..(Len(L) + 1)
    BY <1>10
  <2>2. K[i] = IF i < m THEN L[i] ELSE IF i = m THEN b ELSE L[i - 1]
    BY <1>10, <2>1
  <2> QED
    BY <1>1, <1>7, <2>1, <2>2
<1>12. BlockList(K)
  <2>1. ASSUME NEW i \in 1..Len(K), NEW j \in 1..Len(K), i < j
        PROVE  EndOf(K[i]) <= K[j].start_page
    <3>1. CASE j < m
      <4>1. K[i] = L[i] /\ K[j] = L[j] /\ i \in 1..Len(L) /\ j \in 1..Len(L)
        BY <1>1, <1>7, <1>11, <2>1, <3>1
      <4> QED
        BY <1>1, <2>1, <4>1
    <3>2. CASE j = m
      <4>1. K[i] = L[i] /\ K[j] = b /\ i \in 1..(m - 1)
        BY <1>1, <1>7, <1>11, <2>1, <3>2
      <4> QED
        BY <1>5, <1>8, <4>1
    <3>3. CASE j > m /\ i = m
      <4>1. K[i] = b /\ K[j] = L[j - 1] /\ j - 1 \in m..Len(L)
        BY <1>1, <1>7, <1>11, <2>1, <3>3
      <4> QED
        BY <1>5, <1>9, <4>1
    <3>4. CASE j > m /\ i < m
      <4>1. /\ K[i] = L[i] /\ K[j] = L[j - 1] /\ i < j - 1
            /\ i \in 1..Len(L) /\ j - 1 \in 1..Len(L)
        BY <1>1, <1>7, <1>11, <2>1, <3>4
      <4> QED
        BY <1>1, <4>1
    <3>5. CASE j > m /\ i > m
      <4>1. /\ K[i] = L[i - 1] /\ K[j] = L[j - 1] /\ i - 1 < j - 1
            /\ i - 1 \in 1..Len(L) /\ j - 1 \in 1..Len(L)
        BY <1>1, <1>7, <1>11, <2>1, <3>5
      <4> QED
        BY <1>1, <4>1
    <3> QED
      BY <1>11, <3>1, <3>2, <3>3, <3>4, <3>5
  <2> QED
    BY <1>10, <2>1 DEF BlockList
<1>13. Cover(K) \subseteq Cover(L) \cup {p}
  <2> SUFFICES ASSUME NEW q \in Nat, NEW i \in 1..Len(K),
                      K[i].start_page <= q, q < EndOf(K[i])
               PROVE  q \in Cover(L) \cup {p}
    BY DEF Cover
  <2>1. CASE i = m
    BY <1>5, <1>11, <2>1
  <2>2. CASE i < m
    <3>1. K[i] = L[i] /\ i \in 1..Len(L)
      BY <1>11, <2>2
    <3> QED
      BY <3>1 DEF Cover
  <2>3. CASE i > m
    <3>1. K[i] = L[i - 1] /\ i - 1 \in 1..Len(L)
      BY <1>11, <2>3
    <3> QED
      BY <3>1 DEF Cover
  <2> QED
    BY <1>11, <2>1, <2>2, <2>3
<1>14. Cover(L) \cup {p} \subseteq Cover(K)
  <2>1. p \in Cover(K)
    <3>1. m \in 1..Len(K) /\ K[m] = b
      BY <1>1, <1>7, <1>10
    <3> QED
      BY <1>5, <3>1 DEF Cover
  <2>2. ASSUME NEW q \in Nat, NEW i \in 1..Len(L), L[i].start_page <= q, q < EndOf(L[i])
        PROVE  q \in Cover(K)
    <3>1. CASE i < m
      <4>1. i \in 1..Len(K) /\ K[i] = L[i]
        BY <1>1, <1>7, <1>10, <3>1
      <4> QED
        BY <2>2, <4>1 DEF Cover
    <3>2. CASE i >= m
      <4>1. i + 1 \in 1..Len(K) /\ K[i + 1] = L[i]
        BY <1>1, <1>7, <1>10, <3>2
      <4> QED
        BY <2>2, <4>1 DEF Cover
    <3>3. i \in Int /\ m \in Int
      BY <1>7
    <3> QED
      BY <3>1, <3>2, <3>3
  <2> QED
    BY <2>1, <2>2 DEF Cover
<1> QED
  BY <1>12, <1>13, <1>14

\* An iteration of coalesce_free_blocks that merges two blocks.
LEMMA Merge ==
    ASSUME NEW L, BlockList(L), NEW c \in Nat, 1 <= c, c < Len(L),
           Adjacent(L[c], L[c + 1]),
           NEW K, K = [RemoveAt(L, c + 1) EXCEPT ![c].num_pages = @ + L[c + 1].num_pages]
    PROVE  /\ BlockList(K) /\ Cover(K) = Cover(L)
           /\ ApartBelow(L, c) => ApartBelow(K, c)
<1>1. /\ L \in Seq(FreeBlock) /\ Len(L) \in Nat
      /\ \A i \in 1..Len(L) : /\ L[i] \in FreeBlock
                              /\ L[i].start_page \in Nat /\ EndOf(L[i]) \in Nat
                              /\ L[i].start_page < EndOf(L[i])
      /\ \A i, j \in 1..Len(L) : i < j => EndOf(L[i]) <= L[j].start_page
  BY Blocks
<1>2. c \in 1..Len(L) /\ c + 1 \in 1..Len(L) /\ c \in 1..(Len(L) - 1)
  BY <1>1
<1>3. PICK R : R = RemoveAt(L, c + 1)
  OBVIOUS
<1>4. /\ R \in Seq(FreeBlock) /\ Len(R) = Len(L) - 1
      /\ \A i \in 1..(Len(L) - 1) : R[i] = IF i < c + 1 THEN L[i] ELSE L[i + 1]
  <2>1. L \in Seq(FreeBlock) /\ c + 1 \in 1..Len(L)
    BY <1>1, <1>2
  <2> QED
    BY <1>3, <2>1, RemoveAtElements
<1>5. PICK s, m, n : s = L[c].start_page /\ m = L[c].num_pages /\ n = L[c + 1].num_pages
  OBVIOUS
<1>6. /\ s \in Nat /\ m \in Nat /\ n \in Nat /\ m >= 1 /\ n >= 1
      /\ EndOf(L[c]) = s + m /\ EndOf(L[c + 1]) = L[c + 1].start_page + n
      /\ L[c] = Block(s, m)
  BY <1>1, <1>2, <1>5, BlockFields DEF EndOf, FreeBlock, Block
<1>7. L[c + 1].start_page = s + m
  BY <1>5 DEF Adjacent
<1>8. PICK b : b = Block(s, m + n)
  OBVIOUS
<1>9. b \in FreeBlock /\ b.start_page = s /\ EndOf(b) = EndOf(L[c + 1])
  <2>1. m + n \in Nat \ {0} /\ s + (m + n) = (s + m) + n
    BY <1>6
  <2> QED
    BY <1>6, <1>7, <1>8, <2>1, NewBlock
<1>10. R[c] = L[c]
  BY <1>2, <1>4
<1>11. K = [R EXCEPT ![c] = b]
  <2>1. c \in DOMAIN R
    BY <1>2, <1>4
  <2>2. [R[c] EXCEPT !.num_pages = @ + n] = b
    BY <1>6, <1>8, <1>10 DEF Block
  <2>3. K = [R EXCEPT ![c] = [R[c] EXCEPT !.num_pages = @ + n]]
    BY <1>3, <1>5, <2>1
  <2> QED
    BY <2>2, <2>3
<1>12. /\ K \in Seq(FreeBlock) /\ Len(K) = Len(L) - 1
       /\ \A i \in 1..(Len(L) - 1) : K[i] = IF i = c THEN b ELSE R[i]
  <2>1. c \in 1..Len(R)
    BY <1>2, <1>4
  <2> QED
    <3>1. /\ [R EXCEPT ![c] = b] \in Seq(FreeBlock)
          /\ Len([R EXCEPT ![c] = b]) = Len(R)
          /\ \A i \in 1..Len(R) : [R EXCEPT ![c] = b][i] = IF i = c THEN b ELSE R[i]
      BY <1>4, <1>9, <2>1, ExceptSeq
    <3> QED
      BY <1>4, <1>11, <3>1
<1> DEFINE lo(i) == IF i <= c THEN i ELSE i + 1
           hi(i) == IF i < c THEN i ELSE i + 1
<1>13. ASSUME NEW i \in 1..Len(K)
       PROVE  /\ lo(i) \in 1..Len(L) /\ hi(i) \in 1..Len(L)
              /\ K[i].start_page = L[lo(i)].start_page
              /\ EndOf(K[i]) = EndOf(L[hi(i)])
  <2>1. i \in 1..(Len(L) - 1) /\ i \in Int
    BY <1>12
  <2>2. lo(i) \in 1..Len(L) /\ hi(i) \in 1..Len(L)
    BY <1>1, <2>1
  <2>3. CASE i = c
    <3>1. K[i] = b /\ lo(i) = c /\ hi(i) = c + 1
      BY <1>12, <2>1, <2>3
    <3> QED
      BY <1>5, <1>9, <2>2, <3>1
  <2>4. CASE i < c
    <3>1. K[i] = L[i]
      BY <1>4, <1>12, <2>1, <2>4
    <3> QED
      BY <2>2, <2>4, <3>1
  <2>5. CASE i > c
    <3>1. K[i] = L[i + 1]
      BY <1>4, <1>12, <2>1, <2>5
    <3> QED
      BY <2>2, <2>1, <2>5, <3>1
  <2> QED
    BY <2>1, <2>3, <2>4, <2>5
<1>14. BlockList(K) /\ (ApartBelow(L, c) => ApartBelow(K, c))
  <2>1. ASSUME NEW i \in 1..Len(K), NEW j \in 1..Len(K), i < j
        PROVE  /\ EndOf(K[i]) <= K[j].start_page
               /\ ApartBelow(L, c) /\ i < c => EndOf(K[i]) < K[j].start_page
    <3>1. hi(i) < lo(j) /\ (i < c => hi(i) < c)
      BY <2>1, <1>12
    <3>2. EndOf(L[hi(i)]) <= L[lo(j)].start_page
      BY <1>1, <1>13, <3>1
    <3>3. ApartBelow(L, c) /\ i < c => EndOf(L[hi(i)]) < L[lo(j)].start_page
      BY <1>13, <3>1 DEF ApartBelow
    <3> QED
      BY <1>13, <3>2, <3>3
  <2> QED
    BY <1>12, <2>1 DEF BlockList, ApartBelow
<1>15. Cover(K) \subseteq Cover(L)
  <2> SUFFICES ASSUME NEW q \in Nat, NEW i \in 1..Len(K),
                      K[i].start_page <= q, q < EndOf(K[i])
               PROVE  q \in Cover(L)
    BY DEF Cover
  <2>1. CASE i = c
    <3>1. s <= q /\ q < EndOf(L[c + 1])
      BY <1>9, <1>2, <1>12, <2>1
    <3>2. q < s + m \/ s + m <= q
      BY <1>6
    <3> QED
      BY <1>2, <1>5, <1>6, <1>7, <3>1, <3>2 DEF Cover
  <2>2. CASE i # c
    <3>1. lo(i) = hi(i) /\ lo(i) \in 1..Len(L)
      BY <1>12, <1>13, <2>2
    <3>2. L[lo(i)].start_page <= q /\ q < EndOf(L[lo(i)])
      BY <1>13, <3>1
    <3> HIDE DEF lo
    <3> QED
      BY <3>1, <3>2 DEF Cover
  <2> QED
    BY <2>1, <2>2
<1>16. Cover(L) \subseteq Cover(K)
  <2> SUFFICES ASSUME NEW q \in Nat, NEW i \in 1..Len(L),
                      L[i].start_page <= q, q < EndOf(L[i])
               PROVE  \E j \in 1..Len(K) : K[j].start_page <= q /\ q < EndOf(K[j])
    BY DEF Cover
  <2>1. CASE i < c
    <3>1. i \in 1..Len(K) /\ K[i] = L[i]
      <4>1. i \in 1..(Len(L) - 1)
        BY <1>1, <2>1
      <4> QED
        BY <1>4, <1>12, <2>1, <4>1
    <3> QED
      BY <3>1
  <2>2. CASE i = c \/ i = c + 1
    <3>1. c \in 1..Len(K) /\ K[c] = b
      BY <1>2, <1>12
    <3>2. s <= q /\ q < EndOf(L[c + 1])
      <4>1. CASE i = c
        <5>1. s <= q /\ q < s + m
          BY <1>5, <1>6, <4>1
        <5>2. EndOf(L[c + 1]) = s + m + n
          BY <1>6, <1>7
        <5> QED
          BY <1>6, <5>1, <5>2
      <4>2. CASE i = c + 1
        BY <1>6, <1>7, <4>2
      <4> QED
        BY <2>2, <4>1, <4>2
    <3> QED
      BY <1>9, <3>1, <3>2
  <2>3. CASE i > c + 1
    <3>1. i - 1 \in 1..Len(K) /\ K[i - 1] = L[i]
      <4>1. /\ i - 1 \in 1..(Len(L) - 1) /\ i - 1 # c /\ ~ (i - 1 < c + 1) /\ (i - 1) + 1 = i
        BY <1>1, <2>3
      <4> QED
        BY <1>4, <1>12, <4>1
    <3> QED
      BY <3>1
  <2>4. i < c \/ i = c \/ i = c + 1 \/ i > c + 1
    BY <1>1
  <2> QED
    BY <2>1, <2>2, <2>3, <2>4
<1> QED
  BY <1>14, <1>15, <1>16

\* An iteration of coalesce_free_blocks that moves on.
LEMMA MoveOn ==
    ASSUME NEW L, BlockList(L), NEW c \in Nat, 1 <= c, c < Len(L),
           ~ Adjacent(L[c], L[c + 1]), ApartBelow(L, c)
    PROVE  ApartBelow(L, c + 1)
<1>1. /\ Len(L) \in Nat
      /\ \A i \in 1..Len(L) : /\ L[i].start_page \in Nat /\ EndOf(L[i]) \in Nat
                              /\ L[i].start_page < EndOf(L[i])
      /\ \A i, j \in 1..Len(L) : i < j => EndOf(L[i]) <= L[j].start_page
  BY Blocks
<1>2. c \in 1..Len(L) /\ c + 1 \in 1..Len(L) /\ c < c + 1
  BY <1>1
<1>3. EndOf(L[c]) < L[c + 1].start_page
  BY <1>1, <1>2 DEF Adjacent, EndOf
<1>4. ASSUME NEW i \in 1..Len(L), NEW j \in 1..Len(L), i < j, i < c + 1
      PROVE  EndOf(L[i]) < L[j].start_page
  <2>1. CASE i < c
    BY <1>4, <2>1 DEF ApartBelow
  <2>2. CASE i = c /\ j = c + 1
    BY <1>3, <2>2
  <2>3. CASE i = c /\ j > c + 1
    <3>1. EndOf(L[c + 1]) <= L[j].start_page
      BY <1>1, <1>2, <2>3
    <3> QED
      BY <1>1, <1>2, <1>3, <2>3, <3>1
  <2> QED
    BY <1>1, <1>4, <2>1, <2>2, <2>3
<1> QED
  BY <1>4 DEF ApartBelow

----------------------------------------------------------------------------
(* The inductive invariant.                                                *)

\* The list of blocks and the bitmap agree.
Memory ==
    /\ page_bitmap \subseteq Page
    /\ BlockList(free_list)
    /\ Cover(free_list) = Page \ page_bitmap

\* How far the loop that runs has come.  What an allocation has taken lies
\* below everything that is left in the list, since it starts at the front and
\* only leaves the first block when it is done.
Loops ==
    /\ pc \in {"idle", "allocate", "free", "coalesce"}
    /\ current \in Nat /\ current >= 1
    /\ pc \in {"idle", "allocate"} => Apart(free_list)
    /\ pc = "coalesce" => ApartBelow(free_list, current)
    /\ pc = "allocate" =>
         /\ num_pages \in Nat /\ 1 <= num_pages /\ num_pages <= MaxRequest
         /\ Len(taken) <= num_pages
         /\ Len(taken) < num_pages => current = 1
         /\ \A p \in Range(taken), q \in Cover(free_list) : p < q

\* Every page whose bit is set is in the hands of the running call or in
\* exactly one list that a caller holds.
Hands ==
    /\ ListOf(taken, Range(taken)) /\ ListOf(todo, Range(todo))
    /\ pc # "allocate" => taken = << >>
    /\ pc # "free" => todo = << >>
    /\ \A c \in chains : ListOf(c, Range(c)) /\ c # << >> /\ Range(c) \cap InHand = {}
    /\ \A c, d \in chains : c # d => Range(c) \cap Range(d) = {}
    /\ page_bitmap = InHand \cup UNION {Range(c) : c \in chains}

Inv == Memory /\ Loops /\ Hands

\* The pages of the blocks, one block after the other.
LEMMA CoverPages ==
    ASSUME NEW L, BlockList(L)
    PROVE  UNION {PagesOf(L[i]) : i \in DOMAIN L} = Cover(L)
<1>1. /\ L \in Seq(FreeBlock) /\ Len(L) \in Nat
      /\ \A i \in 1..Len(L) : L[i] \in FreeBlock
  BY Blocks
<1>2. DOMAIN L = 1..Len(L)
  BY <1>1
<1>3. ASSUME NEW i \in 1..Len(L)
      PROVE  \A p : p \in PagesOf(L[i]) <=> p \in Nat /\ L[i].start_page <= p /\ p < EndOf(L[i])
  <2>1. L[i].start_page \in Nat /\ L[i].num_pages \in Nat
    BY <1>1, BlockFields
  <2> QED
    BY <2>1 DEF PagesOf, EndOf
<1> QED
  BY <1>2, <1>3 DEF Cover

\* A list of an empty range is empty.
LEMMA EmptyList ==
    /\ Range(<< >>) = {} /\ ListOf(<< >>, {}) /\ ListOf(<< >>, Range(<< >>))
<1>1. Range(<< >>) = {}
  BY DEF Range
<1>2. ListOf(<< >>, {})
  BY DEF ListOf
<1> QED
  BY <1>1, <1>2

\* What a list lists is its range.
LEMMA ListRange ==
    ASSUME NEW L, NEW D, ListOf(L, D)
    PROVE  Range(L) = D /\ ListOf(L, Range(L)) /\ (L = << >> <=> D = {})
<1>1. /\ L \in Seq(D) /\ \A e \in D : \E i \in 1..Len(L) : L[i] = e
  BY DEF ListOf
<1>2. DOMAIN L = 1..Len(L) /\ Len(L) \in Nat /\ \A i \in 1..Len(L) : L[i] \in D
  BY <1>1
<1>3. Range(L) = D
  BY <1>1, <1>2 DEF Range
<1>4. L = << >> <=> D = {}
  <2>1. L = << >> => D = {}
    BY <1>1
  <2>2. D = {} => L = << >>
    BY <1>1, <1>2
  <2> QED
    BY <2>1, <2>2
<1> QED
  BY <1>3, <1>4

\* The pages taken from a block, in their order.
LEMMA PagesListed ==
    ASSUME NEW s \in Nat, NEW n \in Nat \ {0}
    PROVE  ListOf(PagesInOrder(s, n), PagesOf(Block(s, n))) /\ Len(PagesInOrder(s, n)) = n
<1>1. PICK P : P = PagesInOrder(s, n)
  OBVIOUS
<1>2. PICK X : X = PagesOf(Block(s, n))
  OBVIOUS
<1>3. X = {p \in Nat : s <= p /\ p < s + n}
  BY <1>2, NewBlock
<1>4. P = [i \in 1..n |-> s + i - 1]
  BY <1>1 DEF PagesInOrder
<1>5. \A i \in 1..n : P[i] = s + i - 1 /\ P[i] \in X
  BY <1>3, <1>4
<1>6. P \in Seq(X) /\ Len(P) = n
  BY <1>4, <1>5
<1>7. \A i, j \in 1..n : P[i] = P[j] => i = j
  BY <1>5
<1>8. \A e \in X : \E i \in 1..n : P[i] = e
  <2> SUFFICES ASSUME NEW e \in X
               PROVE  \E i \in 1..n : P[i] = e
    OBVIOUS
  <2>1. e - s + 1 \in 1..n /\ s + (e - s + 1) - 1 = e
    BY <1>3
  <2> QED
    BY <1>5, <2>1
<1> QED
  BY <1>1, <1>2, <1>6, <1>7, <1>8 DEF ListOf

\* The smaller of two numbers.
LEMMA MinOfTwo ==
    ASSUME NEW a \in Int, NEW b \in Int
    PROVE  /\ Min({a, b}) \in {a, b}
           /\ Min({a, b}) <= a /\ Min({a, b}) <= b
<1>1. \E x \in {a, b} : \A y \in {a, b} : x <= y
  BY LeastElement, FS_AddElement, FS_Singleton
<1> QED
  BY <1>1 DEF Min

\* Initially there is one block with all pages.
LEMMA InvInit == Init => Inv
<1> SUFFICES ASSUME Init
             PROVE  Inv
  OBVIOUS
<1>1. TOTAL_PAGES \in Nat \ {0}
  BY TotalPagesAssumption
<1>2. PICK b : b = Block(0, TOTAL_PAGES)
  OBVIOUS
<1>3. b \in FreeBlock /\ b.start_page = 0 /\ EndOf(b) = TOTAL_PAGES
  <2>1. 0 \in Nat /\ 0 + TOTAL_PAGES = TOTAL_PAGES
    BY <1>1
  <2> QED
    BY <1>1, <1>2, <2>1, NewBlock
<1>4. free_list = <<b>>
  BY <1>2 DEF Init
<1>5. BlockList(free_list) /\ Apart(free_list) /\ Cover(free_list) = Page
  <2>1. free_list \in Seq(FreeBlock) /\ Len(free_list) = 1 /\ free_list[1] = b
    BY <1>3, <1>4
  <2>2. \A i \in 1..Len(free_list) : i = 1
    BY <2>1
  <2>3. BlockList(free_list) /\ Apart(free_list)
    BY <2>1, <2>2 DEF BlockList, Apart, ApartBelow
  <2>4. Cover(free_list) = {p \in Nat : 0 <= p /\ p < TOTAL_PAGES}
    BY <1>3, <2>1 DEF Cover
  <2> QED
    BY <1>1, <2>3, <2>4 DEF Page
<1>6. Memory
  BY <1>5 DEF Init, Memory
<1>7. Loops
  BY <1>5 DEF Init, Loops
<1>8. Hands
  <2>1. InHand = {}
    BY EmptyList DEF Init, InHand
  <2> QED
    BY <2>1, EmptyList DEF Init, Hands
<1> QED
  BY <1>6, <1>7, <1>8 DEF Inv

\* An iteration of the allocation: what it takes is the front of the list.
\* Stated by what the step does, for the invariant and for the refinement.
Taking(n, X) ==
    /\ n \in Nat \ {0} /\ Len(taken) + n <= num_pages
    /\ X \subseteq Cover(free_list)
    /\ ListOf(taken', Range(taken) \cup X) /\ Len(taken') = Len(taken) + n
    /\ page_bitmap' = page_bitmap \cup X
    /\ BlockList(free_list') /\ Apart(free_list')
    /\ Cover(free_list') = Cover(free_list) \ X
    /\ \A p \in X, q \in Cover(free_list') : p < q
    /\ Len(taken) + n < num_pages => current' = 1
    /\ current' \in Nat /\ current' >= 1

LEMMA TakeEffect ==
    ASSUME Inv, TakeFromBlock
    PROVE  \E n, X : Taking(n, X)
<1>1. /\ pc = "allocate" /\ current <= Len(free_list) /\ Len(taken) < num_pages
  BY DEF TakeFromBlock
<1>2. current = 1 /\ num_pages \in Nat /\ BlockList(free_list) /\ Apart(free_list)
  BY <1>1 DEF Inv, Loops, Memory
<1>3. Len(free_list) \in Nat /\ 1 \in 1..Len(free_list) /\ Len(free_list) >= 1
  BY <1>1, <1>2, Blocks
<1>4. PICK b : b = free_list[1]
  OBVIOUS
<1>5. b \in FreeBlock /\ b.start_page \in Nat /\ b.num_pages \in Nat /\ b.num_pages >= 1
  BY <1>2, <1>3, <1>4, Blocks, BlockFields
<1>6. ListOf(taken, Range(taken)) /\ Len(taken) \in Nat
  BY DEF Inv, Hands, ListOf
<1>7. PICK n : n = Min({b.num_pages, num_pages - Len(taken)})
  OBVIOUS
<1>8. /\ n \in Nat \ {0} /\ n \in 1..b.num_pages /\ Len(taken) + n <= num_pages
      /\ n = b.num_pages \/ n = num_pages - Len(taken)
  <2>1. b.num_pages \in Int /\ num_pages - Len(taken) \in Int /\ num_pages - Len(taken) >= 1
    BY <1>1, <1>2, <1>5, <1>6
  <2>2. /\ n \in {b.num_pages, num_pages - Len(taken)}
        /\ n <= b.num_pages /\ n <= num_pages - Len(taken)
    BY <1>7, <2>1, MinOfTwo
  <2> QED
    BY <1>2, <1>5, <1>6, <2>1, <2>2
<1>9. PICK X : X = PagesOf(Block(b.start_page, n))
  OBVIOUS
<1>10. PICK P : P = PagesInOrder(b.start_page, n)
  OBVIOUS
<1>11. /\ taken' = taken \o P
       /\ page_bitmap' = page_bitmap \cup X
       /\ free_list' = AfterTaking(free_list, 1, n)
       /\ current' = IF n = b.num_pages THEN 1 ELSE 2
  BY <1>2, <1>4, <1>7, <1>9, <1>10 DEF TakeFromBlock
<1>12. ListOf(P, X) /\ Len(P) = n
  BY <1>5, <1>8, <1>9, <1>10, PagesListed
<1>13. /\ BlockList(free_list') /\ Apart(free_list')
       /\ X \subseteq Cover(free_list)
       /\ Cover(free_list') = Cover(free_list) \ X
       /\ \A p \in X, q \in Cover(free_list') : p < q
  BY <1>2, <1>3, <1>4, <1>8, <1>9, <1>11, TakePart
<1>14. Range(taken) \cap X = {}
  BY <1>13 DEF Inv, Memory, Hands, InHand
<1>15. ListOf(taken', Range(taken) \cup X)
  BY <1>6, <1>11, <1>12, <1>14, ConcatList
<1>16. Len(taken') = Len(taken) + n
  <2>1. taken \in Seq(Range(taken) \cup X) /\ P \in Seq(Range(taken) \cup X)
    BY <1>6, <1>12 DEF ListOf
  <2>2. Len(taken \o P) = Len(taken) + Len(P)
    BY <2>1, ConcatProperties
  <2> QED
    BY <1>11, <1>12, <2>2
<1>17. Len(taken) + n < num_pages => current' = 1
  BY <1>2, <1>6, <1>8, <1>11
<1>18. current' \in Nat /\ current' >= 1
  BY <1>11
<1> QED
  BY <1>8, <1>11, <1>13, <1>15, <1>16, <1>17, <1>18 DEF Taking

\* An iteration of the allocation keeps the invariant.
LEMMA TakeKeepsInv ==
    ASSUME Inv, TakeFromBlock
    PROVE  Inv'
<1>1. PICK n, X : Taking(n, X)
  BY TakeEffect
<1>2. Range(taken') = Range(taken) \cup X /\ ListOf(taken', Range(taken'))
  BY <1>1, ListRange DEF Taking
<1>3. UNCHANGED <<chains, pc, num_pages, todo>> /\ pc = "allocate"
  BY DEF TakeFromBlock
<1>4. Memory'
  <2>1. Cover(free_list') = Page \ page_bitmap' /\ page_bitmap' \subseteq Page
    BY <1>1 DEF Taking, Inv, Memory
  <2> QED
    BY <1>1, <2>1 DEF Taking, Memory
<1>5. Loops'
  <2>1. \A p \in Range(taken'), q \in Cover(free_list') : p < q
    BY <1>1, <1>2, <1>3 DEF Taking, Inv, Loops
  <2>2. Len(taken') <= num_pages' /\ (Len(taken') < num_pages' => current' = 1)
    BY <1>1, <1>3 DEF Taking
  <2>3. /\ num_pages' \in Nat /\ 1 <= num_pages' /\ num_pages' <= MaxRequest
        /\ pc' = "allocate"
    BY <1>3 DEF Inv, Loops
  <2> QED
    BY <1>1, <2>1, <2>2, <2>3 DEF Taking, Loops
<1>6. Hands'
  <2>1. X \cap page_bitmap = {}
    BY <1>1 DEF Taking, Inv, Memory
  <2>2. InHand' = InHand \cup X
    BY <1>2, <1>3 DEF InHand
  <2>3. \A c \in chains : Range(c) \subseteq page_bitmap /\ Range(c) \cap InHand = {}
    BY DEF Inv, Hands
  <2>4. \A c \in chains' : Range(c) \cap InHand' = {}
    BY <1>3, <2>1, <2>2, <2>3
  <2>5. page_bitmap' = InHand' \cup UNION {Range(c) : c \in chains'}
    BY <1>1, <1>3, <2>2 DEF Taking, Inv, Hands
  <2>6. ListOf(todo', Range(todo')) /\ todo' = << >>
    BY <1>3 DEF Inv, Hands
  <2>7. /\ \A c \in chains' : ListOf(c, Range(c)) /\ c # << >>
        /\ \A c, d \in chains' : c # d => Range(c) \cap Range(d) = {}
    BY <1>3 DEF Inv, Hands
  <2> QED
    BY <1>2, <1>3, <2>4, <2>5, <2>6, <2>7 DEF Hands
<1> QED
  BY <1>4, <1>5, <1>6 DEF Inv

\* A call of allocate_pages_linked starts with nothing in hand.
LEMMA CallAllocateKeepsInv ==
    ASSUME Inv, NEW n \in 1..MaxRequest, CallAllocate(n)
    PROVE  Inv'
<1>1. /\ pc = "idle" /\ pc' = "allocate" /\ current' = 1 /\ num_pages' = n
      /\ UNCHANGED <<page_bitmap, free_list, chains, taken, todo>>
  BY DEF CallAllocate
<1>2. n \in Nat /\ 1 <= n /\ n <= MaxRequest
  BY MaxRequestAssumption
<1>3. taken = << >> /\ todo = << >>
  BY <1>1 DEF Inv, Hands
<1>4. Memory'
  BY <1>1 DEF Inv, Memory
<1>5. Loops'
  <2>1. Len(taken') = 0 /\ Range(taken') = {}
    BY <1>1, <1>3, EmptyList
  <2> QED
    BY <1>1, <1>2, <2>1 DEF Inv, Loops
<1>6. Hands'
  <2>1. InHand' = InHand
    BY <1>1 DEF InHand
  <2> QED
    BY <1>1, <1>3, <2>1 DEF Inv, Hands
<1> QED
  BY <1>4, <1>5, <1>6 DEF Inv

\* The pages of an allocation that succeeds go to the caller.
LEMMA AllocateReturnsKeepsInv ==
    ASSUME Inv, AllocateReturns
    PROVE  Inv'
<1>1. /\ pc = "allocate" /\ Len(taken) = num_pages /\ chains' = chains \cup {taken}
      /\ taken' = << >> /\ pc' = "idle"
      /\ UNCHANGED <<page_bitmap, free_list, current, num_pages, todo>>
  BY DEF AllocateReturns
<1>2. todo = << >> /\ taken # << >>
  <2>1. num_pages \in Nat /\ num_pages >= 1
    BY <1>1 DEF Inv, Loops
  <2> QED
    BY <1>1, <2>1 DEF Inv, Hands
<1>3. Memory'
  BY <1>1 DEF Inv, Memory
<1>4. Loops'
  BY <1>1 DEF Inv, Loops
<1>5. InHand = Range(taken) /\ InHand' = {}
  BY <1>1, <1>2, EmptyList DEF InHand
<1>6. Hands'
  <2>1. ListOf(taken', Range(taken')) /\ ListOf(todo', Range(todo'))
    BY <1>1, <1>2, EmptyList
  <2>2. \A c \in chains' : ListOf(c, Range(c)) /\ c # << >> /\ Range(c) \cap InHand' = {}
    BY <1>1, <1>2, <1>5 DEF Inv, Hands
  <2>3. \A c, d \in chains' : c # d => Range(c) \cap Range(d) = {}
    BY <1>1, <1>5 DEF Inv, Hands
  <2>4. page_bitmap' = InHand' \cup UNION {Range(c) : c \in chains'}
    BY <1>1, <1>5 DEF Inv, Hands
  <2> QED
    BY <1>1, <1>2, <2>1, <2>2, <2>3, <2>4 DEF Hands
<1> QED
  BY <1>3, <1>4, <1>6 DEF Inv

\* The pages of an allocation that fails are to be given back.
LEMMA AllocateFailsKeepsInv ==
    ASSUME Inv, AllocateFails
    PROVE  Inv' /\ InHand' = InHand
<1>1. /\ pc = "allocate" /\ taken' = << >> /\ todo' = taken
      /\ pc' = IF taken = << >> THEN "idle" ELSE "free"
      /\ UNCHANGED <<page_bitmap, free_list, chains, current, num_pages>>
  BY DEF AllocateFails
<1>2. todo = << >>
  BY <1>1 DEF Inv, Hands
<1>3. InHand' = InHand
  BY <1>1, <1>2 DEF InHand
<1>4. Memory'
  BY <1>1 DEF Inv, Memory
<1>5. Loops'
  BY <1>1 DEF Inv, Loops
<1>6. Hands'
  <2>1. ListOf(taken', Range(taken')) /\ ListOf(todo', Range(todo'))
    BY <1>1, EmptyList DEF Inv, Hands
  <2>2. /\ \A c \in chains' : ListOf(c, Range(c)) /\ c # << >> /\ Range(c) \cap InHand' = {}
        /\ \A c, d \in chains' : c # d => Range(c) \cap Range(d) = {}
        /\ page_bitmap' = InHand' \cup UNION {Range(c) : c \in chains'}
    BY <1>1, <1>3 DEF Inv, Hands
  <2>3. /\ pc' # "allocate" => taken' = << >>
        /\ pc' # "free" => todo' = << >>
    BY <1>1
  <2> QED
    BY <2>1, <2>2, <2>3 DEF Hands
<1> QED
  BY <1>3, <1>4, <1>5, <1>6 DEF Inv

\* A call of deallocate_pages_linked takes a list back.
LEMMA CallDeallocateKeepsInv ==
    ASSUME Inv, NEW blocks \in chains, CallDeallocate(blocks)
    PROVE  Inv' /\ InHand = {} /\ InHand' = Range(blocks)
<1>1. /\ pc = "idle" /\ chains' = chains \ {blocks} /\ todo' = blocks /\ pc' = "free"
      /\ UNCHANGED <<page_bitmap, free_list, current, num_pages, taken>>
  BY DEF CallDeallocate
<1>2. taken = << >> /\ todo = << >>
  BY <1>1 DEF Inv, Hands
<1>3. InHand = {} /\ InHand' = Range(blocks)
  BY <1>1, <1>2, EmptyList DEF InHand
<1>4. Memory'
  BY <1>1 DEF Inv, Memory
<1>5. Loops'
  BY <1>1 DEF Inv, Loops
<1>6. Hands'
  <2>1. ListOf(taken', Range(taken')) /\ ListOf(todo', Range(todo'))
    BY <1>1 DEF Inv, Hands
  <2>2. \A c \in chains' : ListOf(c, Range(c)) /\ c # << >> /\ Range(c) \cap InHand' = {}
    BY <1>1, <1>3 DEF Inv, Hands
  <2>3. \A c, d \in chains' : c # d => Range(c) \cap Range(d) = {}
    BY <1>1 DEF Inv, Hands
  <2>4. page_bitmap' = InHand' \cup UNION {Range(c) : c \in chains'}
    BY <1>1, <1>3 DEF Inv, Hands
  <2> QED
    BY <1>1, <1>2, <2>1, <2>2, <2>3, <2>4 DEF Hands
<1> QED
  BY <1>3, <1>4, <1>5, <1>6 DEF Inv

\* An iteration of deallocate_pages_linked: one page leaves the hands of the
\* call for the list.
LEMMA GiveBackKeepsInv ==
    ASSUME Inv, GiveBackPage
    PROVE  /\ Inv'
           /\ \E h \in InHand : /\ InHand' = InHand \ {h}
                                /\ page_bitmap' = page_bitmap \ {h}
                                /\ Cover(free_list') = Cover(free_list) \cup {h}
<1>1. /\ pc = "free" /\ todo # << >> /\ page_bitmap' = page_bitmap \ {Head(todo)}
      /\ free_list' = add_to_free_list(free_list, Head(todo), 1) /\ todo' = Tail(todo)
      /\ UNCHANGED <<chains, pc, current, num_pages, taken>>
  BY DEF GiveBackPage
<1>2. PICK h : h = Head(todo)
  OBVIOUS
<1>3. taken = << >> /\ ListOf(todo, Range(todo)) /\ InHand = Range(todo)
  <2>1. taken = << >> /\ ListOf(todo, Range(todo))
    BY <1>1 DEF Inv, Hands
  <2> QED
    BY <2>1, EmptyList DEF InHand
<1>4. Range(todo) # {}
  BY <1>1, <1>3, ListRange
<1>5. h \in Range(todo) /\ ListOf(todo', Range(todo) \ {h})
  BY <1>1, <1>2, <1>3, <1>4, FirstElement
<1>6. Range(todo') = Range(todo) \ {h} /\ ListOf(todo', Range(todo'))
  BY <1>5, ListRange
<1>7. InHand' = InHand \ {h}
  BY <1>1, <1>3, <1>6, EmptyList DEF InHand
<1>8. h \in InHand /\ h \in page_bitmap /\ h \in Page /\ h \in Nat
  <2>1. h \in InHand /\ h \in page_bitmap /\ h \in Page
    BY <1>3, <1>5 DEF Inv, Memory, Hands
  <2> QED
    BY <2>1, TotalPagesAssumption DEF Page
<1>9. BlockList(free_list') /\ Cover(free_list') = Cover(free_list) \cup {h}
  <2>1. BlockList(free_list) /\ h \notin Cover(free_list)
    BY <1>8 DEF Inv, Memory
  <2> QED
    BY <1>1, <1>2, <1>8, <2>1, AddPage
<1>10. Memory'
  <2>1. Cover(free_list') = Page \ page_bitmap' /\ page_bitmap' \subseteq Page
    BY <1>1, <1>2, <1>8, <1>9 DEF Inv, Memory
  <2> QED
    BY <1>9, <2>1 DEF Memory
<1>11. Loops'
  BY <1>1 DEF Inv, Loops
<1>12. Hands'
  <2>1. ListOf(taken', Range(taken'))
    BY <1>1 DEF Inv, Hands
  <2>2. \A c \in chains' : ListOf(c, Range(c)) /\ c # << >> /\ Range(c) \cap InHand' = {}
    BY <1>1, <1>7 DEF Inv, Hands
  <2>3. \A c, d \in chains' : c # d => Range(c) \cap Range(d) = {}
    BY <1>1 DEF Inv, Hands
  <2>4. page_bitmap' = InHand' \cup UNION {Range(c) : c \in chains'}
    <3>1. \A c \in chains : h \notin Range(c)
      BY <1>8 DEF Inv, Hands
    <3> QED
      BY <1>1, <1>2, <1>7, <3>1 DEF Inv, Hands
  <2> QED
    BY <1>1, <1>3, <1>6, <2>1, <2>2, <2>3, <2>4 DEF Hands
<1> QED
  BY <1>1, <1>2, <1>7, <1>8, <1>9, <1>10, <1>11, <1>12 DEF Inv

\* Coalescing changes how the pages are grouped and nothing else.
LEMMA CoalesceKeepsInv ==
    ASSUME Inv, StartCoalesce \/ CoalesceStep \/ CoalesceReturns
    PROVE  /\ Inv' /\ InHand' = InHand
           /\ page_bitmap' = page_bitmap /\ chains' = chains
           /\ Cover(free_list') = Cover(free_list)
<1>1. /\ UNCHANGED <<page_bitmap, chains, num_pages, taken, todo>>
      /\ pc \in {"free", "coalesce"} /\ pc' \in {"coalesce", "idle"}
      /\ taken = << >> /\ todo = << >>
  BY DEF StartCoalesce, CoalesceStep, CoalesceReturns, Inv, Hands
<1>2. InHand' = InHand
  BY <1>1 DEF InHand
<1>3. Hands'
  BY <1>1, <1>2 DEF Inv, Hands
<1>4. BlockList(free_list) /\ Len(free_list) \in Nat /\ current \in Nat /\ current >= 1
  BY Blocks DEF Inv, Memory, Loops
<1>5. CASE StartCoalesce
  <2>1. free_list' = free_list /\ pc' = "coalesce" /\ current' = 1
    BY <1>5 DEF StartCoalesce
  <2>2. ApartBelow(free_list', current')
    BY <2>1 DEF ApartBelow
  <2>3. Memory' /\ Loops'
    BY <1>1, <2>1, <2>2 DEF Inv, Memory, Loops
  <2> QED
    BY <1>1, <1>2, <1>3, <2>1, <2>3 DEF Inv
<1>6. CASE CoalesceReturns
  <2>1. /\ free_list' = free_list /\ pc' = "idle" /\ current' = current
        /\ pc = "coalesce" /\ current >= Len(free_list)
    BY <1>6 DEF CoalesceReturns
  <2>2. Apart(free_list')
    BY <1>4, <2>1 DEF Apart, ApartBelow, Inv, Loops
  <2>3. Memory' /\ Loops'
    BY <1>1, <2>1, <2>2 DEF Inv, Memory, Loops
  <2> QED
    BY <1>1, <1>2, <1>3, <2>1, <2>3 DEF Inv
<1>7. CASE CoalesceStep
  <2>1. /\ pc = "coalesce" /\ pc' = "coalesce" /\ current < Len(free_list)
        /\ ApartBelow(free_list, current)
    BY <1>7 DEF CoalesceStep, Inv, Loops
  <2>2. /\ BlockList(free_list') /\ Cover(free_list') = Cover(free_list)
        /\ ApartBelow(free_list', current') /\ current' \in Nat /\ current' >= 1
    <3>1. CASE Adjacent(free_list[current], free_list[current + 1])
      <4>1. /\ free_list' = [RemoveAt(free_list, current + 1) EXCEPT
                              ![current].num_pages = @ + free_list[current + 1].num_pages]
            /\ current' = current
        BY <1>7, <3>1 DEF CoalesceStep
      <4> QED
        BY <1>4, <2>1, <3>1, <4>1, Merge
    <3>2. CASE ~ Adjacent(free_list[current], free_list[current + 1])
      <4>1. free_list' = free_list /\ current' = current + 1
        BY <1>7, <3>2 DEF CoalesceStep
      <4> QED
        BY <1>4, <2>1, <3>2, <4>1, MoveOn
    <3> QED
      BY <3>1, <3>2
  <2>3. Memory'
    BY <1>1, <2>2 DEF Inv, Memory
  <2>4. Loops'
    BY <2>1, <2>2 DEF Loops
  <2> QED
    BY <1>1, <1>2, <1>3, <2>2, <2>3, <2>4 DEF Inv
<1> QED
  BY <1>5, <1>6, <1>7

\* The invariant is inductive.
LEMMA InvNext ==
    ASSUME Inv, [Next]_vars
    PROVE  Inv'
<1>1. CASE \E n \in 1..MaxRequest : CallAllocate(n)
  BY <1>1, CallAllocateKeepsInv
<1>2. CASE \E blocks \in chains : CallDeallocate(blocks)
  BY <1>2, CallDeallocateKeepsInv
<1>3. CASE Step
  BY <1>3, TakeKeepsInv, AllocateReturnsKeepsInv, AllocateFailsKeepsInv, GiveBackKeepsInv,
     CoalesceKeepsInv DEF Step
<1>4. CASE UNCHANGED vars
  BY <1>4 DEF vars, Inv, Memory, Loops, Hands, InHand
<1> QED
  BY <1>1, <1>2, <1>3, <1>4 DEF Next

\* The inductive invariant of the free list.
THEOREM ListSafe == Spec => []Inv
<1>1. Init => Inv
  BY InvInit
<1>2. Inv /\ [Next]_vars => Inv'
  BY InvNext
<1> QED
  BY <1>1, <1>2, PTL DEF Spec

\* At every iteration the blocks are sorted, not empty and disjoint, and between
\* calls no two of them could be merged: the single pass of coalesce_free_blocks
\* is enough.
THEOREM ListIsCanonical == Spec => []FreeListCanonical
<1>1. ASSUME Inv
      PROVE  FreeListCanonical
  <2>1. /\ free_list \in Seq(FreeBlock) /\ Len(free_list) \in Nat
        /\ \A i \in 1..Len(free_list) : free_list[i] \in FreeBlock
        /\ \A i, j \in 1..Len(free_list) :
             i < j => EndOf(free_list[i]) <= free_list[j].start_page
    BY <1>1, Blocks DEF Inv, Memory
  <2>2. DOMAIN free_list = 1..Len(free_list)
    BY <2>1
  <2>3. \A i \in DOMAIN free_list : free_list[i].num_pages > 0
    BY <2>1, <2>2, BlockFields
  <2>4. ASSUME NEW i \in DOMAIN free_list, NEW j \in DOMAIN free_list, i < j, pc = "idle"
        PROVE  ~ Adjacent(free_list[i], free_list[j])
    <3>1. /\ i \in 1..Len(free_list) /\ j \in 1..Len(free_list) /\ i < Len(free_list)
          /\ Apart(free_list)
      BY <1>1, <2>1, <2>2, <2>4 DEF Inv, Loops
    <3>2. EndOf(free_list[i]) < free_list[j].start_page
      BY <2>4, <3>1 DEF Apart, ApartBelow
    <3>3. EndOf(free_list[i]) \in Nat /\ free_list[j].start_page \in Nat
      BY <2>1, <3>1, BlockFields
    <3> QED
      BY <3>2, <3>3 DEF Adjacent, EndOf
  <2> QED
    BY <2>1, <2>2, <2>3, <2>4 DEF FreeListCanonical, EndOf
<1> QED
  BY <1>1, ListSafe, PTL

\* At every iteration of every loop the list covers the pages whose bit is clear
\* and no other.
THEOREM ListMatchesBitmap == Spec => []FreeListMatchesBitmap
<1>1. Inv => FreeListMatchesBitmap
  BY CoverPages DEF Inv, Memory, FreeListMatchesBitmap, ListPages
<1> QED
  BY <1>1, ListSafe, PTL

----------------------------------------------------------------------------
(* The refinement.                                                         *)

\* The two sets of pages of the abstract allocator.
Held == page_bitmap \ InHand
Available == Cover(free_list) \cup InHand

\* Steps the abstract allocator does not see.
LEMMA Invisible ==
    ASSUME Inv, Inv', Held' = Held, Available' = Available, chains' = chains
    PROVE  UNCHANGED PA!allocVars
<1>1. ListPages = Cover(free_list) /\ ListPages' = Cover(free_list')
  BY CoverPages DEF Inv, Memory, ListPages
<1>2. /\ page_bitmap' \ InHand' = page_bitmap \ InHand
      /\ ListPages' \cup InHand' = ListPages \cup InHand
  BY <1>1 DEF Held, Available
<1> QED
  BY <1>2 DEF PA!allocVars

\* The number of elements, as the abstract allocator counts them.
LEMMA SameCount ==
    ASSUME NEW S
    PROVE  PA!Cardinality(S) = Cardinality(S)
  BY DEF PA!Cardinality, Cardinality

\* A memory with both of its parts replaced.
LEMMA BothReplaced ==
    ASSUME NEW B, NEW F, NEW B2, NEW F2
    PROVE  [[page_bitmap |-> B, free_list |-> F] EXCEPT !.page_bitmap = B2, !.free_list = F2]
             = [page_bitmap |-> B2, free_list |-> F2]
<1>1. PICK s : s = [page_bitmap |-> B, free_list |-> F]
  OBVIOUS
<1>2. DOMAIN s = {"page_bitmap", "free_list"}
  BY <1>1
<1>3. PICK t : t = [s EXCEPT !.page_bitmap = B2, !.free_list = F2]
  OBVIOUS
<1>4. PICK u : u = [page_bitmap |-> B2, free_list |-> F2]
  OBVIOUS
<1>5. DOMAIN t = DOMAIN s /\ t.page_bitmap = B2 /\ t.free_list = F2
  BY <1>2, <1>3
<1>6. DOMAIN u = DOMAIN s /\ u.page_bitmap = B2 /\ u.free_list = F2
  BY <1>2, <1>4
<1>7. t = [x \in DOMAIN s |-> t[x]] /\ u = [x \in DOMAIN s |-> u[x]]
  BY <1>3, <1>4, <1>5, <1>6
<1>8. t = u
  BY <1>2, <1>5, <1>6, <1>7
<1> QED
  BY <1>1, <1>3, <1>4, <1>8

\* Pages that lie below all others are the lowest ones.
LEMMA LowestPagesAre ==
    ASSUME NEW S \in SUBSET Int, IsFiniteSet(S), NEW T \in SUBSET S,
           \A p \in T, q \in S \ T : p < q
    PROVE  LowestPages(S, Cardinality(T)) = T
<1>1. IsFiniteSet(T) /\ Cardinality(T) \in Nat
  BY FS_Subset, FS_CardinalityType
<1>2. ASSUME NEW p \in S
      PROVE  Cardinality({q \in S : q < p}) < Cardinality(T) <=> p \in T
  <2>1. PICK B : B = {q \in S : q < p}
    OBVIOUS
  <2>2. IsFiniteSet(B) /\ Cardinality(B) \in Nat
    BY <2>1, FS_Subset, FS_CardinalityType
  <2>3. CASE p \in T
    <3>1. ASSUME NEW q \in B
          PROVE  q \in T
      <4>1. q \in S /\ q < p /\ q \in Int /\ p \in Int
        BY <2>1
      <4>2. ~ (p < q)
        BY <4>1
      <4> QED
        BY <2>3, <4>1, <4>2
    <3>2. p \notin B
      BY <2>1
    <3>3. B \subseteq T /\ B # T
      BY <2>3, <3>1, <3>2
    <3>4. Cardinality(B) <= Cardinality(T) /\ (Cardinality(B) = Cardinality(T) => B = T)
      BY <1>1, <3>3, FS_Subset
    <3>5. Cardinality(B) < Cardinality(T)
      BY <1>1, <2>2, <3>3, <3>4
    <3> QED
      BY <2>1, <2>3, <3>5
  <2>4. CASE p \notin T
    <3>1. T \subseteq B
      BY <2>1, <2>4
    <3>2. Cardinality(T) <= Cardinality(B)
      BY <2>2, <3>1, FS_Subset
    <3> QED
      BY <1>1, <2>1, <2>2, <2>4, <3>2
  <2> QED
    BY <2>3, <2>4
<1> QED
  BY <1>2 DEF LowestPages

\* What the abstract allocation does when there are enough pages.
LEMMA AbstractAllocate ==
    ASSUME NEW B, NEW F \in SUBSET Int, IsFiniteSet(F), NEW T \in SUBSET F,
           \A p \in T, q \in F \ T : p < q
    PROVE  PA!allocate_pages_linked([page_bitmap |-> B, free_list |-> F], Cardinality(T))
             = [mem |-> [page_bitmap |-> B \cup T, free_list |-> F \ T], blocks |-> T]
<1>1. LowestPages(F, Cardinality(T)) = T
  BY LowestPagesAre
<1>2. PA!LowestPages(F, Cardinality(T)) = T
  BY <1>1, SameCount DEF PA!LowestPages, LowestPages
<1>3. Cardinality(T) <= Cardinality(F)
  BY FS_Subset
<1>4. PICK s : s = [page_bitmap |-> B, free_list |-> F]
  OBVIOUS
<1>5. s.free_list = F /\ PA!TakePages(s, T) = [page_bitmap |-> B \cup T, free_list |-> F \ T]
  <2>1. s.free_list = F /\ s.page_bitmap = B
    BY <1>4
  <2>2. PA!TakePages(s, T) = [s EXCEPT !.page_bitmap = B \cup T, !.free_list = F \ T]
    BY <2>1 DEF PA!TakePages
  <2> QED
    BY <1>4, <2>1, <2>2, BothReplaced
<1> QED
  BY <1>2, <1>3, <1>4, <1>5, SameCount DEF PA!allocate_pages_linked

\* A call that returns with its pages is the allocation of the lowest pages.
LEMMA ReturnsAllocates ==
    ASSUME Inv, Inv', AllocateReturns
    PROVE  PA!Next
<1>1. /\ pc = "allocate" /\ Len(taken) = num_pages /\ chains' = chains \cup {taken}
      /\ taken' = << >> /\ todo' = todo /\ page_bitmap' = page_bitmap
      /\ free_list' = free_list
  BY DEF AllocateReturns
<1>2. PICK T, C : T = Range(taken) /\ C = Cover(free_list)
  OBVIOUS
<1>3. /\ num_pages \in Nat /\ 1 <= num_pages /\ num_pages <= MaxRequest
      /\ \A p \in T, q \in C : p < q
  BY <1>1, <1>2 DEF Inv, Loops
<1>4. todo = << >> /\ ListOf(taken, T)
  BY <1>1, <1>2 DEF Inv, Hands
<1>5. InHand = T /\ InHand' = {}
  BY <1>1, <1>2, <1>4, EmptyList DEF InHand
<1>6. Cardinality(T) = num_pages /\ T # {}
  <2>1. Cardinality(T) = num_pages
    BY <1>1, <1>4, ListSize
  <2> QED
    BY <1>3, <2>1, FS_EmptySet
<1>7. T \subseteq page_bitmap /\ T \subseteq Page /\ C = Page \ page_bitmap
  BY <1>2, <1>5 DEF Inv, Memory, Hands
<1>8. ListPages = C /\ ListPages' = C
  BY <1>1, <1>2, CoverPages DEF Inv, Memory, ListPages
<1>9. PICK F : F = C \cup T
  OBVIOUS
<1>10. F \in SUBSET Int /\ IsFiniteSet(F) /\ T \in SUBSET F /\ F \ T = C
  <2>1. F \in SUBSET Page
    BY <1>7, <1>9
  <2>2. F \in SUBSET Int /\ IsFiniteSet(F)
    BY <2>1, PagesFinite
  <2>3. F \ T = C
    BY <1>7, <1>9
  <2> QED
    BY <1>9, <2>2, <2>3
<1>11. PICK m : m = [page_bitmap |-> page_bitmap \ InHand, free_list |-> ListPages \cup InHand]
  OBVIOUS
<1>12. PICK m2 : m2 = [page_bitmap |-> page_bitmap' \ InHand', free_list |-> ListPages' \cup InHand']
  OBVIOUS
<1>13. m = [page_bitmap |-> page_bitmap \ T, free_list |-> F]
  BY <1>5, <1>8, <1>9, <1>11
<1>14. m2 = [page_bitmap |-> (page_bitmap \ T) \cup T, free_list |-> F \ T]
  <2>1. page_bitmap' \ InHand' = (page_bitmap \ T) \cup T
    BY <1>1, <1>5, <1>7
  <2>2. ListPages' \cup InHand' = F \ T
    BY <1>5, <1>8, <1>10
  <2> QED
    BY <1>12, <2>1, <2>2
<1>15. PICK got : got = PA!allocate_pages_linked(m, num_pages)
  OBVIOUS
<1>16. got.mem = m2 /\ got.blocks = T
  <2>1. \A p \in T, q \in F \ T : p < q
    BY <1>3, <1>10
  <2>2. PA!allocate_pages_linked([page_bitmap |-> page_bitmap \ T, free_list |-> F], Cardinality(T))
          = [mem |-> [page_bitmap |-> (page_bitmap \ T) \cup T, free_list |-> F \ T], blocks |-> T]
    BY <1>10, <2>1, AbstractAllocate
  <2> QED
    BY <1>6, <1>13, <1>14, <1>15, <2>2
<1>17. {Range(chain) : chain \in chains'} = {Range(chain) : chain \in chains} \cup ({got.blocks} \ {PA!NullBlocks})
  BY <1>1, <1>2, <1>6, <1>16 DEF PA!NullBlocks
<1>18. PA!Allocate(num_pages)
  BY <1>11, <1>12, <1>15, <1>16, <1>17 DEF PA!Allocate
<1>19. num_pages \in 0..MaxRequest
  BY <1>3, MaxRequestAssumption
<1> QED
  BY <1>18, <1>19 DEF PA!Next

\* A call of deallocate_pages_linked is the abstract deallocation.
LEMMA CallDeallocates ==
    ASSUME Inv, Inv', NEW blocks \in chains, CallDeallocate(blocks)
    PROVE  PA!Next
<1>1. /\ chains' = chains \ {blocks} /\ page_bitmap' = page_bitmap /\ free_list' = free_list
  BY DEF CallDeallocate
<1>2. InHand = {} /\ InHand' = Range(blocks)
  BY CallDeallocateKeepsInv
<1>3. PICK T : T = Range(blocks)
  OBVIOUS
<1>4. ListPages' = ListPages
  BY <1>1 DEF ListPages
<1>5. {Range(chain) : chain \in chains'} = {Range(chain) : chain \in chains} \ {T}
  <2>1. \A c \in chains : c # blocks => Range(c) # T
    <3> SUFFICES ASSUME NEW c \in chains, c # blocks
                 PROVE  Range(c) # T
      OBVIOUS
    <3>1. Range(c) \cap T = {}
      BY <1>3 DEF Inv, Hands
    <3>2. Range(c) # {}
      BY ListRange DEF Inv, Hands
    <3> QED
      BY <3>1, <3>2
  <2> QED
    BY <1>1, <1>3, <2>1
<1>6. PICK m : m = [page_bitmap |-> page_bitmap \ InHand, free_list |-> ListPages \cup InHand]
  OBVIOUS
<1>7. [page_bitmap |-> page_bitmap' \ InHand', free_list |-> ListPages' \cup InHand']
        = PA!deallocate_pages_linked(m, T)
  <2>1. m = [page_bitmap |-> page_bitmap, free_list |-> ListPages]
    BY <1>2, <1>6
  <2>2. m.page_bitmap = page_bitmap /\ m.free_list = ListPages
    BY <2>1
  <2>3. PA!deallocate_pages_linked(m, T)
          = [m EXCEPT !.page_bitmap = page_bitmap \ T, !.free_list = ListPages \cup T]
    BY <2>2 DEF PA!deallocate_pages_linked
  <2>4. page_bitmap' \ InHand' = page_bitmap \ T /\ ListPages' \cup InHand' = ListPages \cup T
    BY <1>1, <1>2, <1>3, <1>4
  <2> QED
    BY <2>1, <2>3, <2>4, BothReplaced
<1>8. T \in {Range(chain) : chain \in chains}
  BY <1>3
<1>9. PA!Deallocate(T)
  BY <1>5, <1>6, <1>7 DEF PA!Deallocate
<1> QED
  BY <1>8, <1>9 DEF PA!Next

\* Every step is a step of the abstract allocator or invisible to it.
LEMMA RefinementNext ==
    ASSUME Inv, [Next]_vars
    PROVE  [PA!Next]_(PA!allocVars)
<1>1. Inv'
  BY InvNext
<1>2. CASE \E n \in 1..MaxRequest : CallAllocate(n)
  <2>1. Held' = Held /\ Available' = Available /\ chains' = chains
    BY <1>2 DEF CallAllocate, Held, Available, InHand
  <2> QED
    BY <1>1, <2>1, Invisible
<1>3. CASE \E blocks \in chains : CallDeallocate(blocks)
  BY <1>1, <1>3, CallDeallocates
<1>4. CASE TakeFromBlock
  <2>1. PICK n, X : Taking(n, X)
    BY <1>4, TakeEffect
  <2>2. chains' = chains /\ todo' = todo
    BY <1>4 DEF TakeFromBlock
  <2>3. InHand' = InHand \cup X
    BY <2>1, <2>2, ListRange DEF Taking, InHand
  <2>4. X \cap page_bitmap = {}
    BY <2>1 DEF Taking, Inv, Memory
  <2>5. Held' = Held /\ Available' = Available
    BY <2>1, <2>3, <2>4 DEF Taking, Held, Available
  <2> QED
    BY <1>1, <2>2, <2>5, Invisible
<1>5. CASE AllocateReturns
  BY <1>1, <1>5, ReturnsAllocates
<1>6. CASE AllocateFails
  <2>1. InHand' = InHand
    BY <1>6, AllocateFailsKeepsInv
  <2>2. Held' = Held /\ Available' = Available /\ chains' = chains
    BY <1>6, <2>1 DEF AllocateFails, Held, Available
  <2> QED
    BY <1>1, <2>2, Invisible
<1>7. CASE GiveBackPage
  <2>1. PICK h \in InHand : /\ InHand' = InHand \ {h}
                            /\ page_bitmap' = page_bitmap \ {h}
                            /\ Cover(free_list') = Cover(free_list) \cup {h}
    BY <1>7, GiveBackKeepsInv
  <2>2. Held' = Held /\ Available' = Available /\ chains' = chains
    BY <1>7, <2>1 DEF GiveBackPage, Held, Available
  <2> QED
    BY <1>1, <2>2, Invisible
<1>8. CASE StartCoalesce \/ CoalesceStep \/ CoalesceReturns
  <2>1. Held' = Held /\ Available' = Available /\ chains' = chains
    BY <1>8, CoalesceKeepsInv DEF Held, Available
  <2> QED
    BY <1>1, <2>1, Invisible
<1>9. CASE UNCHANGED vars
  <2>1. Held' = Held /\ Available' = Available /\ chains' = chains
    BY <1>9 DEF vars, Held, Available, InHand
  <2> QED
    BY <1>1, <2>1, Invisible
<1> QED
  BY <1>2, <1>3, <1>4, <1>5, <1>6, <1>7, <1>8, <1>9 DEF Next, Step

\* The loops on blocks do what the operators of module Pages say: an allocation
\* that succeeds hands out the lowest free pages, one that fails changes
\* nothing, and a deallocation gives back what it was given.
THEOREM Refinement == Spec => ImplementsPageAllocator
<1>1. Init => PA!Init
  <2> SUFFICES ASSUME Init
               PROVE  PA!Init
    OBVIOUS
  <2>1. InHand = {} /\ page_bitmap = {} /\ chains = {}
    BY EmptyList DEF Init, InHand
  <2>2. ListPages = Page
    BY <2>1, InvInit, CoverPages DEF Inv, Memory, ListPages
  <2>3. PA!Page = Page
    BY DEF PA!Page, Page
  <2>4. /\ page_bitmap \ InHand = {} /\ ListPages \cup InHand = PA!Page
        /\ {Range(chain) : chain \in chains} = {}
    BY <2>1, <2>2, <2>3
  <2> QED
    BY <2>4 DEF PA!Init
<1>2. Inv /\ [Next]_vars => [PA!Next]_(PA!allocVars)
  BY RefinementNext
<1> QED
  BY <1>1, <1>2, ListSafe, PTL DEF Spec, ImplementsPageAllocator, PA!Spec

----------------------------------------------------------------------------
(* The statistics.                                                         *)

\* The pages of a block of a list, and how many they are.
LEMMA BlockPages ==
    ASSUME NEW L, BlockList(L), NEW i \in 1..Len(L)
    PROVE  /\ \A p : p \in PagesOf(L[i])
                       <=> p \in Nat /\ L[i].start_page <= p /\ p < EndOf(L[i])
           /\ PagesOf(L[i]) = L[i].start_page .. EndOf(L[i]) - 1
           /\ PagesOf(L[i]) \subseteq Cover(L)
           /\ PagesOf(L[i]) # {}
           /\ Cardinality(PagesOf(L[i])) = L[i].num_pages
<1>1. L[i] \in FreeBlock
  BY Blocks
<1>2. PICK s, n : s = L[i].start_page /\ n = L[i].num_pages
  OBVIOUS
<1>3. s \in Nat /\ n \in Nat /\ n >= 1 /\ EndOf(L[i]) = s + n
  BY <1>1, <1>2, BlockFields DEF EndOf
<1>4. PagesOf(L[i]) = s .. s + n - 1
  BY <1>2 DEF PagesOf
<1>5. \A p : p \in PagesOf(L[i]) <=> p \in Nat /\ s <= p /\ p < s + n
  BY <1>3, <1>4
<1>6. PagesOf(L[i]) \subseteq Cover(L)
  BY <1>2, <1>3, <1>5 DEF Cover
<1>7. s \in PagesOf(L[i])
  BY <1>3, <1>5
<1>8. Cardinality(PagesOf(L[i])) = n
  <2>1. PICK e : e = s + n - 1
    OBVIOUS
  <2>2. s \in Int /\ e \in Int
    BY <1>3, <2>1
  <2>3. Cardinality(s .. e) = IF s > e THEN 0 ELSE e - s + 1
    BY <2>2, FS_Interval
  <2>4. (IF s > e THEN 0 ELSE e - s + 1) = n
    BY <1>3, <2>1
  <2> QED
    BY <1>4, <2>1, <2>3, <2>4
<1>9. PagesOf(L[i]) = L[i].start_page .. EndOf(L[i]) - 1
  <2>1. EndOf(L[i]) - 1 = s + n - 1
    BY <1>3
  <2> QED
    BY <1>2, <1>4, <2>1
<1>10. \A p : p \in PagesOf(L[i]) <=> p \in Nat /\ L[i].start_page <= p /\ p < EndOf(L[i])
  BY <1>2, <1>3, <1>5
<1>11. PagesOf(L[i]) # {} /\ Cardinality(PagesOf(L[i])) = L[i].num_pages
  BY <1>2, <1>7, <1>8
<1> QED
  BY <1>6, <1>9, <1>10, <1>11

\* Two blocks of a list have no page in common.
LEMMA BlocksDisjoint ==
    ASSUME NEW L, BlockList(L), NEW i \in 1..Len(L), NEW j \in 1..Len(L), i # j
    PROVE  PagesOf(L[i]) \cap PagesOf(L[j]) = {}
<1>1. Len(L) \in Nat /\ (i < j \/ j < i)
  BY Blocks
<1>2. ASSUME NEW a \in 1..Len(L), NEW b \in 1..Len(L), a < b
      PROVE  PagesOf(L[a]) \cap PagesOf(L[b]) = {}
  <2> SUFFICES ASSUME NEW p \in PagesOf(L[a]), p \in PagesOf(L[b])
               PROVE  FALSE
    OBVIOUS
  <2>1. p \in Nat /\ p < EndOf(L[a]) /\ L[b].start_page <= p
    BY BlockPages
  <2>2. EndOf(L[a]) <= L[b].start_page /\ EndOf(L[a]) \in Nat /\ L[b].start_page \in Nat
    BY <1>2, Blocks
  <2> QED
    BY <2>1, <2>2
<1> QED
  BY <1>1, <1>2

\* The fold of get_fragmentation_stats counts the pages the list covers.
LEMMA TotalFree ==
    ASSUME NEW L, BlockList(L), Cover(L) \subseteq Page
    PROVE  FoldSeq(LAMBDA b, n : b.num_pages + n, 0, L) = Cardinality(Cover(L))
<1>1. L \in Seq(FreeBlock) /\ Len(L) \in Nat /\ DOMAIN L = 1..Len(L)
  BY Blocks
<1>2. PICK D : D = DOMAIN L
  OBVIOUS
<1>3. IsFiniteSet(D)
  BY <1>1, <1>2, FS_Interval
<1>4. PICK P : P = [i \in D |-> PagesOf(L[i])]
  OBVIOUS
<1>5. PICK w : w = [i \in D |-> L[i].num_pages]
  OBVIOUS
<1>6. PICK g : g = Sizes(D, P)
  OBVIOUS
<1>7. g = SumStep(D, w, g)
  <2>1. PICK U : U = Cover(L)
    OBVIOUS
  <2>2. IsFiniteSet(U)
    BY <2>1, PagesFinite
  <2>3. \A x \in D : P[x] \subseteq U /\ w[x] = Cardinality(P[x])
    BY <1>1, <1>2, <1>4, <1>5, <2>1, BlockPages
  <2>4. \A x, y \in D : x # y => P[x] \cap P[y] = {}
    BY <1>1, <1>2, <1>4, BlocksDisjoint
  <2>5. Measured(D, P, w, U)
    BY <2>3, <2>4 DEF Measured
  <2> QED
    BY <1>6, <2>2, <2>5, SizesAddUp
<1>8. ASSUME NEW iter
      PROVE  SumStep(D, w, iter) = [s \in SUBSET D |->
                 IF s = {} THEN 0
                 ELSE LET x == CHOOSE x \in s : TRUE
                      IN  L[x].num_pages + iter[s \ {x}]]
  <2>1. ASSUME NEW s \in SUBSET D, s # {}
        PROVE  w[CHOOSE x \in s : TRUE] = L[CHOOSE x \in s : TRUE].num_pages
    <3>1. (CHOOSE x \in s : TRUE) \in s
      BY <2>1
    <3> QED
      BY <1>5, <3>1
  <2> QED
    BY <2>1 DEF SumStep
<1>9. PICK f : f = CHOOSE iter : iter = [s \in SUBSET D |->
                     IF s = {} THEN 0
                     ELSE LET x == CHOOSE x \in s : TRUE
                          IN  L[x].num_pages + iter[s \ {x}]]
  OBVIOUS
<1>10. FoldSeq(LAMBDA b, n : b.num_pages + n, 0, L) = f[D]
  BY <1>2, <1>9 DEF FoldSeq, FoldFunction, FoldFunctionOnSet, MapThenFoldSet
<1>11. f = SumStep(D, w, f)
  <2>1. \E iter : iter = [s \in SUBSET D |->
                     IF s = {} THEN 0
                     ELSE LET x == CHOOSE x \in s : TRUE
                          IN  L[x].num_pages + iter[s \ {x}]]
    <3>1. g = [s \in SUBSET D |-> IF s = {} THEN 0
                                 ELSE LET x == CHOOSE x \in s : TRUE
                                      IN  L[x].num_pages + g[s \ {x}]]
      BY <1>7, <1>8
    <3> QED
      BY <3>1
  <2> QED
    BY <1>8, <1>9, <2>1
<1>12. f[D] = g[D]
  BY <1>3, <1>7, <1>11, SumUnique
<1>13. g[D] = Cardinality(Cover(L))
  <2>1. UNION {P[x] : x \in D} = UNION {PagesOf(L[x]) : x \in DOMAIN L}
    BY <1>2, <1>4
  <2> QED
    BY <1>6, <2>1, CoverPages DEF Sizes
<1> QED
  BY <1>10, <1>12, <1>13

\* The ranges of pages.
Ranges == {p .. q : p, q \in Page}

\* The maximal runs of free pages, for any set of free pages.
Runs(free) ==
    {r \in Ranges :
        /\ r # {}
        /\ r \subseteq free
        /\ \A p \in free \ r : p + 1 \notin r /\ p - 1 \notin r}

\* A block of a coalesced list is a maximal run.
LEMMA BlockIsRun ==
    ASSUME NEW L, BlockList(L), Apart(L), Cover(L) \subseteq Page, NEW i \in 1..Len(L)
    PROVE  PagesOf(L[i]) \in Runs(Cover(L))
<1>1. PICK r, s, e : r = PagesOf(L[i]) /\ s = L[i].start_page /\ e = EndOf(L[i])
  OBVIOUS
<1>2. Len(L) \in Nat /\ s \in Nat /\ e \in Nat /\ s < e
  BY <1>1, Blocks
<1>3. /\ r = s .. e - 1 /\ r \subseteq Cover(L) /\ r # {}
      /\ \A p : p \in r <=> p \in Nat /\ s <= p /\ p < e
  BY <1>1, BlockPages
<1>4. r \in Ranges
  <2>1. s \in r /\ e - 1 \in r
    BY <1>2, <1>3
  <2>2. s \in Page /\ e - 1 \in Page
    BY <1>3, <2>1
  <2> QED
    BY <1>3, <2>2 DEF Ranges
<1>5. ASSUME NEW p \in Cover(L) \ r
      PROVE  p + 1 \notin r /\ p - 1 \notin r
  <2>1. PICK j \in 1..Len(L) : L[j].start_page <= p /\ p < EndOf(L[j])
    BY DEF Cover
  <2>2. p \in Nat /\ (p < s \/ e <= p)
    BY <1>2, <1>3 DEF Cover
  <2>3. j # i
    BY <1>1, <1>2, <2>1, <2>2
  <2>4. L[j].start_page \in Nat /\ EndOf(L[j]) \in Nat
    BY Blocks
  <2>5. CASE j < i
    <3>1. EndOf(L[j]) < s
      <4>1. j < Len(L)
        BY <1>2, <2>5
      <4> QED
        BY <1>1, <2>5, <4>1 DEF Apart, ApartBelow
    <3> QED
      BY <1>2, <1>3, <2>1, <2>2, <2>4, <3>1
  <2>6. CASE i < j
    <3>1. e < L[j].start_page
      <4>1. i < Len(L)
        BY <1>2, <2>6
      <4> QED
        BY <1>1, <2>6, <4>1 DEF Apart, ApartBelow
    <3> QED
      BY <1>2, <1>3, <2>1, <2>2, <2>4, <3>1
  <2> QED
    BY <1>2, <2>3, <2>5, <2>6
<1> QED
  BY <1>1, <1>3, <1>4, <1>5 DEF Runs

\* A maximal run is a block of the list.
LEMMA RunIsBlock ==
    ASSUME NEW L, BlockList(L), Apart(L), Cover(L) \subseteq Page, NEW r \in Runs(Cover(L))
    PROVE  \E i \in 1..Len(L) : r = PagesOf(L[i])
<1>1. PICK a \in Page, b \in Page : r = a .. b
  BY DEF Runs, Ranges
<1>2. /\ r # {} /\ r \subseteq Cover(L)
      /\ \A p \in Cover(L) \ r : p + 1 \notin r /\ p - 1 \notin r
  BY DEF Runs
<1>3. a \in Nat /\ b \in Nat /\ a <= b /\ a \in r /\ b \in r
  <2>1. a \in Nat /\ b \in Nat
    BY TotalPagesAssumption DEF Page
  <2>2. a <= b
    BY <1>1, <1>2, <2>1
  <2> QED
    BY <1>1, <2>1, <2>2
<1>4. PICK i \in 1..Len(L) : L[i].start_page <= a /\ a < EndOf(L[i])
  BY <1>2, <1>3 DEF Cover
<1>5. PICK s, e : s = L[i].start_page /\ e = EndOf(L[i])
  OBVIOUS
<1>6. Len(L) \in Nat /\ s \in Nat /\ e \in Nat /\ s <= a /\ a < e
  BY <1>4, <1>5, Blocks
<1>7. /\ PagesOf(L[i]) = s .. e - 1 /\ PagesOf(L[i]) \subseteq Cover(L)
      /\ \A p : p \in PagesOf(L[i]) <=> p \in Nat /\ s <= p /\ p < e
  BY <1>5, BlockPages
<1>8. e \notin Cover(L)
  <2> SUFFICES ASSUME NEW j \in 1..Len(L), L[j].start_page <= e, e < EndOf(L[j])
               PROVE  FALSE
    BY DEF Cover
  <2>1. L[j].start_page \in Nat /\ EndOf(L[j]) \in Nat
    BY Blocks
  <2>2. CASE j = i
    BY <1>5, <1>6, <2>2
  <2>3. CASE j < i
    <3>1. EndOf(L[j]) <= s
      BY <1>5, <2>3, Blocks
    <3>2. s < e /\ s \in Nat /\ e \in Nat
      BY <1>3, <1>6
    <3> QED
      BY <2>1, <3>1, <3>2
  <2>4. CASE i < j
    <3>1. e < L[j].start_page
      <4>1. i < Len(L)
        BY <1>6, <2>4
      <4> QED
        BY <1>5, <2>4, <4>1 DEF Apart, ApartBelow
    <3> QED
      BY <1>6, <2>1, <3>1
  <2> QED
    BY <1>6, <2>2, <2>3, <2>4
<1>9. b < e
  <2>1. CASE e <= b
    <3>1. e \in r
      BY <1>1, <1>3, <1>6, <2>1
    <3> QED
      BY <1>2, <1>8, <3>1
  <2> QED
    BY <1>3, <1>6, <2>1
<1>10. a = s
  <2>1. CASE s < a
    <3>1. a - 1 \in Cover(L) /\ a - 1 \notin r /\ (a - 1) + 1 \in r
      BY <1>1, <1>3, <1>6, <1>7, <2>1
    <3> QED
      BY <1>2, <3>1
  <2> QED
    BY <1>3, <1>6, <2>1
<1>11. b = e - 1
  <2>1. CASE b < e - 1
    <3>1. b + 1 \in Cover(L) /\ b + 1 \notin r /\ (b + 1) - 1 \in r
      BY <1>1, <1>3, <1>6, <1>7, <2>1
    <3> QED
      BY <1>2, <3>1
  <2> QED
    BY <1>3, <1>6, <1>9, <2>1
<1> QED
  BY <1>1, <1>7, <1>10, <1>11

\* The runs of free pages are the blocks of the list, and as many.
LEMMA RunsAreBlocks ==
    ASSUME NEW L, BlockList(L), Apart(L), Cover(L) \subseteq Page
    PROVE  /\ Runs(Cover(L)) = {PagesOf(L[i]) : i \in 1..Len(L)}
           /\ Cardinality(Runs(Cover(L))) = Len(L)
<1>1. Len(L) \in Nat
  BY Blocks
<1>2. PICK R : R = Runs(Cover(L))
  OBVIOUS
<1>3. R = {PagesOf(L[i]) : i \in 1..Len(L)}
  BY <1>2, BlockIsRun, RunIsBlock
<1>4. PICK f : f = [i \in 1..Len(L) |-> PagesOf(L[i])]
  OBVIOUS
<1>5. \A i, j \in 1..Len(L) : f[i] = f[j] => i = j
  <2> SUFFICES ASSUME NEW i \in 1..Len(L), NEW j \in 1..Len(L), i # j
               PROVE  f[i] # f[j]
    OBVIOUS
  <2>1. PagesOf(L[i]) \cap PagesOf(L[j]) = {} /\ PagesOf(L[i]) # {}
    BY BlocksDisjoint, BlockPages
  <2> QED
    BY <1>4, <2>1
<1>6. f \in Bijection(1..Len(L), R)
  <2>1. f \in [1..Len(L) -> R] /\ \A r \in R : \E i \in 1..Len(L) : f[i] = r
    BY <1>3, <1>4
  <2> QED
    BY <1>5, <2>1 DEF Bijection, Injection, Surjection, IsInjective
<1>7. IsFiniteSet(1..Len(L)) /\ Cardinality(1..Len(L)) = Len(L)
  <2>1. PICK n : n = Len(L)
    OBVIOUS
  <2>2. IsFiniteSet(1..n) /\ Cardinality(1..n) = IF 1 > n THEN 0 ELSE n - 1 + 1
    <3>1. 1 \in Int /\ n \in Int
      BY <1>1, <2>1
    <3> QED
      BY <3>1, FS_Interval
  <2>3. (IF 1 > n THEN 0 ELSE n - 1 + 1) = n
    BY <1>1, <2>1
  <2> QED
    BY <2>1, <2>2, <2>3
<1>8. Cardinality(R) = Cardinality(1..Len(L))
  BY <1>6, <1>7, FS_Bijection DEF ExistsBijection
<1> QED
  BY <1>2, <1>3, <1>7, <1>8

\* Between calls get_fragmentation_stats, which adds up the blocks of the list,
\* describes the bitmap: as many blocks as there are maximal runs of clear bits,
\* the longest run, and the number of clear bits.
THEOREM StatsAreRight == Spec => []StatsDescribeBitmap
<1>1. ASSUME Inv
      PROVE  StatsDescribeBitmap
  <2> SUFFICES ASSUME pc = "idle"
               PROVE  LET stats == get_fragmentation_stats
                      IN  /\ stats.free_blocks_count = Cardinality(FreeRuns)
                          /\ stats.largest_free_block = Max({0} \cup {Cardinality(r) : r \in FreeRuns})
                          /\ stats.total_free_pages = Cardinality(Page \ page_bitmap)
    BY DEF StatsDescribeBitmap
  <2>1. PICK L : L = free_list
    OBVIOUS
  <2>2. BlockList(L) /\ Apart(L) /\ Cover(L) = Page \ page_bitmap /\ Cover(L) \subseteq Page
    BY <1>1, <2>1 DEF Inv, Memory, Loops
  <2>3. FreeRuns = Runs(Cover(L))
    BY <2>2 DEF FreeRuns, Runs, Ranges
  <2>4. /\ FreeRuns = {PagesOf(L[i]) : i \in 1..Len(L)}
        /\ Cardinality(FreeRuns) = Len(L)
    BY <2>2, <2>3, RunsAreBlocks, Zenon
  <2>5. \A i \in 1..Len(L) : Cardinality(PagesOf(L[i])) = L[i].num_pages
    BY <2>2, BlockPages
  <2>6. {Cardinality(r) : r \in FreeRuns} = {L[i].num_pages : i \in 1..Len(L)}
    BY <2>4, <2>5, Zenon
  <2>7. PICK total : total = FoldSeq(LAMBDA b, n : b.num_pages + n, 0, L)
    OBVIOUS
  <2>8. total = Cardinality(Page \ page_bitmap)
    BY <2>2, <2>7, TotalFree
  <2>9. PICK most : most = Max({0} \cup {L[i].num_pages : i \in 1..Len(L)})
    OBVIOUS
  <2>10. get_fragmentation_stats =
           [free_blocks_count |-> Len(L), largest_free_block |-> most, total_free_pages |-> total]
    BY <2>1, <2>7, <2>9 DEF get_fragmentation_stats
  <2>11. /\ get_fragmentation_stats.free_blocks_count = Len(L)
         /\ get_fragmentation_stats.largest_free_block = most
         /\ get_fragmentation_stats.total_free_pages = total
    BY <2>10
  <2> QED
    BY <2>4, <2>6, <2>8, <2>9, <2>11, Zenon
<1> QED
  BY <1>1, ListSafe, PTL
=============================================================================
