------------------------ MODULE BenchmarkCacheProofs ------------------------
(***************************************************************************)
(* BenchmarkCache for every capacity and every set of keys and values: the *)
(* structure of the policy lists the cached keys, the cache and the ring   *)
(* of CLOCK stay within the capacity, the victim is the one the policy     *)
(* asks for, and the whole implements BoundedCache.                        *)
(*                                                                         *)
(* A call is taken apart as the code does it: access, eviction, addition.  *)
(* For each of the three there is a lemma per policy about the structure   *)
(* of that policy, and one that joins the four.                            *)
(***************************************************************************)
EXTENDS BenchmarkCache, OrderLemmas

\* The record the policies' methods work on.
Rec(M, L, F, V, B, h) ==
    [cache_map |-> M, lru_order |-> L, fifo_queue |-> F,
     sieve_order |-> V, clock_buffer |-> B, clock_hand |-> h]

\* The entries are well formed and older than t.
Entries(M, t) ==
    /\ DOMAIN M \subseteq Keys
    /\ M \in [DOMAIN M -> BenchmarkCacheEntry]
    /\ \A k \in DOMAIN M : M[k].access_time < t /\ M[k].insert_time < t

\* The list of LRU is the keys by their last access, the queue of FIFO the keys
\* by their insertion.
Recency(M, L) ==
    /\ ListOf(L, DOMAIN M)
    /\ \A e, f : Before(L, e, f) => M[f].access_time < M[e].access_time
Arrival(M, F) ==
    /\ ListOf(F, DOMAIN M)
    /\ \A e, f : Before(F, e, f) => M[e].insert_time < M[f].insert_time

\* The ring of CLOCK lists D, and the hand points to a slot of it.
Ring(D, B, h) == ListOf(B, D) /\ h \in Nat /\ (h < Len(B) \/ (Len(B) = 0 /\ h = 0))

\* The structure of policy p is in order and the others are not used.  D is
\* what the ring lists: the cached keys and, between eviction and insertion,
\* the empty slot.
Kept(p, M, L, F, V, B, h, D) ==
    /\ p = "LRU" => Recency(M, L)
    /\ p # "LRU" => L = << >>
    /\ p = "FIFO" => Arrival(M, F)
    /\ p # "FIFO" => F = << >>
    /\ p = "SIEVE" => ListOf(V, DOMAIN M)
    /\ p # "SIEVE" => V = << >>
    /\ p = "CLOCK" => Ring(D, B, h)
    /\ p # "CLOCK" => B = << >> /\ h = 0

\* M2 is M without the entry of w, but for the flags.
Lost(M, w, M2) ==
    /\ w \in DOMAIN M
    /\ DOMAIN M2 = DOMAIN M \ {w}
    /\ M2 \in [DOMAIN M2 -> BenchmarkCacheEntry]
    /\ \A k \in DOMAIN M2 : /\ M2[k].value = M[k].value
                            /\ M2[k].access_time = M[k].access_time
                            /\ M2[k].insert_time = M[k].insert_time

\* w is the entry policy p asks for (RightVictim, for any map).
Victim(p, M, w) ==
    /\ p = "LRU" => \A k \in DOMAIN M : M[w].access_time <= M[k].access_time
    /\ p = "FIFO" => \A k \in DOMAIN M : M[w].insert_time <= M[k].insert_time
    /\ p = "SIEVE" => (M[w].visited => \A k \in DOMAIN M : M[k].visited)
    /\ p = "CLOCK" => (M[w].reference_bit => \A k \in DOMAIN M : M[k].reference_bit)

----------------------------------------------------------------------------
(* Small facts.                                                            *)

\* The larger of two numbers.
LEMMA MaxOfTwo ==
    ASSUME NEW a \in Int, NEW b \in Int
    PROVE  Max({a, b}) = IF a >= b THEN a ELSE b
<1>1. CASE a >= b
  <2>1. \A x \in {a, b} : (\A y \in {a, b} : x >= y) <=> x = a
    BY <1>1
  <2> QED
    BY <1>1, <2>1 DEF Max
<1>2. CASE ~ (a >= b)
  <2>1. \A x \in {a, b} : (\A y \in {a, b} : x >= y) <=> x = b
    BY <1>2
  <2> QED
    BY <1>2, <2>1 DEF Max
<1> QED
  BY <1>1, <1>2

\* Min is a least element.
LEMMA MinIsLeast ==
    ASSUME NEW S \in SUBSET Int, IsFiniteSet(S), S # {}
    PROVE  Min(S) \in S /\ \A x \in S : Min(S) <= x
  BY LeastElement DEF Min

\* A set of numbers up to n is finite.
LEMMA BoundedSetFinite ==
    ASSUME NEW m \in Int, NEW n \in Int, NEW S \in SUBSET (m..n)
    PROVE  IsFiniteSet(S) /\ S \in SUBSET Int
<1>1. IsFiniteSet(m..n)
  BY FS_Interval
<1>2. IsFiniteSet(S)
  BY <1>1, FS_Subset
<1>3. \A x \in m..n : x \in Int
  OBVIOUS
<1> QED
  BY <1>2, <1>3

\* Every slot of a ring of n slots is met within n moves of the hand.
LEMMA HandMeetsSlot ==
    ASSUME NEW n \in Nat, NEW h \in 0..(n - 1), NEW p \in 0..(n - 1)
    PROVE  \E d \in 0..(n - 1) : (h + d) % n = p
<1>1. /\ n \in Nat \ {0} /\ n \in Int /\ h \in Int /\ p \in Int
      /\ 0 <= p /\ p < n /\ 0 <= h /\ h < n
  OBVIOUS
<1>2. p % n = p
  BY <1>1
<1>3. (p + n) % n = p
  BY <1>1
<1>4. CASE p >= h
  <2>1. p - h \in 0..(n - 1) /\ h + (p - h) = p
    BY <1>1, <1>4
  <2> QED
    BY <1>2, <2>1
<1>5. CASE p < h
  <2>1. (p - h) + n \in 0..(n - 1) /\ h + ((p - h) + n) = p + n
    BY <1>1, <1>5
  <2> QED
    BY <1>3, <2>1
<1> QED
  BY <1>1, <1>4, <1>5

\* Erasing a key from the map.
LEMMA EraseLost ==
    ASSUME NEW M, M \in [DOMAIN M -> BenchmarkCacheEntry], NEW w \in DOMAIN M
    PROVE  Lost(M, w, Erase(M, w))
  BY DEF Erase, Restrict, Lost

\* Clearing flags changes nothing else.
LEMMA ClearFlags ==
    ASSUME NEW M, M \in [DOMAIN M -> BenchmarkCacheEntry], NEW w \in DOMAIN M, NEW K
    PROVE  /\ Lost(M, w, Erase(ClearVisited(M, K), w))
           /\ Lost(M, w, Erase(ClearReference(M, K), w))
<1>1. ASSUME NEW M1, DOMAIN M1 = DOMAIN M, M1 \in [DOMAIN M -> BenchmarkCacheEntry],
             \A k \in DOMAIN M : /\ M1[k].value = M[k].value
                                 /\ M1[k].access_time = M[k].access_time
                                 /\ M1[k].insert_time = M[k].insert_time
      PROVE  Lost(M, w, Erase(M1, w))
  <2>1. /\ DOMAIN Erase(M1, w) = DOMAIN M \ {w}
        /\ \A k \in DOMAIN M \ {w} : Erase(M1, w)[k] = M1[k]
        /\ Erase(M1, w) \in [DOMAIN M \ {w} -> BenchmarkCacheEntry]
    BY <1>1 DEF Erase, Restrict
  <2> QED
    BY <1>1, <2>1 DEF Lost
<1>2. PICK M1 : M1 = ClearVisited(M, K)
  OBVIOUS
<1>3. PICK M2 : M2 = ClearReference(M, K)
  OBVIOUS
<1>4. /\ DOMAIN M1 = DOMAIN M
      /\ \A k \in DOMAIN M : M1[k] = IF k \in K THEN [M[k] EXCEPT !.visited = FALSE] ELSE M[k]
  BY <1>2 DEF ClearVisited
<1>5. /\ DOMAIN M2 = DOMAIN M
      /\ \A k \in DOMAIN M : M2[k] = IF k \in K THEN [M[k] EXCEPT !.reference_bit = FALSE] ELSE M[k]
  BY <1>3 DEF ClearReference
<1>6. ASSUME NEW r \in BenchmarkCacheEntry
      PROVE  /\ [r EXCEPT !.visited = FALSE] \in BenchmarkCacheEntry
             /\ [r EXCEPT !.reference_bit = FALSE] \in BenchmarkCacheEntry
             /\ [r EXCEPT !.visited = FALSE].value = r.value
             /\ [r EXCEPT !.visited = FALSE].access_time = r.access_time
             /\ [r EXCEPT !.visited = FALSE].insert_time = r.insert_time
             /\ [r EXCEPT !.reference_bit = FALSE].value = r.value
             /\ [r EXCEPT !.reference_bit = FALSE].access_time = r.access_time
             /\ [r EXCEPT !.reference_bit = FALSE].insert_time = r.insert_time
  BY <1>6 DEF BenchmarkCacheEntry
<1>7. \A k \in DOMAIN M : /\ M1[k] \in BenchmarkCacheEntry
                          /\ M1[k].value = M[k].value
                          /\ M1[k].access_time = M[k].access_time
                          /\ M1[k].insert_time = M[k].insert_time
  BY <1>4, <1>6
<1>8. \A k \in DOMAIN M : /\ M2[k] \in BenchmarkCacheEntry
                          /\ M2[k].value = M[k].value
                          /\ M2[k].access_time = M[k].access_time
                          /\ M2[k].insert_time = M[k].insert_time
  BY <1>5, <1>6
<1>9. M1 \in [DOMAIN M -> BenchmarkCacheEntry] /\ M2 \in [DOMAIN M -> BenchmarkCacheEntry]
  <2>1. M1 = [k \in DOMAIN M |-> M1[k]]
    BY <1>2 DEF ClearVisited
  <2>2. M2 = [k \in DOMAIN M |-> M2[k]]
    BY <1>3 DEF ClearReference
  <2> QED
    BY <1>7, <1>8, <2>1, <2>2
<1> QED
  BY <1>1, <1>2, <1>3, <1>4, <1>5, <1>7, <1>8, <1>9
----------------------------------------------------------------------------
(* Eviction from a cache that is not empty.                                *)

\* Evicting by age keeps the rest in order.
LEMMA EvictLru ==
    ASSUME NEW M, NEW L, NEW F, NEW V, NEW B, NEW h, NEW t \in Nat,
           Entries(M, t), DOMAIN M # {}, Recency(M, L)
    PROVE  \E w, M2, L2 : /\ evict_lru(Rec(M, L, F, V, B, h)) = Rec(M2, L2, F, V, B, h)
                          /\ Lost(M, w, M2) /\ Recency(M2, L2)
                          /\ \A k \in DOMAIN M : M[w].access_time <= M[k].access_time
<1>1. PICK w : w = Last(L)
  OBVIOUS
<1>2. PICK L2 : L2 = Front(L)
  OBVIOUS
<1>3. PICK M2 : M2 = Erase(M, w)
  OBVIOUS
<1>4. /\ L # << >> /\ w \in DOMAIN M /\ ListOf(L2, DOMAIN M \ {w})
      /\ \A e, f : Before(L2, e, f) => Before(L, e, f)
      /\ \A e \in DOMAIN M : e = w \/ Before(L, e, w)
  BY <1>1, <1>2, LastElement DEF Recency
<1>5. evict_lru(Rec(M, L, F, V, B, h)) = Rec(M2, L2, F, V, B, h)
  <2>1. PICK s : s = Rec(M, L, F, V, B, h)
    OBVIOUS
  <2>2. s.lru_order = L /\ s.cache_map = M
    BY <2>1 DEF Rec
  <2>3. evict_lru(s) = [s EXCEPT !.lru_order = L2, !.cache_map = M2]
    BY <1>1, <1>2, <1>3, <1>4, <2>1, <2>2 DEF evict_lru, Rec
  <2> QED
    BY <2>1, <2>3 DEF Rec
<1>6. Lost(M, w, M2)
  BY <1>3, <1>4, EraseLost DEF Entries
<1>7. Recency(M2, L2)
  <2>1. ASSUME NEW e, NEW f, Before(L2, e, f)
        PROVE  M2[f].access_time < M2[e].access_time
    <3>1. e \in DOMAIN M2 /\ f \in DOMAIN M2
      <4>1. \A i \in 1..Len(L2) : L2[i] \in DOMAIN M \ {w}
        BY <1>4 DEF ListOf
      <4> QED
        BY <1>6, <2>1, <4>1 DEF Before, Lost
    <3>2. M[f].access_time < M[e].access_time
      BY <1>4, <2>1 DEF Recency
    <3> QED
      BY <1>6, <3>1, <3>2 DEF Lost
  <2> QED
    BY <1>4, <1>6, <2>1 DEF Recency, Lost
<1>8. ASSUME NEW k \in DOMAIN M
      PROVE  M[w].access_time <= M[k].access_time
  <2>1. M[w].access_time \in Nat /\ M[k].access_time \in Nat
    BY <1>4 DEF Entries, BenchmarkCacheEntry
  <2>2. k = w \/ M[w].access_time < M[k].access_time
    BY <1>4 DEF Recency
  <2> QED
    BY <2>1, <2>2
<1> QED
  BY <1>5, <1>6, <1>7, <1>8

\* The same for the queue of FIFO.
LEMMA EvictFifo ==
    ASSUME NEW M, NEW L, NEW F, NEW V, NEW B, NEW h, NEW t \in Nat,
           Entries(M, t), DOMAIN M # {}, Arrival(M, F)
    PROVE  \E w, M2, F2 : /\ evict_fifo(Rec(M, L, F, V, B, h)) = Rec(M2, L, F2, V, B, h)
                          /\ Lost(M, w, M2) /\ Arrival(M2, F2)
                          /\ \A k \in DOMAIN M : M[w].insert_time <= M[k].insert_time
<1>1. PICK w : w = Head(F)
  OBVIOUS
<1>2. PICK F2 : F2 = Tail(F)
  OBVIOUS
<1>3. PICK M2 : M2 = Erase(M, w)
  OBVIOUS
<1>4. /\ F # << >> /\ w \in DOMAIN M /\ ListOf(F2, DOMAIN M \ {w})
      /\ \A e, f : Before(F2, e, f) => Before(F, e, f)
      /\ \A e \in DOMAIN M : e = w \/ Before(F, w, e)
  BY <1>1, <1>2, FirstElement DEF Arrival
<1>5. evict_fifo(Rec(M, L, F, V, B, h)) = Rec(M2, L, F2, V, B, h)
  <2>1. PICK s : s = Rec(M, L, F, V, B, h)
    OBVIOUS
  <2>2. s.fifo_queue = F /\ s.cache_map = M
    BY <2>1 DEF Rec
  <2>3. evict_fifo(s) = [s EXCEPT !.fifo_queue = F2, !.cache_map = M2]
    BY <1>1, <1>2, <1>3, <1>4, <2>1, <2>2 DEF evict_fifo, Rec
  <2> QED
    BY <2>1, <2>3 DEF Rec
<1>6. Lost(M, w, M2)
  BY <1>3, <1>4, EraseLost DEF Entries
<1>7. Arrival(M2, F2)
  <2>1. ASSUME NEW e, NEW f, Before(F2, e, f)
        PROVE  M2[e].insert_time < M2[f].insert_time
    <3>1. e \in DOMAIN M2 /\ f \in DOMAIN M2
      <4>1. \A i \in 1..Len(F2) : F2[i] \in DOMAIN M \ {w}
        BY <1>4 DEF ListOf
      <4> QED
        BY <1>6, <2>1, <4>1 DEF Before, Lost
    <3>2. M[e].insert_time < M[f].insert_time
      BY <1>4, <2>1 DEF Arrival
    <3> QED
      BY <1>6, <3>1, <3>2 DEF Lost
  <2> QED
    BY <1>4, <1>6, <2>1 DEF Arrival, Lost
<1>8. ASSUME NEW k \in DOMAIN M
      PROVE  M[w].insert_time <= M[k].insert_time
  <2>1. M[w].insert_time \in Nat /\ M[k].insert_time \in Nat
    BY <1>4 DEF Entries, BenchmarkCacheEntry
  <2>2. k = w \/ M[w].insert_time < M[k].insert_time
    BY <1>4 DEF Arrival
  <2> QED
    BY <2>1, <2>2
<1> QED
  BY <1>5, <1>6, <1>7, <1>8

\* The scan of SIEVE takes out the first key that was not visited, or the first
\* of all, and leaves the others in the list.
LEMMA EvictSieve ==
    ASSUME NEW M, NEW L, NEW F, NEW V, NEW B, NEW h, NEW t \in Nat,
           Entries(M, t), DOMAIN M # {}, ListOf(V, DOMAIN M)
    PROVE  \E w, M2, V2 : /\ evict_sieve(Rec(M, L, F, V, B, h)) = Rec(M2, L, F, V2, B, h)
                          /\ Lost(M, w, M2) /\ ListOf(V2, DOMAIN M2)
                          /\ M[w].visited => \A k \in DOMAIN M : M[k].visited
<1>1. PICK s : s = Rec(M, L, F, V, B, h)
  OBVIOUS
<1>2. s.sieve_order = V /\ s.cache_map = M
  BY <1>1 DEF Rec
<1>3. /\ V \in Seq(DOMAIN M) /\ Len(V) \in Nat
      /\ \A i \in 1..Len(V) : V[i] \in DOMAIN M
      /\ \A i, j \in 1..Len(V) : V[i] = V[j] => i = j
      /\ \A e \in DOMAIN M : \E i \in 1..Len(V) : V[i] = e
  BY DEF ListOf
<1>4. PICK n \in Nat : n = Len(V)
  BY <1>3
<1>5. PICK stop : stop = {i \in 1 .. Len(s.sieve_order) :
                 s.sieve_order[i] \in DOMAIN s.cache_map
                 /\ ~ s.cache_map[s.sieve_order[i]].visited}
  OBVIOUS
<1>6. PICK at : at = IF stop = {} THEN Len(s.sieve_order) + 1 ELSE Min(stop)
  OBVIOUS
<1>7. PICK dead : dead = ToSet(s.sieve_order) \ DOMAIN s.cache_map
  OBVIOUS
<1>8. PICK scanned : scanned = Without(SubSeq(s.sieve_order, 1, at - 1), dead)
  OBVIOUS
<1>9. PICK map : map = ClearVisited(s.cache_map, ToSet(scanned))
  OBVIOUS
<1>10. evict_sieve(s) =
        IF stop # {}
          THEN [s EXCEPT !.sieve_order = scanned \o SubSeq(s.sieve_order, at + 1, Len(s.sieve_order)),
                         !.cache_map   = Erase(map, s.sieve_order[at])]
        ELSE IF scanned # << >>
          THEN [s EXCEPT !.sieve_order = Tail(scanned),
                         !.cache_map   = Erase(map, Head(scanned))]
        ELSE [s EXCEPT !.sieve_order = << >>]
  BY <1>5, <1>6, <1>7, <1>8, <1>9 DEF evict_sieve
<1>11. stop = {i \in 1 .. Len(V) : ~ M[V[i]].visited}
  BY <1>2, <1>3, <1>5
<1>12. /\ stop = {} => at = Len(V) + 1
       /\ stop # {} => at \in stop /\ \A i \in stop : at <= i
  <2>1. stop \in SUBSET (1..Len(V)) /\ 1 \in Int /\ Len(V) \in Int
    BY <1>3, <1>11
  <2>2. IsFiniteSet(stop) /\ stop \in SUBSET Int
    BY <2>1, BoundedSetFinite
  <2>3. stop # {} => Min(stop) \in stop /\ \A i \in stop : Min(stop) <= i
    BY <2>2, MinIsLeast
  <2> QED
    BY <1>2, <1>6, <2>3
<1>13. at \in Nat /\ 1 <= at /\ at <= Len(V) + 1 /\ (stop # {} => at \in 1..Len(V))
  <2>1. CASE stop = {}
    <3>1. at = n + 1
      BY <1>4, <1>12, <2>1
    <3>2. at \in Nat /\ 1 <= at /\ at <= n + 1
      BY <3>1
    <3> QED
      BY <1>4, <2>1, <3>2
  <2>2. CASE stop # {}
    <3>1. at \in 1..Len(V)
      BY <1>11, <1>12, <2>2
    <3> QED
      BY <1>3, <3>1
  <2> QED
    BY <2>1, <2>2
<1>14. PICK front : front = SubSeq(V, 1, at - 1)
  OBVIOUS
<1>15. PICK C : C = {V[i] : i \in 1..(at - 1)}
  OBVIOUS
<1>16. ListOf(front, C)
  <2>1. PICK m \in Nat : m = at - 1
    BY <1>13
  <2>2. 1 \in Nat /\ 1 <= 1 /\ 1 <= m + 1 /\ m <= Len(V)
    BY <1>3, <1>13, <2>1
  <2>3. ListOf(SubSeq(V, 1, m), {V[i] : i \in 1..m})
    BY <2>2, SubSeqList
  <2> QED
    BY <1>14, <1>15, <2>1, <2>3
<1>17. C \subseteq DOMAIN M /\ C \cap dead = {}
  <2>1. \A i \in 1..(at - 1) : i \in 1..Len(V)
    BY <1>3, <1>13
  <2>2. ASSUME NEW e \in C
        PROVE  e \in DOMAIN M
    <3>1. PICK i \in 1..(at - 1) : e = V[i]
      BY <1>15
    <3> QED
      BY <1>3, <2>1, <3>1
  <2> QED
    BY <1>2, <1>7, <2>2
<1>18. ListOf(scanned, C)
  <2>1. front \in Seq(C)
    BY <1>16 DEF ListOf
  <2>2. scanned \in Seq(C) /\ Thinned(front, dead, scanned)
    BY <1>2, <1>8, <1>14, <2>1, WithoutThinned
  <2>3. ListOf(scanned, C \ dead)
    BY <1>16, <2>2, ThinnedList
  <2> QED
    BY <1>17, <2>3
<1>19. CASE stop # {}
  <2>1. PICK w : w = V[at]
    OBVIOUS
  <2>2. PICK back : back = SubSeq(V, at + 1, Len(V))
    OBVIOUS
  <2>3. PICK E : E = {V[i] : i \in (at + 1)..Len(V)}
    OBVIOUS
  <2>4. PICK V2 : V2 = scanned \o back
    OBVIOUS
  <2>5. PICK M2 : M2 = Erase(map, w)
    OBVIOUS
  <2>6. ListOf(back, E)
    <3>1. PICK m \in Nat : m = at + 1
      BY <1>13
    <3>2. 1 <= m /\ m <= n + 1 /\ n <= Len(V)
      BY <1>4, <1>13, <1>19, <3>1
    <3>3. ListOf(SubSeq(V, m, n), {V[i] : i \in m..n})
      BY <3>2, SubSeqList
    <3> QED
      BY <1>4, <2>2, <2>3, <3>1, <3>3
  <2>7. at \in 1..Len(V) /\ w \in DOMAIN M /\ ~ M[w].visited
    BY <1>3, <1>11, <1>12, <1>13, <1>19, <2>1
  <2>8. \A i \in 1..(at - 1) : i \in 1..Len(V) /\ i # at /\ i < at
    <3>1. at \in Nat /\ 1 <= at /\ at <= n + 1
      BY <1>4, <1>13
    <3>2. \A i \in 1..(at - 1) : i \in 1..n /\ i # at /\ i < at
      BY <3>1
    <3> QED
      BY <1>4, <3>2
  <2>9. \A i \in (at + 1)..Len(V) : i \in 1..Len(V) /\ i # at /\ ~ (i < at)
    BY <1>3, <1>13
  <2>10. C \cap E = {}
    <3> SUFFICES ASSUME NEW e, e \in C, e \in E
                 PROVE  FALSE
      OBVIOUS
    <3>1. PICK i \in 1..(at - 1) : e = V[i]
      BY <1>15
    <3>2. PICK j \in (at + 1)..Len(V) : e = V[j]
      BY <2>3
    <3> QED
      BY <1>3, <2>8, <2>9, <3>1, <3>2
  <2>11. C \cup E = DOMAIN M \ {w}
    <3>1. ASSUME NEW e, e \in C \/ e \in E
          PROVE  e \in DOMAIN M \ {w}
      <4>1. PICK i \in 1..Len(V) : i # at /\ e = V[i]
        BY <1>15, <2>3, <2>8, <2>9, <3>1
      <4> QED
        BY <1>3, <2>1, <2>7, <4>1
    <3>2. ASSUME NEW e \in DOMAIN M, e # w
          PROVE  e \in C \cup E
      <4>1. PICK i \in 1..Len(V) : V[i] = e
        BY <1>3
      <4>2. i # at
        BY <2>1, <3>2, <4>1
      <4>3. i \in 1..(at - 1) \/ i \in (at + 1)..Len(V)
        BY <1>3, <1>13, <4>2
      <4> QED
        BY <1>15, <2>3, <4>1, <4>3
    <3> QED
      BY <3>1, <3>2
  <2>12. ListOf(V2, DOMAIN M \ {w})
    BY <1>18, <2>4, <2>6, <2>10, <2>11, ConcatList
  <2>13. Lost(M, w, M2)
    BY <1>2, <1>9, <2>5, <2>7, ClearFlags DEF Entries
  <2>14. evict_sieve(s) = Rec(M2, L, F, V2, B, h)
    <3>1. evict_sieve(s) = [s EXCEPT !.sieve_order = V2, !.cache_map = M2]
      BY <1>2, <1>10, <1>19, <2>1, <2>2, <2>4, <2>5
    <3> QED
      BY <1>1, <3>1 DEF Rec
  <2>15. DOMAIN M2 = DOMAIN M \ {w}
    BY <2>13 DEF Lost
  <2> QED
    BY <1>1, <2>7, <2>12, <2>13, <2>14, <2>15
<1>20. CASE stop = {}
  <2>1. C = DOMAIN M
    <3>1. at - 1 = Len(V)
      BY <1>3, <1>12, <1>20
    <3>2. C = {V[i] : i \in 1..Len(V)}
      BY <1>15, <3>1
    <3>3. \A e \in DOMAIN M : e \in C
      BY <1>3, <3>2
    <3> QED
      BY <1>17, <3>3
  <2>2. PICK w : w = Head(scanned)
    OBVIOUS
  <2>3. PICK V2 : V2 = Tail(scanned)
    OBVIOUS
  <2>4. PICK M2 : M2 = Erase(map, w)
    OBVIOUS
  <2>5. scanned # << >> /\ w \in DOMAIN M /\ ListOf(V2, DOMAIN M \ {w})
    BY <1>18, <2>1, <2>2, <2>3, FirstElement
  <2>6. Lost(M, w, M2)
    BY <1>2, <1>9, <2>4, <2>5, ClearFlags DEF Entries
  <2>7. evict_sieve(s) = Rec(M2, L, F, V2, B, h)
    <3>1. evict_sieve(s) = [s EXCEPT !.sieve_order = V2, !.cache_map = M2]
      BY <1>10, <1>20, <2>2, <2>3, <2>4, <2>5
    <3> QED
      BY <1>1, <3>1 DEF Rec
  <2>8. DOMAIN M2 = DOMAIN M \ {w}
    BY <2>6 DEF Lost
  <2>9. \A k \in DOMAIN M : M[k].visited
    BY <1>3, <1>11, <1>20
  <2> QED
    BY <1>1, <2>5, <2>6, <2>7, <2>8, <2>9
<1> QED
  BY <1>19, <1>20

\* What the sweep of CLOCK makes of a cache with the map M.
SlotFreed(s, M, L, F, V) ==
    \E w, M2, B2, h2 :
        /\ s = Rec(M2, L, F, V, B2, h2)
        /\ Lost(M, w, M2)
        /\ Ring(DOMAIN M2 \cup {EmptySlot}, B2, h2)
        /\ M[w].reference_bit => \A k \in DOMAIN M : M[k].reference_bit

\* The sweep of CLOCK empties the slot of a key whose bit is clear, or of some
\* key when all bits are set, and the hand stays there.
LEMMA EvictClock ==
    ASSUME NEW M, NEW L, NEW F, NEW V, NEW B, NEW h, NEW t \in Nat,
           Entries(M, t), DOMAIN M # {}, Ring(DOMAIN M, B, h)
    PROVE  SlotFreed(evict_clock(Rec(M, L, F, V, B, h)), M, L, F, V)
<1>1. PICK s : s = Rec(M, L, F, V, B, h)
  OBVIOUS
<1>2. s.clock_buffer = B /\ s.clock_hand = h /\ s.cache_map = M
  BY <1>1 DEF Rec
<1>3. /\ B \in Seq(DOMAIN M) /\ Len(B) \in Nat
      /\ \A i \in 1..Len(B) : B[i] \in DOMAIN M
      /\ \A e \in DOMAIN M : \E i \in 1..Len(B) : B[i] = e
  <2>1. ListOf(B, DOMAIN M)
    BY DEF Ring
  <2>2. B \in Seq(DOMAIN M) /\ \A e \in DOMAIN M : \E i \in 1..Len(B) : B[i] = e
    BY <2>1 DEF ListOf
  <2> QED
    BY <2>2
<1>4. PICK size \in Nat : size = Len(B)
  BY <1>3
<1>5. size >= 1 /\ h \in 0..(size - 1)
  <2>1. size # 0
    BY <1>3, <1>4
  <2> QED
    BY <1>4, <2>1 DEF Ring
<1> DEFINE At(d)  == (s.clock_hand + d) % Len(s.clock_buffer)
           Key(d) == s.clock_buffer[At(d) + 1]
<1>6. PICK stops : stops = {d \in 0 .. 2 * Len(s.clock_buffer) - 1 :
                              /\ Key(d) \in DOMAIN s.cache_map
                              /\ (d >= Len(s.clock_buffer) \/ ~ s.cache_map[Key(d)].reference_bit)}
  OBVIOUS
<1>7. PICK stop : stop = Min(stops)
  OBVIOUS
<1>8. PICK passed : passed = {Key(d) : d \in 0 .. stop - 1}
  BY Zenon
<1>9. evict_clock(s) =
        IF Len(s.clock_buffer) = 0 THEN s
        ELSE [s EXCEPT !.cache_map = Erase(ClearReference(@, passed), Key(stop)),
                       !.clock_buffer[At(stop) + 1] = EmptySlot,
                       !.clock_hand = At(stop)]
  BY <1>6, <1>7, <1>8 DEF evict_clock
<1>10. ASSUME NEW d \in Nat
       PROVE  At(d) \in 0..(size - 1) /\ At(d) + 1 \in 1..Len(B) /\ Key(d) = B[At(d) + 1]
  <2>1. (h + d) % size \in 0..(size - 1)
    BY <1>5
  <2>2. At(d) \in 0..(size - 1)
    BY <1>2, <1>4, <2>1
  <2> HIDE DEF At
  <2>3. At(d) + 1 \in 1..size
    BY <2>2
  <2> QED
    BY <1>2, <1>4, <2>2, <2>3
<1>11. \A p \in 1..size : \E d \in 0..(size - 1) : At(d) + 1 = p
  <2> SUFFICES ASSUME NEW p \in 1..size
               PROVE  \E d \in 0..(size - 1) : At(d) + 1 = p
    OBVIOUS
  <2>1. p - 1 \in 0..(size - 1)
    OBVIOUS
  <2>2. PICK d \in 0..(size - 1) : (h + d) % size = p - 1
    BY <1>5, <2>1, HandMeetsSlot
  <2>3. At(d) = p - 1
    BY <1>2, <1>4, <2>2
  <2> HIDE DEF At
  <2> QED
    BY <2>3
<1> HIDE DEF At
<1>12. \A d \in Nat : Key(d) \in DOMAIN M
  BY <1>3, <1>10
<1> HIDE DEF Key
<1>13. stops = {d \in 0 .. 2 * size - 1 : d >= size \/ ~ M[Key(d)].reference_bit}
  <2>1. \A d \in 0 .. 2 * size - 1 : Key(d) \in DOMAIN M
    BY <1>12
  <2> QED
    BY <1>2, <1>4, <1>6, <2>1
<1>14. stop \in stops /\ \A d \in stops : stop <= d
  <2>0. PICK n \in Int : n = 2 * size - 1
    OBVIOUS
  <2>1. stops \in SUBSET (0 .. n) /\ 0 \in Int
    BY <1>13, <2>0
  <2>2. IsFiniteSet(stops) /\ stops \in SUBSET Int
    BY <2>1, BoundedSetFinite
  <2>3. size \in 0 .. 2 * size - 1 /\ size >= size
    BY <1>5
  <2>4. size \in stops
    BY <1>13, <2>3
  <2> QED
    BY <1>7, <2>2, <2>4, MinIsLeast
<1>15. stop \in Nat /\ stop \in 0 .. 2 * size - 1
  BY <1>13, <1>14
<1>16. PICK m \in 1..Len(B) : m = At(stop) + 1
  BY <1>10, <1>15
<1>17. PICK w : w = Key(stop)
  OBVIOUS
<1>18. w \in DOMAIN M /\ w = B[m]
  BY <1>10, <1>12, <1>15, <1>16, <1>17
<1>19. PICK M2 : M2 = Erase(ClearReference(M, passed), w)
  OBVIOUS
<1>20. PICK B2 : B2 = [B EXCEPT ![m] = EmptySlot]
  OBVIOUS
<1>21. PICK h2 : h2 = At(stop)
  OBVIOUS
<1>22. evict_clock(s) = Rec(M2, L, F, V, B2, h2)
  <2>1. evict_clock(s) = [s EXCEPT !.cache_map = M2, !.clock_buffer = B2, !.clock_hand = h2]
    <3>1. Len(s.clock_buffer) # 0
      BY <1>2, <1>4, <1>5
    <3>2. [s EXCEPT !.cache_map = Erase(ClearReference(@, passed), w),
                    !.clock_buffer[m] = EmptySlot,
                    !.clock_hand = h2]
            = [s EXCEPT !.cache_map = M2, !.clock_buffer = B2, !.clock_hand = h2]
      BY <1>1, <1>2, <1>19, <1>20 DEF Rec
    <3> QED
      BY <1>9, <1>16, <1>17, <1>21, <3>1, <3>2
  <2> QED
    BY <1>1, <2>1 DEF Rec
<1>23. Lost(M, w, M2)
  BY <1>18, <1>19, ClearFlags DEF Entries
<1>24. Ring(DOMAIN M2 \cup {EmptySlot}, B2, h2)
  <2>1. EmptySlot \notin DOMAIN M
    BY SlotAssumption DEF Entries
  <2>2. ListOf(B, DOMAIN M)
    BY DEF Ring
  <2>3. ListOf(B2, (DOMAIN M \ {w}) \cup {EmptySlot}) /\ Len(B2) = Len(B)
    BY <1>18, <1>20, <2>1, <2>2, ReplaceList
  <2>4. h2 \in 0..(size - 1)
    BY <1>10, <1>15, <1>21
  <2>5. h2 \in Nat /\ h2 < Len(B2)
    BY <1>4, <2>3, <2>4
  <2> QED
    BY <1>23, <2>3, <2>5 DEF Ring, Lost
<1>25. ASSUME M[w].reference_bit, NEW k \in DOMAIN M
       PROVE  M[k].reference_bit
  <2>1. PICK p \in 1..size : B[p] = k
    BY <1>3, <1>4
  <2>2. PICK d \in 0..(size - 1) : At(d) + 1 = p
    BY <1>11
  <2>3. d \in Nat /\ d \in 0 .. 2 * size - 1 /\ ~ (d >= size)
    OBVIOUS
  <2>4. Key(d) = k
    BY <1>10, <2>1, <2>2, <2>3
  <2>5. stop >= size
    BY <1>13, <1>14, <1>17, <1>25
  <2>6. d \notin stops
    BY <1>14, <1>15, <2>3, <2>5
  <2> QED
    BY <1>13, <2>3, <2>4, <2>6
<1> QED
  BY <1>1, <1>22, <1>23, <1>24, <1>25 DEF SlotFreed

\* Eviction takes one entry out of a cache that has any, the one the policy
\* asks for, and leaves the structures in order.
LEMMA EvictOne ==
    ASSUME NEW M, NEW L, NEW F, NEW V, NEW B, NEW h, NEW t \in Nat,
           policy \in EvictionPolicy,
           Entries(M, t), DOMAIN M # {}, Kept(policy, M, L, F, V, B, h, DOMAIN M)
    PROVE  \E w, M2, L2, F2, V2, B2, h2 :
              /\ Evict(Rec(M, L, F, V, B, h)) = Rec(M2, L2, F2, V2, B2, h2)
              /\ Lost(M, w, M2) /\ Entries(M2, t) /\ Victim(policy, M, w)
              /\ Kept(policy, M2, L2, F2, V2, B2, h2, DOMAIN M2 \cup {EmptySlot})
<1>1. PICK s : s = Rec(M, L, F, V, B, h)
  OBVIOUS
<1>2. \A w, M2 : Lost(M, w, M2) => Entries(M2, t)
  BY DEF Lost, Entries
<1>3. CASE policy = "LRU"
  <2>1. Recency(M, L) /\ F = << >> /\ V = << >> /\ B = << >> /\ h = 0
    BY <1>3 DEF Kept
  <2>2. PICK w, M2, L2 : /\ evict_lru(s) = Rec(M2, L2, F, V, B, h)
                         /\ Lost(M, w, M2) /\ Recency(M2, L2)
                         /\ \A k \in DOMAIN M : M[w].access_time <= M[k].access_time
    BY <1>1, <2>1, EvictLru
  <2>3. Evict(s) = evict_lru(s)
    BY <1>3 DEF Evict
  <2>4. Kept(policy, M2, L2, F, V, B, h, DOMAIN M2 \cup {EmptySlot})
    BY <1>3, <2>1, <2>2 DEF Kept
  <2>5. Victim(policy, M, w)
    BY <1>3, <2>2 DEF Victim
  <2> QED
    BY <1>1, <1>2, <2>2, <2>3, <2>4, <2>5
<1>4. CASE policy = "FIFO"
  <2>1. Arrival(M, F) /\ L = << >> /\ V = << >> /\ B = << >> /\ h = 0
    BY <1>4 DEF Kept
  <2>2. PICK w, M2, F2 : /\ evict_fifo(s) = Rec(M2, L, F2, V, B, h)
                         /\ Lost(M, w, M2) /\ Arrival(M2, F2)
                         /\ \A k \in DOMAIN M : M[w].insert_time <= M[k].insert_time
    BY <1>1, <2>1, EvictFifo
  <2>3. Evict(s) = evict_fifo(s)
    BY <1>4 DEF Evict
  <2>4. Kept(policy, M2, L, F2, V, B, h, DOMAIN M2 \cup {EmptySlot})
    BY <1>4, <2>1, <2>2 DEF Kept
  <2>5. Victim(policy, M, w)
    BY <1>4, <2>2 DEF Victim
  <2> QED
    BY <1>1, <1>2, <2>2, <2>3, <2>4, <2>5
<1>5. CASE policy = "SIEVE"
  <2>1. ListOf(V, DOMAIN M) /\ L = << >> /\ F = << >> /\ B = << >> /\ h = 0
    BY <1>5 DEF Kept
  <2>2. PICK w, M2, V2 : /\ evict_sieve(s) = Rec(M2, L, F, V2, B, h)
                         /\ Lost(M, w, M2) /\ ListOf(V2, DOMAIN M2)
                         /\ M[w].visited => \A k \in DOMAIN M : M[k].visited
    BY <1>1, <2>1, EvictSieve
  <2>3. Evict(s) = evict_sieve(s)
    BY <1>5 DEF Evict
  <2>4. Kept(policy, M2, L, F, V2, B, h, DOMAIN M2 \cup {EmptySlot})
    BY <1>5, <2>1, <2>2 DEF Kept
  <2>5. Victim(policy, M, w)
    BY <1>5, <2>2 DEF Victim
  <2> QED
    BY <1>1, <1>2, <2>2, <2>3, <2>4, <2>5
<1>6. CASE policy = "CLOCK"
  <2>1. Ring(DOMAIN M, B, h) /\ L = << >> /\ F = << >> /\ V = << >>
    BY <1>6 DEF Kept
  <2>2. SlotFreed(evict_clock(s), M, L, F, V)
    BY <1>1, <2>1, EvictClock
  <2>3. PICK w, M2, B2, h2 :
              /\ evict_clock(s) = Rec(M2, L, F, V, B2, h2)
              /\ Lost(M, w, M2)
              /\ Ring(DOMAIN M2 \cup {EmptySlot}, B2, h2)
              /\ M[w].reference_bit => \A k \in DOMAIN M : M[k].reference_bit
    BY <2>2 DEF SlotFreed
  <2>4. Evict(s) = evict_clock(s)
    BY <1>6 DEF Evict
  <2>5. Kept(policy, M2, L, F, V, B2, h2, DOMAIN M2 \cup {EmptySlot})
    BY <1>6, <2>1, <2>3 DEF Kept
  <2>6. Victim(policy, M, w)
    BY <1>6, <2>3 DEF Victim
  <2> QED
    BY <1>1, <1>2, <2>3, <2>4, <2>5, <2>6
<1> QED
  BY <1>3, <1>4, <1>5, <1>6 DEF EvictionPolicy

\* There is nothing to evict from an empty cache.
LEMMA EvictNone ==
    ASSUME NEW M, NEW L, NEW F, NEW V, NEW B, NEW h,
           policy \in EvictionPolicy,
           DOMAIN M = {}, Kept(policy, M, L, F, V, B, h, DOMAIN M)
    PROVE  Evict(Rec(M, L, F, V, B, h)) = Rec(M, L, F, V, B, h)
<1>1. PICK s : s = Rec(M, L, F, V, B, h)
  OBVIOUS
<1>2. /\ s.lru_order = L /\ s.fifo_queue = F /\ s.sieve_order = V
      /\ s.clock_buffer = B /\ s.cache_map = M
  BY <1>1 DEF Rec
<1>3. \A K : ListOf(K, {}) => K = << >>
  BY DEF ListOf
<1>4. CASE policy = "LRU"
  <2>1. L = << >>
    BY <1>3, <1>4 DEF Kept, Recency
  <2> QED
    BY <1>1, <1>2, <1>4, <2>1 DEF Evict, evict_lru
<1>5. CASE policy = "FIFO"
  <2>1. F = << >>
    BY <1>3, <1>5 DEF Kept, Arrival
  <2> QED
    BY <1>1, <1>2, <1>5, <2>1 DEF Evict, evict_fifo
<1>6. CASE policy = "SIEVE"
  <2>1. V = << >> /\ Len(V) = 0
    BY <1>3, <1>6 DEF Kept
  <2>2. PICK stop : stop = {i \in 1 .. Len(s.sieve_order) :
                 s.sieve_order[i] \in DOMAIN s.cache_map
                 /\ ~ s.cache_map[s.sieve_order[i]].visited}
    OBVIOUS
  <2>3. PICK at : at = IF stop = {} THEN Len(s.sieve_order) + 1 ELSE Min(stop)
    OBVIOUS
  <2>4. PICK dead : dead = ToSet(s.sieve_order) \ DOMAIN s.cache_map
    OBVIOUS
  <2>5. PICK scanned : scanned = Without(SubSeq(s.sieve_order, 1, at - 1), dead)
    OBVIOUS
  <2>6. PICK map : map = ClearVisited(s.cache_map, ToSet(scanned))
    OBVIOUS
  <2>7. evict_sieve(s) =
        IF stop # {}
          THEN [s EXCEPT !.sieve_order = scanned \o SubSeq(s.sieve_order, at + 1, Len(s.sieve_order)),
                         !.cache_map   = Erase(map, s.sieve_order[at])]
        ELSE IF scanned # << >>
          THEN [s EXCEPT !.sieve_order = Tail(scanned),
                         !.cache_map   = Erase(map, Head(scanned))]
        ELSE [s EXCEPT !.sieve_order = << >>]
    BY <2>2, <2>3, <2>4, <2>5, <2>6 DEF evict_sieve
  <2>8. stop = {} /\ at = 1
    BY <1>2, <2>1, <2>2, <2>3
  <2>9. scanned = << >>
    <3>1. PICK front : front = SubSeq(V, 1, 0)
      OBVIOUS
    <3>2. front \in Seq({}) /\ Len(front) = 0
      BY <2>1, <3>1
    <3>3. SubSeq(s.sieve_order, 1, at - 1) = front
      BY <1>2, <2>8, <3>1
    <3>4. scanned = Without(front, dead)
      BY <2>5, <3>3
    <3>5. scanned \in Seq({})
      BY <3>2, <3>4, WithoutThinned
    <3> QED
      BY <3>5
  <2>10. evict_sieve(s) = [s EXCEPT !.sieve_order = V]
    BY <2>1, <2>7, <2>8, <2>9
  <2>11. [s EXCEPT !.sieve_order = V] = s
    BY <1>1 DEF Rec
  <2>12. Evict(s) = evict_sieve(s)
    BY <1>6 DEF Evict
  <2> QED
    BY <1>1, <2>10, <2>11, <2>12
<1>7. CASE policy = "CLOCK"
  <2>1. B = << >>
    BY <1>3, <1>7 DEF Kept, Ring
  <2>2. Len(s.clock_buffer) = 0
    BY <1>2, <2>1
  <2>3. Evict(s) = evict_clock(s)
    BY <1>7 DEF Evict
  <2>4. evict_clock(s) = s
    BY <2>2 DEF evict_clock
  <2> QED
    BY <1>1, <2>3, <2>4
<1> QED
  BY <1>4, <1>5, <1>6, <1>7 DEF EvictionPolicy

----------------------------------------------------------------------------
(* Access to a cached key.                                                 *)

\* What comes before or after something in a list is in the list.
LEMMA BeforeInList ==
    ASSUME NEW L, NEW D, NEW e, NEW f, ListOf(L, D), Before(L, e, f)
    PROVE  e \in D /\ f \in D
<1>1. \A i \in 1..Len(L) : L[i] \in D
  BY DEF ListOf
<1> QED
  BY <1>1 DEF Before

\* The list LRU has after an access.
Accessed(L, k) == IF policy = "LRU" THEN <<k>> \o RemoveFirst(L, k) ELSE L

\* e is an entry with value v, accessed at t and inserted at u.
Entry(e, v, t, u) ==
    e \in BenchmarkCacheEntry /\ e.value = v /\ e.access_time = t /\ e.insert_time = u

\* s has the map M with such an entry for k, and k first in the list of LRU.
Touched(s, M, L, F, V, B, h, k, v, t, u) ==
    \E e : /\ Entry(e, v, t, u)
           /\ s = Rec([M EXCEPT ![k] = e], Accessed(L, k), F, V, B, h)

\* An access changes flags and the position in the list, nothing else.
LEMMA AccessEffect ==
    ASSUME NEW M, NEW L, NEW F, NEW V, NEW B, NEW h, NEW k \in DOMAIN M,
           policy \in EvictionPolicy,
           NEW e, NEW v, NEW t, NEW u, Entry(e, v, t, u),
           M \in [DOMAIN M -> BenchmarkCacheEntry],
           NEW M1, M1 = [M EXCEPT ![k] = e]
    PROVE  Touched(OnAccess(Rec(M1, L, F, V, B, h), k), M, L, F, V, B, h, k, v, t, u)
<1>1. PICK s : s = Rec(M1, L, F, V, B, h)
  OBVIOUS
<1>2. DOMAIN M1 = DOMAIN M /\ M1[k] = e
  OBVIOUS
<1>3. CASE policy = "LRU"
  <2>1. OnAccess(s, k) = [s EXCEPT !.lru_order = <<k>> \o RemoveFirst(@, k)]
    BY <1>3 DEF OnAccess, update_lru
  <2>2. OnAccess(s, k) = Rec(M1, <<k>> \o RemoveFirst(L, k), F, V, B, h)
    BY <1>1, <2>1 DEF Rec
  <2> QED
    BY <1>1, <1>3, <2>2 DEF Accessed, Touched
<1>4. CASE policy = "FIFO"
  BY <1>1, <1>4 DEF OnAccess, Accessed, Touched
<1>5. CASE policy = "SIEVE"
  <2>1. PICK e2 : e2 = [e EXCEPT !.visited = TRUE]
    OBVIOUS
  <2>2. Entry(e2, v, t, u)
    BY <2>1 DEF Entry, BenchmarkCacheEntry
  <2>3. OnAccess(s, k) = [s EXCEPT !.cache_map[k].visited = TRUE]
    BY <1>5 DEF OnAccess, update_sieve
  <2>4. OnAccess(s, k) = Rec([M1 EXCEPT ![k].visited = TRUE], L, F, V, B, h)
    BY <1>1, <2>3 DEF Rec
  <2>5. [M1 EXCEPT ![k].visited = TRUE] = [M EXCEPT ![k] = e2]
    BY <1>2, <2>1
  <2> QED
    BY <1>1, <1>5, <2>2, <2>4, <2>5 DEF Accessed, Touched
<1>6. CASE policy = "CLOCK"
  <2>1. PICK e2 : e2 = [e EXCEPT !.reference_bit = TRUE]
    OBVIOUS
  <2>2. Entry(e2, v, t, u)
    BY <2>1 DEF Entry, BenchmarkCacheEntry
  <2>3. OnAccess(s, k) = [s EXCEPT !.cache_map[k].reference_bit = TRUE]
    BY <1>6 DEF OnAccess, update_clock
  <2>4. OnAccess(s, k) = Rec([M1 EXCEPT ![k].reference_bit = TRUE], L, F, V, B, h)
    BY <1>1, <2>3 DEF Rec
  <2>5. [M1 EXCEPT ![k].reference_bit = TRUE] = [M EXCEPT ![k] = e2]
    BY <1>2, <2>1
  <2> QED
    BY <1>1, <1>6, <2>2, <2>4, <2>5 DEF Accessed, Touched
<1> QED
  BY <1>3, <1>4, <1>5, <1>6 DEF EvictionPolicy

\* An access at time t keeps the entries and structures in order.
LEMMA AccessKeeps ==
    ASSUME NEW M, NEW L, NEW F, NEW V, NEW B, NEW h, NEW k \in DOMAIN M,
           NEW t \in Nat, NEW e, NEW v, Entry(e, v, t, M[k].insert_time),
           Entries(M, t), Kept(policy, M, L, F, V, B, h, DOMAIN M),
           NEW M2, M2 = [M EXCEPT ![k] = e]
    PROVE  /\ DOMAIN M2 = DOMAIN M
           /\ Entries(M2, t + 1)
           /\ Kept(policy, M2, Accessed(L, k), F, V, B, h, DOMAIN M2)
<1>1. /\ DOMAIN M2 = DOMAIN M
      /\ \A j \in DOMAIN M : M2[j] = IF j = k THEN e ELSE M[j]
  OBVIOUS
<1>2. \A j \in DOMAIN M : /\ M[j] \in BenchmarkCacheEntry
                          /\ M[j].access_time \in Nat /\ M[j].insert_time \in Nat
                          /\ M[j].access_time < t /\ M[j].insert_time < t
  BY DEF Entries, BenchmarkCacheEntry
<1>3. /\ e \in BenchmarkCacheEntry /\ e.access_time = t
      /\ e.insert_time = M[k].insert_time
  BY DEF Entry
<1>4. Entries(M2, t + 1)
  <2>1. \A j \in DOMAIN M2 : M2[j] \in BenchmarkCacheEntry
    BY <1>1, <1>2, <1>3
  <2>2. \A j \in DOMAIN M2 : M2[j].access_time < t + 1 /\ M2[j].insert_time < t + 1
    <3> SUFFICES ASSUME NEW j \in DOMAIN M2
                 PROVE  M2[j].access_time < t + 1 /\ M2[j].insert_time < t + 1
      OBVIOUS
    <3>1. CASE j = k
      BY <1>1, <1>2, <1>3, <3>1
    <3>2. CASE j # k
      BY <1>1, <1>2, <3>2
    <3> QED
      BY <3>1, <3>2
  <2>3. M2 \in [DOMAIN M2 -> BenchmarkCacheEntry]
    BY <2>1 DEF Entries
  <2> QED
    BY <1>1, <2>2, <2>3 DEF Entries
<1>5. ASSUME policy = "LRU"
      PROVE  Recency(M2, Accessed(L, k))
  <2>1. PICK K : K = RemoveFirst(L, k)
    OBVIOUS
  <2>2. PICK L2 : L2 = <<k>> \o K
    OBVIOUS
  <2>3. ListOf(L, DOMAIN M) /\ Recency(M, L)
    BY <1>5 DEF Kept, Recency
  <2>4. ListOf(K, DOMAIN M \ {k}) /\ Thinned(L, {k}, K)
    BY <2>1, <2>3, RemoveFirstThinned, RemoveFirstList
  <2>5. ListOf(L2, DOMAIN M)
    <3>1. PICK D : D = DOMAIN M \ {k}
      OBVIOUS
    <3>2. ListOf(L2, D \cup {k})
      BY <2>2, <2>4, <3>1, ConsList
    <3>3. D \cup {k} = DOMAIN M
      BY <3>1
    <3> QED
      BY <3>2, <3>3
  <2>6. ASSUME NEW a, NEW f, Before(L2, a, f)
        PROVE  M2[f].access_time < M2[a].access_time
    <3>1. Before(K, a, f) \/ (a = k /\ f \in DOMAIN M \ {k})
      BY <2>2, <2>4, <2>6, ConsBefore
    <3>2. CASE Before(K, a, f)
      <4>1. Before(L, a, f) /\ a \notin {k} /\ f \notin {k}
        BY <2>4, <3>2, ThinnedBefore
      <4>2. M[f].access_time < M[a].access_time
        BY <2>3, <4>1 DEF Recency
      <4>3. a \in DOMAIN M /\ f \in DOMAIN M
        BY <2>3, <4>1, BeforeInList
      <4> QED
        BY <1>1, <4>1, <4>2, <4>3
    <3>3. CASE a = k /\ f \in DOMAIN M \ {k}
      BY <1>1, <1>2, <1>3, <3>3
    <3> QED
      BY <3>1, <3>2, <3>3
  <2>7. Accessed(L, k) = L2
    BY <1>5, <2>1, <2>2 DEF Accessed
  <2> QED
    BY <1>1, <2>5, <2>6, <2>7 DEF Recency
<1>6. ASSUME policy = "FIFO"
      PROVE  Arrival(M2, F)
  <2>1. ListOf(F, DOMAIN M) /\ Arrival(M, F)
    BY <1>6 DEF Kept, Arrival
  <2>2. ASSUME NEW a, NEW f, Before(F, a, f)
        PROVE  M2[a].insert_time < M2[f].insert_time
    <3>1. a \in DOMAIN M /\ f \in DOMAIN M
      BY <2>1, <2>2, BeforeInList
    <3>2. M[a].insert_time < M[f].insert_time
      BY <2>1, <2>2 DEF Arrival
    <3> QED
      BY <1>1, <1>3, <3>1, <3>2
  <2> QED
    BY <1>1, <2>1, <2>2 DEF Arrival
<1>7. policy # "LRU" => Accessed(L, k) = L
  BY DEF Accessed
<1> QED
  BY <1>1, <1>4, <1>5, <1>6, <1>7 DEF Kept

----------------------------------------------------------------------------
(* Insertion of a new key.                                                 *)

\* The map M with the entry e for k.
With(M, k, e) == [j \in DOMAIN M \cup {k} |-> IF j = k THEN e ELSE M[j]]

\* The slot that the key takes in the ring.
Placed(B, k) ==
    LET free == {i \in 1 .. Len(B) : B[i] = EmptySlot}
    IN  IF free = {} THEN Append(B, k) ELSE [B EXCEPT ![Min(free)] = k]

\* The four structures with the key, which only the one of the policy takes.
LruWith(L, k)   == IF policy = "LRU" THEN <<k>> \o L ELSE L
FifoWith(F, k)  == IF policy = "FIFO" THEN Append(F, k) ELSE F
SieveWith(V, k) == IF policy = "SIEVE" THEN Append(V, k) ELSE V
ClockWith(B, k) == IF policy = "CLOCK" THEN Placed(B, k) ELSE B

\* What the insertion makes of the four structures.
LEMMA AddEffect ==
    ASSUME NEW M, NEW L, NEW F, NEW V, NEW B, NEW h, NEW k, NEW v \in Values,
           policy \in EvictionPolicy, now \in Nat
    PROVE  \E e : /\ Entry(e, v, now, now)
                  /\ OnAdd(Insert(Rec(M, L, F, V, B, h), k, v), k)
                       = Rec(With(M, k, e),
                             LruWith(L, k), FifoWith(F, k), SieveWith(V, k), ClockWith(B, k), h)
<1>1. PICK e : e = NewEntry(v)
  OBVIOUS
<1>2. Entry(e, v, now, now)
  BY <1>1 DEF Entry, NewEntry, BenchmarkCacheEntry
<1>3. PICK M1 : M1 = With(M, k, e)
  OBVIOUS
<1>4. PICK s : s = Rec(M1, L, F, V, B, h)
  OBVIOUS
<1>5. Insert(Rec(M, L, F, V, B, h), k, v) = s
  <2>1. PICK r : r = Rec(M, L, F, V, B, h)
    OBVIOUS
  <2>2. Insert(r, k, v) = [r EXCEPT !.cache_map = [j \in DOMAIN r.cache_map \cup {k} |->
                             IF j = k THEN e ELSE r.cache_map[j]]]
    BY <1>1, <2>1 DEF Insert, Rec
  <2>3. [j \in DOMAIN r.cache_map \cup {k} |-> IF j = k THEN e ELSE r.cache_map[j]] = M1
    BY <1>3, <2>1 DEF With, Rec
  <2> QED
    BY <1>4, <2>1, <2>2, <2>3 DEF Rec
<1>6. k \in DOMAIN M1 /\ M1[k] = e
  BY <1>3 DEF With
<1>7. ASSUME NEW x
      PROVE  [M1 EXCEPT ![k] = x] = With(M, k, x)
  BY <1>3 DEF With
<1>8. CASE policy = "LRU"
  <2>1. OnAdd(s, k) = [s EXCEPT !.lru_order = <<k>> \o @]
    BY <1>8 DEF OnAdd, add_lru
  <2>2. OnAdd(s, k) = Rec(M1, <<k>> \o L, F, V, B, h)
    BY <1>4, <2>1 DEF Rec
  <2> QED
    BY <1>2, <1>3, <1>5, <1>8, <2>2
      DEF LruWith, FifoWith, SieveWith, ClockWith
<1>9. CASE policy = "FIFO"
  <2>1. OnAdd(s, k) = [s EXCEPT !.fifo_queue = Append(@, k)]
    BY <1>9 DEF OnAdd, add_fifo
  <2>2. OnAdd(s, k) = Rec(M1, L, Append(F, k), V, B, h)
    BY <1>4, <2>1 DEF Rec
  <2> QED
    BY <1>2, <1>3, <1>5, <1>9, <2>2
      DEF LruWith, FifoWith, SieveWith, ClockWith
<1>10. CASE policy = "SIEVE"
  <2>1. PICK e2 : e2 = [e EXCEPT !.visited = FALSE]
    OBVIOUS
  <2>2. Entry(e2, v, now, now)
    BY <1>2, <2>1 DEF Entry, BenchmarkCacheEntry
  <2>3. OnAdd(s, k) = [s EXCEPT !.sieve_order = Append(@, k),
                                !.cache_map[k].visited = FALSE]
    BY <1>10 DEF OnAdd, add_sieve
  <2>4. OnAdd(s, k) = Rec([M1 EXCEPT ![k].visited = FALSE], L, F, Append(V, k), B, h)
    BY <1>4, <2>3 DEF Rec
  <2>5. [M1 EXCEPT ![k].visited = FALSE] = [M1 EXCEPT ![k] = e2]
    BY <1>6, <2>1
  <2> QED
    BY <1>5, <1>7, <1>10, <2>2, <2>4, <2>5
      DEF LruWith, FifoWith, SieveWith, ClockWith
<1>11. CASE policy = "CLOCK"
  <2>1. PICK e2 : e2 = [e EXCEPT !.reference_bit = TRUE]
    OBVIOUS
  <2>2. Entry(e2, v, now, now)
    BY <1>2, <2>1 DEF Entry, BenchmarkCacheEntry
  <2>3. PICK B2 : B2 = Placed(B, k)
    OBVIOUS
  <2>4. OnAdd(s, k) = add_clock(s, k)
    BY <1>11 DEF OnAdd
  <2>5. s.clock_buffer = B
    BY <1>4 DEF Rec
  <2>6. add_clock(s, k) = [s EXCEPT !.clock_buffer = B2, !.cache_map[k].reference_bit = TRUE]
    <3>1. PICK free : free = {i \in 1 .. Len(s.clock_buffer) : s.clock_buffer[i] = EmptySlot}
      OBVIOUS
    <3>2. add_clock(s, k) =
            [s EXCEPT !.clock_buffer = IF free = {} THEN Append(@, k)
                                       ELSE [@ EXCEPT ![Min(free)] = k],
                      !.cache_map[k].reference_bit = TRUE]
      BY <3>1 DEF add_clock
    <3>3. B2 = IF free = {} THEN Append(B, k) ELSE [B EXCEPT ![Min(free)] = k]
      BY <2>3, <2>5, <3>1 DEF Placed
    <3> QED
      BY <1>4, <2>5, <3>2, <3>3 DEF Rec
  <2>7. add_clock(s, k) = Rec([M1 EXCEPT ![k].reference_bit = TRUE], L, F, V, B2, h)
    BY <1>4, <2>6 DEF Rec
  <2>8. [M1 EXCEPT ![k].reference_bit = TRUE] = [M1 EXCEPT ![k] = e2]
    BY <1>6, <2>1
  <2> QED
    BY <1>5, <1>7, <1>11, <2>2, <2>3, <2>4, <2>7, <2>8
      DEF LruWith, FifoWith, SieveWith, ClockWith
<1> QED
  BY <1>8, <1>9, <1>10, <1>11 DEF EvictionPolicy

\* The key takes the empty slot if there is one, and else a new one at the end.
LEMMA PlacedRing ==
    ASSUME NEW D, NEW E, NEW B, NEW h, NEW k, k \in Keys, D \subseteq Keys, k \notin D,
           E = D \/ E = D \cup {EmptySlot}, Ring(E, B, h)
    PROVE  Ring(D \cup {k}, Placed(B, k), h)
<1>1. PICK free : free = {i \in 1 .. Len(B) : B[i] = EmptySlot}
  OBVIOUS
<1>2. Placed(B, k) = IF free = {} THEN Append(B, k) ELSE [B EXCEPT ![Min(free)] = k]
  BY <1>1 DEF Placed
<1>3. /\ B \in Seq(E) /\ Len(B) \in Nat /\ ListOf(B, E)
      /\ \A i, j \in 1..Len(B) : B[i] = B[j] => i = j
      /\ \A e \in E : \E i \in 1..Len(B) : B[i] = e
  BY DEF Ring, ListOf
<1>4. k \notin E /\ EmptySlot \notin D
  BY SlotAssumption
<1>5. h \in Nat /\ (h < Len(B) \/ (Len(B) = 0 /\ h = 0))
  BY DEF Ring
<1>6. CASE E = D
  <2>1. free = {}
    <3>1. \A i \in 1..Len(B) : B[i] \in D
      BY <1>3, <1>6
    <3> QED
      BY <1>1, <1>4, <3>1
  <2>2. Placed(B, k) = Append(B, k)
    BY <1>2, <2>1
  <2>3. ListOf(Append(B, k), D \cup {k})
    BY <1>3, <1>4, <1>6, AppendList
  <2>4. Len(Append(B, k)) = Len(B) + 1
    BY <1>3
  <2>5. h < Len(Append(B, k))
    BY <1>3, <1>5, <2>4
  <2> QED
    BY <1>5, <2>2, <2>3, <2>5 DEF Ring
<1>7. CASE E = D \cup {EmptySlot}
  <2>1. PICK m \in 1..Len(B) : B[m] = EmptySlot
    BY <1>3, <1>7
  <2>2. free = {m}
    BY <1>1, <1>3, <2>1
  <2>3. m \in Int
    BY <1>3
  <2>4. Min({m}) = m
    BY <2>3 DEF Min
  <2>5. Placed(B, k) = [B EXCEPT ![m] = k]
    BY <1>2, <2>2, <2>4
  <2>6. /\ ListOf([B EXCEPT ![m] = k], (E \ {B[m]}) \cup {k})
        /\ Len([B EXCEPT ![m] = k]) = Len(B)
    BY <1>3, <1>4, ReplaceList
  <2>7. (E \ {B[m]}) \cup {k} = D \cup {k}
    BY <1>4, <1>7, <2>1
  <2> QED
    BY <1>5, <2>5, <2>6, <2>7 DEF Ring
<1> QED
  BY <1>6, <1>7

\* What a ring lists before an insertion: the keys, and perhaps an empty slot.
Slots(D, M) == D = DOMAIN M \/ D = DOMAIN M \cup {EmptySlot}

\* An insertion at time t keeps the entries and structures in order, whether a
\* slot of the ring was emptied before or not.
LEMMA AddKeeps ==
    ASSUME NEW M, NEW L, NEW F, NEW V, NEW B, NEW h, NEW D, NEW k \in Keys,
           k \notin DOMAIN M, NEW t \in Nat, NEW e, NEW v, Entry(e, v, t, t),
           Slots(D, M), Entries(M, t), Kept(policy, M, L, F, V, B, h, D),
           NEW M2, M2 = With(M, k, e)
    PROVE  /\ DOMAIN M2 = DOMAIN M \cup {k}
           /\ Entries(M2, t + 1)
           /\ Kept(policy, M2, LruWith(L, k), FifoWith(F, k), SieveWith(V, k), ClockWith(B, k),
              h, DOMAIN M2)
<1>1. /\ DOMAIN M2 = DOMAIN M \cup {k}
      /\ M2[k] = e
      /\ \A j \in DOMAIN M : j # k /\ M2[j] = M[j]
  BY DEF With
<1>2. \A j \in DOMAIN M : /\ M[j] \in BenchmarkCacheEntry
                          /\ M[j].access_time \in Nat /\ M[j].insert_time \in Nat
                          /\ M[j].access_time < t /\ M[j].insert_time < t
  BY DEF Entries, BenchmarkCacheEntry
<1>3. e \in BenchmarkCacheEntry /\ e.access_time = t /\ e.insert_time = t
  BY DEF Entry
<1>4. Entries(M2, t + 1)
  <2>1. \A j \in DOMAIN M2 : M2[j] \in BenchmarkCacheEntry
    BY <1>1, <1>2, <1>3
  <2>2. ASSUME NEW j \in DOMAIN M2
        PROVE  M2[j].access_time < t + 1 /\ M2[j].insert_time < t + 1
    <3>1. CASE j = k
      BY <1>1, <1>3, <3>1
    <3>2. CASE j # k
      BY <1>1, <1>2, <3>2
    <3> QED
      BY <3>1, <3>2
  <2>3. M2 \in [DOMAIN M2 -> BenchmarkCacheEntry]
    <3>1. M2 = [j \in DOMAIN M2 |-> M2[j]]
      BY DEF With
    <3> QED
      BY <2>1, <3>1
  <2> QED
    BY <1>1, <2>2, <2>3 DEF Entries
<1>5. ASSUME policy = "LRU"
      PROVE  Recency(M2, <<k>> \o L)
  <2>1. ListOf(L, DOMAIN M) /\ Recency(M, L)
    BY <1>5 DEF Kept, Recency
  <2>2. ListOf(<<k>> \o L, DOMAIN M \cup {k})
    BY <2>1, ConsList
  <2>3. ASSUME NEW a, NEW f, Before(<<k>> \o L, a, f)
        PROVE  M2[f].access_time < M2[a].access_time
    <3>1. Before(L, a, f) \/ (a = k /\ f \in DOMAIN M)
      BY <2>1, <2>3, ConsBefore
    <3>2. CASE Before(L, a, f)
      <4>1. M[f].access_time < M[a].access_time
        BY <2>1, <3>2 DEF Recency
      <4>2. a \in DOMAIN M /\ f \in DOMAIN M
        BY <2>1, <3>2, BeforeInList
      <4> QED
        BY <1>1, <4>1, <4>2
    <3>3. CASE a = k /\ f \in DOMAIN M
      BY <1>1, <1>2, <1>3, <3>3
    <3> QED
      BY <3>1, <3>2, <3>3
  <2> QED
    BY <1>1, <2>2, <2>3 DEF Recency
<1>6. ASSUME policy = "FIFO"
      PROVE  Arrival(M2, Append(F, k))
  <2>1. ListOf(F, DOMAIN M) /\ Arrival(M, F)
    BY <1>6 DEF Kept, Arrival
  <2>2. ListOf(Append(F, k), DOMAIN M \cup {k})
    BY <2>1, AppendList
  <2>3. ASSUME NEW a, NEW f, Before(Append(F, k), a, f)
        PROVE  M2[a].insert_time < M2[f].insert_time
    <3>1. Before(F, a, f) \/ (a \in DOMAIN M /\ f = k)
      BY <2>1, <2>3, AppendList
    <3>2. CASE Before(F, a, f)
      <4>1. M[a].insert_time < M[f].insert_time
        BY <2>1, <3>2 DEF Arrival
      <4>2. a \in DOMAIN M /\ f \in DOMAIN M
        BY <2>1, <3>2, BeforeInList
      <4> QED
        BY <1>1, <4>1, <4>2
    <3>3. CASE a \in DOMAIN M /\ f = k
      BY <1>1, <1>2, <1>3, <3>3
    <3> QED
      BY <3>1, <3>2, <3>3
  <2> QED
    BY <1>1, <2>2, <2>3 DEF Arrival
<1>7. ASSUME policy = "SIEVE"
      PROVE  ListOf(Append(V, k), DOMAIN M2)
  <2>1. ListOf(V, DOMAIN M)
    BY <1>7 DEF Kept
  <2> QED
    BY <1>1, <2>1, AppendList
<1>8. ASSUME policy = "CLOCK"
      PROVE  Ring(DOMAIN M2, Placed(B, k), h)
  <2>1. Ring(D, B, h)
    BY <1>8 DEF Kept
  <2>2. DOMAIN M \subseteq Keys
    BY DEF Entries
  <2> QED
    BY <1>1, <2>1, <2>2, PlacedRing DEF Slots
<1> QED
  BY <1>1, <1>4, <1>5, <1>6, <1>7, <1>8
    DEF Kept, LruWith, FifoWith, SieveWith, ClockWith

----------------------------------------------------------------------------
(* The invariant.                                                          *)

\* What holds between calls: entries older than the clock, the structure of
\* the policy in order, and no more entries than put lets in.
Safe ==
    /\ policy \in EvictionPolicy
    /\ now \in Nat /\ hit_count \in Nat /\ miss_count \in Nat /\ total_requests \in Nat
    /\ Entries(cache_map, now)
    /\ Kept(policy, cache_map, lru_order, fifo_queue, sieve_order,
            clock_buffer, clock_hand, DOMAIN cache_map)
    /\ Cardinality(DOMAIN cache_map) <= Max({1, max_capacity})

\* The structure of the policy counts the entries.
LEMMA KeptFinite ==
    ASSUME NEW p \in EvictionPolicy, NEW M, NEW L, NEW F, NEW V, NEW B, NEW h,
           Kept(p, M, L, F, V, B, h, DOMAIN M)
    PROVE  /\ IsFiniteSet(DOMAIN M) /\ Cardinality(DOMAIN M) \in Nat
           /\ Len(B) <= Cardinality(DOMAIN M)
<1>1. PICK D : D = DOMAIN M
  OBVIOUS
<1>2. ListOf(L, D) \/ ListOf(F, D) \/ ListOf(V, D) \/ ListOf(B, D)
  BY <1>1 DEF Kept, EvictionPolicy, Recency, Arrival, Ring
<1>3. IsFiniteSet(D)
  BY <1>2, ListSize
<1>4. Cardinality(D) \in Nat
  BY <1>3, FS_CardinalityType
<1>5. CASE p = "CLOCK"
  <2>1. ListOf(B, D)
    BY <1>1, <1>5 DEF Kept, Ring
  <2>2. Cardinality(D) = Len(B)
    BY <2>1, ListSize
  <2> QED
    BY <1>1, <1>3, <1>4, <2>2
<1>6. CASE p # "CLOCK"
  <2>1. B = << >>
    BY <1>6 DEF Kept
  <2>2. Len(B) = 0
    BY <2>1
  <2> QED
    BY <1>1, <1>3, <1>4, <2>2
<1> QED
  BY <1>5, <1>6

\* A call that finds its key: get and put both come down to this.
LEMMA AccessStep ==
    ASSUME Safe, NEW k \in DOMAIN cache_map, NEW e, NEW v,
           Entry(e, v, now, cache_map[k].insert_time),
           Commit(OnAccess(Rec([cache_map EXCEPT ![k] = e], lru_order, fifo_queue,
                               sieve_order, clock_buffer, clock_hand), k)),
           now' = now + 1, policy' = policy,
           hit_count' \in Nat, miss_count' \in Nat, total_requests' \in Nat
    PROVE  /\ Safe'
           /\ DOMAIN cache_map' = DOMAIN cache_map
           /\ \A j \in DOMAIN cache_map :
                cache_map'[j].value = IF j = k THEN v ELSE cache_map[j].value
<1>0. /\ policy \in EvictionPolicy /\ now \in Nat
      /\ Entries(cache_map, now)
      /\ Kept(policy, cache_map, lru_order, fifo_queue, sieve_order,
              clock_buffer, clock_hand, DOMAIN cache_map)
      /\ Cardinality(DOMAIN cache_map) <= Max({1, max_capacity})
  BY DEF Safe
<1>1. cache_map \in [DOMAIN cache_map -> BenchmarkCacheEntry]
  BY <1>0 DEF Entries
<1>2. PICK u : u = cache_map[k].insert_time
  OBVIOUS
<1>3. PICK M1 : M1 = [cache_map EXCEPT ![k] = e]
  OBVIOUS
<1>4. PICK s : s = OnAccess(Rec(M1, lru_order, fifo_queue, sieve_order,
                                clock_buffer, clock_hand), k)
  OBVIOUS
<1>5. Touched(s, cache_map, lru_order, fifo_queue, sieve_order,
              clock_buffer, clock_hand, k, v, now, u)
  BY <1>0, <1>1, <1>2, <1>3, <1>4, AccessEffect
<1>6. PICK e2 : /\ Entry(e2, v, now, u)
                /\ s = Rec([cache_map EXCEPT ![k] = e2], Accessed(lru_order, k), fifo_queue,
                           sieve_order, clock_buffer, clock_hand)
  BY <1>5 DEF Touched
<1>7. PICK M2 : M2 = [cache_map EXCEPT ![k] = e2]
  OBVIOUS
<1>8. Commit(Rec(M2, Accessed(lru_order, k), fifo_queue,
                 sieve_order, clock_buffer, clock_hand))
  BY <1>3, <1>4, <1>6, <1>7
<1>9. /\ cache_map' = M2 /\ lru_order' = Accessed(lru_order, k)
      /\ fifo_queue' = fifo_queue /\ sieve_order' = sieve_order
      /\ clock_buffer' = clock_buffer /\ clock_hand' = clock_hand
  BY <1>8 DEF Commit, Rec
<1>10. /\ DOMAIN M2 = DOMAIN cache_map
      /\ Entries(M2, now + 1)
      /\ Kept(policy, M2, Accessed(lru_order, k), fifo_queue, sieve_order,
              clock_buffer, clock_hand, DOMAIN M2)
  BY <1>0, <1>2, <1>6, <1>7, AccessKeeps
<1>11. Safe'
  <2>1. now + 1 \in Nat
    BY <1>0
  <2>2. Cardinality(DOMAIN cache_map') <= Max({1, max_capacity})
    BY <1>0, <1>9, <1>10
  <2> QED
    BY <1>0, <1>9, <1>10, <2>1, <2>2 DEF Safe
<1>12. \A j \in DOMAIN cache_map :
         cache_map'[j].value = IF j = k THEN v ELSE cache_map[j].value
  BY <1>6, <1>7, <1>9 DEF Entry
<1> QED
  BY <1>9, <1>10, <1>11, <1>12

\* The keys X make room for a new one: the victim of the policy when the cache
\* is full, and none when it is not or when it is empty.
MakesRoom(X) ==
    \/ /\ X = {}
       /\ Cardinality(DOMAIN cache_map) < max_capacity \/ DOMAIN cache_map = {}
    \/ /\ Cardinality(DOMAIN cache_map) >= max_capacity
       /\ \E w \in DOMAIN cache_map : X = {w} /\ Victim(policy, cache_map, w)

\* MakeRoom leaves M2, with the keys of X gone and D in the ring.
Roomy(X, M2, D) ==
    /\ MakesRoom(X)
    /\ DOMAIN M2 = DOMAIN cache_map \ X
    /\ \A j \in DOMAIN M2 : M2[j].value = cache_map[j].value
    /\ Entries(M2, now)
    /\ Slots(D, M2)

\* put makes room before it inserts.
LEMMA MakeRoomEffect ==
    ASSUME Safe
    PROVE  \E X, D, M2, L2, F2, V2, B2, h2 :
              /\ MakeRoom(Structures) = Rec(M2, L2, F2, V2, B2, h2)
              /\ Roomy(X, M2, D)
              /\ Kept(policy, M2, L2, F2, V2, B2, h2, D)
<1>0. /\ policy \in EvictionPolicy /\ now \in Nat
      /\ Entries(cache_map, now)
      /\ Kept(policy, cache_map, lru_order, fifo_queue, sieve_order,
              clock_buffer, clock_hand, DOMAIN cache_map)
  BY DEF Safe
<1>1. PICK s : s = Rec(cache_map, lru_order, fifo_queue, sieve_order,
                       clock_buffer, clock_hand)
  OBVIOUS
<1>2. Structures = s /\ s.cache_map = cache_map
  BY <1>1 DEF Structures, Rec
<1>3. Cardinality(DOMAIN cache_map) \in Nat /\ max_capacity \in Nat
  BY <1>0, KeptFinite, CapacityAssumption
<1>4. ASSUME MakeRoom(s) = s,
             Cardinality(DOMAIN cache_map) < max_capacity \/ DOMAIN cache_map = {}
      PROVE  \E X, D, M2, L2, F2, V2, B2, h2 :
              /\ MakeRoom(Structures) = Rec(M2, L2, F2, V2, B2, h2)
              /\ Roomy(X, M2, D)
              /\ Kept(policy, M2, L2, F2, V2, B2, h2, D)
  <2>1. Roomy({}, cache_map, DOMAIN cache_map)
    BY <1>0, <1>4 DEF Roomy, MakesRoom, Slots
  <2> QED
    BY <1>0, <1>1, <1>2, <1>4, <2>1
<1>5. CASE Cardinality(DOMAIN cache_map) < max_capacity
  <2>1. MakeRoom(s) = s
    BY <1>2, <1>3, <1>5 DEF MakeRoom
  <2> QED
    BY <1>4, <1>5, <2>1
<1>6. CASE Cardinality(DOMAIN cache_map) >= max_capacity /\ DOMAIN cache_map = {}
  <2>1. MakeRoom(s) = Evict(s)
    BY <1>2, <1>6 DEF MakeRoom
  <2>2. Evict(s) = s
    BY <1>0, <1>1, <1>6, EvictNone
  <2> QED
    BY <1>4, <1>6, <2>1, <2>2
<1>7. CASE Cardinality(DOMAIN cache_map) >= max_capacity /\ DOMAIN cache_map # {}
  <2>1. MakeRoom(s) = Evict(s)
    BY <1>2, <1>7 DEF MakeRoom
  <2>2. PICK w, M2, L2, F2, V2, B2, h2 :
          /\ Evict(s) = Rec(M2, L2, F2, V2, B2, h2)
          /\ Lost(cache_map, w, M2) /\ Entries(M2, now) /\ Victim(policy, cache_map, w)
          /\ Kept(policy, M2, L2, F2, V2, B2, h2, DOMAIN M2 \cup {EmptySlot})
    BY <1>0, <1>1, <1>7, EvictOne
  <2>3. Roomy({w}, M2, DOMAIN M2 \cup {EmptySlot})
    BY <1>7, <2>2 DEF Roomy, MakesRoom, Slots, Lost
  <2> QED
    BY <1>2, <2>1, <2>2, <2>3
<1> QED
  BY <1>3, <1>5, <1>6, <1>7

\* k inserted with value v and the entries of X evicted.
Inserted(k, v) ==
    /\ k \notin DOMAIN cache_map
    /\ \E X : /\ MakesRoom(X)
              /\ DOMAIN cache_map' = (DOMAIN cache_map \ X) \cup {k}
              /\ cache_map'[k].value = v
              /\ \A j \in DOMAIN cache_map \ X :
                    cache_map'[j].value = cache_map[j].value

\* A put of a new key.
LEMMA InsertStep ==
    ASSUME Safe, NEW k \in Keys, k \notin DOMAIN cache_map, NEW v \in Values,
           Commit(OnAdd(Insert(MakeRoom(Structures), k, v), k)),
           now' = now + 1, policy' = policy,
           hit_count' \in Nat, miss_count' \in Nat, total_requests' \in Nat
    PROVE  Safe' /\ Inserted(k, v)
<1>0. /\ policy \in EvictionPolicy /\ now \in Nat
      /\ Kept(policy, cache_map, lru_order, fifo_queue, sieve_order,
              clock_buffer, clock_hand, DOMAIN cache_map)
      /\ Cardinality(DOMAIN cache_map) <= Max({1, max_capacity})
  BY DEF Safe
<1>1. PICK X, D, M, L, F, V, B, h :
        /\ MakeRoom(Structures) = Rec(M, L, F, V, B, h)
        /\ Roomy(X, M, D)
        /\ Kept(policy, M, L, F, V, B, h, D)
  BY MakeRoomEffect
<1>2. PICK e : /\ Entry(e, v, now, now)
               /\ OnAdd(Insert(Rec(M, L, F, V, B, h), k, v), k)
                    = Rec(With(M, k, e),
                          LruWith(L, k), FifoWith(F, k), SieveWith(V, k), ClockWith(B, k), h)
  BY <1>0, AddEffect
<1>3. PICK M2 : M2 = With(M, k, e)
  OBVIOUS
<1>4. /\ cache_map' = M2
      /\ lru_order' = LruWith(L, k)
      /\ fifo_queue' = FifoWith(F, k)
      /\ sieve_order' = SieveWith(V, k)
      /\ clock_buffer' = ClockWith(B, k)
      /\ clock_hand' = h
  <2>1. Commit(Rec(M2, LruWith(L, k), FifoWith(F, k), SieveWith(V, k), ClockWith(B, k), h))
    BY <1>1, <1>2, <1>3
  <2> QED
    BY <2>1 DEF Commit, Rec
<1>5. /\ MakesRoom(X) /\ DOMAIN M = DOMAIN cache_map \ X /\ Entries(M, now)
      /\ \A j \in DOMAIN M : M[j].value = cache_map[j].value
      /\ Slots(D, M)
  BY <1>1 DEF Roomy
<1>6. /\ DOMAIN M2 = DOMAIN M \cup {k}
      /\ Entries(M2, now + 1)
      /\ Kept(policy, M2, LruWith(L, k), FifoWith(F, k), SieveWith(V, k), ClockWith(B, k),
              h, DOMAIN M2)
  <2>1. k \notin DOMAIN M
    BY <1>5
  <2>2. PICK t \in Nat : t = now
    BY <1>0
  <2>3. /\ Entry(e, v, t, t) /\ Slots(D, M) /\ Entries(M, t)
        /\ Kept(policy, M, L, F, V, B, h, D) /\ M2 = With(M, k, e)
    BY <1>1, <1>2, <1>3, <1>5, <2>2
  <2>4. DOMAIN M2 = DOMAIN M \cup {k}
    BY <2>3 DEF With
  <2>5. Entries(M2, t + 1)
    BY <2>1, <2>3, AddKeeps
  <2>6. Kept(policy, M2, LruWith(L, k), FifoWith(F, k), SieveWith(V, k), ClockWith(B, k),
             h, DOMAIN M2)
    BY <2>1, <2>3, AddKeeps
  <2> QED
    BY <2>2, <2>4, <2>5, <2>6
<1>7. Cardinality(DOMAIN M2) <= Max({1, max_capacity})
  <2>1. PICK C : C = DOMAIN cache_map
    OBVIOUS
  <2>2. IsFiniteSet(C) /\ Cardinality(C) \in Nat /\ max_capacity \in Nat
    BY <1>0, <2>1, KeptFinite, CapacityAssumption
  <2>3. Max({1, max_capacity}) = IF 1 >= max_capacity THEN 1 ELSE max_capacity
    BY <2>2, MaxOfTwo
  <2>4. IsFiniteSet(C \ X) /\ k \notin C \ X
    BY <2>1, <2>2, FS_Subset
  <2>5. Cardinality((C \ X) \cup {k}) = Cardinality(C \ X) + 1
    BY <2>4, FS_AddElement
  <2>6. CASE X = {} /\ (Cardinality(C) < max_capacity \/ C = {})
    <3>1. C \ X = C /\ Cardinality({}) = 0
      BY <2>6, FS_EmptySet
    <3> QED
      BY <1>5, <1>6, <2>1, <2>2, <2>3, <2>5, <2>6, <3>1
  <2>7. ASSUME NEW w \in C, X = {w}
        PROVE  Cardinality(DOMAIN M2) <= Max({1, max_capacity})
    <3>1. Cardinality(C \ {w}) = Cardinality(C) - 1
      BY <2>2, FS_RemoveElement
    <3>2. Cardinality((C \ X) \cup {k}) = Cardinality(C)
      BY <2>2, <2>5, <2>7, <3>1
    <3> QED
      BY <1>0, <1>5, <1>6, <2>1, <3>2
  <2> QED
    BY <1>5, <2>1, <2>6, <2>7 DEF MakesRoom
<1>8. Safe'
  <2>1. now + 1 \in Nat
    BY <1>0
  <2> QED
    BY <1>0, <1>4, <1>6, <1>7, <2>1 DEF Safe
<1>9. /\ M2[k].value = v
      /\ \A j \in DOMAIN M : M2[j].value = M[j].value
  <2>1. \A j \in DOMAIN M : j # k
    BY <1>5
  <2> QED
    BY <1>2, <1>3, <2>1 DEF With, Entry
<1>10. /\ DOMAIN cache_map' = (DOMAIN cache_map \ X) \cup {k}
       /\ cache_map'[k].value = v
       /\ \A j \in DOMAIN cache_map \ X : cache_map'[j].value = cache_map[j].value
  BY <1>4, <1>5, <1>6, <1>9
<1> QED
  BY <1>5, <1>8, <1>10 DEF Inserted

----------------------------------------------------------------------------
(* The calls.                                                              *)

\* An access to k found, or its value overwritten with v.
Found(k, v) ==
    /\ k \in DOMAIN cache_map
    /\ DOMAIN cache_map' = DOMAIN cache_map
    /\ \A j \in DOMAIN cache_map :
          cache_map'[j].value = IF j = k THEN v ELSE cache_map[j].value

\* A get that finds the key.
LEMMA GetHit ==
    ASSUME Safe, NEW k \in Keys, get(k), k \in DOMAIN cache_map
    PROVE  Safe' /\ Found(k, cache_map[k].value)
<1>0. /\ now \in Nat /\ hit_count \in Nat /\ miss_count \in Nat /\ total_requests \in Nat
      /\ Entries(cache_map, now)
  BY DEF Safe
<1>1. PICK r : r = cache_map[k]
  OBVIOUS
<1>2. PICK e : e = [r EXCEPT !.access_time = now]
  OBVIOUS
<1>3. r \in BenchmarkCacheEntry
  BY <1>0, <1>1 DEF Entries
<1>4. Entry(e, r.value, now, r.insert_time)
  BY <1>0, <1>2, <1>3 DEF Entry, BenchmarkCacheEntry
<1>5. [Structures EXCEPT !.cache_map[k].access_time = now]
        = Rec([cache_map EXCEPT ![k] = e], lru_order, fifo_queue,
              sieve_order, clock_buffer, clock_hand)
  <2>1. [Structures EXCEPT !.cache_map[k].access_time = now]
          = Rec([cache_map EXCEPT ![k].access_time = now], lru_order, fifo_queue,
                sieve_order, clock_buffer, clock_hand)
    BY DEF Structures, Rec
  <2>2. [cache_map EXCEPT ![k].access_time = now] = [cache_map EXCEPT ![k] = e]
    BY <1>1, <1>2
  <2> QED
    BY <2>1, <2>2
<1>6. /\ now' = now + 1 /\ policy' = policy
      /\ hit_count' = hit_count + 1 /\ miss_count' = miss_count
      /\ total_requests' = total_requests + 1
      /\ Commit(OnAccess([Structures EXCEPT !.cache_map[k].access_time = now], k))
  BY DEF get, Tick
<1>7. hit_count' \in Nat /\ miss_count' \in Nat /\ total_requests' \in Nat
  BY <1>0, <1>6
<1>8. PICK v : v = r.value
  OBVIOUS
<1>9. /\ Safe'
      /\ DOMAIN cache_map' = DOMAIN cache_map
      /\ \A j \in DOMAIN cache_map :
            cache_map'[j].value = IF j = k THEN v ELSE cache_map[j].value
  BY <1>1, <1>4, <1>5, <1>6, <1>7, <1>8, AccessStep
<1> QED
  BY <1>1, <1>8, <1>9 DEF Found

\* A put.
LEMMA PutStep ==
    ASSUME Safe, NEW k \in Keys, NEW v \in Values, put(k, v)
    PROVE  Safe' /\ (Found(k, v) \/ Inserted(k, v))
<1>0. /\ now \in Nat /\ hit_count \in Nat /\ miss_count \in Nat /\ total_requests \in Nat
      /\ Entries(cache_map, now)
  BY DEF Safe
<1>1. /\ now' = now + 1 /\ policy' = policy
      /\ hit_count' \in Nat /\ miss_count' \in Nat /\ total_requests' \in Nat
  BY <1>0 DEF put, Tick
<1>2. CASE k \in DOMAIN cache_map
  <2>1. PICK r : r = cache_map[k]
    OBVIOUS
  <2>2. PICK e : e = [[r EXCEPT !.value = v] EXCEPT !.access_time = now]
    OBVIOUS
  <2>3. r \in BenchmarkCacheEntry
    BY <1>0, <1>2, <2>1 DEF Entries
  <2>4. Entry(e, v, now, r.insert_time)
    BY <1>0, <2>2, <2>3 DEF Entry, BenchmarkCacheEntry
  <2>5. [Structures EXCEPT !.cache_map[k].value = v, !.cache_map[k].access_time = now]
          = Rec([cache_map EXCEPT ![k] = e], lru_order, fifo_queue,
                sieve_order, clock_buffer, clock_hand)
    <3>1. PICK M1 : M1 = [cache_map EXCEPT ![k].value = v]
      OBVIOUS
    <3>2. PICK s1 : s1 = [Structures EXCEPT !.cache_map[k].value = v]
      OBVIOUS
    <3>3. s1 = Rec(M1, lru_order, fifo_queue, sieve_order, clock_buffer, clock_hand)
      BY <3>1, <3>2 DEF Structures, Rec
    <3>4. [Structures EXCEPT !.cache_map[k].value = v, !.cache_map[k].access_time = now]
            = [s1 EXCEPT !.cache_map[k].access_time = now]
      BY <3>2
    <3>5. [s1 EXCEPT !.cache_map[k].access_time = now]
            = Rec([M1 EXCEPT ![k].access_time = now],
                  lru_order, fifo_queue, sieve_order, clock_buffer, clock_hand)
      BY <3>3 DEF Rec
    <3>6. [M1 EXCEPT ![k].access_time = now] = [cache_map EXCEPT ![k] = e]
      <4>1. M1 = [cache_map EXCEPT ![k] = [r EXCEPT !.value = v]]
        BY <2>1, <3>1
      <4> QED
        BY <1>2, <2>2, <4>1
    <3> QED
      BY <3>4, <3>5, <3>6
  <2>6. Commit(OnAccess([Structures EXCEPT !.cache_map[k].value = v,
                                           !.cache_map[k].access_time = now], k))
    BY <1>2 DEF put
  <2>7. /\ Safe'
        /\ DOMAIN cache_map' = DOMAIN cache_map
        /\ \A j \in DOMAIN cache_map :
              cache_map'[j].value = IF j = k THEN v ELSE cache_map[j].value
    BY <1>1, <1>2, <2>1, <2>4, <2>5, <2>6, AccessStep
  <2> QED
    BY <1>2, <2>7 DEF Found
<1>3. CASE k \notin DOMAIN cache_map
  <2>1. Commit(OnAdd(Insert(MakeRoom(Structures), k, v), k))
    BY <1>3 DEF put
  <2> QED
    BY <1>1, <1>3, <2>1, InsertStep
<1> QED
  BY <1>2, <1>3

\* A get that does not find its key, and a step that changes nothing.
LEMMA NothingCached ==
    ASSUME Safe, UNCHANGED <<policy, structVars>>, now' \in Nat, now <= now',
           hit_count' \in Nat, miss_count' \in Nat, total_requests' \in Nat
    PROVE  Safe'
<1>1. now \in Nat /\ Entries(cache_map, now)
  BY DEF Safe
<1>2. Entries(cache_map, now')
  <2>1. \A k \in DOMAIN cache_map : /\ cache_map[k].access_time \in Nat
                                    /\ cache_map[k].insert_time \in Nat
    BY <1>1 DEF Entries, BenchmarkCacheEntry
  <2>2. \A k \in DOMAIN cache_map : /\ cache_map[k].access_time < now'
                                    /\ cache_map[k].insert_time < now'
    BY <1>1, <2>1 DEF Entries
  <2> QED
    BY <1>1, <2>2 DEF Entries
<1> QED
  BY <1>2 DEF Safe, structVars

\* Initially the cache is empty.
LEMMA InitSafe == Init => Safe
<1> SUFFICES ASSUME Init PROVE Safe
  OBVIOUS
<1>1. /\ DOMAIN cache_map = {} /\ cache_map = << >>
      /\ lru_order = << >> /\ fifo_queue = << >> /\ sieve_order = << >>
      /\ clock_buffer = << >> /\ clock_hand = 0 /\ now = 0
      /\ policy \in EvictionPolicy
  BY DEF Init
<1>2. Entries(cache_map, now)
  BY <1>1 DEF Entries
<1>3. ListOf(<< >>, {}) /\ Len(<< >>) = 0 /\ \A e, f : ~ Before(<< >>, e, f)
  BY DEF ListOf, Before
<1>4. Kept(policy, cache_map, lru_order, fifo_queue, sieve_order,
           clock_buffer, clock_hand, DOMAIN cache_map)
  BY <1>1, <1>3 DEF Kept, Recency, Arrival, Ring
<1>5. Cardinality(DOMAIN cache_map) <= Max({1, max_capacity})
  <2>1. Cardinality(DOMAIN cache_map) = 0
    BY <1>1, FS_EmptySet
  <2>2. Max({1, max_capacity}) = IF 1 >= max_capacity THEN 1 ELSE max_capacity
    BY MaxOfTwo, CapacityAssumption
  <2> QED
    BY <2>1, <2>2, CapacityAssumption
<1> QED
  BY <1>1, <1>2, <1>4, <1>5 DEF Safe, Init

\* The steps of the cache, with what a reader needs to know of each.
LEMMA NextSafe ==
    ASSUME Safe, [Next]_vars
    PROVE  /\ Safe'
           /\ \/ UNCHANGED vars
              \/ reset_stats
              \/ \E k \in Keys : get(k) /\ k \notin DOMAIN cache_map
              \/ \E k \in Keys : get(k) /\ Found(k, cache_map[k].value)
              \/ \E k \in Keys, v \in Values : put(k, v) /\ (Found(k, v) \/ Inserted(k, v))
<1>0. now \in Nat /\ hit_count \in Nat /\ miss_count \in Nat /\ total_requests \in Nat
  BY DEF Safe
<1>1. CASE UNCHANGED vars
  BY <1>0, <1>1, NothingCached DEF vars
<1>2. CASE reset_stats
  <2>1. Safe'
    BY <1>0, <1>2, NothingCached DEF reset_stats
  <2> QED
    BY <1>2, <2>1
<1>3. ASSUME NEW k \in Keys, get(k), k \notin DOMAIN cache_map
      PROVE  Safe'
  <2>1. /\ now' = now + 1 /\ UNCHANGED <<policy, structVars>>
        /\ hit_count' = hit_count /\ miss_count' = miss_count + 1
        /\ total_requests' = total_requests + 1
    BY <1>3 DEF get, Tick
  <2> QED
    BY <1>0, <2>1, NothingCached
<1>4. ASSUME NEW k \in Keys, get(k), k \in DOMAIN cache_map
      PROVE  Safe' /\ Found(k, cache_map[k].value)
    BY <1>4, GetHit
<1>5. ASSUME NEW k \in Keys, NEW v \in Values, put(k, v)
      PROVE  Safe' /\ (Found(k, v) \/ Inserted(k, v))
  BY <1>5, PutStep
<1> QED
  BY <1>1, <1>2, <1>3, <1>4, <1>5 DEF Next

----------------------------------------------------------------------------
(* The theorems.                                                           *)

\* What the invariant says of the structures is the property of the runs.
LEMMA SafeMatches ==
    ASSUME Safe
    PROVE  StructureMatchesMap
<1>1. policy \in EvictionPolicy
  BY DEF Safe
<1>2. ASSUME NEW K, NEW D, ListOf(K, D)
      PROVE  Lists(K, D)
  <2>1. K \in Seq(D) /\ DOMAIN K = 1..Len(K)
    BY <1>2 DEF ListOf
  <2>2. ToSet(K) = D
    BY <1>2, <2>1 DEF ToSet, ListOf
  <2>3. IsInjective(K)
    BY <1>2, <2>1 DEF IsInjective, ListOf
  <2> QED
    BY <2>2, <2>3 DEF Lists
<1>3. CASE policy = "LRU"
  <2>1. ListOf(lru_order, DOMAIN cache_map)
    BY <1>3 DEF Safe, Kept, Recency
  <2> QED
    BY <1>2, <1>3, <2>1 DEF StructureMatchesMap
<1>4. CASE policy = "FIFO"
  <2>1. ListOf(fifo_queue, DOMAIN cache_map)
    BY <1>4 DEF Safe, Kept, Arrival
  <2> QED
    BY <1>2, <1>4, <2>1 DEF StructureMatchesMap
<1>5. CASE policy = "SIEVE"
  <2>1. ListOf(sieve_order, DOMAIN cache_map)
    BY <1>5 DEF Safe, Kept
  <2> QED
    BY <1>2, <1>5, <2>1 DEF StructureMatchesMap
<1>6. CASE policy = "CLOCK"
  <2>1. ListOf(clock_buffer, DOMAIN cache_map)
    BY <1>6 DEF Safe, Kept, Ring
  <2> QED
    BY <1>2, <1>6, <2>1 DEF StructureMatchesMap
<1> QED
  BY <1>1, <1>3, <1>4, <1>5, <1>6 DEF EvictionPolicy

\* So are the bounds.
LEMMA SafeBounds ==
    ASSUME Safe
    PROVE  SizeBounded
<1>1. /\ policy \in EvictionPolicy
      /\ Kept(policy, cache_map, lru_order, fifo_queue, sieve_order,
              clock_buffer, clock_hand, DOMAIN cache_map)
      /\ Cardinality(DOMAIN cache_map) <= Max({1, max_capacity})
  BY DEF Safe
<1>2. /\ Cardinality(DOMAIN cache_map) \in Nat
      /\ Len(clock_buffer) <= Cardinality(DOMAIN cache_map)
  BY <1>1, KeptFinite
<1>3. PICK m : m = Max({1, max_capacity})
  OBVIOUS
<1>4. m \in Nat
  BY <1>3, MaxOfTwo, CapacityAssumption
<1>5. Len(clock_buffer) \in Nat
  BY <1>1 DEF Kept, Ring, ListOf
<1>6. Len(clock_buffer) <= m
  BY <1>1, <1>2, <1>3, <1>4, <1>5
<1> QED
  BY <1>1, <1>3, <1>6 DEF SizeBounded

\* And the types.
LEMMA SafeTypes ==
    ASSUME Safe, value \in Values \cup {NoValue}
    PROVE  TypeOK
<1>1. /\ policy \in EvictionPolicy
      /\ Entries(cache_map, now)
      /\ Kept(policy, cache_map, lru_order, fifo_queue, sieve_order,
              clock_buffer, clock_hand, DOMAIN cache_map)
  BY DEF Safe
<1>2. \E K \in SUBSET Keys : cache_map \in [K -> BenchmarkCacheEntry]
  BY <1>1 DEF Entries
<1>3. << >> \in Seq(Keys) /\ << >> \in Seq(Keys \cup {EmptySlot})
  OBVIOUS
<1>4. ASSUME NEW K, K \in Seq(DOMAIN cache_map)
      PROVE  K \in Seq(Keys) /\ K \in Seq(Keys \cup {EmptySlot})
  <2>1. \A i \in 1..Len(K) : K[i] \in Keys
    BY <1>1, <1>4 DEF Entries
  <2> QED
    BY <1>4, <2>1
<1>5. lru_order \in Seq(Keys)
  BY <1>1, <1>3, <1>4 DEF Kept, Recency, ListOf
<1>6. fifo_queue \in Seq(Keys)
  BY <1>1, <1>3, <1>4 DEF Kept, Arrival, ListOf
<1>7. sieve_order \in Seq(Keys)
  BY <1>1, <1>3, <1>4 DEF Kept, ListOf
<1>8. clock_buffer \in Seq(Keys \cup {EmptySlot})
  BY <1>1, <1>3, <1>4 DEF Kept, Ring, ListOf
<1>9. clock_hand \in 0 .. Max({0, Len(clock_buffer) - 1})
  <2>1. PICK n \in Nat : n = Len(clock_buffer)
    BY <1>8
  <2>2. clock_hand \in Nat /\ (clock_hand < n \/ clock_hand = 0)
    BY <1>1, <2>1 DEF Kept, Ring
  <2>3. n - 1 \in Int /\ Max({0, n - 1}) = IF 0 >= n - 1 THEN 0 ELSE n - 1
    <3>1. PICK m \in Int : m = n - 1
      OBVIOUS
    <3>2. Max({0, m}) = IF 0 >= m THEN 0 ELSE m
      BY MaxOfTwo
    <3> QED
      BY <3>1, <3>2
  <2>4. clock_hand \in 0 .. (IF 0 >= n - 1 THEN 0 ELSE n - 1)
    BY <2>2
  <2> QED
    BY <2>1, <2>3, <2>4
<1> QED
  BY <1>1, <1>2, <1>5, <1>6, <1>7, <1>8, <1>9 DEF TypeOK, Safe

\* The structures of the policies stay in step with the map, call by call.
THEOREM CacheSafe == Spec => []Safe
<1>1. Safe /\ [Next]_vars => Safe'
  BY NextSafe
<1> QED
  BY InitSafe, <1>1, PTL DEF Spec

\* The members of the cache keep their types: in particular the hand of CLOCK
\* never leaves the ring (benchmark_cache.cpp:227).
THEOREM CacheTypes == Spec => []TypeOK
<1> DEFINE ValueType == value \in Values \cup {NoValue}
<1>1. Init => ValueType
  BY DEF Init
<1>2. ASSUME Safe, ValueType, [Next]_vars
      PROVE  ValueType'
  <2>1. \A k \in DOMAIN cache_map : cache_map[k].value \in Values
    BY <1>2 DEF Safe, Entries, BenchmarkCacheEntry
  <2>2. ASSUME NEW k \in Keys, get(k)
        PROVE  ValueType'
    BY <2>1, <2>2 DEF get
  <2>3. ASSUME NEW k \in Keys, NEW v \in Values, put(k, v)
        PROVE  ValueType'
    BY <2>3 DEF put
  <2>4. reset_stats \/ UNCHANGED vars => ValueType'
    BY <1>2 DEF reset_stats, vars
  <2> QED
    BY <1>2, <2>2, <2>3, <2>4 DEF Next
<1>3. Safe /\ ValueType => TypeOK
  BY SafeTypes
<1> HIDE DEF ValueType
<1> QED
  BY <1>1, <1>2, <1>3, CacheSafe, PTL DEF Spec

\* For each policy, what eviction takes out of the map it takes out of the
\* policy's structure, so no key is stranded in either.
THEOREM StructureExact == Spec => []StructureMatchesMap
<1>1. Safe => StructureMatchesMap
  BY SafeMatches
<1> QED
  BY CacheSafe, <1>1, PTL

\* The map and the ring of CLOCK stay within the capacity, whatever it is.
THEOREM CapacityKept == Spec => []SizeBounded
<1>1. Safe => SizeBounded
  BY SafeBounds
<1> QED
  BY CacheSafe, <1>1, PTL

\* Each policy evicts the entry it stands for.
THEOREM PolicyFollowed == Spec => EvictionFollowsPolicy
<1>1. ASSUME NEW w, Victim(policy, cache_map, w), policy \in EvictionPolicy
      PROVE  RightVictim(w)
  BY <1>1 DEF Victim, RightVictim, EvictionPolicy
<1>2. ASSUME Safe, [Next]_vars
      PROVE  \A e \in DOMAIN cache_map \ DOMAIN cache_map' : RightVictim(e)
  <2>1. policy \in EvictionPolicy
    BY <1>2 DEF Safe
  <2>2. \/ UNCHANGED vars
        \/ reset_stats
        \/ \E k \in Keys : get(k) /\ k \notin DOMAIN cache_map
        \/ \E k \in Keys : get(k) /\ Found(k, cache_map[k].value)
        \/ \E k \in Keys, v \in Values : put(k, v) /\ (Found(k, v) \/ Inserted(k, v))
    BY <1>2, NextSafe
  <2>3. CASE cache_map' = cache_map
    BY <2>3
  <2>4. UNCHANGED vars \/ reset_stats => cache_map' = cache_map
    BY DEF vars, structVars, reset_stats
  <2>5. ASSUME NEW k \in Keys, get(k), k \notin DOMAIN cache_map
        PROVE  cache_map' = cache_map
    BY <2>5 DEF get, structVars
  <2>6. ASSUME NEW k, NEW v, Found(k, v)
        PROVE  \A e \in DOMAIN cache_map \ DOMAIN cache_map' : RightVictim(e)
    BY <2>6 DEF Found
  <2>7. ASSUME NEW k, NEW v, Inserted(k, v)
        PROVE  \A e \in DOMAIN cache_map \ DOMAIN cache_map' : RightVictim(e)
    <3>1. PICK X : MakesRoom(X) /\ DOMAIN cache_map' = (DOMAIN cache_map \ X) \cup {k}
      BY <2>7 DEF Inserted
    <3>2. \A e \in X : RightVictim(e)
      BY <1>1, <2>1, <3>1 DEF MakesRoom
    <3> QED
      BY <3>1, <3>2
  <2> QED
    BY <2>2, <2>3, <2>4, <2>5, <2>6, <2>7
<1>3. Safe /\ [Next]_vars
        => [\A e \in DOMAIN cache_map \ DOMAIN cache_map' : RightVictim(e)]_vars
  BY <1>2
<1> QED
  BY CacheSafe, <1>3, PTL DEF Spec, EvictionFollowsPolicy

\* An entry found and read or overwritten, seen as a map of values.
LEMMA FoundContents ==
    ASSUME NEW k, NEW v, Found(k, v)
    PROVE  /\ k \in DOMAIN Contents
           /\ Contents' = [Contents EXCEPT ![k] = v]
           /\ v = cache_map[k].value => Contents' = Contents
<1>1. PICK C : C = Contents
  OBVIOUS
<1>2. PICK C2 : C2 = Contents'
  OBVIOUS
<1>3. /\ C = [j \in DOMAIN cache_map |-> cache_map[j].value]
      /\ C2 = [j \in DOMAIN cache_map' |-> cache_map'[j].value]
  BY <1>1, <1>2 DEF Contents
<1>4. C2 = [j \in DOMAIN cache_map |-> IF j = k THEN v ELSE cache_map[j].value]
  BY <1>3 DEF Found
<1>5. k \in DOMAIN C
  BY <1>3 DEF Found
<1>6. C2 = [C EXCEPT ![k] = v]
  BY <1>3, <1>4
<1>7. v = cache_map[k].value => C2 = C
  BY <1>3, <1>4
<1> QED
  BY <1>1, <1>2, <1>5, <1>6, <1>7

\* An entry inserted, and one dropped if the map was full.
LEMMA InsertedContents ==
    ASSUME Safe, NEW k, NEW v, Inserted(k, v)
    PROVE  /\ k \notin DOMAIN Contents
           /\ \E map \in BC!AfterEviction : Contents' = BC!Bind(map, k, v)
<1>1. PICK C : C = Contents
  OBVIOUS
<1>2. PICK C2 : C2 = Contents'
  OBVIOUS
<1>3. /\ C = [j \in DOMAIN cache_map |-> cache_map[j].value]
      /\ C2 = [j \in DOMAIN cache_map' |-> cache_map'[j].value]
  BY <1>1, <1>2 DEF Contents
<1>4. DOMAIN C = DOMAIN cache_map /\ k \notin DOMAIN C
  BY <1>3 DEF Inserted
<1>5. PICK X : /\ MakesRoom(X)
               /\ DOMAIN cache_map' = (DOMAIN cache_map \ X) \cup {k}
               /\ cache_map'[k].value = v
               /\ \A j \in DOMAIN cache_map \ X : cache_map'[j].value = cache_map[j].value
  BY DEF Inserted
<1>6. PICK map : map = [j \in DOMAIN C \ X |-> C[j]]
  OBVIOUS
<1>7. C2 = BC!Bind(map, k, v)
  <2>1. DOMAIN map = DOMAIN C \ X /\ \A j \in DOMAIN C \ X : map[j] = C[j]
    BY <1>6
  <2>2. C2 = [j \in (DOMAIN C \ X) \cup {k} |-> IF j = k THEN v ELSE map[j]]
    <3>1. DOMAIN cache_map' = (DOMAIN C \ X) \cup {k}
      BY <1>4, <1>5
    <3>2. ASSUME NEW j \in (DOMAIN C \ X) \cup {k}
          PROVE  cache_map'[j].value = IF j = k THEN v ELSE map[j]
      BY <1>3, <1>4, <1>5, <2>1
    <3> QED
      BY <1>3, <3>1, <3>2
  <2> QED
    BY <2>1, <2>2 DEF BC!Bind
<1>8. Cardinality(DOMAIN cache_map) \in Nat /\ max_capacity \in Nat
  <2>1. /\ policy \in EvictionPolicy
        /\ Kept(policy, cache_map, lru_order, fifo_queue, sieve_order,
                clock_buffer, clock_hand, DOMAIN cache_map)
    BY DEF Safe
  <2> QED
    BY <2>1, KeptFinite, CapacityAssumption
<1>9. BC!AfterEviction =
        IF Cardinality(DOMAIN C) >= max_capacity /\ C # << >>
          THEN {BC!Restrict(C, DOMAIN C \ {w}) : w \in DOMAIN C}
          ELSE {C}
  <2>1. BC!Cardinality(DOMAIN C) = Cardinality(DOMAIN C)
    BY DEF BC!Cardinality, Cardinality
  <2> QED
    BY <1>1, <2>1 DEF BC!AfterEviction
<1>10. C = << >> <=> DOMAIN C = {}
  BY <1>3, <1>4
<1>11. CASE X = {} /\ (Cardinality(DOMAIN C) < max_capacity \/ DOMAIN C = {})
  <2>1. map = C
    BY <1>3, <1>4, <1>6, <1>11
  <2>2. BC!AfterEviction = {C}
    BY <1>4, <1>8, <1>9, <1>10, <1>11
  <2> QED
    BY <1>1, <1>2, <1>4, <1>7, <2>1, <2>2
<1>12. ASSUME NEW w \in DOMAIN C, X = {w}, Cardinality(DOMAIN C) >= max_capacity
       PROVE  map \in BC!AfterEviction
  <2>1. BC!AfterEviction = {BC!Restrict(C, DOMAIN C \ {x}) : x \in DOMAIN C}
    BY <1>9, <1>10, <1>12
  <2>2. map = BC!Restrict(C, DOMAIN C \ {w})
    BY <1>6, <1>12 DEF BC!Restrict
  <2> QED
    BY <2>1, <2>2
<1> QED
  BY <1>1, <1>2, <1>4, <1>5, <1>7, <1>11, <1>12 DEF MakesRoom

\* Every call is a step of the bounded cache.
LEMMA RefinementNext ==
    ASSUME Safe, [Next]_vars
    PROVE  [BC!CallNext]_(BC!callVars)
<1>1. \/ UNCHANGED vars
      \/ reset_stats
      \/ \E k \in Keys : get(k) /\ k \notin DOMAIN cache_map
      \/ \E k \in Keys : get(k) /\ Found(k, cache_map[k].value)
      \/ \E k \in Keys, v \in Values : put(k, v) /\ (Found(k, v) \/ Inserted(k, v))
  BY NextSafe
<1>2. cache_map' = cache_map => Contents' = Contents
  BY DEF Contents
<1>3. DOMAIN Contents = DOMAIN cache_map
  BY DEF Contents
<1>4. CASE UNCHANGED vars
  BY <1>2, <1>4 DEF vars, structVars, BC!callVars, BC!cacheVars
<1>5. CASE reset_stats
  <2>1. BC!ResetStats
    BY <1>2, <1>5 DEF reset_stats, structVars, BC!ResetStats
  <2> QED
    BY <1>5, <2>1 DEF reset_stats, BC!ResetCall, BC!CallNext
<1>6. ASSUME NEW k \in Keys, get(k), k \notin DOMAIN cache_map
      PROVE  BC!CallNext
  <2>1. BC!Miss(k)
    BY <1>2, <1>3, <1>6 DEF get, structVars, BC!Miss
  <2>2. value' = NoValue
    BY <1>6 DEF get
  <2> QED
    BY <2>1, <2>2 DEF BC!GetMiss, BC!CallNext
<1>7. ASSUME NEW k \in Keys, get(k), Found(k, cache_map[k].value)
      PROVE  BC!CallNext
  <2>1. k \in DOMAIN Contents /\ Contents' = Contents
    BY <1>7, FoundContents
  <2>2. BC!Hit(k)
    BY <1>3, <1>7, <2>1 DEF get, BC!Hit
  <2>3. value' = Contents[k]
    BY <1>3, <1>7, <2>1 DEF get, Contents
  <2> QED
    BY <2>2, <2>3 DEF BC!GetHit, BC!CallNext
<1>8. ASSUME NEW k \in Keys, NEW v \in Values, put(k, v), Found(k, v)
      PROVE  BC!CallNext
  <2>1. k \in DOMAIN Contents /\ Contents' = [Contents EXCEPT ![k] = v]
    BY <1>8, FoundContents
  <2>2. BC!Put(k, v)
    BY <1>8, <2>1 DEF put, BC!Put
  <2>3. value' = NoValue
    BY <1>8 DEF put
  <2> QED
    BY <2>2, <2>3 DEF BC!PutCall, BC!CallNext
<1>9. ASSUME NEW k \in Keys, NEW v \in Values, put(k, v), Inserted(k, v)
      PROVE  BC!CallNext
  <2>1. /\ k \notin DOMAIN Contents
        /\ \E map \in BC!AfterEviction : Contents' = BC!Bind(map, k, v)
    BY <1>9, InsertedContents
  <2>2. BC!Put(k, v)
    BY <1>9, <2>1 DEF put, BC!Put
  <2>3. value' = NoValue
    BY <1>9 DEF put
  <2> QED
    BY <2>2, <2>3 DEF BC!PutCall, BC!CallNext
<1> QED
  BY <1>1, <1>4, <1>5, <1>6, <1>7, <1>8, <1>9

\* Whatever the policy, BenchmarkCache is a map that drops one entry when it is
\* full, with the counters BenchmarkServer relies on.
THEOREM Refinement == Spec => RefinesBoundedCache
<1>1. Init => BC!CallInit
  <2> SUFFICES ASSUME Init PROVE BC!CallInit
    OBVIOUS
  <2>1. DOMAIN cache_map = {}
    BY DEF Init
  <2>2. Contents = << >>
    BY <2>1 DEF Contents
  <2> QED
    BY <2>2 DEF Init, BC!Init, BC!CallInit
<1>2. Safe /\ [Next]_vars => [BC!CallNext]_(BC!callVars)
  BY RefinementNext
<1> QED
  BY <1>1, <1>2, CacheSafe, PTL DEF Spec, RefinesBoundedCache, BC!CallSpec
=============================================================================
