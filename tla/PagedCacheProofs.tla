-------------------------- MODULE PagedCacheProofs --------------------------
(***************************************************************************)
(* Page accounting of PagedCache, the exactness and order of its recency   *)
(* list, that it implements KVCache, and which entries it evicts and when  *)
(* it refuses, proved for every number of pages, keys, clients and values. *)
(*                                                                         *)
(* The helpers of PagedCache work on the record CacheState.  Cells(s, B,   *)
(* F, M, L) names the four fields of such a record, and a lemma per helper *)
(* says what it does to them; the proof of a step then only reasons about  *)
(* sets of pages and a map.                                                *)
(***************************************************************************)
EXTENDS PagedCache, OrderLemmas, SequenceTheorems

Cells(s, B, F, M, L) ==
    /\ DOMAIN s = {"page_bitmap", "free_list", "cache_map", "lru_order"}
    /\ s.page_bitmap = B
    /\ s.free_list = F
    /\ s.cache_map = M
    /\ s.lru_order = L

\* The maps from some of the keys to entries.
EntryMaps == UNION {[K -> CacheEntry] : K \in SUBSET Keys}

\* The pages of the entries of the keys in X.
PagesOfKeys(M, X) == UNION {M[k].memory_blocks : k \in X}

----------------------------------------------------------------------------
\* Every set of pages is finite.
LEMMA PagesFinite ==
    ASSUME NEW F \in SUBSET Page
    PROVE  F \in SUBSET Int /\ IsFiniteSet(F) /\ Cardinality(F) \in Nat
<1>1. TOTAL_PAGES - 1 \in Int
  BY TotalPagesAssumption
<1> QED
  BY <1>1, UpToFinite DEF Page

\* allocate_pages_linked takes exactly as many pages as it was asked for when
\* the free list has them.
LEMMA LowestPagesSize ==
    ASSUME NEW S \in SUBSET Int, IsFiniteSet(S), NEW n \in 0 .. Cardinality(S)
    PROVE  /\ LowestPages(S, n) \subseteq S
           /\ IsFiniteSet(LowestPages(S, n))
           /\ Cardinality(LowestPages(S, n)) = n
<1> DEFINE C == Cardinality(S)
           L == LowestPages(S, n)
           f == [p \in L |-> Rank(S)[p]]
<1>0. C \in Nat /\ n \in Nat /\ n <= C
  BY FS_CardinalityType
<1>1. L \subseteq S /\ \A p \in S : p \in L <=> Rank(S)[p] < n
  BY DEF LowestPages, Rank, Below
<1>2. IsFiniteSet(L)
  BY <1>1, FS_Subset
<1>3. /\ Rank(S) \in [S -> 0 .. C - 1]
      /\ \A p, q \in S : Rank(S)[p] = Rank(S)[q] => p = q
      /\ \A i \in 0 .. C - 1 : \E p \in S : Rank(S)[p] = i
  BY RankBijection DEF Injection, Surjection, IsInjective
<1>4. f \in Bijection(L, 0 .. n - 1)
  <2>1. f \in [L -> 0 .. n - 1]
    <3>1. ASSUME NEW p \in L
          PROVE  Rank(S)[p] \in 0 .. n - 1
      <4>1. p \in S /\ Rank(S)[p] < n
        BY <1>1
      <4>2. Rank(S)[p] \in 0 .. C - 1
        BY <1>3, <4>1
      <4> QED
        BY <1>0, <4>1, <4>2
    <3> QED
      BY <3>1
  <2>2. \A p, q \in L : f[p] = f[q] => p = q
    BY <1>1, <1>3
  <2>3. \A i \in 0 .. n - 1 : \E p \in L : f[p] = i
    BY <1>0, <1>1, <1>3
  <2> HIDE DEF f
  <2> QED
    BY <2>1, <2>2, <2>3 DEF Bijection, Injection, Surjection, IsInjective
<1>5. ExistsBijection(L, 0 .. n - 1)
  BY <1>4 DEF ExistsBijection
<1>6. Cardinality(0 .. n - 1) = Cardinality(L)
  BY <1>2, <1>5, FS_Bijection
<1>7. Cardinality(0 .. n - 1) = n
  <2>1. 0 \in Int /\ n - 1 \in Int
    BY <1>0
  <2>2. Cardinality(0 .. n - 1) = IF 0 > n - 1 THEN 0 ELSE n - 1 - 0 + 1
    BY <2>1, FS_Interval
  <2> QED
    BY <1>0, <2>2
<1> QED
  BY <1>1, <1>2, <1>6, <1>7

\* deallocate_pages_linked clears the bits and extends the free list.
LEMMA DeallocateCells ==
    ASSUME NEW s, NEW B, NEW F, NEW M, NEW L, NEW X, Cells(s, B, F, M, L)
    PROVE  Cells(deallocate_pages_linked(s, X), B \ X, F \cup X, M, L)
  BY DEF deallocate_pages_linked, Cells

\* The pages allocate_pages_linked takes get their bits set and leave the
\* free list.
LEMMA TakeCells ==
    ASSUME NEW s, NEW B, NEW F, NEW M, NEW L, NEW X, Cells(s, B, F, M, L)
    PROVE  Cells(TakePages(s, X), B \cup X, F \ X, M, L)
  BY DEF TakePages, Cells

\* allocate_pages_linked either hands out n pages of the free list, or hands
\* out nothing and leaves the memory as it was.
LEMMA AllocateCells ==
    ASSUME NEW s, NEW B, NEW F \in SUBSET Page, NEW M, NEW L, NEW n \in Nat,
           Cells(s, B, F, M, L), B \cap F = {}
    PROVE  LET got == allocate_pages_linked(s, n)
           IN  /\ got.blocks \subseteq F
               /\ Cells(got.mem, B \cup got.blocks, F \ got.blocks, M, L)
               /\ got.blocks # {} => n > 0 /\ Cardinality(got.blocks) = n
               /\ n > 0 /\ n <= Cardinality(F) => got.blocks # {}
<1> DEFINE got   == allocate_pages_linked(s, n)
           taken == LowestPages(F, n)
           after == TakePages(s, taken)
<1>0. F \in SUBSET Int /\ IsFiniteSet(F) /\ Cardinality(F) \in Nat
  BY PagesFinite
<1>1. taken \subseteq F /\ s.free_list = F
  BY DEF LowestPages, Cells
<1>2. Cells(after, B \cup taken, F \ taken, M, L)
  BY TakeCells
<1>3. CASE n <= Cardinality(F)
  <2>1. got.blocks = taken /\ got.mem = after
    BY <1>1, <1>3 DEF allocate_pages_linked
  <2>2. IsFiniteSet(taken) /\ Cardinality(taken) = n
    BY <1>0, <1>3, LowestPagesSize
  <2>3. taken # {} <=> n > 0
    BY <2>2, FS_EmptySet
  <2> HIDE DEF got, taken, after
  <2>4. Cells(got.mem, B \cup got.blocks, F \ got.blocks, M, L)
    BY <1>2, <2>1
  <2>5. /\ got.blocks \subseteq F
        /\ got.blocks # {} => n > 0 /\ Cardinality(got.blocks) = n
        /\ n > 0 /\ n <= Cardinality(F) => got.blocks # {}
    BY <1>1, <2>1, <2>2, <2>3
  <2> QED
    BY <2>4, <2>5 DEF got
<1>4. CASE ~ (n <= Cardinality(F))
  <2>1. got.blocks = {} /\ got.mem = deallocate_pages_linked(after, taken)
    BY <1>1, <1>4 DEF allocate_pages_linked, NullBlocks
  <2> HIDE DEF got, taken, after
  <2>2. Cells(got.mem, (B \cup taken) \ taken, (F \ taken) \cup taken, M, L)
    BY <1>2, <2>1, DeallocateCells
  <2>3. /\ (B \cup taken) \ taken = B \cup got.blocks
        /\ (F \ taken) \cup taken = F \ got.blocks
    BY <1>1, <2>1
  <2>4. Cells(got.mem, B \cup got.blocks, F \ got.blocks, M, L)
    BY <2>2, <2>3
  <2> QED
    BY <1>0, <1>4, <2>1, <2>4 DEF got
<1> QED
  BY <1>3, <1>4

----------------------------------------------------------------------------
\* Keys whose entries client c may evict.
Foreign(M, c) == {k \in DOMAIN M : M[k].client_id # c}

\* Evicting the keys of X frees their pages and drops their entries.
LEMMA EvictKeysCells ==
    ASSUME NEW s, NEW B, NEW F, NEW M, NEW L, NEW X, Cells(s, B, F, M, L)
    PROVE  Cells(EvictKeys(s, X), B \ PagesOfKeys(M, X), F \cup PagesOfKeys(M, X),
                 Restrict(M, DOMAIN M \ X), Without(L, X))
<1> DEFINE P == PagesOfKeys(M, X)
           d == deallocate_pages_linked(s, P)
<1>1. UNION {s.cache_map[k].memory_blocks : k \in X} = P
  BY DEF Cells, PagesOfKeys
<1>2. s.cache_map = M /\ s.lru_order = L
  BY DEF Cells
<1>3. EvictKeys(s, X) = [d EXCEPT !.cache_map = Restrict(M, DOMAIN M \ X),
                                  !.lru_order = Without(L, X)]
  BY <1>1, <1>2 DEF EvictKeys
<1>4. Cells(d, B \ P, F \cup P, M, L)
  BY DeallocateCells
<1> HIDE DEF P, d
<1> QED
  BY <1>3, <1>4 DEF Cells, P

\* What is left of the recency list when the entries of X go: the loop does
\* not run at all, or takes them out.
Shorter(L, X) == IF X = {} THEN {L, Without(L, X)} ELSE {Without(L, X)}

\* mem is the record after some entries of other clients than c, or none, were
\* evicted.
EvictedFrom(mem, B, F, M, L, c) ==
    \E X \in SUBSET Foreign(M, c) : \E K \in Shorter(L, X) :
       Cells(mem, B \ PagesOfKeys(M, X), F \cup PagesOfKeys(M, X),
             Restrict(M, DOMAIN M \ X), K)

\* evict_lru_if_needed evicts some entries of other clients, or none.
LEMMA EvictCells ==
    ASSUME NEW s, NEW B, NEW F, NEW M \in EntryMaps, NEW L, NEW n, NEW c,
           Cells(s, B, F, M, L)
    PROVE  EvictedFrom(evict_lru_if_needed(s, n, c).mem, B, F, M, L, c)
<1> DEFINE out == evict_lru_if_needed(s, n, c)
           free == n - get_free_pages(s)
           V == VictimPositions(s, c, free)
           X == {s.lru_order[i] : i \in V}
<1>1. CASE free <= 0
  <2>1. out.mem = s
    BY <1>1 DEF evict_lru_if_needed
  <2>2. PagesOfKeys(M, {}) = {} /\ Restrict(M, DOMAIN M \ {}) = M
    BY DEF PagesOfKeys, Restrict, EntryMaps
  <2>3. B \ {} = B /\ F \cup {} = F
    OBVIOUS
  <2>4. Cells(out.mem, B \ PagesOfKeys(M, {}), F \cup PagesOfKeys(M, {}),
              Restrict(M, DOMAIN M \ {}), L)
    BY <2>1, <2>2, <2>3
  <2> HIDE DEF out
  <2> QED
    BY <2>4 DEF EvictedFrom, Shorter, out
<1>2. CASE ~ (free <= 0)
  <2>1. out.mem = EvictKeys(s, X)
    BY <1>2 DEF evict_lru_if_needed
  <2>2. X \subseteq Foreign(M, c)
    BY DEF VictimPositions, EvictablePositions, Foreign, Cells
  <2> HIDE DEF X, out
  <2>3. Cells(out.mem, B \ PagesOfKeys(M, X), F \cup PagesOfKeys(M, X),
              Restrict(M, DOMAIN M \ X), Without(L, X))
    BY <2>1, EvictKeysCells
  <2> QED
    BY <2>2, <2>3 DEF EvictedFrom, Shorter, out
<1> QED
  BY <1>1, <1>2

\* What ObtainPages may return: after evicting the keys of X, either no page,
\* or n pages of the free list.
Obtained(got, B, F, M, K, n, X) ==
    LET P == PagesOfKeys(M, X)
    IN  /\ got.blocks \subseteq F \cup P
        /\ Cells(got.mem, (B \ P) \cup got.blocks, (F \cup P) \ got.blocks,
                 Restrict(M, DOMAIN M \ X), K)
        /\ got.blocks # {} => n > 0 /\ Cardinality(got.blocks) = n

\* The pages of cached entries are pages of the memory.
LEMMA PagesOfKeysType ==
    ASSUME NEW M \in EntryMaps, NEW X \in SUBSET DOMAIN M
    PROVE  PagesOfKeys(M, X) \in SUBSET Page
  BY DEF PagesOfKeys, EntryMaps, CacheEntry

\* Allocating, and if need be evicting and allocating again, drops the entries
\* of some other clients' keys X and hands out free pages or pages of X.
LEMMA ObtainCells ==
    ASSUME NEW s, NEW B, NEW F \in SUBSET Page, NEW M \in EntryMaps, NEW L,
           NEW n \in Nat, NEW c, Cells(s, B, F, M, L), B \cap F = {}
    PROVE  \E X \in SUBSET Foreign(M, c) : \E K \in Shorter(L, X) :
              Obtained(ObtainPages(s, n, c), B, F, M, K, n, X)
<1> DEFINE first == allocate_pages_linked(s, n)
           evict == evict_lru_if_needed(first.mem, n, c)
           again == allocate_pages_linked(evict.mem, n)
           got   == ObtainPages(s, n, c)
<1>0. /\ PagesOfKeys(M, {}) = {}
      /\ Restrict(M, DOMAIN M \ {}) = M
      /\ B \ {} = B
      /\ F \cup {} = F
  BY DEF PagesOfKeys, Restrict, EntryMaps
<1>1. /\ first.blocks \subseteq F
      /\ Cells(first.mem, B \cup first.blocks, F \ first.blocks, M, L)
      /\ first.blocks # {} => n > 0 /\ Cardinality(first.blocks) = n
  BY AllocateCells
<1>2. CASE first.blocks # NullBlocks
  <2>1. got = first
    BY <1>2 DEF ObtainPages
  <2> HIDE DEF first, got
  <2>2. Obtained(got, B, F, M, L, n, {})
    BY <1>0, <1>1, <2>1 DEF Obtained
  <2> QED
    BY <2>2 DEF got, Shorter
<1>3. CASE first.blocks = NullBlocks
  <2>1. Cells(first.mem, B, F, M, L)
    BY <1>1, <1>3 DEF NullBlocks
  <2>2. PICK X \in SUBSET Foreign(M, c) : \E K \in Shorter(L, X) :
              Cells(evict.mem, B \ PagesOfKeys(M, X), F \cup PagesOfKeys(M, X),
                    Restrict(M, DOMAIN M \ X), K)
    <3> HIDE DEF first
    <3>1. EvictedFrom(evict.mem, B, F, M, L, c)
      BY <2>1, EvictCells
    <3> HIDE DEF evict
    <3> QED
      BY <3>1 DEF EvictedFrom
  <2>3. PICK K \in Shorter(L, X) :
              Cells(evict.mem, B \ PagesOfKeys(M, X), F \cup PagesOfKeys(M, X),
                    Restrict(M, DOMAIN M \ X), K)
    BY <2>2
  <2> DEFINE P == PagesOfKeys(M, X)
  <2>4. P \in SUBSET Page
    BY PagesOfKeysType DEF Foreign
  <2>5. F \cup P \in SUBSET Page /\ (B \ P) \cap (F \cup P) = {}
    BY <2>4
  <2>6. /\ again.blocks \subseteq F \cup P
        /\ Cells(again.mem, (B \ P) \cup again.blocks, (F \cup P) \ again.blocks,
                 Restrict(M, DOMAIN M \ X), K)
        /\ again.blocks # {} => n > 0 /\ Cardinality(again.blocks) = n
    <3>1. PICK mem, B1, F1, N :
             /\ mem = evict.mem /\ B1 = B \ P /\ F1 = F \cup P
             /\ N = Restrict(M, DOMAIN M \ X)
      OBVIOUS
    <3>2. Cells(mem, B1, F1, N, K) /\ B1 \cap F1 = {} /\ F1 \in SUBSET Page
          /\ again = allocate_pages_linked(mem, n)
      BY <2>3, <2>5, <3>1
    <3> HIDE DEF P, evict, again
    <3>3. /\ again.blocks \subseteq F1
          /\ Cells(again.mem, B1 \cup again.blocks, F1 \ again.blocks, N, K)
          /\ again.blocks # {} => n > 0 /\ Cardinality(again.blocks) = n
      BY <3>2, AllocateCells
    <3> QED
      BY <3>1, <3>3
  <2>7. \/ got = again
        \/ got.mem = evict.mem /\ got.blocks = {}
    BY <1>3 DEF ObtainPages, NullBlocks
  <2>8. CASE got = again
    BY <2>6, <2>8 DEF Obtained
  <2>9. CASE got.mem = evict.mem /\ got.blocks = {}
    <3> HIDE DEF got, evict
    <3>1. (B \ P) \cup {} = B \ P /\ (F \cup P) \ {} = F \cup P
      OBVIOUS
    <3>2. Obtained(got, B, F, M, K, n, X)
      BY <2>3, <2>9, <3>1 DEF Obtained
    <3> QED
      BY <3>2 DEF got
  <2> QED
    BY <2>7, <2>8, <2>9
<1> QED
  BY <1>2, <1>3

\* Dropping keys from a map of entries leaves the other entries alone.
LEMMA RestrictMap ==
    ASSUME NEW M \in EntryMaps, NEW X
    PROVE  /\ DOMAIN Restrict(M, DOMAIN M \ X) = DOMAIN M \ X
           /\ \A j \in DOMAIN M \ X : Restrict(M, DOMAIN M \ X)[j] = M[j]
           /\ Restrict(M, DOMAIN M \ X) \in EntryMaps
<1>1. DOMAIN M \in SUBSET Keys /\ M \in [DOMAIN M -> CacheEntry]
  BY DEF EntryMaps
<1>2. Restrict(M, DOMAIN M \ X) \in [DOMAIN M \ X -> CacheEntry]
  BY <1>1 DEF Restrict
<1>3. DOMAIN M \ X \in SUBSET Keys
  BY <1>1
<1>4. Restrict(M, DOMAIN M \ X) \in EntryMaps
  BY <1>2, <1>3 DEF EntryMaps
<1> QED
  BY <1>4 DEF Restrict

----------------------------------------------------------------------------
(* The recency list lists the cached keys, each once.                      *)

\* The list after an eviction, and that it keeps the order of what is left.
LEMMA ShorterList ==
    ASSUME NEW L, NEW D, ListOf(L, D), NEW X, NEW K \in Shorter(L, X)
    PROVE  K \in Seq(D) /\ Thinned(L, X, K) /\ ListOf(K, D \ X)
<1>1. L \in Seq(D)
  BY DEF ListOf
<1>2. CASE K = Without(L, X)
  BY <1>1, <1>2, WithoutThinned, ThinnedList
<1>3. CASE X = {} /\ K = L
  <2>1. D \ X = D
    BY <1>3
  <2> QED
    BY <1>1, <1>3, <2>1, ThinnedNothing
<1> QED
  BY <1>2, <1>3 DEF Shorter

\* update_lru puts the key in front and keeps the order of the others.
LEMMA UpdateLruList ==
    ASSUME NEW L, NEW D, ListOf(L, D), NEW k
    PROVE  /\ ListOf(update_lru(L, k), D \cup {k})
           /\ update_lru(L, k)[1] = k
           /\ \A e, f : e # k /\ f # k /\ Before(L, e, f) => Before(update_lru(L, k), e, f)
<1>1. PICK K : K = RemoveFirst(L, k)
  OBVIOUS
<1>2. K \in Seq(D) /\ Thinned(L, {k}, K) /\ ListOf(K, D \ {k})
  BY <1>1, RemoveFirstThinned, RemoveFirstList
<1>3. /\ ListOf(<<k>> \o K, (D \ {k}) \cup {k})
      /\ (<<k>> \o K)[1] = k
      /\ \A e, f : Before(K, e, f) => Before(<<k>> \o K, e, f)
  BY <1>2, ConsList
<1>4. (D \ {k}) \cup {k} = D \cup {k}
  OBVIOUS
<1>5. \A e, f : e # k /\ f # k /\ Before(L, e, f) => Before(K, e, f)
  BY <1>2, ThinnedOrder
<1> QED
  BY <1>1, <1>3, <1>4, <1>5 DEF update_lru

\* The pages calculate_pages_needed asks for hold the value.
LEMMA PagesNeeded ==
    ASSUME NEW v \in Values
    PROVE  /\ calculate_pages_needed(v) \in Nat
           /\ calculate_pages_needed(v) * PAGE_SIZE >= ByteSize(v)
<1> DEFINE b == ByteSize(v) + PAGE_SIZE - 1
<1>1. ByteSize(v) \in Nat /\ PAGE_SIZE \in Nat /\ PAGE_SIZE > 0
  BY ByteSizeAssumption, PageSizeAssumption
<1>2. b \in Nat
  BY <1>1
<1>3. b \div PAGE_SIZE \in Nat
  BY <1>1, <1>2
<1>4. (b \div PAGE_SIZE) * PAGE_SIZE >= b - PAGE_SIZE + 1
  BY <1>1, <1>2
<1> QED
  BY <1>1, <1>3, <1>4 DEF calculate_pages_needed

----------------------------------------------------------------------------
(* Page accounting, as a property of the fields of a record.  In the middle *)
(* of update_key the pages of one entry are already given back, so the     *)
(* pages in use are those of a set D of keys.                              *)

Accounts(B, F, M, D) ==
    /\ \A j, k \in D : j # k => M[j].memory_blocks \cap M[k].memory_blocks = {}
    /\ B = PagesOfKeys(M, D)
    /\ F = Page \ B

Sized(M) ==
    \A k \in DOMAIN M : /\ Cardinality(M[k].memory_blocks) = M[k].total_pages
                        /\ M[k].total_pages > 0
                        /\ M[k].total_pages * PAGE_SIZE >= ByteSize(M[k].value)

\* Giving back the pages of the keys in X takes them out of the account.
LEMMA AccountsDrop ==
    ASSUME NEW B, NEW F, NEW M \in EntryMaps, NEW D \in SUBSET DOMAIN M,
           NEW X \in SUBSET D, Accounts(B, F, M, D)
    PROVE  Accounts(B \ PagesOfKeys(M, X), F \cup PagesOfKeys(M, X), M, D \ X)
<1> DEFINE P == PagesOfKeys(M, X)
<1>1. P \in SUBSET Page
  BY PagesOfKeysType
<1>2. B \ P = PagesOfKeys(M, D \ X)
  <2>1. ASSUME NEW p \in PagesOfKeys(M, D \ X)
        PROVE  p \notin P
    <3>1. PICK j \in D \ X : p \in M[j].memory_blocks
      BY DEF PagesOfKeys
    <3>2. ASSUME NEW k \in X, p \in M[k].memory_blocks
          PROVE  FALSE
      BY <3>1, <3>2 DEF Accounts
    <3> QED
      BY <3>2 DEF PagesOfKeys
  <2>2. B = PagesOfKeys(M, D \ X) \cup P
    BY DEF Accounts, PagesOfKeys
  <2> QED
    BY <2>1, <2>2
<1>3. F \cup P = Page \ (B \ P)
  BY <1>1 DEF Accounts
<1> HIDE DEF P
<1> QED
  BY <1>2, <1>3 DEF Accounts, P

\* The account of the keys in D does not look at the other entries.
LEMMA AccountsSame ==
    ASSUME NEW B, NEW F, NEW M, NEW N, NEW D, Accounts(B, F, M, D),
           \A k \in D : N[k].memory_blocks = M[k].memory_blocks
    PROVE  Accounts(B, F, N, D)
<1>1. PagesOfKeys(N, D) = PagesOfKeys(M, D)
  BY DEF PagesOfKeys
<1> QED
  BY <1>1 DEF Accounts

\* Giving free pages to the entry of key k puts them into the account.
LEMMA AccountsAdd ==
    ASSUME NEW B, NEW F, NEW M, NEW D, NEW k, k \notin D,
           Accounts(B, F, M, D), M[k].memory_blocks \subseteq F
    PROVE  Accounts(B \cup M[k].memory_blocks, F \ M[k].memory_blocks, M, D \cup {k})
<1> DEFINE b == M[k].memory_blocks
<1>1. PagesOfKeys(M, D \cup {k}) = PagesOfKeys(M, D) \cup b
  BY DEF PagesOfKeys
<1>2. \A j \in D : M[j].memory_blocks \cap b = {}
  <2>1. \A j \in D : M[j].memory_blocks \subseteq B
    BY DEF Accounts, PagesOfKeys
  <2>2. B \cap F = {}
    BY DEF Accounts
  <2> QED
    BY <2>1, <2>2
<1>3. F \ b = Page \ (B \cup b)
  BY DEF Accounts
<1>4. \A i, j \in D \cup {k} : i # j => M[i].memory_blocks \cap M[j].memory_blocks = {}
  BY <1>2 DEF Accounts
<1>5. B \cup b = PagesOfKeys(M, D \cup {k})
  BY <1>1 DEF Accounts
<1> QED
  BY <1>3, <1>4, <1>5 DEF Accounts

----------------------------------------------------------------------------
(* The invariant of the proof, as a predicate on the four members.         *)

Good(B, F, M, L) ==
    /\ B \in SUBSET Page
    /\ F \in SUBSET Page
    /\ M \in EntryMaps
    /\ ListOf(L, DOMAIN M)
    /\ Accounts(B, F, M, DOMAIN M)
    /\ Sized(M)

Inv == TypeOK /\ PageOwnership /\ AllocationCoversValue /\ LruMatchesMap

\* A sequence that holds every element of D and nothing else, and is no longer
\* than D is large, lists D.
LEMMA LruIsList ==
    ASSUME NEW L, NEW D, NEW S, D \in SUBSET S
    PROVE  ListOf(L, D) <=> /\ L \in Seq(S)
                            /\ {L[i] : i \in DOMAIN L} = D
                            /\ Cardinality(D) = Len(L)
<1>1. ASSUME ListOf(L, D)
      PROVE  L \in Seq(S) /\ {L[i] : i \in DOMAIN L} = D /\ Cardinality(D) = Len(L)
  <2>1. L \in Seq(D) /\ Cardinality(D) = Len(L)
    BY <1>1, ListSize DEF ListOf
  <2>2. Len(L) \in Nat /\ DOMAIN L = 1..Len(L) /\ \A i \in 1..Len(L) : L[i] \in D
    BY <2>1
  <2>3. L \in Seq(S)
    <3>1. \A i \in 1..Len(L) : L[i] \in S
      BY <2>2
    <3> QED
      BY <2>1, <3>1
  <2>4. {L[i] : i \in DOMAIN L} = D
    BY <1>1, <2>2 DEF ListOf
  <2> QED
    BY <2>1, <2>3, <2>4
<1>2. ASSUME L \in Seq(S), {L[i] : i \in DOMAIN L} = D, Cardinality(D) = Len(L)
      PROVE  ListOf(L, D)
  <2>1. Len(L) \in Nat /\ DOMAIN L = 1..Len(L)
    BY <1>2
  <2>2. /\ \A i \in 1..Len(L) : L[i] \in D
        /\ \A e \in D : \E i \in 1..Len(L) : L[i] = e
    BY <1>2, <2>1
  <2>3. L \in Seq(D) /\ L \in [1..Len(L) -> D]
    BY <1>2, <2>1, <2>2
  <2>4. L \in Surjection(1..Len(L), D)
    BY <2>2, <2>3 DEF Surjection
  <2>5. IsFiniteSet(1..Len(L)) /\ Cardinality(1..Len(L)) = Len(L)
    <3>1. 1 \in Int /\ Len(L) \in Int
      BY <2>1
    <3>2. /\ IsFiniteSet(1..Len(L))
          /\ Cardinality(1..Len(L)) = IF 1 > Len(L) THEN 0 ELSE Len(L) - 1 + 1
      BY <3>1, FS_Interval
    <3> QED
      BY <2>1, <3>2
  <2>6. L \in Injection(1..Len(L), D)
    BY <1>2, <2>4, <2>5, FS_Surjection
  <2> QED
    BY <2>2, <2>3, <2>6 DEF ListOf, Injection, IsInjective
<1> QED
  BY <1>1, <1>2

\* The invariant, said of the four members as arguments.
LEMMA InvIsGood ==
    Inv <=> Good(page_bitmap, free_list, cache_map, lru_order)
<1>1. TypeOK <=> /\ page_bitmap \in SUBSET Page
                 /\ free_list \in SUBSET Page
                 /\ cache_map \in EntryMaps
                 /\ lru_order \in Seq(Keys)
  BY DEF TypeOK, EntryMaps
<1>4. ASSUME cache_map \in EntryMaps
      PROVE  lru_order \in Seq(Keys) /\ LruMatchesMap <=> ListOf(lru_order, DOMAIN cache_map)
  <2>1. DOMAIN cache_map \in SUBSET Keys
    BY <1>4 DEF EntryMaps
  <2> QED
    BY <2>1, LruIsList DEF LruMatchesMap
<1>2. PageOwnership <=> Accounts(page_bitmap, free_list, cache_map, DOMAIN cache_map)
  BY DEF PageOwnership, BlocksDisjoint, BitmapCoversEntries, FreeListComplementsBitmap,
         Accounts, PagesOfKeys
<1>3. AllocationCoversValue <=> Sized(cache_map)
  BY DEF AllocationCoversValue, Sized
<1> QED
  BY <1>1, <1>2, <1>3, <1>4 DEF Inv, Good

\* A record whose fields are good, once committed, makes Inv true again.
LEMMA CommitGood ==
    ASSUME NEW s, NEW B, NEW F, NEW M, NEW L, Cells(s, B, F, M, L), Good(B, F, M, L),
           Commit(s)
    PROVE  Inv'
<1>1. page_bitmap' = B /\ free_list' = F /\ cache_map' = M /\ lru_order' = L
  BY DEF Commit, Cells
<1>2. Good(page_bitmap, free_list, cache_map, lru_order)'
  BY <1>1 DEF Good, Accounts, PagesOfKeys, Sized, EntryMaps, CacheEntry, ListOf
<1> QED
  BY <1>2, InvIsGood, PTL

----------------------------------------------------------------------------
(* add_key and the reallocating update_key both call ObtainPages in a state *)
(* where the pages of every entry but that of their key k are in use.      *)

ObtainedFor(got, k, n, F, M) ==
    \E B1, F1, M1, L1 :
        /\ Cells(got.mem, B1 \cup got.blocks, F1 \ got.blocks, M1, L1)
        /\ B1 \in SUBSET Page /\ F1 \in SUBSET Page
        /\ M1 \in EntryMaps /\ ListOf(L1, DOMAIN M1)
        /\ Accounts(B1, F1, M1, DOMAIN M1 \ {k})
        /\ Sized(M1)
        /\ k \in DOMAIN M1 <=> k \in DOMAIN M
        /\ k \in DOMAIN M => M1[k] = M[k]
        /\ F \subseteq F1
        /\ got.blocks \subseteq F1
        /\ got.blocks # {} => n > 0 /\ Cardinality(got.blocks) = n

\* ObtainPages leaves the entries that survive fully accounted for, keeps the
\* entry of k, and every page that was free before is free or handed out.
LEMMA ObtainKeepsAccounts ==
    ASSUME NEW s, NEW B \in SUBSET Page, NEW F \in SUBSET Page, NEW M \in EntryMaps,
           NEW L, ListOf(L, DOMAIN M), NEW k, NEW n \in Nat, NEW c,
           Cells(s, B, F, M, L), Accounts(B, F, M, DOMAIN M \ {k}), Sized(M),
           k \notin Foreign(M, c)
    PROVE  ObtainedFor(ObtainPages(s, n, c), k, n, F, M)
<1> DEFINE got == ObtainPages(s, n, c)
<1>1. B \cap F = {}
  BY DEF Accounts
<1>2. PICK X \in SUBSET Foreign(M, c) : \E K \in Shorter(L, X) :
            Obtained(got, B, F, M, K, n, X)
  BY <1>1, ObtainCells
<1>3. PICK K \in Shorter(L, X) : Obtained(got, B, F, M, K, n, X)
  BY <1>2
<1> DEFINE P  == PagesOfKeys(M, X)
           M1 == Restrict(M, DOMAIN M \ X)
<1>4. X \in SUBSET (DOMAIN M \ {k}) /\ X \in SUBSET DOMAIN M
  BY DEF Foreign
<1>5. P \in SUBSET Page /\ ListOf(K, DOMAIN M \ X)
  BY <1>4, PagesOfKeysType, ShorterList
<1>6. /\ DOMAIN M1 = DOMAIN M \ X
      /\ \A j \in DOMAIN M \ X : M1[j] = M[j]
      /\ M1 \in EntryMaps
  BY RestrictMap
<1>7. Accounts(B \ P, F \cup P, M, (DOMAIN M \ {k}) \ X)
  BY <1>4, AccountsDrop
<1>8. Accounts(B \ P, F \cup P, M1, DOMAIN M1 \ {k})
  <2>1. (DOMAIN M \ {k}) \ X = DOMAIN M1 \ {k}
    BY <1>6
  <2>2. \A j \in DOMAIN M1 \ {k} : M1[j].memory_blocks = M[j].memory_blocks
    BY <1>6
  <2> HIDE DEF M1, P
  <2> QED
    BY <1>7, <2>1, <2>2, AccountsSame
<1>9. Sized(M1)
  BY <1>6 DEF Sized
<1>10. /\ Cells(got.mem, (B \ P) \cup got.blocks, (F \cup P) \ got.blocks, M1, K)
       /\ got.blocks \subseteq F \cup P
       /\ got.blocks # {} => n > 0 /\ Cardinality(got.blocks) = n
  BY <1>3 DEF Obtained
<1>11. /\ k \in DOMAIN M1 <=> k \in DOMAIN M
       /\ k \in DOMAIN M => M1[k] = M[k]
       /\ B \ P \in SUBSET Page
       /\ F \cup P \in SUBSET Page
       /\ F \subseteq F \cup P
  BY <1>4, <1>5, <1>6
<1> HIDE DEF got, P, M1
<1>12. PICK B1, F1 : B1 = B \ P /\ F1 = F \cup P
  OBVIOUS
<1>13. /\ Cells(got.mem, B1 \cup got.blocks, F1 \ got.blocks, M1, K)
       /\ B1 \in SUBSET Page /\ F1 \in SUBSET Page
       /\ M1 \in EntryMaps /\ ListOf(K, DOMAIN M1)
       /\ Accounts(B1, F1, M1, DOMAIN M1 \ {k})
       /\ Sized(M1)
       /\ k \in DOMAIN M1 <=> k \in DOMAIN M
       /\ k \in DOMAIN M => M1[k] = M[k]
       /\ F \subseteq F1
       /\ got.blocks \subseteq F1
       /\ got.blocks # {} => n > 0 /\ Cardinality(got.blocks) = n
  BY <1>5, <1>6, <1>8, <1>9, <1>10, <1>11, <1>12
<1>14. ObtainedFor(got, k, n, F, M)
  BY <1>13, Zenon DEF ObtainedFor
<1> QED
  BY <1>14 DEF got

\* Key k is bound to an entry with free pages: the fields are good again.
LEMMA BoundGood ==
    ASSUME NEW B \in SUBSET Page, NEW F \in SUBSET Page, NEW M \in EntryMaps,
           NEW L, NEW k \in Keys, NEW N \in EntryMaps, ListOf(L, DOMAIN N),
           Accounts(B, F, M, DOMAIN M \ {k}), Sized(M),
           DOMAIN N = DOMAIN M \cup {k},
           \A j \in DOMAIN M \ {k} : N[j] = M[j],
           N[k].memory_blocks \subseteq F,
           Cardinality(N[k].memory_blocks) = N[k].total_pages,
           N[k].total_pages > 0,
           N[k].total_pages * PAGE_SIZE >= ByteSize(N[k].value)
    PROVE  Good(B \cup N[k].memory_blocks, F \ N[k].memory_blocks, N, L)
<1> DEFINE b == N[k].memory_blocks
           D == DOMAIN M \ {k}
<1>1. Accounts(B, F, N, D)
  BY AccountsSame
<1>2. Accounts(B \cup b, F \ b, N, D \cup {k})
  BY <1>1, AccountsAdd
<1>3. D \cup {k} = DOMAIN N
  OBVIOUS
<1>4. Sized(N)
  BY DEF Sized
<1>5. B \cup b \in SUBSET Page /\ F \ b \in SUBSET Page
  OBVIOUS
<1> HIDE DEF b, D
<1> QED
  BY <1>2, <1>3, <1>4, <1>5 DEF Good, b

\* Binding a key to pages just obtained restores the invariant (end of add_key
\* and of update_key).
LEMMA BindKeepsInv ==
    ASSUME NEW got, NEW k \in Keys, NEW v \in Values, NEW c \in Clients, NEW F, NEW M,
           ObtainedFor(got, k, calculate_pages_needed(v), F, M),
           got.blocks # {},
           Bind(got, k, v, calculate_pages_needed(v), c)
    PROVE  Inv'
<1> DEFINE n == calculate_pages_needed(v)
           e == [value |-> v, memory_blocks |-> got.blocks, total_pages |-> n, client_id |-> c]
<1>1. PICK B1, F1, M1, L1 :
        /\ Cells(got.mem, B1 \cup got.blocks, F1 \ got.blocks, M1, L1)
        /\ B1 \in SUBSET Page /\ F1 \in SUBSET Page
        /\ M1 \in EntryMaps /\ ListOf(L1, DOMAIN M1)
        /\ Accounts(B1, F1, M1, DOMAIN M1 \ {k})
        /\ Sized(M1)
        /\ got.blocks \subseteq F1
        /\ n > 0 /\ Cardinality(got.blocks) = n
  BY DEF ObtainedFor
<1> DEFINE N == PutEntry(M1, k, e)
           K == update_lru(L1, k)
           r == [got.mem EXCEPT !.cache_map = N, !.lru_order = K]
<1>2. n \in Nat /\ n * PAGE_SIZE >= ByteSize(v)
  BY PagesNeeded
<1>3. e \in CacheEntry
  BY <1>1, <1>2 DEF CacheEntry
<1>4. /\ DOMAIN N = DOMAIN M1 \cup {k}
      /\ N[k] = e
      /\ \A j \in DOMAIN M1 \ {k} : N[j] = M1[j]
  BY DEF PutEntry
<1>5. N \in EntryMaps
  <2>1. DOMAIN M1 \in SUBSET Keys /\ M1 \in [DOMAIN M1 -> CacheEntry]
    BY <1>1 DEF EntryMaps
  <2> HIDE DEF e
  <2>2. N \in [DOMAIN M1 \cup {k} -> CacheEntry]
    BY <1>3, <2>1 DEF PutEntry
  <2> QED
    BY <2>1, <2>2 DEF EntryMaps
<1>6. ListOf(K, DOMAIN N)
  BY <1>1, <1>4, UpdateLruList
<1>7. Commit(r)
  BY <1>1 DEF Bind, Cells
<1>8. Cells(r, B1 \cup got.blocks, F1 \ got.blocks, N, K)
  BY <1>1 DEF Cells
<1>9. Good(B1 \cup N[k].memory_blocks, F1 \ N[k].memory_blocks, N, K)
  <2>1. /\ N[k].memory_blocks = got.blocks
        /\ N[k].total_pages = n
        /\ N[k].value = v
    BY <1>4
  <2> HIDE DEF N, n, e, K
  <2> QED
    BY <1>1, <1>2, <1>4, <1>5, <1>6, <2>1, BoundGood
<1>10. N[k].memory_blocks = got.blocks
  BY <1>4
<1> HIDE DEF N, K, r, n, e
<1>11. Good(B1 \cup got.blocks, F1 \ got.blocks, N, K)
  BY <1>9, <1>10
<1> QED
  BY <1>7, <1>8, <1>11, CommitGood

----------------------------------------------------------------------------
(* One lemma per operation.                                                *)

\* The members a call does not touch stay good.
LEMMA UntouchedKeepsInv ==
    ASSUME Inv, UNCHANGED <<page_bitmap, free_list, cache_map, lru_order>>
    PROVE  Inv'
  BY DEF Inv, TypeOK, PageOwnership, BlocksDisjoint, BitmapCoversEntries,
         FreeListComplementsBitmap, AllocationCoversValue, LruMatchesMap

\* CacheState is the record of the four members.
LEMMA CacheStateCells ==
    Cells(CacheState, page_bitmap, free_list, cache_map, lru_order)
  BY DEF Cells, CacheState

\* An early return changes nothing the invariant speaks of.
LEMMA RefusedKeepsInv ==
    ASSUME Inv, NEW op, NEW k, NEW v, NEW c, Refused(op, k, v, c)
    PROVE  Inv'
  BY UntouchedKeepsInv DEF Refused

\* add_key preserves the invariant, also when it fails after evicting.
LEMMA AddKeepsInv ==
    ASSUME Inv, NEW k \in Keys, NEW v \in Values, NEW c \in Clients, add_key(k, v, c)
    PROVE  Inv'
<1> DEFINE n   == calculate_pages_needed(v)
           got == ObtainPages(CacheState, n, c)
<1>1. Good(page_bitmap, free_list, cache_map, lru_order)
  BY InvIsGood
<1>2. CASE k \in DOMAIN cache_map
  BY <1>2, UntouchedKeepsInv DEF add_key
<1>3. CASE k \notin DOMAIN cache_map
  <2>1. k \notin Foreign(cache_map, c) /\ DOMAIN cache_map \ {k} = DOMAIN cache_map
    BY <1>3 DEF Foreign
  <2>2. ObtainedFor(got, k, n, free_list, cache_map)
    <3>1. n \in Nat
      BY PagesNeeded
    <3> HIDE DEF n
    <3> QED
      BY <1>1, <2>1, <3>1, CacheStateCells, ObtainKeepsAccounts DEF Good
  <2>3. CASE got.blocks = NullBlocks
    <3>1. Commit(got.mem)
      BY <1>3, <2>3 DEF add_key
    <3> HIDE DEF n, got
    <3>2. PICK B1, F1, M1, L1 :
            /\ Cells(got.mem, B1 \cup got.blocks, F1 \ got.blocks, M1, L1)
            /\ B1 \in SUBSET Page /\ F1 \in SUBSET Page
            /\ M1 \in EntryMaps /\ ListOf(L1, DOMAIN M1)
            /\ Accounts(B1, F1, M1, DOMAIN M1 \ {k})
            /\ Sized(M1)
            /\ k \in DOMAIN M1 <=> k \in DOMAIN cache_map
      BY <2>2 DEF ObtainedFor
    <3>3. B1 \cup got.blocks = B1 /\ F1 \ got.blocks = F1 /\ DOMAIN M1 \ {k} = DOMAIN M1
      BY <1>3, <2>3, <3>2 DEF NullBlocks
    <3>4. Cells(got.mem, B1, F1, M1, L1) /\ Good(B1, F1, M1, L1)
      BY <3>2, <3>3 DEF Good
    <3> QED
      BY <3>1, <3>4, CommitGood
  <2>4. CASE got.blocks # NullBlocks
    <3>1. Bind(got, k, v, n, c)
      BY <1>3, <2>4 DEF add_key
    <3> HIDE DEF got
    <3> QED
      BY <2>2, <2>4, <3>1, BindKeepsInv DEF NullBlocks
  <2> QED
    BY <2>3, <2>4
<1> QED
  BY <1>2, <1>3

\* update_key within the pages of the entry preserves the invariant: the new
\* value fits, and the entry keeps all its pages.
LEMMA UpdateInPlaceKeepsInv ==
    ASSUME Inv, NEW k \in Keys, NEW v \in Values, NEW c \in Clients, UpdateInPlace(k, v, c)
    PROVE  Inv'
<1> DEFINE N == [cache_map EXCEPT ![k].value = v]
           K == update_lru(lru_order, k)
<1>1. Good(page_bitmap, free_list, cache_map, lru_order)
  BY InvIsGood
<1>2. /\ k \in DOMAIN cache_map
      /\ calculate_pages_needed(v) <= cache_map[k].total_pages
      /\ page_bitmap' = page_bitmap /\ free_list' = free_list
      /\ cache_map' = N /\ lru_order' = K
  BY DEF UpdateInPlace, Owns
<1>3. DOMAIN cache_map \in SUBSET Keys /\ cache_map \in [DOMAIN cache_map -> CacheEntry]
  BY <1>1 DEF Good, EntryMaps
<1>4. cache_map[k] \in CacheEntry
  BY <1>2, <1>3
<1>5. /\ [cache_map[k] EXCEPT !.value = v] \in CacheEntry
      /\ [cache_map[k] EXCEPT !.value = v].memory_blocks = cache_map[k].memory_blocks
      /\ [cache_map[k] EXCEPT !.value = v].total_pages = cache_map[k].total_pages
      /\ [cache_map[k] EXCEPT !.value = v].value = v
  BY <1>4 DEF CacheEntry
<1>6. /\ DOMAIN N = DOMAIN cache_map
      /\ \A j \in DOMAIN cache_map : j # k => N[j] = cache_map[j]
      /\ N[k] = [cache_map[k] EXCEPT !.value = v]
  BY <1>2, <1>3
<1>7. N \in EntryMaps
  BY <1>3, <1>5, <1>6 DEF EntryMaps
<1>8. \A j \in DOMAIN cache_map : N[j].memory_blocks = cache_map[j].memory_blocks
  BY <1>5, <1>6
<1> HIDE DEF N
<1>9. Accounts(page_bitmap, free_list, N, DOMAIN N)
  BY <1>1, <1>6, <1>8, AccountsSame DEF Good
<1>10. Sized(N)
  <2>1. SUFFICES ASSUME NEW j \in DOMAIN N
                 PROVE  /\ Cardinality(N[j].memory_blocks) = N[j].total_pages
                        /\ N[j].total_pages > 0
                        /\ N[j].total_pages * PAGE_SIZE >= ByteSize(N[j].value)
    BY DEF Sized
  <2>2. CASE j # k
    BY <1>1, <1>6, <2>2 DEF Good, Sized
  <2>3. CASE j = k
    <3>1. /\ Cardinality(cache_map[k].memory_blocks) = cache_map[k].total_pages
          /\ cache_map[k].total_pages > 0
          /\ cache_map[k].total_pages \in Nat
      BY <1>1, <1>2, <1>4 DEF Good, Sized, CacheEntry
    <3>2. /\ calculate_pages_needed(v) \in Nat
          /\ calculate_pages_needed(v) * PAGE_SIZE >= ByteSize(v)
          /\ PAGE_SIZE \in Nat /\ ByteSize(v) \in Nat
      BY PagesNeeded, PageSizeAssumption, ByteSizeAssumption
    <3>3. cache_map[k].total_pages * PAGE_SIZE >= calculate_pages_needed(v) * PAGE_SIZE
      BY <1>2, <3>1, <3>2
    <3>4. cache_map[k].total_pages * PAGE_SIZE >= ByteSize(v)
      BY <3>1, <3>2, <3>3
    <3> QED
      BY <1>5, <1>6, <2>3, <3>1, <3>4
  <2> QED
    BY <2>2, <2>3
<1>11. ListOf(K, DOMAIN N)
  <2>1. DOMAIN cache_map \cup {k} = DOMAIN N
    BY <1>2, <1>6
  <2> QED
    BY <1>1, <2>1, UpdateLruList DEF Good
<1> HIDE DEF K
<1>12. Good(page_bitmap', free_list', cache_map', lru_order')
  BY <1>1, <1>2, <1>7, <1>9, <1>10, <1>11 DEF Good
<1>13. Good(page_bitmap, free_list, cache_map, lru_order)'
  BY <1>12 DEF Good, Accounts, PagesOfKeys, Sized, EntryMaps, CacheEntry, ListOf
<1> QED
  BY <1>13, InvIsGood, PTL

\* The failure path of update_key.  The pages the entry gave back are still
\* free, whatever eviction added to them, so taking as many again succeeds.
LEMMA RestoreKeepsInv ==
    ASSUME NEW got, NEW k \in Keys, NEW n, NEW F, NEW M,
           ObtainedFor(got, k, n, F, M), got.blocks = {},
           k \in DOMAIN M, M[k].memory_blocks \subseteq F,
           Commit(RestoreOldPages(got.mem, k))
    PROVE  Inv'
<1>1. PICK B1, F1, M1, L1 :
        /\ Cells(got.mem, B1 \cup got.blocks, F1 \ got.blocks, M1, L1)
        /\ B1 \in SUBSET Page /\ F1 \in SUBSET Page
        /\ M1 \in EntryMaps /\ ListOf(L1, DOMAIN M1)
        /\ Accounts(B1, F1, M1, DOMAIN M1 \ {k})
        /\ Sized(M1)
        /\ k \in DOMAIN M1
        /\ M1[k] = M[k]
        /\ F \subseteq F1
  BY DEF ObtainedFor
<1> DEFINE old   == M1[k].memory_blocks
           size  == M1[k].total_pages
           again == allocate_pages_linked(got.mem, size)
           N     == [M1 EXCEPT ![k].memory_blocks = again.blocks]
           r     == [again.mem EXCEPT !.cache_map[k].memory_blocks = again.blocks]
<1>2. Cells(got.mem, B1, F1, M1, L1)
  <2>1. B1 \cup got.blocks = B1 /\ F1 \ got.blocks = F1
    OBVIOUS
  <2> QED
    BY <1>1, <2>1
<1>3. DOMAIN M1 \in SUBSET Keys /\ M1 \in [DOMAIN M1 -> CacheEntry]
  BY <1>1 DEF EntryMaps
<1>4. M1[k] \in CacheEntry
  BY <1>1, <1>3
<1>5. /\ size \in Nat /\ size > 0
      /\ Cardinality(old) = size
      /\ size * PAGE_SIZE >= ByteSize(M1[k].value)
  BY <1>1, <1>4 DEF CacheEntry, Sized
<1>6. size <= Cardinality(F1)
  <2>1. IsFiniteSet(F1) /\ old \in SUBSET F1
    BY <1>1, PagesFinite
  <2> QED
    BY <1>5, <2>1, FS_Subset
<1>7. /\ again.blocks \subseteq F1
      /\ Cells(again.mem, B1 \cup again.blocks, F1 \ again.blocks, M1, L1)
      /\ again.blocks # {}
      /\ Cardinality(again.blocks) = size
  <2>1. B1 \cap F1 = {} /\ F1 \in SUBSET Page /\ size \in Nat
    BY <1>1, <1>5 DEF Accounts
  <2> HIDE DEF size
  <2>2. /\ again.blocks \subseteq F1
        /\ Cells(again.mem, B1 \cup again.blocks, F1 \ again.blocks, M1, L1)
        /\ again.blocks # {} => size > 0 /\ Cardinality(again.blocks) = size
        /\ size > 0 /\ size <= Cardinality(F1) => again.blocks # {}
    BY <1>2, <2>1, AllocateCells
  <2> HIDE DEF again
  <2> QED
    BY <1>5, <1>6, <2>2
<1>8. RestoreOldPages(got.mem, k) = r
  <2>1. got.mem.cache_map = M1
    BY <1>2 DEF Cells
  <2> QED
    BY <1>7, <2>1 DEF RestoreOldPages, NullBlocks
<1> HIDE DEF again
<1>9. Cells(r, B1 \cup again.blocks, F1 \ again.blocks, N, L1)
  BY <1>7 DEF Cells
<1>10. /\ [M1[k] EXCEPT !.memory_blocks = again.blocks] \in CacheEntry
       /\ [M1[k] EXCEPT !.memory_blocks = again.blocks].memory_blocks = again.blocks
       /\ [M1[k] EXCEPT !.memory_blocks = again.blocks].total_pages = size
       /\ [M1[k] EXCEPT !.memory_blocks = again.blocks].value = M1[k].value
  BY <1>1, <1>4, <1>7 DEF CacheEntry
<1>11. /\ DOMAIN N = DOMAIN M1
       /\ \A j \in DOMAIN M1 : j # k => N[j] = M1[j]
       /\ N[k] = [M1[k] EXCEPT !.memory_blocks = again.blocks]
  BY <1>1, <1>3
<1>12. N \in EntryMaps
  BY <1>3, <1>10, <1>11 DEF EntryMaps
<1>13. /\ N[k].memory_blocks = again.blocks
       /\ N[k].total_pages = size
       /\ N[k].value = M1[k].value
       /\ DOMAIN N = DOMAIN M1 \cup {k}
  BY <1>1, <1>10, <1>11
<1> HIDE DEF N, r, size
<1>14. Good(B1 \cup N[k].memory_blocks, F1 \ N[k].memory_blocks, N, L1)
  BY <1>1, <1>5, <1>7, <1>11, <1>12, <1>13, BoundGood
<1>15. Good(B1 \cup again.blocks, F1 \ again.blocks, N, L1)
  BY <1>13, <1>14
<1> QED
  BY <1>8, <1>9, <1>15, CommitGood

\* update_key with reallocation preserves the invariant on both its paths.
LEMMA UpdateByReallocationKeepsInv ==
    ASSUME Inv, NEW k \in Keys, NEW v \in Values, NEW c \in Clients,
           UpdateByReallocation(k, v, c)
    PROVE  Inv'
<1> DEFINE n   == calculate_pages_needed(v)
           old == cache_map[k].memory_blocks
           s   == deallocate_pages_linked(CacheState, old)
           got == ObtainPages(s, n, c)
<1>1. Good(page_bitmap, free_list, cache_map, lru_order)
  BY InvIsGood
<1>2. k \in DOMAIN cache_map /\ cache_map[k].client_id = c
  BY DEF UpdateByReallocation, Owns
<1>3. Cells(s, page_bitmap \ old, free_list \cup old, cache_map, lru_order)
  BY CacheStateCells, DeallocateCells
<1>4. old = PagesOfKeys(cache_map, {k})
  BY DEF PagesOfKeys
<1>5. Accounts(page_bitmap \ old, free_list \cup old, cache_map, DOMAIN cache_map \ {k})
  <2> HIDE DEF old
  <2>1. {k} \in SUBSET DOMAIN cache_map
    BY <1>2
  <2> QED
    BY <1>1, <1>4, <2>1, AccountsDrop DEF Good
<1>6. old \in SUBSET Page
  BY <1>1, <1>2, <1>4, PagesOfKeysType DEF Good
<1>7. ObtainedFor(got, k, n, free_list \cup old, cache_map)
  <2>1. n \in Nat
    BY PagesNeeded
  <2>2. page_bitmap \ old \in SUBSET Page /\ free_list \cup old \in SUBSET Page
    BY <1>1, <1>6 DEF Good
  <2>3. k \notin Foreign(cache_map, c)
    BY <1>2 DEF Foreign
  <2> HIDE DEF n, old, s
  <2> QED
    BY <1>1, <1>3, <1>5, <2>1, <2>2, <2>3, ObtainKeepsAccounts DEF Good
<1>8. CASE got.blocks = NullBlocks
  <2>1. Commit(RestoreOldPages(got.mem, k))
    BY <1>8 DEF UpdateByReallocation
  <2> HIDE DEF got, n
  <2> QED
    BY <1>2, <1>7, <1>8, <2>1, RestoreKeepsInv DEF NullBlocks
<1>9. CASE got.blocks # NullBlocks
  <2>1. Bind(got, k, v, n, c)
    BY <1>9 DEF UpdateByReallocation
  <2> HIDE DEF got
  <2> QED
    BY <1>7, <1>9, <2>1, BindKeepsInv DEF NullBlocks
<1> QED
  BY <1>8, <1>9

\* update_key preserves the invariant.
LEMMA UpdateKeepsInv ==
    ASSUME Inv, NEW k \in Keys, NEW v \in Values, NEW c \in Clients, update_key(k, v, c)
    PROVE  Inv'
  BY RefusedKeepsInv, UpdateInPlaceKeepsInv, UpdateByReallocationKeepsInv DEF update_key

\* get_key preserves the invariant: it only reorders the recency list.
LEMMA GetKeepsInv ==
    ASSUME Inv, NEW k \in Keys, NEW c \in Clients, get_key(k, c)
    PROVE  Inv'
<1>1. CASE Refused("get_key", k, NoValue, c)
  BY <1>1, RefusedKeepsInv
<1>2. CASE /\ Owns(c, k)
           /\ lru_order' = update_lru(lru_order, k)
           /\ UNCHANGED <<page_bitmap, free_list, cache_map>>
  <2>1. Good(page_bitmap, free_list, cache_map, lru_order)
    BY InvIsGood
  <2>2. ListOf(lru_order', DOMAIN cache_map)
    <3>1. k \in DOMAIN cache_map
      BY <1>2 DEF Owns
    <3>2. DOMAIN cache_map \cup {k} = DOMAIN cache_map
      BY <3>1
    <3> QED
      BY <1>2, <2>1, <3>2, UpdateLruList DEF Good
  <2>3. Good(page_bitmap', free_list', cache_map', lru_order')
    BY <1>2, <2>1, <2>2 DEF Good
  <2>4. Good(page_bitmap, free_list, cache_map, lru_order)'
    BY <2>3 DEF Good, Accounts, PagesOfKeys, Sized, EntryMaps, CacheEntry, ListOf
  <2> QED
    BY <2>4, InvIsGood, PTL
<1> QED
  BY <1>1, <1>2 DEF get_key

\* delete_key preserves the invariant: the pages of the entry become free.
LEMMA DeleteKeepsInv ==
    ASSUME Inv, NEW k \in Keys, NEW c \in Clients, delete_key(k, c)
    PROVE  Inv'
<1> DEFINE old == cache_map[k].memory_blocks
           s   == deallocate_pages_linked(CacheState, old)
           N   == Restrict(cache_map, DOMAIN cache_map \ {k})
           K   == RemoveFirst(lru_order, k)
<1>1. CASE Refused("delete_key", k, NoValue, c)
  BY <1>1, RefusedKeepsInv
<1>2. CASE Owns(c, k) /\ Commit(DeleteEntry(k))
  <2>1. Good(page_bitmap, free_list, cache_map, lru_order)
    BY InvIsGood
  <2>2. Cells(s, page_bitmap \ old, free_list \cup old, cache_map, lru_order)
    BY CacheStateCells, DeallocateCells
  <2>3. Cells(DeleteEntry(k), page_bitmap \ old, free_list \cup old, N, K)
    <3>1. DeleteEntry(k) = [s EXCEPT !.lru_order = RemoveFirst(s.lru_order, k),
                                     !.cache_map = Restrict(s.cache_map, DOMAIN s.cache_map \ {k})]
      BY DEF DeleteEntry
    <3>2. s.lru_order = lru_order /\ s.cache_map = cache_map
      BY <2>2 DEF Cells
    <3>3. DeleteEntry(k) = [s EXCEPT !.lru_order = K, !.cache_map = N]
      BY <3>1, <3>2
    <3> HIDE DEF s, N, K, old
    <3> QED
      BY <2>2, <3>3 DEF Cells
  <2>4. old = PagesOfKeys(cache_map, {k}) /\ {k} \in SUBSET DOMAIN cache_map
    BY <1>2 DEF PagesOfKeys, Owns
  <2>5. Accounts(page_bitmap \ old, free_list \cup old, cache_map, DOMAIN cache_map \ {k})
    <3> HIDE DEF old
    <3> QED
      BY <2>1, <2>4, AccountsDrop DEF Good
  <2>6. /\ DOMAIN N = DOMAIN cache_map \ {k}
        /\ \A j \in DOMAIN cache_map \ {k} : N[j] = cache_map[j]
        /\ N \in EntryMaps
    BY <2>1, RestrictMap DEF Good
  <2>7. old \in SUBSET Page
    BY <2>1, <2>4, PagesOfKeysType DEF Good
  <2>8. ListOf(K, DOMAIN N)
    BY <2>1, <2>6, RemoveFirstList DEF Good
  <2> HIDE DEF N, K, old, s
  <2>9. Accounts(page_bitmap \ old, free_list \cup old, N, DOMAIN N)
    BY <2>5, <2>6, AccountsSame
  <2>10. Sized(N)
    BY <2>1, <2>6 DEF Good, Sized
  <2>11. Good(page_bitmap \ old, free_list \cup old, N, K)
    BY <2>1, <2>6, <2>7, <2>8, <2>9, <2>10 DEF Good
  <2> QED
    BY <1>2, <2>3, <2>11, CommitGood
<1> QED
  BY <1>1, <1>2 DEF delete_key

----------------------------------------------------------------------------
\* The constructor establishes the invariant.
LEMMA InitInv == Init => Inv
<1> SUFFICES ASSUME Init PROVE Inv
  OBVIOUS
<1>1. DOMAIN cache_map = {} /\ cache_map \in [{} -> CacheEntry] /\ lru_order \in Seq(Keys)
  BY DEF Init
<1>2. TypeOK
  BY <1>1 DEF Init, TypeOK
<1>3. PageOwnership
  BY <1>1 DEF Init, PageOwnership, BlocksDisjoint, BitmapCoversEntries,
              FreeListComplementsBitmap
<1>4. AllocationCoversValue
  BY <1>1 DEF AllocationCoversValue
<1>5. LruMatchesMap
  BY <1>1, FS_EmptySet DEF Init, LruMatchesMap
<1> QED
  BY <1>2, <1>3, <1>4, <1>5 DEF Inv

\* Every call preserves the invariant.
LEMMA NextInv == Inv /\ [Next]_vars => Inv'
<1> SUFFICES ASSUME Inv, [Next]_vars PROVE Inv'
  OBVIOUS
<1>1. ASSUME NEW k \in Keys, NEW c \in Clients, NEW v \in Values, add_key(k, v, c)
      PROVE  Inv'
  BY <1>1, AddKeepsInv
<1>2. ASSUME NEW k \in Keys, NEW c \in Clients, NEW v \in Values, update_key(k, v, c)
      PROVE  Inv'
  BY <1>2, UpdateKeepsInv
<1>3. ASSUME NEW k \in Keys, NEW c \in Clients, get_key(k, c)
      PROVE  Inv'
  BY <1>3, GetKeepsInv
<1>4. ASSUME NEW k \in Keys, NEW c \in Clients, delete_key(k, c)
      PROVE  Inv'
  BY <1>4, DeleteKeepsInv
<1>5. CASE UNCHANGED vars
  BY <1>5, UntouchedKeepsInv DEF vars
<1> QED
  BY <1>1, <1>2, <1>3, <1>4, <1>5 DEF Next

\* The three invariants hold together: page accounting needs the sizes, since
\* the failure path of update_key is safe only because an entry owns as many
\* pages as total_pages says.
THEOREM Invariance == Spec => []Inv
  BY InitInv, NextInv, PTL DEF Spec

\* Every member of the cache keeps its type.
THEOREM TypeCorrect == Spec => []TypeOK
  BY Invariance, PTL DEF Inv

\* Every page is owned by exactly one entry or free, and the bitmap and the
\* free list say so, after any sequence of calls of the four operations.
THEOREM PageAccounting == Spec => []PageOwnership
  BY Invariance, PTL DEF Inv

\* Every entry owns exactly total_pages pages, enough for its value.
THEOREM AllocationSound == Spec => []AllocationCoversValue
  BY Invariance, PTL DEF Inv

\* The recency list holds each cached key once and no other key.
THEOREM RecencyListExact == Spec => []LruMatchesMap
  BY Invariance, PTL DEF Inv

----------------------------------------------------------------------------
(* What the calls do to the values, the owners and the recency list.  The  *)
(* two theorems below, the refinement of KVCache and the order of last     *)
(* use, need no more of a step than this.                                  *)

\* N binds the keys of D to the values and owners they have in M.
Same(M, N, D) ==
    \A j \in D : N[j].value = M[j].value /\ N[j].client_id = M[j].client_id

\* Entries of other clients than c are evicted.
Lost(c) ==
    \E X \in SUBSET Foreign(cache_map, c) :
        /\ DOMAIN cache_map' = DOMAIN cache_map \ X
        /\ Same(cache_map, cache_map', DOMAIN cache_map \ X)
        /\ lru_order' \in Shorter(lru_order, X)

\* Entries of other clients than c are evicted, k is bound to v and becomes
\* the most recently used key.
Wrote(k, v, c) ==
    \E X \in SUBSET Foreign(cache_map, c) :
        /\ DOMAIN cache_map' = (DOMAIN cache_map \ X) \cup {k}
        /\ cache_map'[k].value = v /\ cache_map'[k].client_id = c
        /\ Same(cache_map, cache_map', (DOMAIN cache_map \ X) \ {k})
        /\ \E J \in Shorter(lru_order, X) : lru_order' = update_lru(J, k)

Removed(k) ==
    /\ DOMAIN cache_map' = DOMAIN cache_map \ {k}
    /\ Same(cache_map, cache_map', DOMAIN cache_map \ {k})
    /\ lru_order' = RemoveFirst(lru_order, k)

\* The state from which add_key and update_key obtain pages.
Ready(s) ==
    \E B, F : F \in SUBSET Page /\ B \cap F = {} /\ Cells(s, B, F, cache_map, lru_order)

\* ObtainPages drops entries of other clients and nothing else.
LEMMA ObtainEffect ==
    ASSUME Inv, NEW s, Ready(s), NEW n \in Nat, NEW c, NEW got, got = ObtainPages(s, n, c)
    PROVE  \E X \in SUBSET Foreign(cache_map, c) : \E K \in Shorter(lru_order, X) : \E B, F :
              /\ F \in SUBSET Page /\ B \cap F = {}
              /\ Cells(got.mem, B, F, Restrict(cache_map, DOMAIN cache_map \ X), K)
<1>1. cache_map \in EntryMaps
  BY InvIsGood DEF Good
<1>2. PICK B, F : F \in SUBSET Page /\ B \cap F = {} /\ Cells(s, B, F, cache_map, lru_order)
  BY DEF Ready
<1>3. PICK X \in SUBSET Foreign(cache_map, c) : \E K \in Shorter(lru_order, X) :
         Obtained(got, B, F, cache_map, K, n, X)
  BY <1>1, <1>2, ObtainCells
<1>4. PICK K \in Shorter(lru_order, X) : Obtained(got, B, F, cache_map, K, n, X)
  BY <1>3
<1> DEFINE P  == PagesOfKeys(cache_map, X)
           B1 == (B \ P) \cup got.blocks
           F1 == (F \cup P) \ got.blocks
<1>5. X \in SUBSET DOMAIN cache_map
  BY DEF Foreign
<1>6. P \in SUBSET Page
  BY <1>1, <1>5, PagesOfKeysType
<1>7. F1 \in SUBSET Page /\ B1 \cap F1 = {}
  BY <1>2, <1>6
<1>8. Cells(got.mem, B1, F1, Restrict(cache_map, DOMAIN cache_map \ X), K)
  BY <1>4 DEF Obtained
<1> HIDE DEF B1, F1
<1> QED
  BY <1>4, <1>7, <1>8

\* The pages in hand are bound to the key.
LEMMA BindEffect ==
    ASSUME Inv, NEW s, Ready(s), NEW n \in Nat, NEW c, NEW got, got = ObtainPages(s, n, c),
           NEW k, NEW v, Bind(got, k, v, n, c)
    PROVE  Wrote(k, v, c)
<1>1. PICK X \in SUBSET Foreign(cache_map, c) : \E K \in Shorter(lru_order, X) : \E B, F :
         /\ F \in SUBSET Page /\ B \cap F = {}
         /\ Cells(got.mem, B, F, Restrict(cache_map, DOMAIN cache_map \ X), K)
  BY ObtainEffect
<1>2. PICK K \in Shorter(lru_order, X) : \E B, F :
         Cells(got.mem, B, F, Restrict(cache_map, DOMAIN cache_map \ X), K)
  BY <1>1
<1>3. PICK M1 : M1 = Restrict(cache_map, DOMAIN cache_map \ X)
  OBVIOUS
<1>4. got.mem.cache_map = M1 /\ got.mem.lru_order = K
      /\ DOMAIN got.mem = {"page_bitmap", "free_list", "cache_map", "lru_order"}
  BY <1>2, <1>3 DEF Cells
<1>5. PICK e : e = [value |-> v, memory_blocks |-> got.blocks, total_pages |-> n, client_id |-> c]
  OBVIOUS
<1>6. cache_map' = PutEntry(M1, k, e) /\ lru_order' = update_lru(K, k)
  BY <1>4, <1>5 DEF Bind, Commit
<1>7. DOMAIN M1 = DOMAIN cache_map \ X /\ \A j \in DOMAIN cache_map \ X : M1[j] = cache_map[j]
  BY <1>3 DEF Restrict
<1>8. /\ DOMAIN cache_map' = DOMAIN M1 \cup {k} /\ cache_map'[k] = e
      /\ \A j \in DOMAIN M1 \ {k} : cache_map'[j] = M1[j]
  BY <1>6 DEF PutEntry
<1>9. e.value = v /\ e.client_id = c
  BY <1>5
<1>10. Same(cache_map, cache_map', (DOMAIN cache_map \ X) \ {k})
  BY <1>7, <1>8 DEF Same
<1> QED
  BY <1>6, <1>7, <1>8, <1>9, <1>10 DEF Wrote

\* No pages: what was evicted on the way stays evicted.
LEMMA CommitEffect ==
    ASSUME Inv, NEW s, Ready(s), NEW n \in Nat, NEW c, NEW got, got = ObtainPages(s, n, c),
           Commit(got.mem)
    PROVE  Lost(c)
<1>1. PICK X \in SUBSET Foreign(cache_map, c) : \E K \in Shorter(lru_order, X) : \E B, F :
         /\ F \in SUBSET Page /\ B \cap F = {}
         /\ Cells(got.mem, B, F, Restrict(cache_map, DOMAIN cache_map \ X), K)
  BY ObtainEffect
<1>2. /\ cache_map' = Restrict(cache_map, DOMAIN cache_map \ X)
      /\ lru_order' \in Shorter(lru_order, X)
  BY <1>1 DEF Cells, Commit
<1>3. DOMAIN cache_map' = DOMAIN cache_map \ X
      /\ \A j \in DOMAIN cache_map \ X : cache_map'[j] = cache_map[j]
  BY <1>2 DEF Restrict
<1> QED
  BY <1>2, <1>3 DEF Lost, Same

\* The failure path of update_key touches the pages of the entry, never its
\* value.
LEMMA RestoreEffect ==
    ASSUME Inv, NEW s, Ready(s), NEW n \in Nat, NEW c, NEW got, got = ObtainPages(s, n, c),
           NEW k, Owns(c, k), Commit(RestoreOldPages(got.mem, k))
    PROVE  Lost(c)
<1>1. PICK X \in SUBSET Foreign(cache_map, c) : \E K \in Shorter(lru_order, X) : \E B, F :
         /\ F \in SUBSET Page /\ B \cap F = {}
         /\ Cells(got.mem, B, F, Restrict(cache_map, DOMAIN cache_map \ X), K)
  BY ObtainEffect
<1>2. PICK M1 : M1 = Restrict(cache_map, DOMAIN cache_map \ X)
  OBVIOUS
<1>3. PICK K, B, F :
         /\ K \in Shorter(lru_order, X) /\ F \in SUBSET Page /\ B \cap F = {}
         /\ Cells(got.mem, B, F, M1, K)
  BY <1>1, <1>2
<1>4. /\ DOMAIN M1 = DOMAIN cache_map \ X /\ M1 \in EntryMaps
      /\ \A j \in DOMAIN cache_map \ X : M1[j] = cache_map[j]
  BY <1>2, InvIsGood, RestrictMap DEF Good
<1>5. k \in DOMAIN M1 /\ M1[k].total_pages \in Nat
  <2>1. k \in DOMAIN M1
    BY <1>4 DEF Owns, Foreign
  <2> QED
    BY <1>4, <2>1 DEF EntryMaps, CacheEntry
<1>6. PICK again : again = allocate_pages_linked(got.mem, M1[k].total_pages)
  OBVIOUS
<1>7. Cells(again.mem, B \cup again.blocks, F \ again.blocks, M1, K)
  <2>1. PICK m : m = M1[k].total_pages
    OBVIOUS
  <2>2. PICK mem : mem = got.mem
    OBVIOUS
  <2>3. m \in Nat /\ again = allocate_pages_linked(mem, m) /\ Cells(mem, B, F, M1, K)
    BY <1>3, <1>5, <1>6, <2>1, <2>2
  <2> QED
    BY <1>3, <2>3, AllocateCells
<1>8. again.mem.cache_map = M1 /\ again.mem.lru_order = K
      /\ DOMAIN again.mem = {"page_bitmap", "free_list", "cache_map", "lru_order"}
  BY <1>7 DEF Cells
<1>9. \/ RestoreOldPages(got.mem, k) = again.mem
      \/ RestoreOldPages(got.mem, k) =
           [again.mem EXCEPT !.cache_map[k].memory_blocks = again.blocks]
  <2>1. got.mem.cache_map = M1
    BY <1>3 DEF Cells
  <2> QED
    BY <1>6, <2>1 DEF RestoreOldPages
<1>10. lru_order' = K
  BY <1>8, <1>9 DEF Commit
<1>11. cache_map' = M1 \/ cache_map' = [M1 EXCEPT ![k].memory_blocks = again.blocks]
  BY <1>8, <1>9 DEF Commit
<1>12. DOMAIN cache_map' = DOMAIN M1
  BY <1>11
<1>13. ASSUME NEW j \in DOMAIN M1
       PROVE  cache_map'[j].value = M1[j].value /\ cache_map'[j].client_id = M1[j].client_id
  <2>1. M1[j] \in CacheEntry
    BY <1>4 DEF EntryMaps
  <2>2. M1 = [i \in DOMAIN M1 |-> M1[i]]
    BY <1>4 DEF EntryMaps
  <2>3. cache_map'[j] = M1[j] \/ cache_map'[j] = [M1[j] EXCEPT !.memory_blocks = again.blocks]
    BY <1>11, <2>2
  <2> QED
    BY <2>1, <2>3 DEF CacheEntry
<1>14. Same(cache_map, cache_map', DOMAIN cache_map \ X)
  BY <1>4, <1>13 DEF Same
<1> QED
  BY <1>3, <1>4, <1>10, <1>12, <1>14 DEF Lost

\* add_key, as its callers see it.
LEMMA AddEffect ==
    ASSUME Inv, NEW k \in Keys, NEW v \in Values, NEW c \in Clients, add_key(k, v, c)
    PROVE  \/ /\ k \in DOMAIN cache_map
              /\ UNCHANGED <<cache_map, lru_order>>
              /\ Answer("add_key", k, v, c, "KEY_EXISTS")
           \/ k \notin DOMAIN cache_map /\ Lost(c) /\ Answer("add_key", k, v, c, "NO_SPACE")
           \/ k \notin DOMAIN cache_map /\ Wrote(k, v, c) /\ Answer("add_key", k, v, c, "SUCCESS")
<1>1. PICK n : n = calculate_pages_needed(v)
  OBVIOUS
<1>2. PICK got : got = ObtainPages(CacheState, n, c)
  OBVIOUS
<1>3. n \in Nat
  BY <1>1, PagesNeeded
<1>4. Ready(CacheState)
  <2>1. free_list \in SUBSET Page /\ page_bitmap \cap free_list = {}
    BY InvIsGood DEF Good, Accounts
  <2> QED
    BY <2>1, CacheStateCells DEF Ready
<1>5. \/ /\ k \in DOMAIN cache_map
         /\ Answer("add_key", k, v, c, "KEY_EXISTS")
         /\ UNCHANGED <<page_bitmap, free_list, cache_map, lru_order>>
      \/ /\ k \notin DOMAIN cache_map
         /\ Commit(got.mem)
         /\ Answer("add_key", k, v, c, "NO_SPACE")
      \/ /\ k \notin DOMAIN cache_map
         /\ Bind(got, k, v, n, c)
         /\ Answer("add_key", k, v, c, "SUCCESS")
  BY <1>1, <1>2 DEF add_key
<1>6. Commit(got.mem) => Lost(c)
  BY <1>2, <1>3, <1>4, CommitEffect
<1>7. Bind(got, k, v, n, c) => Wrote(k, v, c)
  BY <1>2, <1>3, <1>4, BindEffect
<1> QED
  BY <1>5, <1>6, <1>7

\* update_key, as its callers see it.
LEMMA UpdateEffect ==
    ASSUME Inv, NEW k \in Keys, NEW v \in Values, NEW c \in Clients, update_key(k, v, c)
    PROVE  \/ Refused("update_key", k, v, c)
           \/ Owns(c, k) /\ Lost(c) /\ Answer("update_key", k, v, c, "NO_SPACE")
           \/ Owns(c, k) /\ Wrote(k, v, c) /\ Answer("update_key", k, v, c, "SUCCESS")
<1>1. ASSUME UpdateInPlace(k, v, c)
      PROVE  Owns(c, k) /\ Wrote(k, v, c) /\ Answer("update_key", k, v, c, "SUCCESS")
  <2>1. /\ Owns(c, k) /\ cache_map' = [cache_map EXCEPT ![k].value = v]
        /\ lru_order' = update_lru(lru_order, k)
        /\ Answer("update_key", k, v, c, "SUCCESS")
    BY <1>1 DEF UpdateInPlace
  <2>2. cache_map \in [DOMAIN cache_map -> CacheEntry] /\ cache_map[k] \in CacheEntry
        /\ cache_map[k].client_id = c /\ k \in DOMAIN cache_map
    BY <2>1, InvIsGood DEF Good, EntryMaps, Owns
  <2>3. /\ DOMAIN cache_map' = DOMAIN cache_map
        /\ \A j \in DOMAIN cache_map : j # k => cache_map'[j] = cache_map[j]
        /\ cache_map'[k] = [cache_map[k] EXCEPT !.value = v]
    BY <2>1, <2>2
  <2>4. cache_map'[k].value = v /\ cache_map'[k].client_id = c
    BY <2>2, <2>3 DEF CacheEntry
  <2>5. (DOMAIN cache_map \ {}) \cup {k} = DOMAIN cache_map
        /\ {} \in SUBSET Foreign(cache_map, c) /\ lru_order \in Shorter(lru_order, {})
    BY <2>2 DEF Shorter
  <2>6. Same(cache_map, cache_map', (DOMAIN cache_map \ {}) \ {k})
    BY <2>3 DEF Same
  <2>7. Wrote(k, v, c)
    BY <2>1, <2>3, <2>4, <2>5, <2>6 DEF Wrote
  <2> QED
    BY <2>1, <2>7
<1>2. ASSUME UpdateByReallocation(k, v, c)
      PROVE  \/ Owns(c, k) /\ Lost(c) /\ Answer("update_key", k, v, c, "NO_SPACE")
             \/ Owns(c, k) /\ Wrote(k, v, c) /\ Answer("update_key", k, v, c, "SUCCESS")
  <2>1. PICK n, old : n = calculate_pages_needed(v) /\ old = cache_map[k].memory_blocks
    OBVIOUS
  <2>2. PICK s : s = deallocate_pages_linked(CacheState, old)
    OBVIOUS
  <2>3. PICK got : got = ObtainPages(s, n, c)
    OBVIOUS
  <2>4. n \in Nat
    BY <2>1, PagesNeeded
  <2>5. /\ Owns(c, k)
        /\ \/ /\ Commit(RestoreOldPages(got.mem, k))
              /\ Answer("update_key", k, v, c, "NO_SPACE")
           \/ /\ Bind(got, k, v, n, c)
              /\ Answer("update_key", k, v, c, "SUCCESS")
    BY <1>2, <2>1, <2>2, <2>3 DEF UpdateByReallocation
  <2>6. Ready(s)
    <3>1. Cells(s, page_bitmap \ old, free_list \cup old, cache_map, lru_order)
      BY <2>2, CacheStateCells, DeallocateCells
    <3>2. free_list \in SUBSET Page /\ page_bitmap \cap free_list = {}
      BY InvIsGood DEF Good, Accounts
    <3>3. cache_map \in [DOMAIN cache_map -> CacheEntry] /\ k \in DOMAIN cache_map
      BY <2>5, InvIsGood DEF Good, EntryMaps, Owns
    <3>4. old \in SUBSET Page
      BY <2>1, <3>3 DEF CacheEntry
    <3>5. free_list \cup old \in SUBSET Page /\ (page_bitmap \ old) \cap (free_list \cup old) = {}
      BY <3>2, <3>4
    <3> QED
      BY <3>1, <3>5 DEF Ready
  <2>7. Commit(RestoreOldPages(got.mem, k)) => Lost(c)
    BY <2>3, <2>4, <2>5, <2>6, RestoreEffect
  <2>8. Bind(got, k, v, n, c) => Wrote(k, v, c)
    BY <2>3, <2>4, <2>6, BindEffect
  <2> QED
    BY <2>5, <2>7, <2>8
<1> QED
  BY <1>1, <1>2 DEF update_key

\* get_key, as its callers see it.
LEMMA GetEffect ==
    ASSUME Inv, NEW k \in Keys, NEW c \in Clients, get_key(k, c)
    PROVE  \/ Refused("get_key", k, NoValue, c)
           \/ /\ Owns(c, k) /\ Wrote(k, cache_map[k].value, c) /\ UNCHANGED cache_map
              /\ Answer("get_key", k, cache_map[k].value, c, "SUCCESS")
<1> SUFFICES ASSUME Owns(c, k), lru_order' = update_lru(lru_order, k), UNCHANGED cache_map
             PROVE  Wrote(k, cache_map[k].value, c)
  BY DEF get_key
<1>1. (DOMAIN cache_map \ {}) \cup {k} = DOMAIN cache_map
      /\ {} \in SUBSET Foreign(cache_map, c) /\ lru_order \in Shorter(lru_order, {})
  BY DEF Shorter, Owns
<1>2. Same(cache_map, cache_map', (DOMAIN cache_map \ {}) \ {k})
  BY DEF Same
<1>3. cache_map'[k].value = cache_map[k].value /\ cache_map'[k].client_id = c
  BY DEF Owns
<1> QED
  BY <1>1, <1>2, <1>3 DEF Wrote

\* delete_key, as its callers see it.
LEMMA DeleteEffect ==
    ASSUME Inv, NEW k \in Keys, NEW c \in Clients, delete_key(k, c)
    PROVE  \/ Refused("delete_key", k, NoValue, c)
           \/ Owns(c, k) /\ Removed(k) /\ Answer("delete_key", k, NoValue, c, "SUCCESS")
<1> SUFFICES ASSUME Owns(c, k), Commit(DeleteEntry(k))
             PROVE  Removed(k)
  BY DEF delete_key
<1>1. PICK s : s = deallocate_pages_linked(CacheState, cache_map[k].memory_blocks)
  OBVIOUS
<1>2. s.lru_order = lru_order /\ s.cache_map = cache_map
      /\ DOMAIN s = {"page_bitmap", "free_list", "cache_map", "lru_order"}
  BY <1>1, CacheStateCells, DeallocateCells DEF Cells
<1>3. DeleteEntry(k) = [s EXCEPT !.lru_order = RemoveFirst(s.lru_order, k),
                                 !.cache_map = Restrict(s.cache_map, DOMAIN s.cache_map \ {k})]
  BY <1>1 DEF DeleteEntry
<1>4. /\ cache_map' = Restrict(cache_map, DOMAIN cache_map \ {k})
      /\ lru_order' = RemoveFirst(lru_order, k)
  BY <1>2, <1>3 DEF Commit
<1> QED
  BY <1>4 DEF Removed, Same, Restrict

----------------------------------------------------------------------------
(* The order of last use.                                                  *)

\* A positional order is the order of RECENCY.
LEMMA RecencyIsBefore ==
    ASSUME NEW S, NEW L \in Seq(S), NEW j, NEW k
    PROVE  RECENCY(L, j, k) <=> Before(L, j, k)
<1>1. DOMAIN L = 1..Len(L)
  OBVIOUS
<1> QED
  BY <1>1 DEF RECENCY, Before

\* The keys that stay keep their order, but for the one that is used.
KeepsOrder(D) ==
    \A j, k \in D : RECENCY(lru_order, j, k) => RECENCY(lru_order', j, k)

\* Eviction keeps the order of what it leaves.
LEMMA LostOrder ==
    ASSUME Inv, NEW c, Lost(c)
    PROVE  KeepsOrder(DOMAIN cache_map \cap DOMAIN cache_map')
<1>1. ListOf(lru_order, DOMAIN cache_map) /\ lru_order \in Seq(DOMAIN cache_map)
  BY InvIsGood DEF Good, ListOf
<1>2. PICK X : /\ DOMAIN cache_map' = DOMAIN cache_map \ X
               /\ lru_order' \in Shorter(lru_order, X)
  BY DEF Lost
<1>3. lru_order' \in Seq(DOMAIN cache_map) /\ Thinned(lru_order, X, lru_order')
  BY <1>1, <1>2, ShorterList
<1>4. ASSUME NEW j \in DOMAIN cache_map', NEW k \in DOMAIN cache_map',
             RECENCY(lru_order, j, k)
      PROVE  RECENCY(lru_order', j, k)
  <2>1. j \notin X /\ k \notin X
    BY <1>2
  <2>2. Before(lru_order, j, k)
    BY <1>1, <1>4, RecencyIsBefore
  <2>3. Before(lru_order', j, k)
    BY <1>3, <2>1, <2>2, ThinnedOrder
  <2> QED
    BY <1>3, <2>3, RecencyIsBefore
<1> QED
  BY <1>4 DEF KeepsOrder

\* A call that uses k puts it in front and keeps the order of the others.
LEMMA WroteOrder ==
    ASSUME Inv, NEW k, NEW v, NEW c, Wrote(k, v, c)
    PROVE  /\ Head(lru_order') = k
           /\ KeepsOrder((DOMAIN cache_map \cap DOMAIN cache_map') \ {k})
<1>1. ListOf(lru_order, DOMAIN cache_map) /\ lru_order \in Seq(DOMAIN cache_map)
  BY InvIsGood DEF Good, ListOf
<1>2. PICK X : /\ DOMAIN cache_map' = (DOMAIN cache_map \ X) \cup {k}
               /\ \E J \in Shorter(lru_order, X) : lru_order' = update_lru(J, k)
  BY DEF Wrote
<1>3. PICK J \in Shorter(lru_order, X) : lru_order' = update_lru(J, k)
  BY <1>2
<1>4. /\ J \in Seq(DOMAIN cache_map) /\ Thinned(lru_order, X, J)
      /\ ListOf(J, DOMAIN cache_map \ X)
  BY <1>1, ShorterList
<1>5. /\ ListOf(lru_order', (DOMAIN cache_map \ X) \cup {k})
      /\ lru_order'[1] = k
      /\ \A e, f : e # k /\ f # k /\ Before(J, e, f) => Before(lru_order', e, f)
  BY <1>3, <1>4, UpdateLruList
<1>6. lru_order' \in Seq((DOMAIN cache_map \ X) \cup {k})
  BY <1>5 DEF ListOf
<1>7. ASSUME NEW j \in DOMAIN cache_map' \ {k}, NEW m \in DOMAIN cache_map' \ {k},
             RECENCY(lru_order, j, m)
      PROVE  RECENCY(lru_order', j, m)
  <2>1. j \notin X /\ m \notin X /\ j # k /\ m # k
    BY <1>2
  <2>2. Before(lru_order, j, m)
    BY <1>1, <1>7, RecencyIsBefore
  <2>3. Before(J, j, m)
    BY <1>4, <2>1, <2>2, ThinnedOrder
  <2>4. Before(lru_order', j, m)
    BY <1>5, <2>1, <2>3
  <2> QED
    BY <1>6, <2>4, RecencyIsBefore
<1>8. Head(lru_order') = k
  BY <1>5, <1>6
<1> QED
  BY <1>7, <1>8 DEF KeepsOrder

\* A deletion keeps the order of the others.
LEMMA RemovedOrder ==
    ASSUME Inv, NEW k, Removed(k)
    PROVE  KeepsOrder(DOMAIN cache_map \cap DOMAIN cache_map')
<1>1. ListOf(lru_order, DOMAIN cache_map) /\ lru_order \in Seq(DOMAIN cache_map)
  BY InvIsGood DEF Good, ListOf
<1>2. /\ DOMAIN cache_map' = DOMAIN cache_map \ {k}
      /\ lru_order' \in Seq(DOMAIN cache_map) /\ Thinned(lru_order, {k}, lru_order')
  BY <1>1, RemoveFirstThinned DEF Removed
<1>3. ASSUME NEW j \in DOMAIN cache_map', NEW m \in DOMAIN cache_map',
             RECENCY(lru_order, j, m)
      PROVE  RECENCY(lru_order', j, m)
  <2>1. j \notin {k} /\ m \notin {k}
    BY <1>2
  <2>2. Before(lru_order, j, m)
    BY <1>1, <1>3, RecencyIsBefore
  <2>3. Before(lru_order', j, m)
    BY <1>2, <2>1, <2>2, ThinnedOrder
  <2> QED
    BY <1>2, <2>3, RecencyIsBefore
<1> QED
  BY <1>3 DEF KeepsOrder

\* An early return keeps the list.
LEMMA SameOrder ==
    ASSUME UNCHANGED lru_order, reply'.result # "SUCCESS"
    PROVE  RecencyStep
  BY DEF RecencyStep

\* Every call keeps the order of last use.
LEMMA RecencyNext == Inv /\ Next => RecencyStep
<1> SUFFICES ASSUME Inv, NEW k \in Keys, NEW c \in Clients,
                    \/ \E v \in Values : add_key(k, v, c) \/ update_key(k, v, c)
                    \/ get_key(k, c)
                    \/ delete_key(k, c)
             PROVE  RecencyStep
  BY DEF Next
<1>1. ASSUME NEW op, NEW v, Refused(op, k, v, c)
      PROVE  RecencyStep
  BY <1>1, SameOrder DEF Refused, Answer
<1>2. ASSUME NEW op, NEW v, Lost(c), Answer(op, k, v, c, "NO_SPACE")
      PROVE  RecencyStep
  BY <1>2, LostOrder DEF RecencyStep, KeepsOrder, Others, Answer
<1>3. ASSUME NEW op, NEW v, Wrote(k, v, c), Answer(op, k, v, c, "SUCCESS")
      PROVE  RecencyStep
  <2>1. reply'.key = k /\ reply'.result = "SUCCESS"
    BY <1>3 DEF Answer
  <2>2. Head(lru_order') = k /\ KeepsOrder((DOMAIN cache_map \cap DOMAIN cache_map') \ {k})
    BY <1>3, WroteOrder
  <2> QED
    BY <2>1, <2>2 DEF RecencyStep, KeepsOrder, Others
<1>4. ASSUME Removed(k), Answer("delete_key", k, NoValue, c, "SUCCESS")
      PROVE  RecencyStep
  <2>1. reply'.op = "delete_key" /\ reply'.result = "SUCCESS"
    BY <1>4 DEF Answer
  <2>2. KeepsOrder(DOMAIN cache_map \cap DOMAIN cache_map')
    BY <1>4, RemovedOrder
  <2> QED
    BY <2>1, <2>2 DEF RecencyStep, KeepsOrder, Others
<1>5. ASSUME NEW v \in Values, add_key(k, v, c)
      PROVE  RecencyStep
  <2>1. CASE /\ UNCHANGED <<cache_map, lru_order>>
             /\ Answer("add_key", k, v, c, "KEY_EXISTS")
    BY <2>1, SameOrder DEF Answer
  <2> QED
    BY <1>2, <1>3, <1>5, <2>1, AddEffect
<1>6. ASSUME NEW v \in Values, update_key(k, v, c)
      PROVE  RecencyStep
  BY <1>1, <1>2, <1>3, <1>6, UpdateEffect
<1>7. get_key(k, c) => RecencyStep
  BY <1>1, <1>3, GetEffect
<1>8. delete_key(k, c) => RecencyStep
  BY <1>1, <1>4, DeleteEffect
<1> QED
  BY <1>5, <1>6, <1>7, <1>8

\* lru_order is the order of last use: a call that succeeds makes its key the
\* most recently used one, and neither it nor an eviction reorders the rest.
THEOREM RecencyOrder == Spec => RecencyKept
<1>1. Inv /\ [Next]_vars => [RecencyStep]_vars
  BY RecencyNext
<1> QED
  BY <1>1, Invariance, PTL DEF Spec, RecencyKept

----------------------------------------------------------------------------
(* The refinement of KVCache.                                              *)

\* Two maps with the same domain and the same entries are the same.
LEMMA SameStore ==
    ASSUME NEW f, NEW D, f = [j \in DOMAIN f |-> f[j]], DOMAIN f = D,
           \A j \in D : Store'[j] = f[j], DOMAIN cache_map' = D
    PROVE  Store' = f
<1>1. Store' = [j \in D |-> [value |-> cache_map'[j].value, client_id |-> cache_map'[j].client_id]]
  BY DEF Store
<1>2. Store' = [j \in D |-> Store'[j]]
  BY <1>1
<1> QED
  BY <1>2

\* The entries of Store.
LEMMA StoreEntries ==
    /\ DOMAIN Store = DOMAIN cache_map /\ DOMAIN Store' = DOMAIN cache_map'
    /\ \A j \in DOMAIN cache_map : /\ Store[j].value = cache_map[j].value
                                   /\ Store[j].client_id = cache_map[j].client_id
                                   /\ Store[j] = KV!Entry(cache_map[j].value, cache_map[j].client_id)
    /\ \A j \in DOMAIN cache_map' :
          Store'[j] = KV!Entry(cache_map'[j].value, cache_map'[j].client_id)
  BY DEF Store, KV!Entry

\* An eviction maps to a loss of entries of other clients.
LEMMA LostRefines ==
    ASSUME NEW c, Lost(c)
    PROVE  \E K \in KV!Survivors(c) : Store' = KV!Restrict(Store, K)
<1>1. PICK X \in SUBSET Foreign(cache_map, c) :
        /\ DOMAIN cache_map' = DOMAIN cache_map \ X
        /\ Same(cache_map, cache_map', DOMAIN cache_map \ X)
  BY DEF Lost
<1>2. PICK K : K = DOMAIN cache_map \ X
  OBVIOUS
<1>3. K \in KV!Survivors(c)
  BY <1>2, StoreEntries DEF KV!Survivors, KV!OwnKeys, Foreign
<1>4. PICK f : f = KV!Restrict(Store, K)
  OBVIOUS
<1>5. f = [j \in DOMAIN f |-> f[j]] /\ DOMAIN f = K /\ \A j \in K : f[j] = Store[j]
  BY <1>4 DEF KV!Restrict
<1>6. \A j \in K : Store'[j] = Store[j]
  BY <1>1, <1>2, StoreEntries DEF Same
<1>7. Store' = f
  BY <1>1, <1>2, <1>5, <1>6, SameStore
<1> QED
  BY <1>3, <1>4, <1>7

\* A write maps to such a loss and a binding of the key.
LEMMA WroteRefines ==
    ASSUME NEW k, NEW v, NEW c, Wrote(k, v, c)
    PROVE  \E K \in KV!Survivors(c) :
              Store' = KV!Put(KV!Restrict(Store, K), k, KV!Entry(v, c))
<1>1. PICK X \in SUBSET Foreign(cache_map, c) :
        /\ DOMAIN cache_map' = (DOMAIN cache_map \ X) \cup {k}
        /\ cache_map'[k].value = v /\ cache_map'[k].client_id = c
        /\ Same(cache_map, cache_map', (DOMAIN cache_map \ X) \ {k})
  BY DEF Wrote
<1>2. PICK K : K = DOMAIN cache_map \ X
  OBVIOUS
<1>3. K \in KV!Survivors(c)
  BY <1>2, StoreEntries DEF KV!Survivors, KV!OwnKeys, Foreign
<1>4. PICK e, f : e = KV!Entry(v, c) /\ f = KV!Put(KV!Restrict(Store, K), k, e)
  OBVIOUS
<1>5. /\ f = [j \in DOMAIN f |-> f[j]] /\ DOMAIN f = K \cup {k}
      /\ f[k] = e /\ \A j \in K \ {k} : f[j] = Store[j]
  BY <1>4 DEF KV!Put, KV!Restrict
<1>6. Store'[k] = e /\ \A j \in K \ {k} : Store'[j] = Store[j]
  BY <1>1, <1>2, <1>4, StoreEntries DEF Same
<1>7. Store' = f
  BY <1>1, <1>2, <1>5, <1>6, SameStore
<1> QED
  BY <1>3, <1>4, <1>7

\* A deletion maps to a deletion.
LEMMA RemovedRefines ==
    ASSUME NEW k, Removed(k)
    PROVE  Store' = KV!Restrict(Store, DOMAIN Store \ {k})
<1>1. PICK K : K = DOMAIN cache_map \ {k}
  OBVIOUS
<1>2. PICK f : f = KV!Restrict(Store, K)
  OBVIOUS
<1>3. f = [j \in DOMAIN f |-> f[j]] /\ DOMAIN f = K /\ \A j \in K : f[j] = Store[j]
  BY <1>2 DEF KV!Restrict
<1>4. DOMAIN cache_map' = K /\ \A j \in K : Store'[j] = Store[j]
  BY <1>1, StoreEntries DEF Removed, Same
<1>5. Store' = f
  BY <1>3, <1>4, SameStore
<1> QED
  BY <1>1, <1>2, <1>5, StoreEntries

\* The early returns map to those of KVCache.
LEMMA RefusedRefines ==
    ASSUME NEW op, NEW k, NEW v, NEW c, Refused(op, k, v, c)
    PROVE  KV!Refused(op, k, v, c)
<1>1. Store' = Store
  BY DEF Refused, Store
<1> QED
  BY <1>1, StoreEntries DEF Refused, KV!Refused, Answer, KV!Answer

\* The owner of a key is the owner of its entry in the store.
LEMMA OwnsRefines ==
    ASSUME NEW k, NEW c, Owns(c, k)
    PROVE  k \in KV!OwnKeys(c) /\ Store[k].value = cache_map[k].value
  BY StoreEntries DEF Owns, KV!OwnKeys

\* Every call is a call of KVCache.
LEMMA RefinementNext == Inv /\ Next => KV!Next
<1> SUFFICES ASSUME Inv, NEW k \in Keys, NEW c \in Clients,
                    \/ \E v \in Values : add_key(k, v, c) \/ update_key(k, v, c)
                    \/ get_key(k, c)
                    \/ delete_key(k, c)
             PROVE  \/ \E v \in Values : KV!Add(k, v, c) \/ KV!Update(k, v, c)
                    \/ KV!Get(k, c)
                    \/ KV!Delete(k, c)
  BY DEF Next, KV!Next
<1>0. \A op, v, r : Answer(op, k, v, c, r) => KV!Answer(op, k, v, c, r)
  BY DEF Answer, KV!Answer
<1>1. ASSUME NEW v \in Values, add_key(k, v, c)
      PROVE  KV!Add(k, v, c)
  <2>1. CASE /\ k \in DOMAIN cache_map /\ UNCHANGED <<cache_map, lru_order>>
             /\ Answer("add_key", k, v, c, "KEY_EXISTS")
    <3>1. Store' = Store
      BY <2>1 DEF Store
    <3> QED
      BY <1>0, <2>1, <3>1, StoreEntries DEF KV!Add
  <2>2. CASE k \notin DOMAIN cache_map /\ Lost(c) /\ Answer("add_key", k, v, c, "NO_SPACE")
    BY <1>0, <2>2, LostRefines, StoreEntries DEF KV!Add
  <2>3. CASE k \notin DOMAIN cache_map /\ Wrote(k, v, c) /\ Answer("add_key", k, v, c, "SUCCESS")
    BY <1>0, <2>3, WroteRefines, StoreEntries DEF KV!Add
  <2> QED
    BY <1>1, <2>1, <2>2, <2>3, AddEffect
<1>2. ASSUME NEW v \in Values, update_key(k, v, c)
      PROVE  KV!Update(k, v, c)
  <2>1. CASE Refused("update_key", k, v, c)
    BY <2>1, RefusedRefines DEF KV!Update
  <2>2. CASE Owns(c, k) /\ Lost(c) /\ Answer("update_key", k, v, c, "NO_SPACE")
    BY <1>0, <2>2, OwnsRefines, LostRefines DEF KV!Update
  <2>3. CASE Owns(c, k) /\ Wrote(k, v, c) /\ Answer("update_key", k, v, c, "SUCCESS")
    BY <1>0, <2>3, OwnsRefines, WroteRefines DEF KV!Update
  <2> QED
    BY <1>2, <2>1, <2>2, <2>3, UpdateEffect
<1>3. ASSUME get_key(k, c)
      PROVE  KV!Get(k, c)
  <2>1. CASE Refused("get_key", k, NoValue, c)
    BY <2>1, RefusedRefines DEF KV!Get
  <2>2. CASE /\ Owns(c, k) /\ UNCHANGED cache_map
             /\ Answer("get_key", k, cache_map[k].value, c, "SUCCESS")
    <3>1. Store' = Store
      BY <2>2 DEF Store
    <3>2. KV!Answer("get_key", k, Store[k].value, c, "SUCCESS")
      BY <1>0, <2>2, OwnsRefines
    <3> QED
      BY <2>2, <3>1, <3>2, OwnsRefines DEF KV!Get
  <2> QED
    BY <1>3, <2>1, <2>2, GetEffect
<1>4. ASSUME delete_key(k, c)
      PROVE  KV!Delete(k, c)
  <2>1. CASE Refused("delete_key", k, NoValue, c)
    BY <2>1, RefusedRefines DEF KV!Delete
  <2>2. CASE Owns(c, k) /\ Removed(k) /\ Answer("delete_key", k, NoValue, c, "SUCCESS")
    BY <1>0, <2>2, OwnsRefines, RemovedRefines DEF KV!Delete
  <2> QED
    BY <1>4, <2>1, <2>2, DeleteEffect
<1> QED
  BY <1>1, <1>2, <1>3, <1>4

\* PagedCache implements KVCache: no call changes an entry it does not name
\* except by evicting entries of other clients, and a failed update_key leaves
\* the old value in place.
THEOREM Refinement == Spec => RefinesKVCache
<1>1. Init => KV!Init
  <2> SUFFICES ASSUME Init PROVE KV!Init
    OBVIOUS
  <2>1. DOMAIN cache_map = {} /\ reply = NoCall
    BY DEF Init
  <2>2. Store = [k \in {} |-> NoValue]
    BY <2>1 DEF Store
  <2> QED
    BY <2>1, <2>2 DEF KV!Init, KV!NoCall, NoCall
<1>2. Inv /\ [Next]_vars => [KV!Next]_<<Store, reply>>
  <2>1. UNCHANGED vars => UNCHANGED <<Store, reply>>
    BY DEF vars, Store
  <2> QED
    BY <2>1, RefinementNext
<1> QED
  BY <1>1, <1>2, Invariance, PTL DEF Spec, RefinesKVCache, KV!Spec, KV!kvVars

----------------------------------------------------------------------------
(* Eviction.  The loop adds up total_pages of the entries it evicts; since *)
(* entries own disjoint pages, the sum is the number of pages they free.   *)

\* No two of the keys of D own a common page.
Disjoint(M, D) == \A j, k \in D : j # k => M[j].memory_blocks \cap M[k].memory_blocks = {}

\* The keys at the positions I of L.
KeysAt(L, I) == {L[i] : i \in I}

\* pages_freed counts the pages of the evicted entries.
LEMMA FreedPages ==
    ASSUME NEW s, NEW B, NEW F, NEW M \in EntryMaps, NEW L, Cells(s, B, F, M, L),
           ListOf(L, DOMAIN M), Sized(M), NEW I \in SUBSET (1..Len(L)),
           Disjoint(M, KeysAt(L, I))
    PROVE  PagesFreed(s, I) = Cardinality(PagesOfKeys(M, KeysAt(L, I)))
<1>1. L \in Seq(DOMAIN M) /\ Len(L) \in Nat /\ \A i \in 1..Len(L) : L[i] \in DOMAIN M
  BY DEF ListOf
<1>2. IsFiniteSet(I)
  <2>1. IsFiniteSet(1..Len(L))
    BY <1>1, FS_Interval
  <2> QED
    BY <2>1, FS_Subset
<1>3. PICK P : P = [i \in I |-> M[L[i]].memory_blocks]
  OBVIOUS
<1>4. PICK w : w = [i \in I |-> M[L[i]].total_pages]
  OBVIOUS
<1>5. PICK g : g = Sizes(I, P)
  OBVIOUS
<1>6. g = SumStep(I, w, g)
  <2>1. PICK U : U = Page
    OBVIOUS
  <2>2. IsFiniteSet(U)
    BY <2>1, PagesFinite
  <2>3. \A i \in I : P[i] \subseteq U /\ w[i] = Cardinality(P[i])
    <3> SUFFICES ASSUME NEW i \in I
                 PROVE  P[i] \subseteq U /\ w[i] = Cardinality(P[i])
      OBVIOUS
    <3>1. L[i] \in DOMAIN M /\ M[L[i]] \in CacheEntry
      BY <1>1 DEF EntryMaps
    <3>2. Cardinality(M[L[i]].memory_blocks) = M[L[i]].total_pages
      BY <3>1 DEF Sized
    <3>3. M[L[i]].memory_blocks \subseteq Page
      BY <3>1 DEF CacheEntry
    <3> QED
      BY <1>3, <1>4, <2>1, <3>2, <3>3
  <2>4. \A i, j \in I : i # j => P[i] \cap P[j] = {}
    <3> SUFFICES ASSUME NEW i \in I, NEW j \in I, i # j
                 PROVE  P[i] \cap P[j] = {}
      OBVIOUS
    <3>1. L[i] # L[j] /\ L[i] \in KeysAt(L, I) /\ L[j] \in KeysAt(L, I)
      BY DEF ListOf, KeysAt
    <3> QED
      BY <1>3, <3>1 DEF Disjoint
  <2>5. Measured(I, P, w, U)
    BY <2>3, <2>4 DEF Measured
  <2> QED
    BY <1>5, <2>2, <2>5, SizesAddUp
<1>7. s.cache_map = M /\ s.lru_order = L
  BY DEF Cells
<1>8. ASSUME NEW iter
      PROVE  SumStep(I, w, iter) = [t \in SUBSET I |->
                 IF t = {} THEN 0
                 ELSE LET x == CHOOSE x \in t : TRUE
                      IN  s.cache_map[s.lru_order[x]].total_pages + iter[t \ {x}]]
  <2>1. ASSUME NEW t \in SUBSET I, t # {}
        PROVE  w[CHOOSE x \in t : TRUE] = s.cache_map[s.lru_order[CHOOSE x \in t : TRUE]].total_pages
    <3>1. (CHOOSE x \in t : TRUE) \in t
      BY <2>1
    <3> QED
      BY <1>4, <1>7, <3>1
  <2>2. ASSUME NEW t \in SUBSET I
        PROVE  (IF t = {} THEN 0 ELSE LET x == CHOOSE x \in t : TRUE
                                      IN  w[x] + iter[t \ {x}])
             = (IF t = {} THEN 0
                ELSE LET x == CHOOSE x \in t : TRUE
                     IN  s.cache_map[s.lru_order[x]].total_pages + iter[t \ {x}])
    BY <2>1
  <2> QED
    BY <2>2, Zenon DEF SumStep
<1>9. PICK f : f = CHOOSE iter : iter = [t \in SUBSET I |->
                     IF t = {} THEN 0
                     ELSE LET x == CHOOSE x \in t : TRUE
                          IN  s.cache_map[s.lru_order[x]].total_pages + iter[t \ {x}]]
  OBVIOUS
<1>10. PagesFreed(s, I) = f[I]
  BY <1>9 DEF PagesFreed, MapThenSumSet, MapThenFoldSet
<1>11. f = SumStep(I, w, f)
  <2>1. \E iter : iter = [t \in SUBSET I |->
                     IF t = {} THEN 0
                     ELSE LET x == CHOOSE x \in t : TRUE
                          IN  s.cache_map[s.lru_order[x]].total_pages + iter[t \ {x}]]
    <3>1. g = [t \in SUBSET I |->
                     IF t = {} THEN 0
                     ELSE LET x == CHOOSE x \in t : TRUE
                          IN  s.cache_map[s.lru_order[x]].total_pages + g[t \ {x}]]
      BY <1>6, <1>8
    <3> QED
      BY <3>1
  <2> QED
    BY <1>8, <1>9, <2>1
<1>12. f[I] = g[I]
  BY <1>2, <1>6, <1>11, SumUnique
<1>13. g[I] = Cardinality(PagesOfKeys(M, KeysAt(L, I)))
  <2>1. UNION {P[x] : x \in I} = PagesOfKeys(M, KeysAt(L, I))
    BY <1>3 DEF PagesOfKeys, KeysAt
  <2> QED
    BY <1>5, <2>1 DEF Sizes
<1> QED
  BY <1>10, <1>12, <1>13

\* With every evicted entry go the entries of other clients used less recently.
Suffix(L, M, c, X) ==
    \A i, j \in 1..Len(L) : i < j /\ L[i] \in X /\ L[j] \in Foreign(M, c) => L[j] \in X

\* Position i holds the most recently used key of X.
FirstOf(L, X, i) ==
    /\ i \in 1..Len(L) /\ L[i] \in X
    /\ \A j \in 1..Len(L) : L[j] \in X => i <= j

\* More keys own more pages.
LEMMA MorePages ==
    ASSUME NEW M \in EntryMaps, NEW Y \in SUBSET DOMAIN M, NEW X \in SUBSET Y
    PROVE  /\ PagesOfKeys(M, X) \subseteq PagesOfKeys(M, Y)
           /\ IsFiniteSet(PagesOfKeys(M, X)) /\ IsFiniteSet(PagesOfKeys(M, Y))
           /\ Cardinality(PagesOfKeys(M, X)) \in Nat /\ Cardinality(PagesOfKeys(M, Y)) \in Nat
           /\ Cardinality(PagesOfKeys(M, X)) <= Cardinality(PagesOfKeys(M, Y))
<1>1. PagesOfKeys(M, X) \subseteq PagesOfKeys(M, Y)
  BY DEF PagesOfKeys
<1>2. PagesOfKeys(M, X) \in SUBSET Page /\ PagesOfKeys(M, Y) \in SUBSET Page
  BY PagesOfKeysType
<1>3. /\ IsFiniteSet(PagesOfKeys(M, X)) /\ IsFiniteSet(PagesOfKeys(M, Y))
      /\ Cardinality(PagesOfKeys(M, X)) \in Nat /\ Cardinality(PagesOfKeys(M, Y)) \in Nat
  BY <1>2, PagesFinite
<1> QED
  BY <1>1, <1>3, FS_Subset

\* The keys X at the positions V own d pages and are the victims of a loop that
\* has m pages to free.
Victims(s, L, M, c, m, V, X, d) ==
    /\ X \subseteq Foreign(M, c) /\ d \in Nat
    /\ PagesFreed(s, V) = d
    /\ Suffix(L, M, c, X)
    /\ d < m => X = Foreign(M, c)
    /\ \A i : FirstOf(L, X, i) => d < m + M[L[i]].total_pages

\* The victims of the loop: the least recently used entries of other clients,
\* as few as free m pages, or all when they do not.
LEMMA VictimsChosen ==
    ASSUME NEW s, NEW B, NEW F, NEW M \in EntryMaps, NEW L, Cells(s, B, F, M, L),
           ListOf(L, DOMAIN M), Sized(M), NEW c, Disjoint(M, Foreign(M, c)),
           NEW m \in Int, NEW V, V = VictimPositions(s, c, m),
           NEW X, X = KeysAt(L, V), NEW d, d = Cardinality(PagesOfKeys(M, X))
    PROVE  Victims(s, L, M, c, m, V, X, d)
<1>1. L \in Seq(DOMAIN M) /\ Len(L) \in Nat /\ \A i \in 1..Len(L) : L[i] \in DOMAIN M
  BY DEF ListOf
<1>2. s.cache_map = M /\ s.lru_order = L
  BY DEF Cells
<1>3. PICK E : E = EvictablePositions(s, c)
  OBVIOUS
<1>4. E = {i \in 1..Len(L) : L[i] \in Foreign(M, c)}
  BY <1>1, <1>2, <1>3 DEF EvictablePositions, Foreign
<1>5. PICK size : size = [I \in SUBSET E |-> Cardinality(PagesOfKeys(M, KeysAt(L, I)))]
  OBVIOUS
<1>6. ASSUME NEW I \in SUBSET E
      PROVE  PagesFreed(s, I) = size[I] /\ KeysAt(L, I) \subseteq Foreign(M, c)
  <2>1. I \in SUBSET (1..Len(L)) /\ KeysAt(L, I) \subseteq Foreign(M, c)
    BY <1>4 DEF KeysAt
  <2>2. Disjoint(M, KeysAt(L, I))
    BY <2>1 DEF Disjoint
  <2>3. PagesFreed(s, I) = Cardinality(PagesOfKeys(M, KeysAt(L, I)))
    BY <2>1, <2>2, FreedPages
  <2> QED
    BY <1>5, <2>1, <2>3
<1>7. ASSUME NEW J \in SUBSET E, NEW I \in SUBSET J
      PROVE  size[I] \in Nat /\ size[J] \in Nat /\ size[I] <= size[J]
  <2>1. PICK S, T : S = KeysAt(L, I) /\ T = KeysAt(L, J)
    OBVIOUS
  <2>2. S \subseteq T /\ T \subseteq DOMAIN M
    BY <1>6, <2>1 DEF KeysAt, Foreign
  <2>3. size[I] = Cardinality(PagesOfKeys(M, S)) /\ size[J] = Cardinality(PagesOfKeys(M, T))
    BY <1>5, <2>1
  <2> QED
    BY <2>2, <2>3, MorePages
<1>8. PICK rest : rest = [i \in E |-> {j \in E : j > i}]
  OBVIOUS
<1>9. V = {i \in E : size[rest[i]] < m} /\ V \subseteq E /\ \A i \in E : rest[i] \subseteq E
  <2>1. V = {i \in E : PagesFreed(s, {j \in E : j > i}) < m}
    BY <1>3 DEF VictimPositions
  <2>2. \A i \in E : rest[i] = {j \in E : j > i} /\ rest[i] \in SUBSET E
    BY <1>8
  <2>3. \A i \in E : PagesFreed(s, {j \in E : j > i}) = size[rest[i]]
    BY <1>6, <2>2
  <2> QED
    BY <2>1, <2>2, <2>3
<1>10. X \subseteq Foreign(M, c) /\ PagesFreed(s, V) = d /\ d = size[V] /\ d \in Nat
  BY <1>5, <1>6, <1>7, <1>9
<1>11. \A i \in 1..Len(L) : L[i] \in X <=> i \in V
  <2>1. V \subseteq 1..Len(L)
    BY <1>4, <1>9
  <2> QED
    BY <2>1 DEF KeysAt, ListOf
<1>12. ASSUME NEW i \in V, NEW j \in E, i < j
       PROVE  j \in V
  <2>1. i \in E /\ i \in Int /\ j \in Int /\ rest[i] = {q \in E : q > i} /\ rest[j] = {q \in E : q > j}
    BY <1>4, <1>8, <1>9
  <2>2. \A q \in E : q \in Int
    BY <1>4
  <2>3. rest[j] \subseteq rest[i]
    <3> SUFFICES ASSUME NEW q \in rest[j]
                 PROVE  q \in rest[i]
      OBVIOUS
    <3>1. q \in E /\ q > j /\ q \in Int
      BY <2>1, <2>2
    <3>2. q > i
      BY <1>12, <2>1, <3>1
    <3> QED
      BY <2>1, <3>1, <3>2
  <2>4. size[rest[j]] <= size[rest[i]] /\ size[rest[j]] \in Nat /\ size[rest[i]] \in Nat
        /\ size[rest[i]] < m
    BY <1>7, <1>9, <2>1, <2>3
  <2>5. size[rest[j]] < m
    BY <2>4
  <2> QED
    BY <1>9, <2>5
<1>13. Suffix(L, M, c, X)
  BY <1>4, <1>11, <1>12 DEF Suffix
<1>14. ASSUME d < m
       PROVE  X = Foreign(M, c)
  <2>1. ASSUME NEW Q, Q = E \ V, Q # {}
        PROVE  FALSE
    <3>1. PICK i \in Q : \A j \in Q : j <= i
      <4>1. Q \in SUBSET (0..Len(L))
        BY <1>4, <2>1
      <4> QED
        BY <1>1, <2>1, <4>1, GreatestElement
    <3>2. rest[i] \subseteq V
      <4>1. i \in E /\ rest[i] = {j \in E : j > i} /\ i \in Int /\ \A j \in E : j \in Int
        BY <1>4, <1>8, <2>1
      <4>2. \A j \in E : j > i => j \notin Q
        BY <3>1, <4>1
      <4> QED
        BY <2>1, <4>1, <4>2
    <3>3. size[rest[i]] <= size[V] /\ size[rest[i]] \in Nat
      BY <1>7, <1>9, <3>2
    <3>4. size[rest[i]] < m
      BY <1>10, <1>14, <3>3
    <3> QED
      BY <1>9, <2>1, <3>1, <3>4
  <2>2. V = E
    BY <1>9, <2>1
  <2>3. \A k \in Foreign(M, c) : \E i \in E : L[i] = k
    BY <1>4 DEF Foreign, ListOf
  <2> QED
    BY <1>10, <2>2, <2>3 DEF KeysAt
<1>15. ASSUME NEW i, FirstOf(L, X, i)
       PROVE  d < m + M[L[i]].total_pages
  <2>1. i \in V /\ i \in Int /\ \A j \in V : i <= j /\ j \in Int
    BY <1>4, <1>9, <1>11, <1>15 DEF FirstOf
  <2>2. V \subseteq rest[i] \cup {i}
    <3> SUFFICES ASSUME NEW j \in V, j # i
                 PROVE  j \in rest[i]
      OBVIOUS
    <3>1. j > i /\ j \in E /\ i \in E
      BY <1>9, <2>1
    <3> QED
      BY <1>8, <3>1
  <2>3. PICK R, S : R = PagesOfKeys(M, KeysAt(L, rest[i])) /\ S = M[L[i]].memory_blocks
    OBVIOUS
  <2>4. PagesOfKeys(M, X) \subseteq R \cup S
    BY <2>2, <2>3 DEF PagesOfKeys, KeysAt
  <2>5. M[L[i]] \in CacheEntry /\ Cardinality(S) = M[L[i]].total_pages
    BY <1>1, <1>15, <2>3 DEF EntryMaps, Sized, FirstOf
  <2>6. IsFiniteSet(S) /\ S \in SUBSET Page /\ Cardinality(S) \in Nat
    BY <2>3, <2>5, PagesFinite DEF CacheEntry
  <2>7. R \in SUBSET Page /\ Cardinality(R) = size[rest[i]] /\ size[rest[i]] < m
    <3>1. i \in E /\ rest[i] \in SUBSET E
      BY <1>9, <2>1
    <3>2. PICK T : T = KeysAt(L, rest[i])
      OBVIOUS
    <3>3. T \in SUBSET DOMAIN M
      BY <1>6, <3>1, <3>2 DEF Foreign
    <3> QED
      BY <1>5, <1>9, <2>1, <2>3, <3>1, <3>2, <3>3, PagesOfKeysType
  <2>8. IsFiniteSet(R) /\ Cardinality(R) \in Nat
    BY <2>7, PagesFinite
  <2>9. /\ IsFiniteSet(R \cup S) /\ Cardinality(R \cap S) \in Nat
        /\ Cardinality(R \cup S) = Cardinality(R) + Cardinality(S) - Cardinality(R \cap S)
    BY <2>6, <2>8, FS_Union, FS_Intersection, FS_CardinalityType
  <2>10. d <= Cardinality(R \cup S)
    BY <2>4, <2>9, FS_Subset
  <2> QED
    BY <1>10, <2>5, <2>6, <2>7, <2>8, <2>9, <2>10
<1> QED
  BY <1>10, <1>13, <1>14, <1>15 DEF Victims

\* What a call of client c that needs n pages evicts, X, and whether it gets
\* its pages: F are the free pages before, blocks the pages handed out.
Chosen(L, M, F, c, n, X, blocks) ==
    LET P == PagesOfKeys(M, X)
    IN  /\ Suffix(L, M, c, X)
        /\ blocks # {} => \A i : FirstOf(L, X, i) =>
                              Cardinality((F \cup P) \ blocks) < M[L[i]].total_pages
        /\ n > 0 /\ blocks = {} => X = Foreign(M, c) /\ Cardinality(F \cup P) < n

\* Evicting no entry is a choice when the pages are there.
LEMMA NothingChosen ==
    ASSUME NEW L, NEW M, NEW F, NEW c, NEW n \in Nat, NEW blocks, blocks # {} \/ n = 0
    PROVE  Chosen(L, M, F, c, n, {}, blocks)
  BY DEF Chosen, Suffix, FirstOf

\* The pages a failed eviction is short of, and a successful one has to spare.
LEMMA SpareChosen ==
    ASSUME NEW L, NEW M \in EntryMaps, NEW F \in SUBSET Page, NEW c, NEW n \in Nat,
           NEW X \in SUBSET DOMAIN M, NEW P, P = PagesOfKeys(M, X), F \cap P = {},
           NEW m, m = n - Cardinality(F), Suffix(L, M, c, X),
           Cardinality(P) < m => X = Foreign(M, c),
           \A i : FirstOf(L, X, i) => /\ Cardinality(P) < m + M[L[i]].total_pages
                                      /\ M[L[i]].total_pages \in Nat,
           NEW blocks \in SUBSET (F \cup P),
           blocks # {} => Cardinality(blocks) = n,
           n > 0 /\ n <= Cardinality(F \cup P) => blocks # {}
    PROVE  Chosen(L, M, F, c, n, X, blocks)
<1>1. P \in SUBSET Page /\ F \cup P \in SUBSET Page
  BY PagesOfKeysType
<1>2. /\ IsFiniteSet(F) /\ IsFiniteSet(P) /\ IsFiniteSet(F \cup P)
      /\ Cardinality(F) \in Nat /\ Cardinality(P) \in Nat
  BY <1>1, PagesFinite
<1>3. Cardinality(F \cup P) = Cardinality(F) + Cardinality(P)
  <2>1. Cardinality(F \cup P) = Cardinality(F) + Cardinality(P) - Cardinality(F \cap P)
    BY <1>2, FS_Union
  <2>2. Cardinality(F \cap P) = 0
    BY FS_EmptySet
  <2> QED
    BY <1>2, <2>1, <2>2
<1>4. ASSUME blocks # {}, NEW i, FirstOf(L, X, i)
      PROVE  Cardinality((F \cup P) \ blocks) < M[L[i]].total_pages
  <2>1. (F \cup P) \cap blocks = blocks
    OBVIOUS
  <2>2. Cardinality((F \cup P) \ blocks) = Cardinality(F \cup P) - n
    <3>1. PICK U : U = F \cup P
      OBVIOUS
    <3>2. IsFiniteSet(U) /\ U \cap blocks = blocks
      BY <1>2, <2>1, <3>1
    <3>3. Cardinality(U \ blocks) = Cardinality(U) - Cardinality(U \cap blocks)
      BY <3>2, FS_Difference
    <3> QED
      BY <1>4, <3>1, <3>2, <3>3
  <2>3. PICK t : t = M[L[i]].total_pages
    OBVIOUS
  <2>4. Cardinality(P) < m + t /\ t \in Nat
    BY <1>4, <2>3
  <2>5. Cardinality(F \cup P) - n < t
    BY <1>2, <1>3, <2>4
  <2> QED
    BY <2>2, <2>3, <2>5
<1>5. ASSUME n > 0, blocks = {}
      PROVE  X = Foreign(M, c) /\ Cardinality(F \cup P) < n
  BY <1>2, <1>3, <1>5
<1> QED
  BY <1>4, <1>5 DEF Chosen

\* got is the outcome of ObtainPages when the entries of X are evicted by that
\* rule and the pages of G are free before the last allocation.
ObtainedBy(got, F, M, L, c, n, X, G) ==
    /\ X \in SUBSET Foreign(M, c) /\ G \in SUBSET Page
    /\ \E B, K : /\ Cells(got.mem, B, G \ got.blocks, Restrict(M, DOMAIN M \ X), K)
                 /\ B \cap (G \ got.blocks) = {}
    /\ G = F \cup PagesOfKeys(M, X)
    /\ got.blocks \subseteq G
    /\ Chosen(L, M, F, c, n, X, got.blocks)

\* ObtainPages evicts by that rule, and after an eviction that frees enough its
\* second allocation succeeds.
LEMMA ObtainChosen ==
    ASSUME NEW s, NEW B, NEW F \in SUBSET Page, NEW M \in EntryMaps, NEW L,
           NEW k, NEW n \in Nat, NEW c, Cells(s, B, F, M, L), ListOf(L, DOMAIN M),
           Accounts(B, F, M, DOMAIN M \ {k}), Sized(M), k \notin Foreign(M, c),
           NEW got, got = ObtainPages(s, n, c)
    PROVE  \E X, G : ObtainedBy(got, F, M, L, c, n, X, G)
<1>1. PICK first : first = allocate_pages_linked(s, n)
  OBVIOUS
<1>2. PICK evict : evict = evict_lru_if_needed(first.mem, n, c)
  OBVIOUS
<1>3. PICK again : again = allocate_pages_linked(evict.mem, n)
  OBVIOUS
<1>4. B \cap F = {} /\ F = Page \ B
  BY DEF Accounts
<1>5. /\ first.blocks \subseteq F
      /\ Cells(first.mem, B \cup first.blocks, F \ first.blocks, M, L)
      /\ n > 0 /\ n <= Cardinality(F) => first.blocks # {}
  BY <1>1, <1>4, AllocateCells
<1>6. /\ PagesOfKeys(M, {}) = {} /\ Restrict(M, DOMAIN M \ {}) = M /\ F \cup {} = F
      /\ {} \in SUBSET Foreign(M, c)
  BY DEF PagesOfKeys, Restrict, EntryMaps
<1>7. CASE first.blocks # NullBlocks
  <2>1. got = first
    BY <1>1, <1>7 DEF ObtainPages
  <2>2. Chosen(L, M, F, c, n, {}, got.blocks)
    BY <1>7, <2>1, NothingChosen DEF NullBlocks
  <2>3. PICK B1 : B1 = B \cup got.blocks
    OBVIOUS
  <2>4. Cells(got.mem, B1, F \ got.blocks, M, L) /\ B1 \cap (F \ got.blocks) = {}
    BY <1>4, <1>5, <2>1, <2>3
  <2>5. ObtainedBy(got, F, M, L, c, n, {}, F)
    BY <1>5, <1>6, <2>1, <2>2, <2>4 DEF ObtainedBy
  <2> QED
    BY <2>5
<1>8. CASE first.blocks = NullBlocks /\ n = 0
  <2>1. Cells(first.mem, B, F, M, L)
    BY <1>5, <1>8 DEF NullBlocks
  <2>2. evict.mem = first.mem
    <3>1. get_free_pages(first.mem) = Cardinality(F)
      BY <1>4, <2>1 DEF get_free_pages, Cells
    <3>2. n - get_free_pages(first.mem) <= 0
      BY <1>8, <3>1, PagesFinite
    <3> QED
      BY <1>2, <3>2 DEF evict_lru_if_needed
  <2>3. /\ again.blocks \subseteq F
        /\ Cells(again.mem, B \cup again.blocks, F \ again.blocks, M, L)
        /\ again.blocks # {} => n > 0
    BY <1>3, <1>4, <2>1, <2>2, AllocateCells
  <2>4. \/ got = again
        \/ got.mem = evict.mem /\ got.blocks = {}
    BY <1>1, <1>2, <1>3, <1>8 DEF ObtainPages, NullBlocks
  <2>5. got.blocks = {} /\ Cells(got.mem, B, F, M, L)
    <3>1. again.blocks = {}
      BY <1>8, <2>3
    <3>2. Cells(again.mem, B, F, M, L)
      BY <2>3, <3>1
    <3> QED
      BY <2>1, <2>2, <2>4, <3>1, <3>2
  <2>6. Chosen(L, M, F, c, n, {}, got.blocks)
    BY <1>8, NothingChosen
  <2>7. Cells(got.mem, B, F \ got.blocks, M, L) /\ B \cap (F \ got.blocks) = {}
    BY <1>4, <2>5
  <2>8. ObtainedBy(got, F, M, L, c, n, {}, F)
    BY <1>6, <2>5, <2>6, <2>7 DEF ObtainedBy
  <2> QED
    BY <2>8
<1>9. CASE first.blocks = NullBlocks /\ n > 0
  <2>1. Cells(first.mem, B, F, M, L) /\ ~ (n <= Cardinality(F)) /\ Cardinality(F) \in Nat
    BY <1>5, <1>9, PagesFinite DEF NullBlocks
  <2>2. PICK m : m = n - Cardinality(F)
    OBVIOUS
  <2>3. PICK V : V = VictimPositions(first.mem, c, m)
    OBVIOUS
  <2>4. PICK X : X = KeysAt(L, V)
    OBVIOUS
  <2>5. PICK P : P = PagesOfKeys(M, X)
    OBVIOUS
  <2>6. get_free_pages(first.mem) = Cardinality(F) /\ first.mem.lru_order = L
    BY <1>4, <2>1 DEF get_free_pages, Cells
  <2>7. m \in Int /\ ~ (m <= 0)
    BY <2>1, <2>2
  <2>8. /\ evict.mem = EvictKeys(first.mem, X)
        /\ evict.ok = (PagesFreed(first.mem, V) >= m)
    BY <1>2, <2>2, <2>3, <2>4, <2>6, <2>7 DEF evict_lru_if_needed, KeysAt
  <2>9. Disjoint(M, Foreign(M, c))
    BY DEF Disjoint, Accounts, Foreign
  <2>10. /\ X \subseteq Foreign(M, c) /\ Cardinality(P) \in Nat
         /\ PagesFreed(first.mem, V) = Cardinality(P)
         /\ Suffix(L, M, c, X)
         /\ Cardinality(P) < m => X = Foreign(M, c)
         /\ \A i : FirstOf(L, X, i) => Cardinality(P) < m + M[L[i]].total_pages
    <3>1. PICK mem : mem = first.mem
      OBVIOUS
    <3>2. Cells(mem, B, F, M, L) /\ V = VictimPositions(mem, c, m)
      BY <2>1, <2>3, <3>1
    <3>3. PICK d : d = Cardinality(PagesOfKeys(M, X))
      OBVIOUS
    <3>4. Victims(mem, L, M, c, m, V, X, d)
      BY <2>4, <2>7, <2>9, <3>2, <3>3, VictimsChosen
    <3> QED
      BY <2>5, <3>1, <3>3, <3>4 DEF Victims
  <2>11. Cells(evict.mem, B \ P, F \cup P, Restrict(M, DOMAIN M \ X), Without(L, X))
    BY <2>1, <2>5, <2>8, EvictKeysCells
  <2>12. /\ F \cap P = {} /\ X \in SUBSET DOMAIN M /\ P \in SUBSET Page
         /\ F \cup P \in SUBSET Page /\ (B \ P) \cap (F \cup P) = {}
    <3>1. X \in SUBSET (DOMAIN M \ {k})
      BY <2>10 DEF Foreign
    <3>2. P \subseteq B
      BY <2>5, <3>1 DEF Accounts, PagesOfKeys
    <3> QED
      BY <1>4, <2>5, <3>1, <3>2, PagesOfKeysType
  <2>13. PICK G, N : G = F \cup P /\ N = Restrict(M, DOMAIN M \ X)
    OBVIOUS
  <2>14. /\ again.blocks \subseteq G
         /\ Cells(again.mem, (B \ P) \cup again.blocks, G \ again.blocks, N, Without(L, X))
         /\ again.blocks # {} => n > 0 /\ Cardinality(again.blocks) = n
         /\ n > 0 /\ n <= Cardinality(G) => again.blocks # {}
    <3>1. PICK mem, B1, K : mem = evict.mem /\ B1 = B \ P /\ K = Without(L, X)
      OBVIOUS
    <3>2. Cells(mem, B1, G, N, K) /\ B1 \cap G = {} /\ G \in SUBSET Page
          /\ again = allocate_pages_linked(mem, n)
      BY <1>3, <2>11, <2>12, <2>13, <3>1
    <3>3. /\ again.blocks \subseteq G
          /\ Cells(again.mem, B1 \cup again.blocks, G \ again.blocks, N, K)
          /\ again.blocks # {} => n > 0 /\ Cardinality(again.blocks) = n
          /\ n > 0 /\ n <= Cardinality(G) => again.blocks # {}
      BY <3>2, AllocateCells
    <3> QED
      BY <3>1, <3>3
  <2>15. Cardinality(G) = Cardinality(F) + Cardinality(P)
    <3>1. IsFiniteSet(F) /\ IsFiniteSet(P)
      BY <2>12, PagesFinite
    <3>2. Cardinality(F \cup P) = Cardinality(F) + Cardinality(P) - Cardinality(F \cap P)
      BY <3>1, FS_Union
    <3>3. Cardinality(F \cap P) = 0
      BY <2>12, FS_EmptySet
    <3> QED
      BY <2>1, <2>10, <2>13, <3>2, <3>3
  <2>16. IF evict.ok THEN got = again ELSE got.mem = evict.mem /\ got.blocks = {}
    BY <1>1, <1>2, <1>3, <1>9 DEF ObtainPages, NullBlocks
  <2>17. evict.ok <=> n <= Cardinality(G)
    <3>1. PagesFreed(first.mem, V) >= m <=> n <= Cardinality(G)
      BY <2>1, <2>2, <2>10, <2>15
    <3> QED
      BY <2>8, <3>1, Zenon
  <2>18. PICK B1 : B1 = IF evict.ok THEN (B \ P) \cup got.blocks ELSE B \ P
    OBVIOUS
  <2>21. /\ got.blocks \subseteq G
         /\ got.blocks # {} => Cardinality(got.blocks) = n
         /\ n > 0 /\ n <= Cardinality(G) => got.blocks # {}
         /\ Cells(got.mem, B1, G \ got.blocks, N, Without(L, X))
         /\ B1 \cap (G \ got.blocks) = {}
    <3>1. CASE evict.ok
      <4>1. B1 = (B \ P) \cup got.blocks /\ got = again
        BY <2>16, <2>18, <3>1
      <4>2. B1 \cap (G \ got.blocks) = {}
        BY <2>12, <2>13, <4>1
      <4> QED
        BY <2>14, <4>1, <4>2
    <3>2. CASE ~ evict.ok
      <4>1. B1 = B \ P /\ got.mem = evict.mem /\ got.blocks = {}
        BY <2>16, <2>18, <3>2
      <4>2. G \ got.blocks = G /\ B1 \cap G = {}
        BY <2>12, <2>13, <4>1
      <4>3. Cells(got.mem, B1, G \ got.blocks, N, Without(L, X))
        BY <2>11, <2>13, <4>1, <4>2
      <4> QED
        BY <2>17, <3>2, <4>1, <4>2, <4>3
    <3> QED
      BY <3>1, <3>2
  <2>19. \A i : FirstOf(L, X, i) => /\ Cardinality(P) < m + M[L[i]].total_pages
                                    /\ M[L[i]].total_pages \in Nat
    <3>1. \A i : FirstOf(L, X, i) => M[L[i]] \in CacheEntry
      BY <2>12 DEF FirstOf, EntryMaps
    <3> QED
      BY <2>10, <3>1 DEF CacheEntry
  <2>20. Chosen(L, M, F, c, n, X, got.blocks)
    BY <2>2, <2>5, <2>10, <2>12, <2>13, <2>19, <2>21, SpareChosen
  <2>22. ObtainedBy(got, F, M, L, c, n, X, G)
    BY <2>5, <2>10, <2>12, <2>13, <2>20, <2>21 DEF ObtainedBy
  <2> QED
    BY <2>22
<1>10. n = 0 \/ n > 0
  OBVIOUS
<1> QED
  BY <1>7, <1>8, <1>9, <1>10, Zenon

----------------------------------------------------------------------------
(* Eviction, as a property of steps.                                       *)

\* A call of client c evicts the keys of X, by the rule above.
EvictedBy(c, X) ==
    /\ X \in SUBSET Foreign(cache_map, c)
    /\ DOMAIN cache_map \ DOMAIN cache_map' = X
    /\ Suffix(lru_order, cache_map, c, X)
    /\ reply'.result = "SUCCESS" =>
         \A i : FirstOf(lru_order, X, i) => Cardinality(free_list') < cache_map[lru_order[i]].total_pages

\* What a step does as far as eviction goes.
Evicts == \/ reply'.op = "delete_key" /\ reply'.result # "NO_SPACE"
          \/ NoSpaceMeansExhausted' /\ \E X : EvictedBy(reply'.client_id, X)

\* The fields of an answer.
LEMMA AnswerFields ==
    ASSUME NEW op, NEW k, NEW v, NEW c, NEW r, Answer(op, k, v, c, r)
    PROVE  /\ reply'.op = op /\ reply'.key = k /\ reply'.value = v
           /\ reply'.client_id = c /\ reply'.result = r
  BY DEF Answer

\* A call that drops no entry and is not refused for want of space.
LEMMA NothingEvicted ==
    ASSUME NEW op, NEW k, NEW v, NEW c, NEW r, Answer(op, k, v, c, r), r # "NO_SPACE",
           DOMAIN cache_map \subseteq DOMAIN cache_map'
    PROVE  Evicts
<1>1. reply'.client_id = c /\ reply'.result # "NO_SPACE"
  BY AnswerFields
<1>2. NoSpaceMeansExhausted'
  BY <1>1 DEF NoSpaceMeansExhausted
<1>3. EvictedBy(c, {})
  BY DEF EvictedBy, Suffix, FirstOf
<1> QED
  BY <1>1, <1>2, <1>3 DEF Evicts

\* A call that gets its pages.
LEMMA BindEvicts ==
    ASSUME NEW got, NEW F, NEW k, NEW v, NEW c, NEW n, NEW X, NEW G, NEW op,
           ObtainedBy(got, F, cache_map, lru_order, c, n, X, G), got.blocks # {},
           k \notin Foreign(cache_map, c), Bind(got, k, v, n, c),
           Answer(op, k, v, c, "SUCCESS")
    PROVE  Evicts
<1>1. reply'.client_id = c /\ reply'.result = "SUCCESS"
  BY AnswerFields
<1>2. PICK N : N = Restrict(cache_map, DOMAIN cache_map \ X)
  OBVIOUS
<1>3. PICK B, K : Cells(got.mem, B, G \ got.blocks, N, K)
  BY <1>2 DEF ObtainedBy
<1>4. PICK e : e = [value |-> v, memory_blocks |-> got.blocks, total_pages |-> n, client_id |-> c]
  OBVIOUS
<1>5. cache_map' = PutEntry(N, k, e) /\ free_list' = G \ got.blocks
  BY <1>3, <1>4 DEF Bind, Commit, Cells
<1>6. DOMAIN cache_map' = (DOMAIN cache_map \ X) \cup {k}
  BY <1>2, <1>5 DEF PutEntry, Restrict
<1>7. /\ X \in SUBSET Foreign(cache_map, c) /\ X \in SUBSET DOMAIN cache_map
      /\ Chosen(lru_order, cache_map, F, c, n, X, got.blocks)
      /\ G = F \cup PagesOfKeys(cache_map, X)
  BY DEF ObtainedBy, Foreign
<1>8. DOMAIN cache_map \ DOMAIN cache_map' = X
  BY <1>6, <1>7
<1>9. /\ Suffix(lru_order, cache_map, c, X)
      /\ \A i : FirstOf(lru_order, X, i) => Cardinality(G \ got.blocks) < cache_map[lru_order[i]].total_pages
  BY <1>7 DEF Chosen
<1>10. EvictedBy(c, X)
  BY <1>5, <1>7, <1>8, <1>9 DEF EvictedBy
<1>11. NoSpaceMeansExhausted'
  BY <1>1 DEF NoSpaceMeansExhausted
<1> QED
  BY <1>1, <1>10, <1>11 DEF Evicts

\* A call that does not get its pages, once the entry of its key, if there is
\* one, has its pages again.
LEMMA RefusedEvicts ==
    ASSUME NEW got, NEW F, NEW k, NEW v, NEW c, NEW X, NEW G, NEW op,
           ObtainedBy(got, F, cache_map, lru_order, c, calculate_pages_needed(v), X, G),
           got.blocks = {}, Answer(op, k, v, c, "NO_SPACE"),
           DOMAIN cache_map' = DOMAIN cache_map \ X,
           \A j \in DOMAIN cache_map' : cache_map'[j].client_id = cache_map[j].client_id,
           Cardinality(G) = Cardinality(free_list') +
                IF k \in DOMAIN cache_map' THEN cache_map'[k].total_pages ELSE 0
    PROVE  Evicts
<1>1. /\ reply'.client_id = c /\ reply'.result = "NO_SPACE"
      /\ reply'.key = k /\ reply'.value = v
  BY AnswerFields
<1>2. PICK n : n = calculate_pages_needed(v)
  OBVIOUS
<1>3. /\ X \in SUBSET Foreign(cache_map, c) /\ X \in SUBSET DOMAIN cache_map
      /\ Chosen(lru_order, cache_map, F, c, n, X, {})
      /\ G = F \cup PagesOfKeys(cache_map, X)
  BY <1>2 DEF ObtainedBy, Foreign
<1>4. DOMAIN cache_map \ DOMAIN cache_map' = X
  BY <1>3
<1>5. Suffix(lru_order, cache_map, c, X)
  BY <1>3 DEF Chosen
<1>6. EvictedBy(c, X)
  BY <1>1, <1>3, <1>4, <1>5 DEF EvictedBy
<1>7. ASSUME n > 0
      PROVE  /\ \A j \in DOMAIN cache_map' : cache_map'[j].client_id = c
             /\ RoomFor(k)' < n
  <2>1. X = Foreign(cache_map, c) /\ Cardinality(G) < n
    BY <1>3, <1>7 DEF Chosen
  <2>2. \A j \in DOMAIN cache_map' : cache_map'[j].client_id = c
    BY <2>1 DEF Foreign
  <2>3. RoomFor(k)' = Cardinality(G)
    BY DEF RoomFor
  <2> QED
    BY <2>1, <2>2, <2>3
<1>8. NoSpaceMeansExhausted'
  <2>1. RoomFor(reply.key)' = RoomFor(k)'
    BY <1>1 DEF RoomFor
  <2>2. calculate_pages_needed(reply.value)' = n
    BY <1>1, <1>2
  <2> QED
    BY <1>1, <1>7, <2>1, <2>2 DEF NoSpaceMeansExhausted
<1> QED
  BY <1>1, <1>6, <1>8 DEF Evicts

\* add_key.
LEMMA AddEvicts ==
    ASSUME Inv, NEW k \in Keys, NEW v \in Values, NEW c \in Clients, add_key(k, v, c)
    PROVE  Evicts
<1>1. CASE k \in DOMAIN cache_map
  <2>1. Answer("add_key", k, v, c, "KEY_EXISTS") /\ UNCHANGED cache_map
    BY <1>1 DEF add_key
  <2> QED
    BY <2>1, NothingEvicted
<1>2. CASE k \notin DOMAIN cache_map
  <2>1. PICK n : n = calculate_pages_needed(v)
    OBVIOUS
  <2>2. PICK got : got = ObtainPages(CacheState, n, c)
    OBVIOUS
  <2>3. n \in Nat
    BY <2>1, PagesNeeded
  <2>4. Good(page_bitmap, free_list, cache_map, lru_order)
    BY InvIsGood
  <2>5. k \notin Foreign(cache_map, c) /\ DOMAIN cache_map \ {k} = DOMAIN cache_map
    BY <1>2 DEF Foreign
  <2>6. PICK X, G : ObtainedBy(got, free_list, cache_map, lru_order, c, n, X, G)
    <3>1. PICK s, F, M, L : s = CacheState /\ F = free_list /\ M = cache_map /\ L = lru_order
      OBVIOUS
    <3>2. PICK B : B = page_bitmap
      OBVIOUS
    <3>3. Cells(s, B, F, M, L)
      BY <3>1, <3>2, CacheStateCells
    <3>4. /\ F \in SUBSET Page /\ M \in EntryMaps /\ ListOf(L, DOMAIN M) /\ Sized(M)
          /\ Accounts(B, F, M, DOMAIN M \ {k}) /\ k \notin Foreign(M, c)
          /\ got = ObtainPages(s, n, c)
      BY <2>2, <2>4, <2>5, <3>1, <3>2 DEF Good
    <3>5. \E X, G : ObtainedBy(got, F, M, L, c, n, X, G)
      BY <2>3, <3>3, <3>4, ObtainChosen
    <3> QED
      BY <3>1, <3>5
  <2>7. \/ /\ got.blocks = {} /\ Commit(got.mem)
           /\ Answer("add_key", k, v, c, "NO_SPACE")
        \/ /\ got.blocks # {} /\ Bind(got, k, v, n, c)
           /\ Answer("add_key", k, v, c, "SUCCESS")
    BY <1>2, <2>1, <2>2 DEF add_key, NullBlocks
  <2>8. CASE /\ got.blocks # {} /\ Bind(got, k, v, n, c)
             /\ Answer("add_key", k, v, c, "SUCCESS")
    <3>1. PICK F : F = free_list
      OBVIOUS
    <3> QED
      BY <2>5, <2>6, <2>8, <3>1, BindEvicts
  <2>9. CASE /\ got.blocks = {} /\ Commit(got.mem)
             /\ Answer("add_key", k, v, c, "NO_SPACE")
    <3>1. PICK F : F = free_list
      OBVIOUS
    <3>2. PICK N : N = Restrict(cache_map, DOMAIN cache_map \ X)
      OBVIOUS
    <3>3. PICK B, K : Cells(got.mem, B, G \ {}, N, K)
      BY <2>6, <2>9, <3>2 DEF ObtainedBy
    <3>4. cache_map' = N /\ free_list' = G
      BY <2>9, <3>3 DEF Commit, Cells
    <3>5. /\ DOMAIN cache_map' = DOMAIN cache_map \ X
          /\ \A j \in DOMAIN cache_map' : cache_map'[j].client_id = cache_map[j].client_id
      BY <3>2, <3>4 DEF Restrict
    <3>6. Cardinality(G) = Cardinality(free_list') +
             IF k \in DOMAIN cache_map' THEN cache_map'[k].total_pages ELSE 0
      <4>1. Cardinality(G) \in Nat
        BY <2>6, PagesFinite DEF ObtainedBy
      <4> QED
        BY <1>2, <3>4, <3>5, <4>1
    <3>7. ObtainedBy(got, F, cache_map, lru_order, c, calculate_pages_needed(v), X, G)
      BY <2>1, <2>6, <3>1
    <3> QED
      BY <2>9, <3>5, <3>6, <3>7, RefusedEvicts
  <2> QED
    BY <2>7, <2>8, <2>9
<1> QED
  BY <1>1, <1>2

\* The failure path of update_key hands the entry as many pages as it gave back.
LEMMA RestoreRoom ==
    ASSUME NEW mem, NEW B, NEW G \in SUBSET Page, NEW N \in EntryMaps, NEW K,
           Cells(mem, B, G, N, K), B \cap G = {}, Sized(N),
           NEW k \in DOMAIN N, N[k].memory_blocks \subseteq G,
           Commit(RestoreOldPages(mem, k))
    PROVE  /\ DOMAIN cache_map' = DOMAIN N
           /\ \A j \in DOMAIN N : cache_map'[j].client_id = N[j].client_id
           /\ Cardinality(G) = Cardinality(free_list') + cache_map'[k].total_pages
<1>1. N \in [DOMAIN N -> CacheEntry] /\ N[k] \in CacheEntry
  BY DEF EntryMaps
<1>2. PICK size : size = N[k].total_pages
  OBVIOUS
<1>3. size \in Nat /\ size > 0 /\ Cardinality(N[k].memory_blocks) = size
  BY <1>1, <1>2 DEF CacheEntry, Sized
<1>4. IsFiniteSet(G) /\ Cardinality(G) \in Nat /\ size <= Cardinality(G)
  <2>1. IsFiniteSet(G) /\ Cardinality(G) \in Nat
    BY PagesFinite
  <2>2. Cardinality(N[k].memory_blocks) <= Cardinality(G)
    BY <2>1, FS_Subset
  <2> QED
    BY <1>3, <2>1, <2>2
<1>5. PICK again : again = allocate_pages_linked(mem, size)
  OBVIOUS
<1>6. /\ again.blocks \subseteq G /\ again.blocks # {} /\ Cardinality(again.blocks) = size
      /\ Cells(again.mem, B \cup again.blocks, G \ again.blocks, N, K)
  <2>1. /\ again.blocks \subseteq G
        /\ Cells(again.mem, B \cup again.blocks, G \ again.blocks, N, K)
        /\ again.blocks # {} => size > 0 /\ Cardinality(again.blocks) = size
        /\ size > 0 /\ size <= Cardinality(G) => again.blocks # {}
    BY <1>3, <1>5, AllocateCells
  <2> QED
    BY <1>3, <1>4, <2>1
<1>7. PICK b : b = again.blocks
  OBVIOUS
<1>8. RestoreOldPages(mem, k) = [again.mem EXCEPT !.cache_map[k].memory_blocks = b]
  <2>1. mem.cache_map = N
    BY DEF Cells
  <2> QED
    BY <1>2, <1>5, <1>6, <1>7, <2>1 DEF RestoreOldPages, NullBlocks
<1>9. /\ cache_map' = [N EXCEPT ![k].memory_blocks = b]
      /\ free_list' = G \ b
  BY <1>6, <1>7, <1>8 DEF Commit, Cells
<1>10. /\ DOMAIN cache_map' = DOMAIN N
       /\ \A j \in DOMAIN N : j # k => cache_map'[j] = N[j]
       /\ cache_map'[k] = [N[k] EXCEPT !.memory_blocks = b]
  BY <1>1, <1>9
<1>11. cache_map'[k].client_id = N[k].client_id /\ cache_map'[k].total_pages = size
  BY <1>1, <1>2, <1>10 DEF CacheEntry
<1>12. Cardinality(G \ b) = Cardinality(G) - size
  <2>1. G \cap b = b
    BY <1>6, <1>7
  <2>2. Cardinality(G \ b) = Cardinality(G) - Cardinality(G \cap b)
    BY <1>4, FS_Difference
  <2> QED
    BY <1>6, <1>7, <2>1, <2>2
<1> QED
  BY <1>3, <1>4, <1>9, <1>10, <1>11, <1>12

\* update_key with reallocation.
LEMMA ReallocationEvicts ==
    ASSUME Inv, NEW k \in Keys, NEW v \in Values, NEW c \in Clients,
           UpdateByReallocation(k, v, c)
    PROVE  Evicts
<1>1. PICK n, old : n = calculate_pages_needed(v) /\ old = cache_map[k].memory_blocks
  OBVIOUS
<1>2. PICK s : s = deallocate_pages_linked(CacheState, old)
  OBVIOUS
<1>3. PICK got : got = ObtainPages(s, n, c)
  OBVIOUS
<1>4. /\ Owns(c, k)
      /\ \/ /\ got.blocks = {} /\ Commit(RestoreOldPages(got.mem, k))
            /\ Answer("update_key", k, v, c, "NO_SPACE")
         \/ /\ got.blocks # {} /\ Bind(got, k, v, n, c)
            /\ Answer("update_key", k, v, c, "SUCCESS")
  BY <1>1, <1>2, <1>3 DEF UpdateByReallocation, NullBlocks
<1>5. Good(page_bitmap, free_list, cache_map, lru_order)
  BY InvIsGood
<1>6. k \in DOMAIN cache_map /\ k \notin Foreign(cache_map, c) /\ n \in Nat
  BY <1>1, <1>4, PagesNeeded DEF Owns, Foreign
<1>7. PICK B, F, M, L : B = page_bitmap \ old /\ F = free_list \cup old
                        /\ M = cache_map /\ L = lru_order
  OBVIOUS
<1>8. Cells(s, B, F, M, L)
  BY <1>2, <1>7, CacheStateCells, DeallocateCells
<1>9. Accounts(B, F, M, DOMAIN M \ {k})
  <2>1. {k} \in SUBSET DOMAIN cache_map /\ old = PagesOfKeys(cache_map, {k})
    BY <1>1, <1>6 DEF PagesOfKeys
  <2> QED
    BY <1>5, <1>7, <2>1, AccountsDrop DEF Good
<1>10. old \in SUBSET Page /\ F \in SUBSET Page /\ M \in EntryMaps
  <2>1. cache_map \in EntryMaps /\ free_list \in SUBSET Page
    BY <1>5 DEF Good
  <2>2. cache_map[k] \in CacheEntry
    BY <1>6, <2>1 DEF EntryMaps
  <2> QED
    BY <1>1, <1>7, <2>1, <2>2 DEF CacheEntry
<1>11. PICK X, G : ObtainedBy(got, F, M, L, c, n, X, G)
  <2>1. ListOf(L, DOMAIN M) /\ Sized(M) /\ k \notin Foreign(M, c)
    BY <1>5, <1>6, <1>7 DEF Good
  <2> QED
    BY <1>3, <1>6, <1>8, <1>9, <1>10, <2>1, ObtainChosen
<1>12. ObtainedBy(got, F, cache_map, lru_order, c, n, X, G)
  BY <1>7, <1>11
<1>13. CASE /\ got.blocks # {} /\ Bind(got, k, v, n, c)
            /\ Answer("update_key", k, v, c, "SUCCESS")
  BY <1>6, <1>12, <1>13, BindEvicts
<1>14. CASE /\ got.blocks = {} /\ Commit(RestoreOldPages(got.mem, k))
            /\ Answer("update_key", k, v, c, "NO_SPACE")
  <2>1. PICK N : N = Restrict(cache_map, DOMAIN cache_map \ X)
    OBVIOUS
  <2>2. PICK B1, K : Cells(got.mem, B1, G \ {}, N, K) /\ B1 \cap (G \ {}) = {}
    BY <1>12, <1>14, <2>1 DEF ObtainedBy
  <2>3. /\ X \in SUBSET Foreign(cache_map, c) /\ G \in SUBSET Page /\ F \subseteq G
    BY <1>12 DEF ObtainedBy
  <2>4. /\ DOMAIN N = DOMAIN cache_map \ X /\ N \in EntryMaps
        /\ \A j \in DOMAIN N : N[j] = cache_map[j]
    BY <1>5, <2>1, RestrictMap DEF Good
  <2>5. k \in DOMAIN N /\ N[k].memory_blocks \subseteq G /\ Sized(N)
    <3>1. k \in DOMAIN N
      BY <1>6, <2>3, <2>4
    <3>2. N[k].memory_blocks = old
      BY <1>1, <2>4, <3>1
    <3>3. Sized(N)
      BY <1>5, <2>4 DEF Good, Sized
    <3> QED
      BY <1>7, <2>3, <3>1, <3>2, <3>3
  <2>6. PICK mem : mem = got.mem
    OBVIOUS
  <2>7. Cells(mem, B1, G, N, K) /\ B1 \cap G = {} /\ Commit(RestoreOldPages(mem, k))
    <3>1. G \ {} = G
      OBVIOUS
    <3> QED
      BY <1>14, <2>2, <2>6, <3>1
  <2>8. /\ DOMAIN cache_map' = DOMAIN N
        /\ \A j \in DOMAIN N : cache_map'[j].client_id = N[j].client_id
        /\ Cardinality(G) = Cardinality(free_list') + cache_map'[k].total_pages
    BY <2>3, <2>4, <2>5, <2>7, RestoreRoom
  <2>9. Cardinality(G) = Cardinality(free_list') +
             IF k \in DOMAIN cache_map' THEN cache_map'[k].total_pages ELSE 0
    BY <2>5, <2>8
  <2>10. /\ DOMAIN cache_map' = DOMAIN cache_map \ X
         /\ \A j \in DOMAIN cache_map' : cache_map'[j].client_id = cache_map[j].client_id
    BY <2>4, <2>8
  <2>11. ObtainedBy(got, F, cache_map, lru_order, c, calculate_pages_needed(v), X, G)
    BY <1>1, <1>12
  <2> QED
    BY <1>14, <2>9, <2>10, <2>11, RefusedEvicts
<1> QED
  BY <1>4, <1>13, <1>14

\* Every call.
LEMMA NextEvicts == Inv /\ Next => Evicts
<1> SUFFICES ASSUME Inv, Next
             PROVE  Evicts
  OBVIOUS
<1>1. PICK k \in Keys, c \in Clients :
        \/ \E v \in Values : add_key(k, v, c) \/ update_key(k, v, c)
        \/ get_key(k, c)
        \/ delete_key(k, c)
  BY DEF Next
<1>2. ASSUME NEW op, NEW v, Refused(op, k, v, c)
      PROVE  Evicts
  <2>1. /\ UNCHANGED cache_map
        /\ \/ Answer(op, k, v, c, "KEY_NOT_FOUND")
           \/ Answer(op, k, v, c, "CLIENT_MISMATCH")
    BY <1>2 DEF Refused
  <2> QED
    BY <2>1, NothingEvicted
<1>3. ASSUME NEW v \in Values, add_key(k, v, c)
      PROVE  Evicts
  BY <1>3, AddEvicts
<1>4. ASSUME NEW v \in Values, UpdateInPlace(k, v, c)
      PROVE  Evicts
  <2>1. Answer("update_key", k, v, c, "SUCCESS") /\ cache_map' = [cache_map EXCEPT ![k].value = v]
    BY <1>4 DEF UpdateInPlace
  <2> QED
    BY <2>1, NothingEvicted
<1>5. ASSUME NEW v \in Values, update_key(k, v, c)
      PROVE  Evicts
  BY <1>2, <1>4, <1>5, ReallocationEvicts DEF update_key
<1>6. ASSUME get_key(k, c)
      PROVE  Evicts
  <2>1. \/ Refused("get_key", k, NoValue, c)
        \/ /\ UNCHANGED cache_map
           /\ Answer("get_key", k, cache_map[k].value, c, "SUCCESS")
    BY <1>6 DEF get_key
  <2>2. PICK v : v = cache_map[k].value
    OBVIOUS
  <2> QED
    BY <1>2, <2>1, <2>2, NothingEvicted
<1>7. ASSUME delete_key(k, c)
      PROVE  Evicts
  <2>1. \/ Refused("delete_key", k, NoValue, c)
        \/ Answer("delete_key", k, NoValue, c, "SUCCESS")
    BY <1>7 DEF delete_key
  <2>2. ASSUME Answer("delete_key", k, NoValue, c, "SUCCESS")
        PROVE  reply'.op = "delete_key" /\ reply'.result = "SUCCESS"
    BY <2>2, AnswerFields
  <2> QED
    BY <1>2, <2>1, <2>2 DEF Evicts
<1> QED
  BY <1>1, <1>3, <1>5, <1>6, <1>7

\* The refusal of a request with NO_SPACE is justified: there is nothing left
\* to evict, and the free pages, with those the request would replace, are too
\* few for it.
THEOREM RefusalIsJustified == Spec => []NoSpaceMeansExhausted
<1>1. Init => NoSpaceMeansExhausted
  BY DEF Init, NoCall, NoSpaceMeansExhausted
<1>2. Inv /\ NoSpaceMeansExhausted /\ [Next]_vars => NoSpaceMeansExhausted'
  <2> SUFFICES ASSUME Inv, NoSpaceMeansExhausted, [Next]_vars
               PROVE  NoSpaceMeansExhausted'
    OBVIOUS
  <2>1. CASE UNCHANGED vars
    BY <2>1 DEF vars, NoSpaceMeansExhausted, RoomFor
  <2>2. CASE Next
    <3>1. Evicts
      BY <2>2, NextEvicts
    <3> QED
      BY <3>1 DEF Evicts, NoSpaceMeansExhausted
  <2> QED
    BY <2>1, <2>2
<1> QED
  BY <1>1, <1>2, Invariance, PTL DEF Spec

\* A step without eviction, or the keys it evicts.
LEMMA EvictedKeys ==
    ASSUME Inv, Next
    PROVE  Evicted = {} \/ EvictedBy(reply'.client_id, Evicted)
  BY NextEvicts DEF Evicts, Evicted, EvictedBy

\* Eviction takes other clients' entries from the least recently used end of
\* the list: none is passed over.
THEOREM EvictsLeastRecent == Spec => EvictionIsLru
<1>1. Inv /\ Next => LruEvictionStep
  <2> SUFFICES ASSUME Inv, Next, NEW k \in Evicted, NEW j \in DOMAIN cache_map,
                      RECENCY(lru_order, k, j), cache_map[j].client_id # reply'.client_id
               PROVE  j \in Evicted
    BY DEF LruEvictionStep
  <2>1. EvictedBy(reply'.client_id, Evicted)
    BY EvictedKeys
  <2>2. j \in Foreign(cache_map, reply'.client_id)
    BY DEF Foreign
  <2>3. PICK m, n \in DOMAIN lru_order : m < n /\ lru_order[m] = k /\ lru_order[n] = j
    BY DEF RECENCY
  <2>4. DOMAIN lru_order = 1..Len(lru_order)
    BY DEF Inv, TypeOK
  <2> QED
    BY <2>1, <2>2, <2>3, <2>4 DEF EvictedBy, Suffix
<1> QED
  BY <1>1, Invariance, PTL DEF Spec, EvictionIsLru

\* Eviction stops as soon as the request fits.
THEOREM EvictsNoMore == Spec => EvictionIsMinimal
<1>1. Inv /\ Next => MinimalEvictionStep
  <2> SUFFICES ASSUME Inv, Next, NEW k \in Evicted, reply'.result = "SUCCESS",
                      \A j \in Evicted \ {k} : RECENCY(lru_order, k, j)
               PROVE  Cardinality(free_list') < cache_map[k].total_pages
    BY DEF MinimalEvictionStep
  <2>1. EvictedBy(reply'.client_id, Evicted)
    BY EvictedKeys
  <2>2. ListOf(lru_order, DOMAIN cache_map) /\ DOMAIN lru_order = 1..Len(lru_order)
    BY InvIsGood DEF Good, Inv, TypeOK
  <2>3. PICK i \in 1..Len(lru_order) : lru_order[i] = k
    BY <2>2 DEF ListOf, Evicted
  <2>4. FirstOf(lru_order, Evicted, i)
    <3> SUFFICES ASSUME NEW j \in 1..Len(lru_order), lru_order[j] \in Evicted
                 PROVE  i <= j
      BY <2>3 DEF FirstOf
    <3>1. CASE lru_order[j] = k
      BY <2>2, <2>3, <3>1 DEF ListOf
    <3>2. CASE lru_order[j] # k
      <4>1. RECENCY(lru_order, k, lru_order[j])
        BY <3>2
      <4>2. PICK m, n \in DOMAIN lru_order :
               m < n /\ lru_order[m] = k /\ lru_order[n] = lru_order[j]
        BY <4>1 DEF RECENCY
      <4>3. m = i /\ n = j
        BY <2>2, <2>3, <4>2 DEF ListOf
      <4> QED
        BY <4>2, <4>3
    <3> QED
      BY <3>1, <3>2
  <2> QED
    BY <2>1, <2>3, <2>4 DEF EvictedBy
<1> QED
  BY <1>1, Invariance, PTL DEF Spec, EvictionIsMinimal
=============================================================================
