----------------------------- MODULE PagedCache -----------------------------
(***************************************************************************)
(* class PagedCache (cache.h, cache.cpp): a key-value cache whose entries  *)
(* occupy pages of a fixed memory, with LRU eviction of other clients'     *)
(* entries.  Each public operation locks cache_mutex on entry and unlocks  *)
(* it on return, so each is one action; the private helpers are operators  *)
(* on the record CacheState of the four members the lock protects.         *)
(***************************************************************************)
EXTENDS Pages, KeyLists, Sequences, SequencesExt

CONSTANTS
    Keys, Values, Clients,
    ByteSize(_),     \* value.size(): the length of a value in bytes
    PAGE_SIZE,       \* bytes per page
    NoValue          \* the out-parameter of get_key before it is assigned

ASSUME PageSizeAssumption == PAGE_SIZE \in Nat \ {0}
ASSUME ByteSizeAssumption == \A v \in Values : ByteSize(v) \in Nat

VARIABLES
    page_bitmap,     \* the allocated pages
    free_list,       \* the pages in the free list
    cache_map,       \* key |-> CacheEntry, defined on the cached keys
    lru_order,       \* the keys, most recently used first
    reply            \* the last call: its operation, arguments and result

vars == <<page_bitmap, free_list, cache_map, lru_order, reply>>

CacheEntry ==
    [value : Values, memory_blocks : SUBSET Page, total_pages : Nat, client_id : Clients]

CacheState ==
    [page_bitmap |-> page_bitmap, free_list |-> free_list,
     cache_map |-> cache_map, lru_order |-> lru_order]

\* The four members take the values they have in s.
Commit(s) ==
    /\ page_bitmap' = s.page_bitmap
    /\ free_list'   = s.free_list
    /\ cache_map'   = s.cache_map
    /\ lru_order'   = s.lru_order

Answer(op, k, v, c, r) ==
    reply' = [op |-> op, key |-> k, value |-> v, client_id |-> c, result |-> r]

----------------------------------------------------------------------------
\* Mutant: integer division without rounding up.
calculate_pages_needed_floor(v) == ByteSize(v) \div PAGE_SIZE

\* PagedCache::calculate_pages_needed: ceiling division.
calculate_pages_needed(v) == (ByteSize(v) + PAGE_SIZE - 1) \div PAGE_SIZE

\* cache_map[key] = entry.
PutEntry(map, k, e) ==
    [j \in DOMAIN map \cup {k} |-> IF j = k THEN e ELSE map[j]]

\* Mutant: an access leaves the key where it was in the recency order.
update_lru_forgets(order, k) ==
    IF Contains(order, k) THEN order ELSE <<k>> \o order

\* PagedCache::update_lru: take the key out of the list, if it is there, and
\* put it in front.
update_lru(order, k) == <<k>> \o RemoveFirst(order, k)

----------------------------------------------------------------------------
(* Eviction.  The loop of evict_lru_if_needed walks lru_order from its back *)
(* and evicts each entry of another client until enough pages are freed.   *)

\* The positions of lru_order the loop may evict for client c.
EvictablePositions(s, c) ==
    {i \in 1 .. Len(s.lru_order) :
        /\ s.lru_order[i] \in DOMAIN s.cache_map
        /\ s.cache_map[s.lru_order[i]].client_id # c}

\* pages_freed after the entries at the positions I are gone.
PagesFreed(s, I) == MapThenSumSet(LAMBDA i : s.cache_map[s.lru_order[i]].total_pages, I)

\* Mutant: the loop evicts one entry more than it needs (<= for <).
VictimPositions_one_more(s, c, pages_to_free) ==
    LET E == EvictablePositions(s, c)
    IN  {i \in E : PagesFreed(s, {j \in E : j > i}) <= pages_to_free}

\* Mutant: the loop runs from the front, evicting the most recently used.
VictimPositions_mru(s, c, pages_to_free) ==
    LET E == EvictablePositions(s, c)
    IN  {i \in E : PagesFreed(s, {j \in E : j < i}) < pages_to_free}

\* Mutant: the loop evicts whoever is least recently used.
VictimPositions_anyone(s, c, pages_to_free) ==
    LET E == 1 .. Len(s.lru_order)
    IN  {i \in E : PagesFreed(s, {j \in E : j > i}) < pages_to_free}

\* The positions the loop evicts: those it reaches while what the evictable
\* entries behind them freed is still not enough.
VictimPositions(s, c, pages_to_free) ==
    LET E == EvictablePositions(s, c)
    IN  {i \in E : PagesFreed(s, {j \in E : j > i}) < pages_to_free}

\* The cache without the entries of the keys in X and without their pages.
EvictKeys(s, X) ==
    LET freed == UNION {s.cache_map[k].memory_blocks : k \in X}
    IN  [deallocate_pages_linked(s, freed) EXCEPT
            !.cache_map = Restrict(s.cache_map, DOMAIN s.cache_map \ X),
            !.lru_order = Without(s.lru_order, X)]

\* PagedCache::evict_lru_if_needed: the cache afterwards and whether enough
\* pages are free now.  When they are not, what was evicted stays evicted.
evict_lru_if_needed(s, pages_needed, c) ==
    LET pages_to_free == pages_needed - get_free_pages(s)
        victims       == VictimPositions(s, c, pages_to_free)
    IN  IF pages_to_free <= 0
          THEN [mem |-> s, ok |-> TRUE]
          ELSE [mem |-> EvictKeys(s, {s.lru_order[i] : i \in victims}),
                ok  |-> PagesFreed(s, victims) >= pages_to_free]

\* What add_key and update_key do to obtain n pages for client c: allocate,
\* and if that returns null, evict and allocate again.
ObtainPages(s, n, c) ==
    LET first == allocate_pages_linked(s, n)
        evict == evict_lru_if_needed(first.mem, n, c)
    IN  IF first.blocks # NullBlocks THEN first
        ELSE IF ~ evict.ok THEN [mem |-> evict.mem, blocks |-> NullBlocks]
        ELSE allocate_pages_linked(evict.mem, n)

----------------------------------------------------------------------------
(* The four operations.                                                    *)

\* The early returns every operation but ADD begins with.
Refused(op, k, v, c) ==
    /\ \/ /\ k \notin DOMAIN cache_map
          /\ Answer(op, k, v, c, "KEY_NOT_FOUND")
       \/ /\ k \in DOMAIN cache_map
          /\ cache_map[k].client_id # c
          /\ Answer(op, k, v, c, "CLIENT_MISMATCH")
    /\ UNCHANGED <<page_bitmap, free_list, cache_map, lru_order>>

Owns(c, k) == k \in DOMAIN cache_map /\ cache_map[k].client_id = c

\* The pages are in hand: bind the key to its entry and make it the most
\* recently used.
Bind(got, k, v, n, c) ==
    Commit([got.mem EXCEPT
              !.cache_map = PutEntry(@, k, [value |-> v, memory_blocks |-> got.blocks,
                                            total_pages |-> n, client_id |-> c]),
              !.lru_order = update_lru(@, k)])

\* PagedCache::add_key.  NO_SPACE keeps what eviction did on the way.
add_key(k, v, c) ==
    LET n   == calculate_pages_needed(v)
        got == ObtainPages(CacheState, n, c)
    IN  \/ /\ k \in DOMAIN cache_map
           /\ Answer("add_key", k, v, c, "KEY_EXISTS")
           /\ UNCHANGED <<page_bitmap, free_list, cache_map, lru_order>>
        \/ /\ k \notin DOMAIN cache_map
           /\ got.blocks = NullBlocks
           /\ Commit(got.mem)
           /\ Answer("add_key", k, v, c, "NO_SPACE")
        \/ /\ k \notin DOMAIN cache_map
           /\ got.blocks # NullBlocks
           /\ Bind(got, k, v, n, c)
           /\ Answer("add_key", k, v, c, "SUCCESS")

\* update_key when the new value fits in the pages the entry has: it keeps
\* them all, and total_pages with them.
UpdateInPlace(k, v, c) ==
    /\ Owns(c, k)
    /\ calculate_pages_needed(v) <= cache_map[k].total_pages
    /\ cache_map' = [cache_map EXCEPT ![k].value = v]
    /\ lru_order' = update_lru(lru_order, k)
    /\ UNCHANGED <<page_bitmap, free_list>>
    /\ Answer("update_key", k, v, c, "SUCCESS")

\* Mutant: the pages are given back and the failure path does not take them
\* again.
RestoreOldPages_not(s, k) == s

\* The failure path of update_key: allocate as many pages as the entry had;
\* if that fails the entry keeps the list it no longer owns.
RestoreOldPages(s, k) ==
    LET again == allocate_pages_linked(s, s.cache_map[k].total_pages)
    IN  IF again.blocks = NullBlocks
          THEN again.mem
          ELSE [again.mem EXCEPT !.cache_map[k].memory_blocks = again.blocks]

\* update_key when the entry must grow: give its pages back first, then
\* obtain new ones.
UpdateByReallocation(k, v, c) ==
    LET n   == calculate_pages_needed(v)
        got == ObtainPages(deallocate_pages_linked(CacheState, cache_map[k].memory_blocks), n, c)
    IN  /\ Owns(c, k)
        /\ n > cache_map[k].total_pages
        /\ \/ /\ got.blocks = NullBlocks
              /\ Commit(RestoreOldPages(got.mem, k))
              /\ Answer("update_key", k, v, c, "NO_SPACE")
           \/ /\ got.blocks # NullBlocks
              /\ Bind(got, k, v, n, c)
              /\ Answer("update_key", k, v, c, "SUCCESS")

\* PagedCache::update_key.
update_key(k, v, c) ==
    \/ Refused("update_key", k, v, c)
    \/ UpdateInPlace(k, v, c)
    \/ UpdateByReallocation(k, v, c)

\* PagedCache::get_key.
get_key(k, c) ==
    \/ Refused("get_key", k, NoValue, c)
    \/ /\ Owns(c, k)
       /\ lru_order' = update_lru(lru_order, k)
       /\ Answer("get_key", k, cache_map[k].value, c, "SUCCESS")
       /\ UNCHANGED <<page_bitmap, free_list, cache_map>>

\* Mutant: the key stays in the recency list.
DeleteEntry_keeps_lru(k) ==
    [deallocate_pages_linked(CacheState, cache_map[k].memory_blocks) EXCEPT
        !.cache_map = Restrict(@, DOMAIN @ \ {k})]

\* The body of delete_key once its checks have passed.
DeleteEntry(k) ==
    [deallocate_pages_linked(CacheState, cache_map[k].memory_blocks) EXCEPT
        !.lru_order = RemoveFirst(@, k),
        !.cache_map = Restrict(@, DOMAIN @ \ {k})]

\* PagedCache::delete_key.
delete_key(k, c) ==
    \/ Refused("delete_key", k, NoValue, c)
    \/ /\ Owns(c, k)
       /\ Commit(DeleteEntry(k))
       /\ Answer("delete_key", k, NoValue, c, "SUCCESS")

----------------------------------------------------------------------------
NoCall == [op |-> "none", key |-> NoValue, value |-> NoValue,
           client_id |-> NoValue, result |-> "SUCCESS"]

\* Mutant: the first free block is one page too long.
Init_long_block ==
    /\ page_bitmap = {}
    /\ free_list = 0 .. TOTAL_PAGES
    /\ cache_map = [k \in {} |-> NoValue]
    /\ lru_order = << >>
    /\ reply = NoCall

\* PagedCache::PagedCache: every page is free and nothing is cached.
Init ==
    /\ page_bitmap = {}
    /\ free_list = Page
    /\ cache_map = [k \in {} |-> NoValue]
    /\ lru_order = << >>
    /\ reply = NoCall

Next ==
    \E k \in Keys, c \in Clients :
        \/ \E v \in Values : add_key(k, v, c) \/ update_key(k, v, c)
        \/ get_key(k, c)
        \/ delete_key(k, c)

Spec == Init /\ [][Next]_vars

----------------------------------------------------------------------------
(* Invariants.                                                             *)

\* The types of the members; the map is a partial function on the keys.
TypeOK ==
    /\ page_bitmap \subseteq Page
    /\ free_list \subseteq Page
    /\ \E K \in SUBSET Keys : cache_map \in [K -> CacheEntry]
    /\ lru_order \in Seq(Keys)

\* No page is in the lists of two entries.
BlocksDisjoint ==
    \A j, k \in DOMAIN cache_map :
        j # k => cache_map[j].memory_blocks \cap cache_map[k].memory_blocks = {}

\* The set bits are the pages of the entries: none leaks, none is in use
\* while its bit is clear.
BitmapCoversEntries ==
    page_bitmap = UNION {cache_map[k].memory_blocks : k \in DOMAIN cache_map}

\* The free list and the bitmap, which the code keeps separately, agree.
FreeListComplementsBitmap == free_list = Page \ page_bitmap

\* Page accounting (hazards at cache.cpp:22, 83, 168 and 243): after any
\* sequence of ADD, growing and shrinking UPDATE, failed UPDATE, eviction and
\* DELETE, every page is in the list of exactly one entry, with its bit set,
\* or in the free list, with its bit clear.
PageOwnership ==
    /\ BlocksDisjoint
    /\ BitmapCoversEntries
    /\ FreeListComplementsBitmap

\* Every entry has as many pages as total_pages says and they hold its value,
\* also after an update in place, a reallocation or the failure path of
\* update_key (cache.cpp:229-275).
AllocationCoversValue ==
    \A k \in DOMAIN cache_map :
        LET e == cache_map[k]
        IN  /\ Cardinality(e.memory_blocks) = e.total_pages
            /\ e.total_pages > 0
            /\ e.total_pages * PAGE_SIZE >= ByteSize(e.value)

\* The recency list holds each cached key once and no other: eviction walks
\* the list and finds its entries in the map (cache.cpp:160-175), so an entry
\* missing from it could never be evicted and one listed twice would be freed
\* twice.
LruMatchesMap ==
    /\ {lru_order[i] : i \in DOMAIN lru_order} = DOMAIN cache_map
    /\ Cardinality(DOMAIN cache_map) = Len(lru_order)

----------------------------------------------------------------------------
(* Action properties.                                                      *)

\* The keys a step loses other than by the DELETE that names them.
Evicted == {k \in DOMAIN cache_map \ DOMAIN cache_map' : reply'.op # "delete_key"}

\* The key of the call, for which the two below make an exception.
Others(K) == K \ {reply'.key}

RECENCY(order, j, k) ==
    \E m, n \in DOMAIN order : m < n /\ order[m] = j /\ order[n] = k

\* The key of the call comes first and the others keep their order.
RecencyStep ==
    /\ reply'.result = "SUCCESS" /\ reply'.op # "delete_key"
         => Head(lru_order') = reply'.key
    /\ \A j, k \in Others(DOMAIN cache_map \cap DOMAIN cache_map') :
         RECENCY(lru_order, j, k) => RECENCY(lru_order', j, k)
    /\ reply'.result # "SUCCESS"
         => \A j, k \in DOMAIN cache_map \cap DOMAIN cache_map' :
              RECENCY(lru_order, j, k) => RECENCY(lru_order', j, k)

\* The order of lru_order is the order of last use: a call that succeeds
\* makes its key the most recent one unless it deletes it, and no call
\* reorders the other keys that remain (cache.cpp:139-147, 171, 316).
RecencyKept == [][RecencyStep]_vars

\* No entry that may be evicted is passed over.
LruEvictionStep ==
    \A k \in Evicted : \A j \in DOMAIN cache_map :
        /\ RECENCY(lru_order, k, j)
        /\ cache_map[j].client_id # reply'.client_id
        => j \in Evicted

\* Eviction takes the least recently used entries of the other clients: an
\* entry is evicted only together with every less recently used entry that
\* does not belong to the client that asks (README.md:149).
EvictionIsLru == [][LruEvictionStep]_vars

\* The most recently used victim had to go.
MinimalEvictionStep ==
    \A k \in Evicted :
        /\ reply'.result = "SUCCESS"
        /\ \A j \in Evicted \ {k} : RECENCY(lru_order, k, j)
        => Cardinality(free_list') < cache_map[k].total_pages

\* Eviction stops as soon as the request fits: after a call that succeeds,
\* the free pages are fewer than those of the last entry it evicted, which
\* therefore had to go (cache.cpp:161).
EvictionIsMinimal == [][MinimalEvictionStep]_vars

\* NO_SPACE is the truth: when a request for at least one page is refused, no
\* entry of another client is left to evict and the pages that are free, with
\* those of the entry an UPDATE would replace, are too few (cache.cpp:196-203,
\* 249-265).  The repeated allocation after a successful eviction never fails.
RoomFor(k) ==
    Cardinality(free_list) + IF k \in DOMAIN cache_map THEN cache_map[k].total_pages ELSE 0

NoSpaceMeansExhausted ==
    reply.result = "NO_SPACE" /\ calculate_pages_needed(reply.value) > 0 =>
        /\ \A k \in DOMAIN cache_map : cache_map[k].client_id = reply.client_id
        /\ RoomFor(reply.key) < calculate_pages_needed(reply.value)

----------------------------------------------------------------------------
(* Refinement.                                                             *)

\* The cache as its clients see it: values and owners, without pages.
Store == [k \in DOMAIN cache_map |->
             [value |-> cache_map[k].value, client_id |-> cache_map[k].client_id]]

KV == INSTANCE KVCache WITH store <- Store

\* PagedCache implements the map of KVCache: no call changes an entry it does
\* not name, eviction never takes an entry of the client that asks
\* (README.md:149, 478), and a failed UPDATE leaves the old value in place.
RefinesKVCache == KV!Spec
=============================================================================
