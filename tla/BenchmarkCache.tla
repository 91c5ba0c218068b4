--------------------------- MODULE BenchmarkCache ---------------------------
(***************************************************************************)
(* class BenchmarkCache (benchmark_cache.h, benchmark_cache.cpp): a cache  *)
(* of max_capacity entries with one of four eviction policies.  get and    *)
(* put hold cache_mutex throughout, so each is one action.                 *)
(*                                                                         *)
(* The policies' methods are operators on the record Structures of the map *)
(* and the four structures, of which only the one of the chosen policy is  *)
(* used.  Indices into clock_buffer count from 0, as in the code.          *)
(***************************************************************************)
EXTENDS KeyLists, Integers, FiniteSets, Sequences, SequencesExt

CONSTANTS
    Keys, Values,
    max_capacity,
    EmptySlot,       \* the empty string that marks a free slot of clock_buffer
    NoValue,         \* the out-parameter of get when it is not assigned
    MaxSteps         \* bound on the number of calls, and so on the time

ASSUME CapacityAssumption == max_capacity \in Nat
ASSUME SlotAssumption == EmptySlot \notin Keys

VARIABLES
    policy,
    cache_map,       \* key |-> entry, defined on the cached keys
    lru_order,       \* most recently used first
    fifo_queue,      \* oldest first
    sieve_order,     \* oldest first
    clock_buffer,
    clock_hand,
    hit_count, miss_count, total_requests,
    value,           \* the out-parameter of get after the last call
    now              \* steady_clock: the number of calls so far

structVars == <<cache_map, lru_order, fifo_queue, sieve_order, clock_buffer, clock_hand>>
vars == <<policy, structVars, hit_count, miss_count, total_requests, value, now>>

EvictionPolicy == {"LRU", "FIFO", "SIEVE", "CLOCK"}

BenchmarkCacheEntry ==
    [value : Values, access_time : Nat, insert_time : Nat,
     visited : BOOLEAN, reference_bit : BOOLEAN]

Structures ==
    [cache_map |-> cache_map, lru_order |-> lru_order, fifo_queue |-> fifo_queue,
     sieve_order |-> sieve_order, clock_buffer |-> clock_buffer, clock_hand |-> clock_hand]

Commit(s) ==
    /\ cache_map'    = s.cache_map
    /\ lru_order'    = s.lru_order
    /\ fifo_queue'   = s.fifo_queue
    /\ sieve_order'  = s.sieve_order
    /\ clock_buffer' = s.clock_buffer
    /\ clock_hand'   = s.clock_hand

\* cache_map.erase(key).
Erase(map, k) == Restrict(map, DOMAIN map \ {k})

\* The entries of the keys in K with a flag cleared.
ClearVisited(map, K) ==
    [k \in DOMAIN map |-> IF k \in K THEN [map[k] EXCEPT !.visited = FALSE] ELSE map[k]]
ClearReference(map, K) ==
    [k \in DOMAIN map |-> IF k \in K THEN [map[k] EXCEPT !.reference_bit = FALSE] ELSE map[k]]

----------------------------------------------------------------------------
(* LRU.                                                                    *)

\* Mutant: the most recently used key goes.
evict_lru_front(s) ==
    IF s.lru_order = << >> THEN s
    ELSE [s EXCEPT !.lru_order = Tail(@), !.cache_map = Erase(@, Head(s.lru_order))]

evict_lru(s) ==
    IF s.lru_order = << >> THEN s
    ELSE [s EXCEPT !.lru_order = Front(@), !.cache_map = Erase(@, Last(s.lru_order))]

update_lru(s, k) == [s EXCEPT !.lru_order = <<k>> \o RemoveFirst(@, k)]
add_lru(s, k)    == [s EXCEPT !.lru_order = <<k>> \o @]

(* FIFO.  An access leaves the queue alone.                                *)

\* Mutant: the key leaves the map but not the queue.
evict_fifo_peeks(s) ==
    IF s.fifo_queue = << >> THEN s
    ELSE [s EXCEPT !.cache_map = Erase(@, Head(s.fifo_queue))]

evict_fifo(s) ==
    IF s.fifo_queue = << >> THEN s
    ELSE [s EXCEPT !.fifo_queue = Tail(@), !.cache_map = Erase(@, Head(s.fifo_queue))]

add_fifo(s, k) == [s EXCEPT !.fifo_queue = Append(@, k)]

(* SIEVE.                                                                  *)

\* The scan of evict_sieve goes from the front to the first key that was not
\* visited, clearing the flags of those before it and dropping keys that are
\* not in the map.  When every key was visited the first one goes.
evict_sieve(s) ==
    LET order   == s.sieve_order
        Live(k) == k \in DOMAIN s.cache_map
        stop    == {i \in 1 .. Len(order) :
                      Live(order[i]) /\ ~ s.cache_map[order[i]].visited}
        at      == IF stop = {} THEN Len(order) + 1 ELSE Min(stop)
        scanned == Without(SubSeq(order, 1, at - 1), ToSet(order) \ DOMAIN s.cache_map)
        map     == ClearVisited(s.cache_map, ToSet(scanned))
    IN  IF stop # {}
          THEN [s EXCEPT !.sieve_order = scanned \o SubSeq(order, at + 1, Len(order)),
                         !.cache_map   = Erase(map, order[at])]
        ELSE IF scanned # << >>
          THEN [s EXCEPT !.sieve_order = Tail(scanned),
                         !.cache_map   = Erase(map, Head(scanned))]
        ELSE [s EXCEPT !.sieve_order = << >>]

update_sieve(s, k) == [s EXCEPT !.cache_map[k].visited = TRUE]
add_sieve(s, k)    == [s EXCEPT !.sieve_order = Append(@, k),
                                !.cache_map[k].visited = FALSE]

(* CLOCK.                                                                  *)

\* Mutant: the hand is not wrapped when it has passed the last slot.
evict_clock_no_wrap(s) ==
    LET size    == Len(s.clock_buffer)
        Key(d)  == s.clock_buffer[((s.clock_hand + d) % size) + 1]
        stop    == Min({d \in 0 .. 2 * size - 1 :
                          /\ Key(d) \in DOMAIN s.cache_map
                          /\ d >= size \/ ~ s.cache_map[Key(d)].reference_bit})
    IN  IF size = 0 THEN s
        ELSE [s EXCEPT !.cache_map  = Erase(@, Key(stop)),
                       !.clock_hand = s.clock_hand + stop]

\* The sweep of evict_clock.  After d moves of the hand the loop looks at the
\* slot At(d).  In its first round it stops at an entry whose bit is clear; it
\* clears the bits it passes, so in the second round it stops at the first
\* entry it meets.  It never stops if no slot holds a cached key.
evict_clock(s) ==
    LET size    == Len(s.clock_buffer)
        At(d)   == (s.clock_hand + d) % size
        Key(d)  == s.clock_buffer[At(d) + 1]
        Live(d) == Key(d) \in DOMAIN s.cache_map
        stop    == Min({d \in 0 .. 2 * size - 1 :
                          Live(d) /\ (d >= size \/ ~ s.cache_map[Key(d)].reference_bit)})
    IN  IF size = 0 THEN s
        ELSE [s EXCEPT
                !.cache_map = Erase(ClearReference(@, {Key(d) : d \in 0 .. stop - 1}), Key(stop)),
                !.clock_buffer[At(stop) + 1] = EmptySlot,
                !.clock_hand = At(stop)]

update_clock(s, k) == [s EXCEPT !.cache_map[k].reference_bit = TRUE]

\* Mutant: the slot eviction freed is not reused.
add_clock_appends(s, k) ==
    [s EXCEPT !.clock_buffer = Append(@, k), !.cache_map[k].reference_bit = TRUE]

\* The key takes the first free slot, or a new one at the end.
add_clock(s, k) ==
    LET free == {i \in 1 .. Len(s.clock_buffer) : s.clock_buffer[i] = EmptySlot}
    IN  [s EXCEPT !.clock_buffer = IF free = {} THEN Append(@, k)
                                   ELSE [@ EXCEPT ![Min(free)] = k],
                  !.cache_map[k].reference_bit = TRUE]

----------------------------------------------------------------------------
(* The switches on the policy.                                             *)

OnAccess(s, k) ==
    CASE policy = "LRU"   -> update_lru(s, k)
      [] policy = "FIFO"  -> s
      [] policy = "SIEVE" -> update_sieve(s, k)
      [] policy = "CLOCK" -> update_clock(s, k)

Evict(s) ==
    CASE policy = "LRU"   -> evict_lru(s)
      [] policy = "FIFO"  -> evict_fifo(s)
      [] policy = "SIEVE" -> evict_sieve(s)
      [] policy = "CLOCK" -> evict_clock(s)

OnAdd(s, k) ==
    CASE policy = "LRU"   -> add_lru(s, k)
      [] policy = "FIFO"  -> add_fifo(s, k)
      [] policy = "SIEVE" -> add_sieve(s, k)
      [] policy = "CLOCK" -> add_clock(s, k)

\* Mutant: room is made one entry too late (> for >=).
MakeRoom_late(s) ==
    IF Cardinality(DOMAIN s.cache_map) > max_capacity THEN Evict(s) ELSE s

\* put, lines 77-93.
MakeRoom(s) ==
    IF Cardinality(DOMAIN s.cache_map) >= max_capacity THEN Evict(s) ELSE s

NewEntry(v) ==
    [value |-> v, access_time |-> now, insert_time |-> now,
     visited |-> FALSE, reference_bit |-> TRUE]

Insert(s, k, v) ==
    [s EXCEPT !.cache_map = [j \in DOMAIN @ \cup {k} |-> IF j = k THEN NewEntry(v) ELSE @[j]]]

Tick == now < MaxSteps /\ now' = now + 1

\* BenchmarkCache::get.
get(k) ==
    /\ Tick
    /\ total_requests' = total_requests + 1
    /\ \/ /\ k \in DOMAIN cache_map
          /\ hit_count' = hit_count + 1
          /\ value' = cache_map[k].value
          /\ Commit(OnAccess([Structures EXCEPT !.cache_map[k].access_time = now], k))
          /\ UNCHANGED miss_count
       \/ /\ k \notin DOMAIN cache_map
          /\ miss_count' = miss_count + 1
          /\ value' = NoValue
          /\ UNCHANGED <<structVars, hit_count>>
    /\ UNCHANGED policy

\* BenchmarkCache::put.
put(k, v) ==
    /\ Tick
    /\ \/ /\ k \in DOMAIN cache_map
          /\ Commit(OnAccess([Structures EXCEPT !.cache_map[k].value = v,
                                                !.cache_map[k].access_time = now], k))
       \/ /\ k \notin DOMAIN cache_map
          /\ Commit(OnAdd(Insert(MakeRoom(Structures), k, v), k))
    /\ value' = NoValue
    /\ UNCHANGED <<policy, hit_count, miss_count, total_requests>>

\* BenchmarkCache::reset_stats.
reset_stats ==
    /\ hit_count' = 0
    /\ miss_count' = 0
    /\ total_requests' = 0
    /\ value' = NoValue
    /\ UNCHANGED <<policy, structVars, now>>

Init ==
    /\ policy \in EvictionPolicy
    /\ cache_map = << >>
    /\ lru_order = << >>
    /\ fifo_queue = << >>
    /\ sieve_order = << >>
    /\ clock_buffer = << >>
    /\ clock_hand = 0
    /\ hit_count = 0
    /\ miss_count = 0
    /\ total_requests = 0
    /\ value = NoValue
    /\ now = 0

Next ==
    \/ reset_stats
    \/ \E k \in Keys : get(k) \/ \E v \in Values : put(k, v)

Spec == Init /\ [][Next]_vars

----------------------------------------------------------------------------
TypeOK ==
    /\ policy \in EvictionPolicy
    /\ \E K \in SUBSET Keys : cache_map \in [K -> BenchmarkCacheEntry]
    /\ lru_order \in Seq(Keys)
    /\ fifo_queue \in Seq(Keys)
    /\ sieve_order \in Seq(Keys)
    /\ clock_buffer \in Seq(Keys \cup {EmptySlot})
    /\ clock_hand \in 0 .. Max({0, Len(clock_buffer) - 1})
    /\ hit_count \in Nat
    /\ miss_count \in Nat
    /\ total_requests \in Nat
    /\ value \in Values \cup {NoValue}

\* The sequence lists each element of K once and nothing else.
Lists(seq, K) == ToSet(seq) = K /\ IsInjective(seq)

\* The structure of the policy holds exactly the cached keys: what eviction
\* takes out of the map it takes out of the structure as well, so no key is
\* stranded, and the scan of SIEVE and the sweep of CLOCK meet only live keys.
\* The ring of CLOCK has no empty slot between calls: the insertion fills the
\* one that eviction made (benchmark_cache.cpp:118-258).
StructureMatchesMap ==
    CASE policy = "LRU"   -> Lists(lru_order, DOMAIN cache_map)
      [] policy = "FIFO"  -> Lists(fifo_queue, DOMAIN cache_map)
      [] policy = "SIEVE" -> Lists(sieve_order, DOMAIN cache_map)
      [] policy = "CLOCK" -> Lists(clock_buffer, DOMAIN cache_map)

\* The cache holds at most max_capacity entries, or one when that is 0: put
\* evicts, then inserts (benchmark_cache.cpp:78-97).  Nor does the ring of CLOCK
\* grow beyond that: a slot freed by eviction is reused by the next insertion
\* (benchmark_cache.cpp:220, 242-252).
SizeBounded ==
    /\ Cardinality(DOMAIN cache_map) <= Max({1, max_capacity})
    /\ Len(clock_buffer) <= Max({1, max_capacity})

\* An entry that is evicted is the right one: for LRU the least recently
\* accessed and for FIFO the least recently inserted, by the times the entries
\* carry; for SIEVE and CLOCK one whose flag is clear, unless all flags are
\* set (README_BENCHMARK.md:80, 87, 97, 101).
RightVictim(e) ==
    LET cached == DOMAIN cache_map
    IN  CASE policy = "LRU"   ->
               \A k \in cached : cache_map[e].access_time <= cache_map[k].access_time
          [] policy = "FIFO"  ->
               \A k \in cached : cache_map[e].insert_time <= cache_map[k].insert_time
          [] policy = "SIEVE" ->
               cache_map[e].visited => \A k \in cached : cache_map[k].visited
          [] policy = "CLOCK" ->
               cache_map[e].reference_bit => \A k \in cached : cache_map[k].reference_bit

EvictionFollowsPolicy ==
    [][\A e \in DOMAIN cache_map \ DOMAIN cache_map' : RightVictim(e)]_vars

Contents == [k \in DOMAIN cache_map |-> cache_map[k].value]

BC == INSTANCE CachingCalls WITH contents <- Contents

\* Under each policy the cache is a map that drops one entry when it is full: a
\* hit returns what was put last under its key, a miss leaves the out-parameter
\* alone, and eviction never takes two entries (benchmark_cache.cpp:14-116).
RefinesBoundedCache == BC!CallSpec
=============================================================================
