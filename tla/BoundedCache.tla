---------------------------- MODULE BoundedCache ----------------------------
(***************************************************************************)
(* What BenchmarkCache promises whatever its eviction policy is: a map     *)
(* that makes room by dropping one entry when a new key comes and the map  *)
(* is full, and that counts hits and misses.  Module BenchmarkCache        *)
(* implements it; module BenchmarkServer calls it from several threads.    *)
(***************************************************************************)
EXTENDS Integers, FiniteSets, Functions

CONSTANTS
    Keys, Values,
    max_capacity     \* the capacity given to the constructor

VARIABLES
    contents,        \* key |-> value, defined on the cached keys
    hit_count,
    miss_count,
    total_requests

cacheVars == <<contents, hit_count, miss_count, total_requests>>

Bind(map, k, v) == [j \in DOMAIN map \cup {k} |-> IF j = k THEN v ELSE map[j]]

\* The maps eviction may leave: it drops one entry when the map is full.
AfterEviction ==
    IF Cardinality(DOMAIN contents) >= max_capacity /\ contents # << >>
      THEN {Restrict(contents, DOMAIN contents \ {k}) : k \in DOMAIN contents}
      ELSE {contents}

Hit(k) ==
    /\ k \in DOMAIN contents
    /\ hit_count' = hit_count + 1
    /\ total_requests' = total_requests + 1
    /\ UNCHANGED <<contents, miss_count>>

Miss(k) ==
    /\ k \notin DOMAIN contents
    /\ miss_count' = miss_count + 1
    /\ total_requests' = total_requests + 1
    /\ UNCHANGED <<contents, hit_count>>

Put(k, v) ==
    /\ \/ /\ k \in DOMAIN contents
          /\ contents' = [contents EXCEPT ![k] = v]
       \/ /\ k \notin DOMAIN contents
          /\ \E map \in AfterEviction : contents' = Bind(map, k, v)
    /\ UNCHANGED <<hit_count, miss_count, total_requests>>

ResetStats ==
    /\ hit_count' = 0
    /\ miss_count' = 0
    /\ total_requests' = 0
    /\ UNCHANGED contents

Init ==
    /\ contents = << >>
    /\ hit_count = 0
    /\ miss_count = 0
    /\ total_requests = 0

Next ==
    \/ ResetStats
    \/ \E k \in Keys : Hit(k) \/ Miss(k) \/ \E v \in Values : Put(k, v)

Spec == Init /\ [][Next]_cacheVars
=============================================================================
