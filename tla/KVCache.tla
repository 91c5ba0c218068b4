------------------------------ MODULE KVCache ------------------------------
(***************************************************************************)
(* What PagedCache promises to its callers, with memory left out: a map    *)
(* from keys to a value and the client that added it.  An ADD or an UPDATE *)
(* may lose entries of OTHER clients (eviction), never one of the client   *)
(* that asks, and nothing else changes an entry behind its owner's back: a *)
(* GET that succeeds returns the value of the owner's last successful ADD  *)
(* or UPDATE.                                                              *)
(***************************************************************************)
EXTENDS Functions

CONSTANTS Keys, Values, Clients, NoValue

VARIABLES
    store,   \* key |-> [value, client_id], defined on the cached keys
    reply    \* the last call: its operation, arguments and result

kvVars == <<store, reply>>

Entry(v, c) == [value |-> v, client_id |-> c]

OwnKeys(c) == {k \in DOMAIN store : store[k].client_id = c}

\* The sets of keys an ADD or UPDATE of client c may leave in the store.
Survivors(c) == {K \in SUBSET DOMAIN store : OwnKeys(c) \subseteq K}

\* The map with key k bound to e, bound before or not.
Put(map, k, e) ==
    [j \in DOMAIN map \cup {k} |-> IF j = k THEN e ELSE map[j]]

Answer(op, k, v, c, r) ==
    reply' = [op |-> op, key |-> k, value |-> v, client_id |-> c, result |-> r]

\* The two early returns that every operation but ADD shares.
Refused(op, k, v, c) ==
    /\ \/ /\ k \notin DOMAIN store
          /\ Answer(op, k, v, c, "KEY_NOT_FOUND")
       \/ /\ k \in DOMAIN store
          /\ store[k].client_id # c
          /\ Answer(op, k, v, c, "CLIENT_MISMATCH")
    /\ UNCHANGED store

Add(k, v, c) ==
    \/ /\ k \in DOMAIN store
       /\ Answer("add_key", k, v, c, "KEY_EXISTS")
       /\ UNCHANGED store
    \/ /\ k \notin DOMAIN store
       /\ \E K \in Survivors(c) :
            \/ /\ store' = Put(Restrict(store, K), k, Entry(v, c))
               /\ Answer("add_key", k, v, c, "SUCCESS")
            \/ /\ store' = Restrict(store, K)
               /\ Answer("add_key", k, v, c, "NO_SPACE")

Update(k, v, c) ==
    \/ Refused("update_key", k, v, c)
    \/ /\ k \in OwnKeys(c)
       /\ \E K \in Survivors(c) :
            \/ /\ store' = Put(Restrict(store, K), k, Entry(v, c))
               /\ Answer("update_key", k, v, c, "SUCCESS")
            \/ /\ store' = Restrict(store, K)
               /\ Answer("update_key", k, v, c, "NO_SPACE")

Get(k, c) ==
    \/ Refused("get_key", k, NoValue, c)
    \/ /\ k \in OwnKeys(c)
       /\ Answer("get_key", k, store[k].value, c, "SUCCESS")
       /\ UNCHANGED store

Delete(k, c) ==
    \/ Refused("delete_key", k, NoValue, c)
    \/ /\ k \in OwnKeys(c)
       /\ store' = Restrict(store, DOMAIN store \ {k})
       /\ Answer("delete_key", k, NoValue, c, "SUCCESS")

NoCall == [op |-> "none", key |-> NoValue, value |-> NoValue,
           client_id |-> NoValue, result |-> "SUCCESS"]

Init ==
    /\ store = [k \in {} |-> NoValue]
    /\ reply = NoCall

Next ==
    \E k \in Keys, c \in Clients :
        \/ \E v \in Values : Add(k, v, c) \/ Update(k, v, c)
        \/ Get(k, c)
        \/ Delete(k, c)

Spec == Init /\ [][Next]_kvVars
=============================================================================
