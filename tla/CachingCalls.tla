---------------------------- MODULE CachingCalls ----------------------------
(***************************************************************************)
(* BoundedCache with what its calls return: get assigns its out-parameter  *)
(* when it finds the key and leaves it alone when it does not.  Module     *)
(* BenchmarkCache implements this specification; BenchmarkServer, which    *)
(* throws the value away, uses the actions of BoundedCache.                *)
(***************************************************************************)
EXTENDS BoundedCache

CONSTANT NoValue     \* the out-parameter when the last call did not assign it

VARIABLE value       \* the out-parameter after the last call

callVars == <<cacheVars, value>>

GetHit(k)     == Hit(k) /\ value' = contents[k]
GetMiss(k)    == Miss(k) /\ value' = NoValue
PutCall(k, v) == Put(k, v) /\ value' = NoValue
ResetCall     == ResetStats /\ value' = NoValue

CallInit == Init /\ value = NoValue

CallNext ==
    \/ ResetCall
    \/ \E k \in Keys : GetHit(k) \/ GetMiss(k) \/ \E v \in Values : PutCall(k, v)

CallSpec == CallInit /\ [][CallNext]_callVars
=============================================================================
