---------------------------- MODULE MCPagedCache ----------------------------
(***************************************************************************)
(* PagedCache for TLC.  A value is its length in bytes, so values of 0, 1  *)
(* and more pages, and both sides of a page boundary, are the numbers of   *)
(* Values.                                                                 *)
(***************************************************************************)
EXTENDS PagedCache, TLC

\* A value is the number of its bytes.
SizeOfValue(v) == v

\* The operations treat all keys alike and all clients alike, and no
\* invariant or action property orders them.
Symmetry == Permutations(Keys) \cup Permutations(Clients)
=============================================================================
