------------------------------ MODULE KeyLists ------------------------------
(***************************************************************************)
(* Lists of keys from which eviction erases elements in place.             *)
(***************************************************************************)
EXTENDS Naturals, FiniteSets, Sequences

\* The sequence without the elements of X, in the same order.
Without(seq, X) ==
    LET kept == {i \in 1 .. Len(seq) : seq[i] \notin X}
    IN  [n \in 1 .. Cardinality(kept) |->
            seq[CHOOSE i \in kept : Cardinality({j \in kept : j < i}) = n - 1]]
=============================================================================
