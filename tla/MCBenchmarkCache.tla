-------------------------- MODULE MCBenchmarkCache --------------------------
(***************************************************************************)
(* BenchmarkCache for TLC.                                                 *)
(***************************************************************************)
EXTENDS BenchmarkCache, TLC

\* The policies order keys by time and position only and never look at values.
Symmetry == Permutations(Keys) \cup Permutations(Values)
=============================================================================
