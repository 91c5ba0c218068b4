-------------------------- MODULE MCBenchmarkServer --------------------------
(***************************************************************************)
(* BenchmarkServer for TLC: traces with a repeated key, so that two workers *)
(* can miss the same key at the same time.                                 *)
(***************************************************************************)
EXTENDS BenchmarkServer

CONSTANTS k1, k2

ShortTrace == <<k1, k1, k2>>
LongTrace  == <<k1, k1, k2, k1, k1>>
=============================================================================
