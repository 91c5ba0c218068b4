-------------------------- MODULE MCTraceProcessor --------------------------
(***************************************************************************)
(* TraceProcessor for TLC: a trace in both formats with a line of blanks   *)
(* only, local or not, compressed or not.                                  *)
(***************************************************************************)
EXTENDS TraceProcessor

Line(text, fields) == [text |-> text, fields |-> fields]

MixedTrace == <<Line("t a n", <<"t", "a", "n">>), Line("b", <<"b">>),
                Line("  ", <<>>), Line("t b", <<"t", "b">>)>>

AllSources == [local : BOOLEAN, compressed : BOOLEAN]
=============================================================================
