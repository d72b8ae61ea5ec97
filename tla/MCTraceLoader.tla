---------------------------- MODULE MCTraceLoader ----------------------------
(* Two sessions for TraceLoader. *)
EXTENDS TraceLoader, TLC

CONSTANTS s1, s2

MCSessions == {s1, s2}
Symmetry == Permutations(MCSessions)
=============================================================================
