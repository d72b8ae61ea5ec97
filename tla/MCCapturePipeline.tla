-------------------------- MODULE MCCapturePipeline --------------------------
(* A pipeline small enough to enumerate: its queue fills, one session more *)
(* than the map holds appears, and close() meets every state of run().     *)
EXTENDS CapturePipelineRefinement, TLC

CONSTANTS s1, s2

MCSessions == {s1, s2}
MCOneSession == {s1}

Symmetry == Permutations(MCSessions)
=============================================================================
