-------------------------- MODULE MCSessionSummaries --------------------------
(* Four documents, one of them of no session in the window, two workers and a *)
(* channel of one, so that the cursor, the channel and the workers block.     *)
EXTENDS SessionSummaries, TLC

CONSTANTS d1, d2, d3, d4, w1, w2

MCDocuments == {d1, d2, d3, d4}
MCSelected == {d1, d2, d3}
MCWorkers == {w1, w2}
=============================================================================
