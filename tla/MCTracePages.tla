---------------------------- MODULE MCTracePages ----------------------------
(* A session of one tool and two other events for TracePages. *)
EXTENDS TracePages

CONSTANTS t1, o1, o2

OneTool == {t1}
MCOthers == {o1, o2}
=============================================================================
