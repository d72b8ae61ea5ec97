---------------------------- MODULE MCTraceStream ----------------------------
(* A tool, and three message events at one moment: one without content, one *)
(* of the conversation, and one of the context, which has no turn.          *)
EXTENDS TraceStream

CONSTANTS t1, silent, spoken, context

MCTools == {t1}
MCOthers == {silent, spoken, context}
MCSpoken == {spoken, context}
MCVisible == {spoken}
MCTurnless == {context}
MCMoment == [o \in MCOthers |-> 1]
=============================================================================
