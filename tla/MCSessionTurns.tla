---------------------------- MODULE MCSessionTurns ----------------------------
(* Events for sessions of SessionTurns: turns with prompts, texts and metadata. *)
EXTENDS SessionTurns, TLC

CONSTANTS m1, m2, n1, n2

Nothing == [f \in Fields |-> None]

Plain(kind) ==
    [kind |-> kind, queue |-> FALSE, settled |-> TRUE, message |-> None, ordinal |-> 0,
     blank |-> FALSE, tokens |-> FALSE, meta |-> Nothing]

Told(f, name) == [Nothing EXCEPT ![f] = name]

TurnInputs ==
    {Plain("prompt"), [Plain("prompt") EXCEPT !.queue = TRUE],
     Plain("before"), Plain("started"), Plain("finish"),
     Plain("step"), [Plain("step") EXCEPT !.tokens = TRUE]}

TextInputs ==
    {Plain("text"), [Plain("text") EXCEPT !.message = m1, !.blank = TRUE]} \cup
    {[Plain("text") EXCEPT !.message = m, !.ordinal = o] : m \in Messages, o \in 0..1}

MetadataInputs ==
    {[Plain("metadata") EXCEPT !.meta = Told("agent", n)] : n \in Names} \cup
    {[Plain("metadata") EXCEPT !.meta = [f \in Fields |-> IF f = "agent" THEN None ELSE n1]],
     [Plain("before") EXCEPT !.meta = Told("agent", n2)],
     [Plain("after") EXCEPT !.meta = Told("agent", n1), !.settled = FALSE]}

MCInputs == TurnInputs \cup TextInputs \cup MetadataInputs
=============================================================================
