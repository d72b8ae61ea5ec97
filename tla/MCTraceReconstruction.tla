----------------------- MODULE MCTraceReconstruction -----------------------
(* Short slices of tool events that share, repeat or lack their ids, and of *)
(* messages, usage evidence and features received in one of two             *)
(* milliseconds and returned by storage in any order.                       *)
EXTENDS TraceReconstruction, TLC

CONSTANTS t1, t2, srv, v1, v2, MaxToolEvents, MaxMessages

MCToolUseIDs == {t1, t2}
MCServers == {srv}
MCValues == {v1, v2}

NoUsage == [source |-> "none", tokens |-> 0]

Plain(name, tool) ==
    [id |-> 0, at |-> 1, name |-> name, tool |-> tool, safe |-> TRUE, content |-> FALSE,
     timestamp |-> TRUE, server |-> NoServer, ops |-> <<>>, skills |-> 0, value |-> NoValue,
     usage |-> NoUsage]

ToolShapes ==
    {Plain(n, t) : n \in {"PreToolUse", "PostToolUse"}, t \in {t1, t2, NoID}}
        \cup {Plain("UserPromptSubmit", NoID)}

\* All sequences of tool events, returned in the order of their ids.
PairingSlices ==
    {[i \in DOMAIN s |-> [s[i] EXCEPT !.id = i]] :
        s \in UNION {[1..n -> ToolShapes] : n \in 0..MaxToolEvents}}

Counted(name, source, tokens) ==
    [Plain(name, NoID) EXCEPT !.usage = [source |-> source, tokens |-> tokens]]

MessageShapes ==
    {[Plain("UserPromptSubmit", NoID) EXCEPT !.content = TRUE, !.value = v1],
     [Counted("Stop", "cumulative", 5) EXCEPT !.content = TRUE, !.value = v2],
     Counted("SubagentStop", "cumulative", 7),
     [Counted("Stop", "cumulative", 9) EXCEPT !.safe = FALSE, !.value = v2],
     [Counted("PostToolUse", "direct", 2) EXCEPT !.timestamp = FALSE],
     [Plain("PreToolUse", t1) EXCEPT !.server = srv, !.ops = <<"read", "write">>, !.skills = 1]}

\* Messages received in one of two milliseconds, with distinct ids, in any order.
MessageSlices ==
    UNION {{[i \in 1..n |-> [s[i] EXCEPT !.id = p[i], !.at = a[i]]] :
                s \in [1..n -> MessageShapes], p \in Permutations(1..n), a \in [1..n -> 1..2]} :
            n \in 0..MaxMessages}

Slices == PairingSlices \cup MessageSlices
=============================================================================
