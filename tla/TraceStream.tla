----------------------------- MODULE TraceStream -----------------------------
(***************************************************************************)
(* The rows a loaded trace is shown as: frontend/src/traceViewModel.js,    *)
(* composeApiStream, which is run again on the whole trace whenever a page *)
(* is merged.  Messages and tool calls, which come in collections of their *)
(* own, are put where their events are in the timeline; a message by the   *)
(* id of its event or, for a message event without one, by the moment.     *)
(*                                                                         *)
(* A moment is the name and the time of an event.  A trace's timeline      *)
(* carries no turn ids: the lookup by name, time and turn finds messages   *)
(* without a turn only, and the one by name and time finds the others.     *)
(***************************************************************************)
EXTENDS TracePages

CONSTANTS
    MessageEvents,  \* of the Others: UserPromptSubmit, Stop or SubagentStop
    Spoken,         \* those that recorded content: the trace has a message of them
    Visible,        \* the messages of the conversation; the others are context
    Turnless,       \* the messages without a turn
    Moment          \* of each message event

ASSUME StreamAssumption ==
    /\ MessageEvents \subseteq Others /\ Spoken \subseteq MessageEvents
    /\ Visible \subseteq Spoken /\ Turnless \subseteq Spoken
    /\ DOMAIN Moment = MessageEvents

IsMessageEvent(e) == e.kind = "Stop" /\ e.of \in MessageEvents
IsSpoken(e) == e.kind = "Stop" /\ e.of \in Spoken

EventsOf(rows) == [i \in DOMAIN rows |-> rows[i].event]

\* The conversation of a merged trace: a page's is filtered by its rows.
Conversation(rows) == AtPositions(EventsOf(rows), {i \in DOMAIN rows : IsSpoken(rows[i].event)})

\* Row ids: `conversation-N', `tool-N', and the event's own.
MessageId(rows, e) ==
    [of |-> "conversation", n |-> CHOOSE i \in DOMAIN Conversation(rows) : Conversation(rows)[i] = e,
     event |-> {}]
ToolId(n) == [of |-> "tool", n |-> n, event |-> {}]
EventId(e) == [of |-> "timeline", n |-> 0, event |-> {e}]

\* The messages of a conversation in the order they are looked up in when no id decides.
Those(messages, turnless, visible) ==
    AtPositions(messages, {k \in DOMAIN messages : /\ (messages[k].of \in Turnless) = turnless
                                                   /\ (messages[k].of \in Visible) = visible})

LookupOrder(messages) ==
    Those(messages, TRUE, TRUE) \o Those(messages, TRUE, FALSE)
        \o Those(messages, FALSE, TRUE) \o Those(messages, FALSE, FALSE)

\* The message a timeline event takes of those not claimed, if any.
Consumed(order, e, claimed) ==
    LET atMoment == {k \in DOMAIN order : order[k] \notin claimed /\ Moment[order[k].of] = Moment[e.of]}
    IN  IF ~IsMessageEvent(e) THEN {}
        ELSE IF IsSpoken(e) /\ e \notin claimed THEN {e}
        ELSE IF atMoment # {} THEN {order[Nth(atMoment, 1)]} ELSE {}

\* A row: what it shows, under which id, and the timeline event it stands for.
Entry(id, shows, at) == [id |-> id, shows |-> shows, at |-> at]

\* Mutant: a call is a timeline event until it is completed.
EmitsCompletedTool(rows, row, emitted) ==
    /\ row.event.kind = "PreToolUse" /\ row.at # 0 /\ row.at \notin emitted
    /\ \E i \in DOMAIN rows : rows[i].event = Post(row.event.of)

EmitsTool(rows, row, emitted) ==
    row.event.kind = "PreToolUse" /\ row.at # 0 /\ row.at \notin emitted

\* Mutant: every completion is hidden, also one without a start.
HidesCompletion(row, emitted) == row.event.kind = "PostToolUse"

Hides(row, emitted) == row.event.kind = "PostToolUse" /\ row.at \in emitted

\* A timeline event that takes the message, if there is one.
PlaceTaking(message, trace, acc, row) ==
    LET Push(entry) == Append(acc.stream, entry)
    IN  CASE message # {} ->
               LET m == CHOOSE m \in message : TRUE
               IN  [acc EXCEPT !.stream = Push(Entry(MessageId(trace.timeline, m), m, row.event)),
                               !.claimed = @ \cup {m}]
          [] EmitsTool(trace.timeline, row, acc.emitted) ->
               [acc EXCEPT !.stream = Push(Entry(ToolId(row.at), trace.calls[row.at].start, row.event)),
                           !.emitted = @ \cup {row.at}]
          [] Hides(row, acc.emitted) -> acc
          [] OTHER ->
               [acc EXCEPT !.stream = Push(Entry(EventId(row.event), row.event, row.event))]

\* One timeline event, in order.
Place(trace, acc, row) ==
    PlaceTaking(Consumed(LookupOrder(Conversation(trace.timeline)), row.event, acc.claimed),
                trace, acc, row)

Unplaced == [stream |-> <<>>, claimed |-> {}, emitted |-> {}]

\* What the first n rows of the timeline have placed, for each n.
Placing(trace) ==
    LET acc[n \in 0 .. Len(trace.timeline)] ==
            IF n = 0 THEN Unplaced ELSE Place(trace, acc[n - 1], trace.timeline[n])
    IN  acc

PlacedRows(trace) == Placing(trace)[Len(trace.timeline)]

\* Messages and calls no timeline event took come last.
Untaken(messages, claimed, visible) ==
    AtPositions(messages, {k \in DOMAIN messages : /\ messages[k] \notin claimed
                                                   /\ (messages[k].of \in Visible) = visible})

MessageEntries(rows, messages) ==
    [k \in DOMAIN messages |-> Entry(MessageId(rows, messages[k]), messages[k], messages[k])]

CallEntries(calls, emitted) ==
    [k \in 1 .. Cardinality(DOMAIN calls \ emitted) |->
        LET c == Nth(DOMAIN calls \ emitted, k) IN Entry(ToolId(c), calls[c].start, calls[c].start)]

Leftovers(messages, trace, placed) ==
    MessageEntries(trace.timeline, Untaken(messages, placed.claimed, TRUE)
                                       \o Untaken(messages, placed.claimed, FALSE))
        \o CallEntries(trace.calls, placed.emitted)

WithLeftovers(trace, placed) ==
    placed.stream \o Leftovers(Conversation(trace.timeline), trace, placed)

ComposeApiStream(trace) == WithLeftovers(trace, PlacedRows(trace))

-----------------------------------------------------------------------------
\* Properties

\* Where a message event without content has the moment of a message that is not
\* its own, which row shows which of them depends on what else is loaded.
MayStandIn(e) ==
    /\ IsMessageEvent(e)
    /\ \E o \in MessageEvents \ Spoken, m \in Spoken \ {e.of} :
          Moment[o] = Moment[e.of] /\ Moment[m] = Moment[e.of]

\* Completions of a call loaded before them.
HiddenRows(rows) ==
    {i \in DOMAIN rows : /\ rows[i].event.kind = "PostToolUse"
                         /\ \E j \in 1 .. i - 1 : rows[j].event = Pre(rows[i].event.of)}

Messages(rows) == {rows[i].event : i \in {j \in DOMAIN rows : IsSpoken(rows[j].event)}}

IsTimeline(stream, rows, calls) ==
    LET ShownAs(of) == {stream[k].shows : k \in {k \in DOMAIN stream : stream[k].id.of = of}}
    IN  /\ \A j, k \in DOMAIN stream : stream[j].id = stream[k].id => j = k
        /\ ShownAs("conversation") = Messages(rows)
        /\ ShownAs("tool") = {calls[c].start : c \in DOMAIN calls}
        /\ [k \in DOMAIN stream |-> stream[k].at] =
                AtPositions(EventsOf(rows), DOMAIN rows \ HiddenRows(rows))

\* Nothing loaded is hidden or shown twice, whatever the pages it came with: each
\* message and each call has one row, each timeline event has one unless it
\* completes a call loaded before it, the rows are in the timeline's order,
\* and no two have the same id (which is their React key and evidence anchor).
StreamIsTheTimeline == IsTimeline(ComposeApiStream(remote), remote.timeline, remote.calls)

Remains(before, after) ==
    /\ Len(before) <= Len(after)
    /\ \A k \in DOMAIN before :
            /\ after[k].at = before[k].at
            /\ after[k] = before[k] \/ MayStandIn(before[k].at)

\* "Loaded rows remain on screen": a merged page changes no row that was shown,
\* neither its place nor its id nor what it shows.
LoadedRowsRemain ==
    [][NextPage => Remains(ComposeApiStream(remote), ComposeApiStream(remote'))]_vars
=============================================================================
