------------------------- MODULE TraceReconstruction -------------------------
(***************************************************************************)
(* Reconstruct of backend/internal/reconstruction: the stored hook events  *)
(* of one session are ordered and reduced, one event at a time, to a       *)
(* timeline, tool calls paired by tool_use_id, a conversation, feature     *)
(* evidence and a summary.                                                 *)
(*                                                                         *)
(* A payload is abstracted to what the reduction reads from it: whether it *)
(* may be decoded (`safe'), whether it carries message content, whether    *)
(* its timestamp is in order, its token usage, file operations, skills and *)
(* its value for the runtime metadata.                                     *)
(***************************************************************************)
EXTENDS Naturals, Sequences, FiniteSets

CONSTANTS
    ToolUseIDs,    \* non-empty tool_use_id values
    NoID,          \* a missing or empty tool_use_id
    Servers,       \* MCP server names
    NoServer,      \* the tool name is not an MCP tool's
    Values,        \* values of a runtime metadata field
    NoValue,       \* the field is not in the payload
    Stored         \* the slices of events that storage may return

HookNames == {"SessionStart", "UserPromptSubmit", "PreToolUse", "PostToolUse",
              "Stop", "SubagentStop"}
Usage == [source : {"none", "direct", "cumulative"}, tokens : Nat]
Operations == {"read", "write", "modify", "delete", "ambiguous"}

\* A stored hook event.  `at' is received_at in the storage's milliseconds, `id' its object
\* id, 0 when it has none.
HookEvent ==
    [id : Nat, at : Nat, name : HookNames, tool : ToolUseIDs \cup {NoID}, safe : BOOLEAN,
     content : BOOLEAN, timestamp : BOOLEAN, server : Servers \cup {NoServer},
     ops : Seq(Operations), skills : Nat, value : Values \cup {NoValue}, usage : Usage]

ASSUME StoredAssumption == Stored \subseteq Seq(HookEvent)
ASSUME NoIDAssumption == NoID \notin ToolUseIDs

VARIABLES
    events,        \* the slice storage returned
    ordered,       \* the slice in reconstruction order
    pos,           \* how many ordered events have been reduced
    timeline, toolCalls, conversation, files, skills,   \* slices of the trace
    pending,       \* index in toolCalls of the open call with an id, 0 when there is none
    mcpCalls, mcpServers,
    direct,        \* Summary.TokenUsage while the loop runs
    cumulative,    \* cumulativeUsage: <<>> or the snapshot seen last
    metadata,      \* one field of RuntimeMetadata
    summary        \* <<>> until the loop has ended

vars == <<events, ordered, pos, timeline, toolCalls, conversation, files, skills, pending,
          mcpCalls, mcpServers, direct, cumulative, metadata, summary>>

Reasons == {"missing_received_at", "payload_issue", "malformed_timestamp",
            "missing_tool_use_id", "duplicate_tool_use_id", "unmatched_post_tool_use"}
Statuses == {"pending", "completed", "unmatched"}

\* `call' is ToolCallIndex plus one, 0 for an event without one.
TimelineEvent == [kind : {"lifecycle", "tool", "partial"}, reasons : SUBSET Reasons,
                  call : Nat, usage : Usage]
\* `opened' and `closed' are the positions of the events a call was made of, 0 for none.
ToolCall == [tool : ToolUseIDs \cup {NoID}, opened : Nat, closed : Nat, status : Statuses]

ConversationItem == [event : Nat, role : {"user", "assistant"}]
FileOperation == [event : Nat, op : Operations]

Item == [event : HookEvent, index : Nat]

TypeOK ==
    /\ events \in Seq(HookEvent)
    /\ ordered \in Seq(Item)
    /\ pos \in 0..Len(ordered)
    /\ timeline \in Seq(TimelineEvent)
    /\ toolCalls \in Seq(ToolCall)
    /\ conversation \in Seq(ConversationItem)
    /\ files \in Seq(FileOperation)
    /\ skills \in Seq(Nat)
    /\ pending \in [ToolUseIDs -> Nat]
    /\ mcpCalls \in Nat
    /\ mcpServers \subseteq Servers
    /\ direct \in Nat
    /\ cumulative \in Seq(Nat)
    /\ metadata \in Values \cup {NoValue}

-----------------------------------------------------------------------------
(* Order: by received_at, then by id, then by the position in the slice.   *)

\* Mutant: events of one millisecond are taken in the order storage returned them.
BeforeAsReturned(l, r) ==
    IF l.event.at # r.event.at THEN l.event.at < r.event.at ELSE l.index < r.index

Before(l, r) ==
    IF l.event.at # r.event.at THEN l.event.at < r.event.at
    ELSE IF l.event.id # 0 /\ r.event.id # 0 /\ l.event.id # r.event.id
         THEN l.event.id < r.event.id
         ELSE l.index < r.index

\* What sort.SliceStable returns: the arrangement in which each item is Before those that
\* follow it (so that none appears twice), the only one as long as Before is a total order.
Orderings(es) ==
    LET ItemAt(i) == [event |-> es[i], index |-> i]
        Sorted(p) == \A i, j \in 1..Len(es) : i < j => Before(ItemAt(p[i]), ItemAt(p[j])) IN
    {[i \in 1..Len(es) |-> ItemAt(p[i])] : p \in {q \in [1..Len(es) -> 1..Len(es)] : Sorted(q)}}

Init ==
    /\ events \in Stored
    /\ ordered \in Orderings(events)
    /\ pos = 0
    /\ timeline = <<>> /\ toolCalls = <<>> /\ conversation = <<>>
    /\ files = <<>> /\ skills = <<>>
    /\ pending = [t \in ToolUseIDs |-> 0]
    /\ mcpCalls = 0 /\ mcpServers = {}
    /\ direct = 0
    /\ cumulative = <<>>
    /\ metadata = NoValue
    /\ summary = <<>>

-----------------------------------------------------------------------------
(* What every event does, whatever its hook: `reasons' and `call' are what *)
(* the tool pairing adds.                                                  *)

PartialReason(e) ==
    IF e.at = 0 THEN {"missing_received_at"}
    ELSE IF ~e.safe THEN {"payload_issue"}
    ELSE IF ~e.timestamp THEN {"malformed_timestamp"} ELSE {}

Kind(e, reasons) ==
    IF reasons # {} THEN "partial"
    ELSE IF e.name \in {"PreToolUse", "PostToolUse"} THEN "tool" ELSE "lifecycle"

Roles == [UserPromptSubmit |-> "user", Stop |-> "assistant", SubagentStop |-> "assistant"]

Converse(e) ==
    conversation' = IF e.safe /\ e.content /\ e.name \in DOMAIN Roles
                    THEN Append(conversation, [event |-> pos + 1, role |-> Roles[e.name]])
                    ELSE conversation

Evidence(e) == IF e.safe THEN e.usage ELSE [source |-> "none", tokens |-> 0]

\* Mutant: the first snapshot stays.
CountTokensFirst(e) ==
    LET u == Evidence(e) IN
    /\ cumulative' = IF u.source = "cumulative" /\ cumulative = <<>>
                     THEN <<u.tokens>> ELSE cumulative
    /\ direct' = IF u.source = "direct" /\ cumulative = <<>>
                 THEN direct + u.tokens ELSE direct

\* Direct evidence is summed until the first snapshot is seen.
CountTokens(e) ==
    LET u == Evidence(e) IN
    /\ cumulative' = IF u.source = "cumulative" THEN <<u.tokens>> ELSE cumulative
    /\ direct' = IF u.source = "direct" /\ cumulative = <<>>
                 THEN direct + u.tokens ELSE direct

\* mergeRuntimeMetadata: the first value captured stays, that of a payload too large for
\* everything else included.
Merge(e) == metadata' = IF metadata = NoValue THEN e.value ELSE metadata

Record(e, reasons, call) ==
    LET all == PartialReason(e) \cup reasons IN
    /\ timeline' = Append(timeline, [kind |-> Kind(e, all), reasons |-> all,
                                     call |-> call, usage |-> Evidence(e)])
    /\ pos' = pos + 1
    /\ Converse(e)
    /\ CountTokens(e)
    /\ Merge(e)
    /\ UNCHANGED <<events, ordered, summary>>

-----------------------------------------------------------------------------
(* The loop body, by hook.                                                 *)

Current == ordered[pos + 1].event
More == summary = <<>> /\ pos < Len(ordered)

\* The files and skills evidence of a call, and the server it goes to.
Features(e) ==
    /\ IF e.server = NoServer
       THEN UNCHANGED <<mcpCalls, mcpServers>>
       ELSE mcpCalls' = mcpCalls + 1 /\ mcpServers' = mcpServers \cup {e.server}
    /\ IF e.safe
       THEN /\ files' = files \o [i \in 1..Len(e.ops) |-> [event |-> pos + 1, op |-> e.ops[i]]]
            /\ skills' = skills \o [i \in 1..e.skills |-> pos + 1]
       ELSE UNCHANGED <<files, skills>>

\* Mutant: duplicates go unnoticed and replace the pending call.
PreReasonsUnchecked(t) == IF t = NoID THEN {"missing_tool_use_id"} ELSE {}

\* Mutant: an id may be used by one call only.
PreReasonsOnce(t) ==
    IF t = NoID THEN {"missing_tool_use_id"}
    ELSE IF \E c \in 1..Len(toolCalls) : toolCalls[c].tool = t
         THEN {"duplicate_tool_use_id"} ELSE {}

PreReasons(t) ==
    IF t = NoID THEN {"missing_tool_use_id"}
    ELSE IF pending[t] # 0 THEN {"duplicate_tool_use_id"} ELSE {}

\* Every PreToolUse opens a call; only one call per id waits for its PostToolUse.
PreToolUse ==
    /\ More
    /\ Current.name = "PreToolUse"
    /\ LET e == Current  index == Len(toolCalls) + 1 IN
       /\ toolCalls' = Append(toolCalls, [tool |-> e.tool, opened |-> pos + 1, closed |-> 0,
                                          status |-> "pending"])
       /\ pending' = IF PreReasons(e.tool) = {}
                     THEN [pending EXCEPT ![e.tool] = index] ELSE pending
       /\ Features(e)
       /\ Record(e, PreReasons(e.tool), index)

\* A PostToolUse without an id is kept in the timeline only.
UnidentifiedPost ==
    /\ More
    /\ Current.name = "PostToolUse"
    /\ Current.tool = NoID
    /\ Record(Current, {"missing_tool_use_id"}, 0)
    /\ UNCHANGED <<toolCalls, pending, files, skills, mcpCalls, mcpServers>>

Completed(call, p) ==
    [tool |-> call.tool, opened |-> call.opened, closed |-> p, status |-> "completed"]

\* Mutant: the call stays in the map of pending calls.
MatchedPostKept ==
    /\ More
    /\ Current.name = "PostToolUse"
    /\ Current.tool # NoID
    /\ LET index == pending[Current.tool] IN
       /\ index # 0
       /\ toolCalls' = [toolCalls EXCEPT ![index] = Completed(@, pos + 1)]
       /\ Record(Current, {}, index)
    /\ UNCHANGED <<pending, files, skills, mcpCalls, mcpServers>>

MatchedPost ==
    /\ More
    /\ Current.name = "PostToolUse"
    /\ Current.tool # NoID
    /\ LET index == pending[Current.tool] IN
       /\ index # 0
       /\ toolCalls' = [toolCalls EXCEPT ![index] = Completed(@, pos + 1)]
       /\ pending' = [pending EXCEPT ![Current.tool] = 0]
       /\ Record(Current, {}, index)
    /\ UNCHANGED <<files, skills, mcpCalls, mcpServers>>

\* Mutant: the index of the call before the one that is added.
UnmatchedPostOff ==
    /\ More
    /\ Current.name = "PostToolUse"
    /\ Current.tool # NoID
    /\ pending[Current.tool] = 0
    /\ toolCalls' = Append(toolCalls, [tool |-> Current.tool, opened |-> pos + 1,
                                       closed |-> 0, status |-> "unmatched"])
    /\ Record(Current, {"unmatched_post_tool_use"}, Len(toolCalls))
    /\ UNCHANGED <<pending, files, skills, mcpCalls, mcpServers>>

UnmatchedPost ==
    /\ More
    /\ Current.name = "PostToolUse"
    /\ Current.tool # NoID
    /\ pending[Current.tool] = 0
    /\ toolCalls' = Append(toolCalls, [tool |-> Current.tool, opened |-> pos + 1,
                                       closed |-> 0, status |-> "unmatched"])
    /\ Record(Current, {"unmatched_post_tool_use"}, Len(toolCalls) + 1)
    /\ UNCHANGED <<pending, files, skills, mcpCalls, mcpServers>>

OtherHook ==
    /\ More
    /\ Current.name \notin {"PreToolUse", "PostToolUse"}
    /\ Record(Current, {}, 0)
    /\ UNCHANGED <<toolCalls, pending, files, skills, mcpCalls, mcpServers>>

Abandoned(call) ==
    [tool |-> call.tool, opened |-> call.opened, closed |-> call.closed,
     status |-> IF call.status = "pending" THEN "unmatched" ELSE call.status]

\* After the loop: a snapshot replaces the sum, calls still open become unmatched.
Summarise ==
    /\ summary = <<>>
    /\ pos = Len(ordered)
    /\ toolCalls' = [i \in 1..Len(toolCalls) |-> Abandoned(toolCalls[i])]
    /\ summary' = <<[events |-> Len(timeline), messages |-> Len(conversation),
                     calls |-> Len(toolCalls), mcpCalls |-> mcpCalls,
                     servers |-> mcpServers, skills |-> Len(skills), files |-> Len(files),
                     reads |-> Cardinality({i \in 1..Len(files) : files[i].op = "read"}),
                     tokens |-> IF cumulative = <<>> THEN direct ELSE cumulative[1]]>>
    /\ UNCHANGED <<events, ordered, pos, timeline, conversation, files, skills, pending,
                   mcpCalls, mcpServers, direct, cumulative, metadata>>

Next ==
    \/ PreToolUse
    \/ UnidentifiedPost
    \/ MatchedPost
    \/ UnmatchedPost
    \/ OtherHook
    \/ Summarise

Spec == Init /\ [][Next]_vars

-----------------------------------------------------------------------------
(* A reference pairing that keeps no state.                                *)

IsPre(i, t) == ordered[i].event.name = "PreToolUse" /\ ordered[i].event.tool = t
IsPost(i, t) == ordered[i].event.name = "PostToolUse" /\ ordered[i].event.tool = t

\* The PreToolUse events with id t before position j that no PostToolUse followed.
OpenBefore(t, j) ==
    {i \in 1..(j - 1) : IsPre(i, t) /\ \A k \in (i + 1)..(j - 1) : ~IsPost(k, t)}

Oldest(S, i) == i \in S /\ \A k \in S : i <= k

PairedPost(j) ==
    \A t \in ToolUseIDs :
        IsPost(j, t) =>
            LET call == toolCalls[timeline[j].call] IN
            IF OpenBefore(t, j) = {}
            THEN /\ call.opened = j /\ call.closed = 0 /\ call.status = "unmatched"
                 /\ "unmatched_post_tool_use" \in timeline[j].reasons
            ELSE call.closed = j /\ Oldest(OpenBefore(t, j), call.opened)

\* Each PostToolUse with an id closes the call of the oldest PreToolUse with that id still
\* open at that point, and becomes an unmatched call of its own when there is none.
PostsCloseOldestOpenCall == \A j \in 1..pos : PairedPost(j)

WellFormedCall(c) ==
    LET call == toolCalls[c] IN
    /\ call.opened \in 1..pos
    /\ IF call.status = "completed"
       THEN /\ call.tool # NoID
            /\ IsPre(call.opened, call.tool)
            /\ call.closed \in (call.opened + 1)..pos
            /\ IsPost(call.closed, call.tool)
       ELSE call.closed = 0

\* A completed call is made of a PreToolUse and a later PostToolUse with its id, any other
\* call of one event; and none is left pending in the trace that is returned.
CallsAreWellFormed ==
    /\ \A c \in 1..Len(toolCalls) : WellFormedCall(c)
    /\ summary # <<>> => \A c \in 1..Len(toolCalls) : toolCalls[c].status # "pending"

LinkedEvent(j) ==
    LET c == timeline[j].call IN
    IF c = 0
    THEN ~IsPre(j, NoID) /\ \A t \in ToolUseIDs : ~IsPre(j, t) /\ ~IsPost(j, t)
    ELSE c \in 1..Len(toolCalls) /\ j \in {toolCalls[c].opened, toolCalls[c].closed}

LinkedCall(c) ==
    /\ timeline[toolCalls[c].opened].call = c
    /\ toolCalls[c].closed # 0 => timeline[toolCalls[c].closed].call = c

\* The index a timeline event carries and the events a call was made of name each other, so
\* no event belongs to two calls and none is lost: a tool event without a call is a
\* PostToolUse that has no id.
TimelineAndCallsAgree ==
    /\ \A j \in 1..pos : LinkedEvent(j)
    /\ \A c \in 1..Len(toolCalls) : LinkedCall(c)

MarkedPre(j) ==
    \A t \in ToolUseIDs :
        IsPre(j, t) => ("duplicate_tool_use_id" \in timeline[j].reasons
                            <=> OpenBefore(t, j) # {})

\* A second PreToolUse for an id that is still open is marked as a duplicate and nothing
\* else is: an id may be used again once its call was completed.
DuplicatesMarked == \A j \in 1..pos : MarkedPre(j)

\* The summary's token usage is the latest cumulative snapshot of the readable events,
\* whatever direct usage came before or after it.
SnapshotAt(j) == ordered[j].event.safe /\ ordered[j].event.usage.source = "cumulative"
LatestSnapshotWins ==
    summary # <<>> =>
        \A j \in 1..Len(ordered) :
            SnapshotAt(j) /\ (\A k \in (j + 1)..Len(ordered) : ~SnapshotAt(k))
                => summary[1].tokens = ordered[j].event.usage.tokens

\* The events determine their order: whatever order storage returned them in, there is one
\* sequence they are reduced in.
Shuffles == {p \in [DOMAIN events -> DOMAIN events] : \A i, j \in DOMAIN events :
                                                         p[i] = p[j] => i = j}
Sequence(o) == [i \in 1..Len(o) |-> o[i].event]
OrderIsDetermined ==
    pos = 0 =>
        \A p \in Shuffles :
            {Sequence(o) : o \in Orderings([i \in DOMAIN events |-> events[p[i]]])}
                = {Sequence(ordered)}

\* What a PostToolUse has completed no later event changes, a second PostToolUse with the
\* same id included.
CompletedCallsStand ==
    [][\A c \in 1..Len(toolCalls) :
         toolCalls[c].status = "completed" => toolCalls'[c] = toolCalls[c]]_vars
=============================================================================
