------------------------------ MODULE TracePages ------------------------------
(***************************************************************************)
(* Trace pages: a session's trace is read page by page from a server that  *)
(* reconstructs it at each request (backend/internal/server/sessions.go,   *)
(* paginateTrace), and put together in the browser                         *)
(* (frontend/src/App.jsx, loadTrace, loadMoreTrace and mergeTracePage).    *)
(*                                                                         *)
(* Events are stored meanwhile.  Most go to the end of the timeline, but   *)
(* one that another request overtook goes before what was stored first:    *)
(* received_at is taken before the insertion.  `late' holds the events     *)
(* inserted before the end since the first page was read.                  *)
(*                                                                         *)
(* Of the collections of a trace the timeline and the tool calls are kept: *)
(* conversation, skills and files are cut and merged like the timeline.    *)
(***************************************************************************)
EXTENDS Naturals, Sequences, FiniteSets

CONSTANTS
    Tools,      \* tool_use_ids: each is started and completed at most once
    Others,     \* ids of events that are no tool hooks
    Limit,      \* SESSION_TRACE_PAGE_SIZE
    MaxLate,    \* how many events may be overtaken while a trace is read
    MaxEvents   \* bound: how many events a session has

\* Concurrent ingest requests are fewer than the 100 rows of a page.
ASSUME PageAssumption == Limit \in Nat \ {0} /\ MaxLate \in 0 .. Limit - 1

Pre(t)  == [kind |-> "PreToolUse", of |-> t]
Post(t) == [kind |-> "PostToolUse", of |-> t]
Event == {Pre(t) : t \in Tools} \cup {Post(t) : t \in Tools}
            \cup [kind : {"Stop"}, of : Others]

\* ix is ToolCallIndex and __traceToolCallIndex, counted from 1, 0 if there is
\* none; at is the tool_call_index the merged row is given.
Row  == [event : Event, ix : Nat, at : Nat]
Call == [start : Event, status : {"pending", "completed", "unmatched"}, ix : Nat]
Trace == [timeline : Seq(Row), calls : Seq(Call),
          offset : Nat, total : Nat, more : BOOLEAN]
Request == [kind : {"none", "first", "next"}, offset : Nat, read : BOOLEAN, page : Trace]

VARIABLES
    store,      \* the session's events, in the order reconstruction gives them
    late,       \* history: see above
    remote,     \* remoteTrace
    traceState, \* traceState; remoteTrace is null unless it is "ready"
    pageState,  \* tracePageState
    req         \* the request whose answer will be used

vars == <<store, late, remote, traceState, pageState, req>>

NoTrace == [timeline |-> <<>>, calls |-> <<>>,
            offset |-> 0, total |-> 0, more |-> FALSE]
NoRequest == [kind |-> "none", offset |-> 0, read |-> FALSE, page |-> NoTrace]

TypeOK ==
    /\ store \in Seq(Event)
    /\ late \in SUBSET Event
    /\ remote \in Trace
    /\ traceState \in {"idle", "loading", "ready", "missing", "error"}
    /\ pageState \in {"idle", "loading", "error"}
    /\ req \in Request
    /\ traceState = "ready" \/ remote = NoTrace

Init ==
    /\ store = <<>>
    /\ late = {}
    /\ remote = NoTrace
    /\ traceState = "idle"
    /\ pageState = "idle"
    /\ req = NoRequest

-----------------------------------------------------------------------------
\* Positions

\* The n-th smallest member of a finite set of numbers, and the members of a
\* sequence at such a set of positions.
Nth(S, n) == CHOOSE i \in S : Cardinality({j \in S : j <= i}) = n
AtPositions(s, S) == [n \in 1 .. Cardinality(S) |-> s[Nth(S, n)]]

Smaller(a, b) == IF a <= b THEN a ELSE b

-----------------------------------------------------------------------------
\* The server

\* Event i of s opens a call: it is a start, or a completion without one.
Opens(s, i) ==
    \/ s[i].kind = "PreToolUse"
    \/ s[i].kind = "PostToolUse" /\ \A j \in 1 .. i - 1 : s[j] # Pre(s[i].of)

\* The position of the event that opened the call event i belongs to.
OpenedAt(s, i) ==
    IF Opens(s, i) THEN i ELSE CHOOSE j \in 1 .. i - 1 : s[j] = Pre(s[i].of)

ToolCallIndex(s, i) ==
    IF s[i].kind = "Stop" THEN 0
    ELSE Cardinality({j \in 1 .. OpenedAt(s, i) : Opens(s, j)})

CallAt(s, ix) ==
    LET i == CHOOSE i \in DOMAIN s : Opens(s, i) /\ ToolCallIndex(s, i) = ix
    IN  [start  |-> s[i],
         status |-> IF s[i].kind = "PostToolUse" THEN "unmatched"
                    ELSE IF \E j \in DOMAIN s : j > i /\ s[j] = Post(s[i].of)
                         THEN "completed" ELSE "pending",
         ix     |-> 0]

\* The tool calls whose start is among the rows.
StartIndexes(rows) ==
    {rows[i].ix : i \in {j \in DOMAIN rows : rows[j].event.kind = "PreToolUse"}} \ {0}

PageEnd(s, offset) == Smaller(offset + Limit, Len(s))

\* Mutant: offsets counted from 1.
PageRowsFromOne(s, offset) ==
    LET first == Smaller(offset + 1, Len(s))
        last  == PageEnd(s, offset)
    IN  [i \in 1 .. (IF first > last THEN 0 ELSE last - first) |->
            [event |-> s[first + i], ix |-> ToolCallIndex(s, first + i), at |-> 0]]

PageRows(s, offset) ==
    LET first == Smaller(offset, Len(s))
    IN  [i \in 1 .. PageEnd(s, offset) - first |->
            [event |-> s[first + i], ix |-> ToolCallIndex(s, first + i), at |-> 0]]

PaginateTrace(s, offset) ==
    LET rows == PageRows(s, offset)
        included == StartIndexes(rows)
    IN  [timeline |-> rows,
         calls    |-> [n \in 1 .. Cardinality(included) |-> CallAt(s, Nth(included, n))],
         offset   |-> offset,
         total    |-> Len(s),
         more     |-> PageEnd(s, offset) < Len(s)]

-----------------------------------------------------------------------------
\* The browser

\* Mutant: a call's position in its page for its index.
PreparedCallsByPage(page) == [n \in DOMAIN page.calls |-> [page.calls[n] EXCEPT !.ix = n]]

\* A page's calls come without their indexes: they are read off its rows.
PreparedCalls(page) ==
    LET indexes == StartIndexes(page.timeline)
    IN  [n \in DOMAIN page.calls |->
            [page.calls[n] EXCEPT !.ix = IF n <= Cardinality(indexes) THEN Nth(indexes, n) ELSE 0]]

\* appendTracePageRecords: positions of `next' whose key is not seen before.
FreshRows(current, next) ==
    {i \in DOMAIN next :
        /\ \A j \in DOMAIN current : current[j].event # next[i].event
        /\ \A j \in 1 .. i - 1 : next[j].event # next[i].event}

FreshCalls(current, next) ==
    {i \in DOMAIN next :
        /\ \A j \in DOMAIN current : current[j].ix # next[i].ix
        /\ \A j \in 1 .. i - 1 : next[j].ix # next[i].ix}

\* alignTraceToolCallIndexes
Aligned(rows, calls) ==
    [i \in DOMAIN rows |->
        [rows[i] EXCEPT !.at =
            IF \E c \in DOMAIN calls : calls[c].ix = rows[i].ix
            THEN CHOOSE c \in DOMAIN calls : calls[c].ix = rows[i].ix
            ELSE 0]]

\* Mutant: a page goes before what is loaded.
MergeTracePageInFront(current, next) ==
    LET prepared == PreparedCalls(next)
        rows  == AtPositions(next.timeline, FreshRows(current.timeline, next.timeline))
                    \o current.timeline
        calls == current.calls \o AtPositions(prepared, FreshCalls(current.calls, prepared))
    IN  [next EXCEPT !.timeline = Aligned(rows, calls),
                     !.calls = calls]

MergeTracePage(current, next) ==
    LET prepared == PreparedCalls(next)
        rows  == current.timeline \o
                    AtPositions(next.timeline, FreshRows(current.timeline, next.timeline))
        calls == current.calls \o AtPositions(prepared, FreshCalls(current.calls, prepared))
    IN  [next EXCEPT !.timeline = Aligned(rows, calls),
                     !.calls = calls]

NewEvents(current, next) ==
    {next[i].event : i \in DOMAIN next} \ {current[i].event : i \in DOMAIN current}

HasContiguousNextTracePage(current, next, nextOffset) ==
    LET expected == Smaller(Limit, next.total - nextOffset)
    IN  /\ Len(current.timeline) = nextOffset
        /\ next.total > nextOffset
        /\ next.offset = nextOffset
        /\ next.more = (nextOffset + expected < next.total)
        /\ Cardinality(NewEvents(current.timeline, next.timeline)) = expected

-----------------------------------------------------------------------------
\* Steps

\* A trace is, or was just, read: what is inserted now may be missed.
Reading == traceState = "ready" \/ req.read

\* An ingest handler inserts an event, before those that overtook it.
Store(e, p) ==
    /\ Len(store) < MaxEvents
    /\ \A i \in DOMAIN store : store[i] # e
    /\ store' = [i \in 1 .. Len(store) + 1 |->
                    IF i < p THEN store[i] ELSE IF i = p THEN e ELSE store[i - 1]]
    /\ IF Reading /\ p <= Len(store)
       THEN Cardinality(late) < MaxLate /\ late' = late \cup {e}
       ELSE late' = late
    /\ UNCHANGED <<remote, traceState, pageState, req>>

\* Opening the session, or a retry, drops what was loaded and requested.
LoadTrace ==
    /\ remote' = NoTrace
    /\ traceState' = "loading"
    /\ pageState' = "idle"
    /\ req' = [NoRequest EXCEPT !.kind = "first"]
    /\ late' = {}
    /\ UNCHANGED store

\* Leaving the session
Leave ==
    /\ traceState # "idle"
    /\ remote' = NoTrace
    /\ traceState' = "idle"
    /\ pageState' = "idle"
    /\ req' = NoRequest
    /\ late' = {}
    /\ UNCHANGED store

\* The session trace handler lists the events and answers from that list.
ReadPage ==
    /\ req.kind # "none" /\ ~req.read
    /\ req' = [req EXCEPT !.read = TRUE, !.page = PaginateTrace(store, req.offset)]
    /\ UNCHANGED <<store, late, remote, traceState, pageState>>

\* 404 if nothing was stored
FirstPage ==
    /\ req.kind = "first" /\ req.read
    /\ IF req.page.total = 0
       THEN traceState' = "missing" /\ late' = {} /\ UNCHANGED remote
       ELSE traceState' = "ready" /\ remote' = MergeTracePage(NoTrace, req.page) /\ UNCHANGED late
    /\ req' = NoRequest
    /\ UNCHANGED <<store, pageState>>

FirstPageFails ==
    /\ req.kind = "first"
    /\ traceState' = "error"
    /\ req' = NoRequest
    /\ late' = {}
    /\ UNCHANGED <<store, remote, pageState>>

\* Mutant: the last offset is requested again.
LoadSameTrace ==
    /\ traceState = "ready" /\ remote.more /\ req.kind = "none"
    /\ pageState' = "loading"
    /\ req' = [NoRequest EXCEPT !.kind = "next", !.offset = remote.offset]
    /\ UNCHANGED <<store, late, remote, traceState>>

\* The button that loads more rows, also after an error.
LoadMoreTrace ==
    /\ traceState = "ready" /\ remote.more /\ req.kind = "none"
    /\ IF Len(remote.timeline) # remote.offset + Limit
       THEN pageState' = "error" /\ UNCHANGED req
       ELSE /\ pageState' = "loading"
            /\ req' = [NoRequest EXCEPT !.kind = "next", !.offset = remote.offset + Limit]
    /\ UNCHANGED <<store, late, remote, traceState>>

NextPage ==
    /\ req.kind = "next" /\ req.read
    /\ IF HasContiguousNextTracePage(remote, req.page, req.offset)
       THEN remote' = MergeTracePage(remote, req.page) /\ pageState' = "idle"
       ELSE pageState' = "error" /\ UNCHANGED remote
    /\ req' = NoRequest
    /\ UNCHANGED <<store, late, traceState>>

NextPageFails ==
    /\ req.kind = "next"
    /\ pageState' = "error"
    /\ req' = NoRequest
    /\ UNCHANGED <<store, late, remote, traceState>>

Next ==
    \/ \E e \in Event, p \in 1 .. Len(store) + 1 : Store(e, p)
    \/ LoadTrace
    \/ Leave
    \/ ReadPage
    \/ FirstPage
    \/ FirstPageFails
    \/ LoadMoreTrace
    \/ NextPage
    \/ NextPageFails

Spec == Init /\ [][Next]_vars

-----------------------------------------------------------------------------
\* Properties

Loaded == traceState = "ready"

\* What a reader of the loaded rows relies on: a stored event that comes before
\* a loaded row is loaded too, unless it was overtaken after the reading began.
\* Pages shifted by such events are refused, not merged with a gap.
NoGapButLate ==
    \A r \in DOMAIN remote.timeline : \A i, j \in DOMAIN store :
        (i < j /\ store[j] = remote.timeline[r].event) =>
            \/ store[i] \in late
            \/ \E k \in DOMAIN remote.timeline : remote.timeline[k].event = store[i]

\* The loaded rows are in the order of the timeline, each once, although they
\* come from timelines of several moments.
RowsInOrder ==
    \A i, j \in DOMAIN remote.timeline : \A a, b \in DOMAIN store :
        (i < j /\ store[a] = remote.timeline[i].event /\ store[b] = remote.timeline[j].event) => a < b

\* The tool row shown at a start is the call of that start: indexes counted in
\* the timelines of several moments are translated to the merged calls.
StartsShowTheirCalls ==
    \A i \in DOMAIN remote.timeline :
        LET row == remote.timeline[i] IN
        row.event.kind = "PreToolUse" =>
            row.at \in DOMAIN remote.calls /\ remote.calls[row.at].start = row.event

\* "Loaded X of Y captured events": more rows are offered exactly while fewer
\* rows are loaded than the server last counted.
CountsAgree ==
    Loaded => (remote.more <=> Len(remote.timeline) < remote.total)

\* What is shown as loading is being requested, across retries and departures.
LoadingIsRequested ==
    /\ traceState = "loading" <=> req.kind = "first"
    /\ pageState = "loading" <=> req.kind = "next"

\* Requests do not fail for ever, and each is answered; the reader keeps asking.
Fairness ==
    /\ SF_vars(ReadPage)
    /\ WF_vars(FirstPage)
    /\ WF_vars(LoadMoreTrace)
    /\ SF_vars(NextPage)

FairSpec == Spec /\ Fairness

\* A reader who keeps asking is shown the whole timeline, unless an event was
\* overtaken (see RetryContinues).
WholeTraceLoads == (Loaded /\ remote.more) ~> (~Loaded \/ ~remote.more \/ late # {})

\* Said of the code, and not so: after an error, "Retry to continue".
RetryContinues == (pageState = "error") ~> (pageState = "idle")

\* Said of the code, and not so: paired calls stay intact when the completion
\* comes with a later page.
CompletionsShown ==
    \A i \in DOMAIN remote.timeline : \A c \in DOMAIN remote.calls :
        LET row == remote.timeline[i] IN
        (row.event.kind = "PostToolUse" /\ row.at = c) => remote.calls[c].status # "pending"
=============================================================================
