--------------------------- MODULE SessionSummaries ---------------------------
(***************************************************************************)
(* One GET /sessions (backend/internal/server/sessions.go): the rows of a  *)
(* window of sessions and the features of their PreToolUse events are read *)
(* concurrently, each read cancelling the other when it fails.  The        *)
(* features are counted by workers that take the documents of a cursor     *)
(* from a bounded channel, and merged when all of them are done.           *)
(*                                                                         *)
(* A document's feature counts (MCP calls and servers, skills, file        *)
(* operations) depend on that document alone: an accumulator is the set of *)
(* documents added to it.  Error values are not told apart:                *)
(* storage.RepositoryError hides the cancellation that caused it, so the   *)
(* preference for other errors over context.Canceled is never decisive.    *)
(***************************************************************************)
EXTENDS Naturals, Sequences, FiniteSets

CONSTANTS
    Documents,  \* what the cursor may yield
    Selected,   \* those of the sessions in the window
    Workers,    \* min(GOMAXPROCS, 16) goroutines
    Capacity,   \* of the channel
    None        \* no document

ASSUME SummariesAssumption ==
    /\ IsFiniteSet(Documents) /\ Selected \subseteq Documents /\ None \notin Documents
    /\ IsFiniteSet(Workers) /\ Workers # {}
    /\ Capacity \in Nat \ {0}

VARIABLES
    gone,       \* the client is gone: the request's context is done
    cancelled,  \* cancel() was called on the reads' context
    faulty,     \* history: a read failed by itself
    handler,    \* the handler: "ids", then "reads", then the answer
    rows,       \* the rows' read
    walk,       \* the features' read: the walk, then wait and merge
    current,    \* the document the cursor is at
    unread,     \* the documents it has not yielded
    channel,    \* events
    closed,     \* close(events)
    holds,      \* the document each worker is at, if any
    done,       \* the workers that have left their loop
    counted,    \* each worker's accumulators
    features    \* the merged features: how often each document is counted

vars == <<gone, cancelled, faulty, handler, rows, walk, current, unread,
          channel, closed, holds, done, counted, features>>
reads == <<handler, rows, gone, cancelled, faulty>>
cursor == <<walk, current, unread>>
pool == <<channel, closed, holds, done, counted>>

TypeOK ==
    /\ gone \in BOOLEAN /\ cancelled \in BOOLEAN /\ faulty \in BOOLEAN
    /\ handler \in {"ids", "reads", "sessions", "error"}
    /\ rows \in {"idle", "reading", "ok", "failed"}
    /\ walk \in {"idle", "walking", "sending", "walked", "broken", "ok", "failed"}
    /\ current \in Documents \cup {None}
    /\ unread \in SUBSET Documents
    /\ channel \in Seq(Documents) /\ Len(channel) <= Capacity
    /\ closed \in BOOLEAN
    /\ holds \in [Workers -> Documents \cup {None}]
    /\ done \in SUBSET Workers
    /\ counted \in [Workers -> SUBSET Documents]
    /\ features \in [Documents -> Nat]

Init ==
    /\ gone = FALSE /\ cancelled = FALSE /\ faulty = FALSE
    /\ handler = "ids" /\ rows = "idle" /\ walk = "idle"
    /\ current = None /\ unread = Documents
    /\ channel = <<>> /\ closed = FALSE
    /\ holds = [w \in Workers |-> None] /\ done = {}
    /\ counted = [w \in Workers |-> {}]
    /\ features = [d \in Documents |-> 0]

Answered == handler \in {"sessions", "error"}

\* readContext.Done()
Stopped == gone \/ cancelled

\* A read fails by itself, or because its context is done.
Fails == \/ Stopped /\ faulty' = faulty
         \/ faulty' = TRUE

-----------------------------------------------------------------------------
\* The handler

\* The window: no session, some sessions, or an error.
ListRecentSessionIDs ==
    /\ handler = "ids"
    /\ \/ handler' = "sessions" /\ UNCHANGED <<faulty, rows, walk>>
       \/ handler' = "reads" /\ rows' = "reading" /\ walk' = "walking" /\ UNCHANGED faulty
       \/ handler' = "error" /\ Fails /\ UNCHANGED <<rows, walk>>
    /\ UNCHANGED <<gone, cancelled, current, unread, pool, features>>

\* Mutant: each read cancels the context when it returns, failed or not.
ListSessionSummariesAndCancel ==
    /\ rows = "reading"
    /\ \/ rows' = "ok" /\ UNCHANGED faulty
       \/ rows' = "failed" /\ Fails
    /\ cancelled' = TRUE
    /\ UNCHANGED <<gone, handler, cursor, pool, features>>

ListSessionSummaries ==
    /\ rows = "reading"
    /\ \/ rows' = "ok" /\ UNCHANGED <<cancelled, faulty>>
       \/ rows' = "failed" /\ Fails /\ cancelled' = TRUE
    /\ UNCHANGED <<gone, handler, cursor, pool, features>>

\* wait.Wait() of both reads, and the merge into the rows.
Answer ==
    /\ handler = "reads"
    /\ rows \in {"ok", "failed"} /\ walk \in {"ok", "failed"}
    /\ handler' = IF rows = "failed" \/ walk = "failed" THEN "error" ELSE "sessions"
    /\ UNCHANGED <<gone, cancelled, faulty, rows, cursor, pool, features>>

ClientLeaves ==
    /\ ~Answered /\ ~gone
    /\ gone' = TRUE
    /\ UNCHANGED <<cancelled, faulty, handler, rows, cursor, pool, features>>

-----------------------------------------------------------------------------
\* The cursor

NextDocument ==
    /\ walk = "walking"
    /\ \E d \in unread : current' = d /\ unread' = unread \ {d}
    /\ walk' = "sending"
    /\ UNCHANGED <<reads, pool, features>>

\* The select of the yield callback takes either case that is ready.
Send ==
    /\ walk = "sending" /\ Len(channel) < Capacity
    /\ channel' = Append(channel, current)
    /\ walk' = "walking"
    /\ UNCHANGED <<reads, current, unread, closed, holds, done, counted, features>>

GiveUpSending ==
    /\ walk = "sending" /\ Stopped
    /\ walk' = "broken"
    /\ UNCHANGED <<reads, current, unread, pool, features>>

WalkEnds ==
    /\ walk = "walking"
    /\ \/ unread = {} /\ walk' = "walked" /\ UNCHANGED faulty
       \/ walk' = "broken" /\ Fails
    /\ UNCHANGED <<gone, cancelled, handler, rows, current, unread, pool, features>>

\* Mutant: a broken walk returns before the channel is closed.
CloseWalked ==
    /\ walk = "walked" /\ ~closed
    /\ closed' = TRUE
    /\ UNCHANGED <<reads, cursor, channel, holds, done, counted, features>>

Close ==
    /\ walk \in {"walked", "broken"} /\ ~closed
    /\ closed' = TRUE
    /\ UNCHANGED <<reads, cursor, channel, holds, done, counted, features>>

\* How many workers counted document d.
Merged(d) == Cardinality({w \in Workers : d \in counted[w]})

\* Mutant: the merge does not wait.
FeaturesReturnEarly ==
    /\ closed /\ channel = <<>>
    /\ \/ walk = "walked" /\ walk' = "ok" /\ features' = [d \in Documents |-> Merged(d)]
                          /\ UNCHANGED cancelled
       \/ walk = "broken" /\ walk' = "failed" /\ cancelled' = TRUE /\ UNCHANGED features
    /\ UNCHANGED <<gone, faulty, handler, rows, current, unread, pool>>

\* wait.Wait() of the workers, then the merge, or the walk's error.
FeaturesReturn ==
    /\ closed /\ done = Workers
    /\ \/ walk = "walked" /\ walk' = "ok" /\ features' = [d \in Documents |-> Merged(d)]
                          /\ UNCHANGED cancelled
       \/ walk = "broken" /\ walk' = "failed" /\ cancelled' = TRUE /\ UNCHANGED features
    /\ UNCHANGED <<gone, faulty, handler, rows, current, unread, pool>>

-----------------------------------------------------------------------------
\* The workers

Take(w) ==
    /\ w \notin done /\ holds[w] = None /\ channel # <<>>
    /\ holds' = [holds EXCEPT ![w] = Head(channel)]
    /\ channel' = Tail(channel)
    /\ UNCHANGED <<reads, cursor, closed, done, counted, features>>

\* Mutant: the payload is that of the cursor's buffer, which has moved on.
PayloadInBuffer(w) == current

\* The callback copied the payload before it sent the event.
Payload(w) == holds[w]

\* Events of sessions without an accumulator are passed over.
Count(w) ==
    /\ holds[w] # None
    /\ counted' = [counted EXCEPT ![w] = @ \cup ({Payload(w)} \cap Selected)]
    /\ holds' = [holds EXCEPT ![w] = None]
    /\ UNCHANGED <<reads, cursor, channel, closed, done, features>>

Leave(w) ==
    /\ w \notin done /\ holds[w] = None /\ channel = <<>> /\ closed
    /\ done' = done \cup {w}
    /\ UNCHANGED <<reads, cursor, channel, closed, holds, counted, features>>

-----------------------------------------------------------------------------
Next ==
    \/ ListRecentSessionIDs \/ ListSessionSummaries \/ Answer \/ ClientLeaves
    \/ NextDocument \/ Send \/ GiveUpSending \/ WalkEnds \/ Close \/ FeaturesReturn
    \/ \E w \in Workers : Take(w) \/ Count(w) \/ Leave(w)

Spec == Init /\ [][Next]_vars

\* The database answers, and goroutines that can run do run.
FairSpec ==
    /\ Spec
    /\ WF_vars(ListRecentSessionIDs) /\ WF_vars(ListSessionSummaries) /\ WF_vars(Answer)
    /\ WF_vars(NextDocument) /\ WF_vars(Send \/ GiveUpSending) /\ WF_vars(WalkEnds)
    /\ WF_vars(Close) /\ WF_vars(FeaturesReturn)
    /\ \A w \in Workers : WF_vars(Take(w) \/ Count(w) \/ Leave(w))

-----------------------------------------------------------------------------
\* Properties

\* Whichever worker took which document, and however late it was counted, the
\* features answered are those of one sequential pass over the documents.
FeaturesAreSequential ==
    walk = "ok" => \A d \in Documents : features[d] = IF d \in Selected THEN 1 ELSE 0

\* Reads that cancel each other make no error of their own: an error is answered
\* only if a read failed by itself or the client left.
ErrorHasCause == handler = "error" => faulty \/ gone

\* No goroutine of the request outlives it, or is left at the channel.
NothingLeftRunning ==
    Answered =>
        /\ rows # "reading" /\ walk \notin {"walking", "sending", "walked", "broken"}
        /\ walk # "idle" => done = Workers /\ channel = <<>>

\* A full channel, a failed read or a client that left never leaves the handler,
\* the cursor and the workers waiting for each other.
RequestAnswered == <>Answered
=============================================================================
