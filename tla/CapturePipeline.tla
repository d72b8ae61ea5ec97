--------------------------- MODULE CapturePipeline ---------------------------
(***************************************************************************)
(* The capture pipeline of the OpenCode plugin (class CapturePipeline of   *)
(* opencode-plugin/src/index.ts): hook callbacks and the event             *)
(* subscription push tasks onto a bounded queue, one asynchronous run()    *)
(* loop at a time shifts them, decides whether the session belongs to the  *)
(* project, posts the payloads, and close() drains or gives up.            *)
(*                                                                         *)
(* JavaScript runs each callback to its next await without interruption,   *)
(* so an action is the code between two awaits.  `pc' names the await at   *)
(* which the run() coroutine is suspended:                                 *)
(*   "idle"      no run: processing = false, processingPromise = undefined *)
(*   "lookup"    in sessionInfoWithTimeout, the first event of a session   *)
(*   "scoped"    resolveScope has settled with true                        *)
(*   "start"     in deliver() of SessionStart                              *)
(*   "event"     in deliver() of the task's own payload                    *)
(*   "loop"      processTask has settled, run() is back at its while       *)
(*   "returned"  run() has returned, its finally callback has not run yet  *)
(* A payload's content is left out; SessionTurns models what apply() does. *)
(***************************************************************************)
EXTENDS Naturals, Sequences, FiniteSets

CONSTANTS
    Sessions,      \* OpenCode session ids
    MaxQueue,      \* MAX_QUEUE_SIZE
    MaxSessions,   \* MAX_TRACKED_SESSIONS
    MaxTasks,      \* model bound: how many captures are accepted in a behaviour
    NoTask         \* no task is being processed

Dirs == {"none", "inside", "outside"}    \* a directory, absent, in or out of the project

Task == [id : Nat, session : Sessions, dir : Dirs, activity : BOOLEAN]
Post == [id : Nat, session : Sessions, dir : Dirs, kind : {"SessionStart", "event"}]

ASSUME BoundAssumption == MaxQueue \in Nat \ {0} /\ MaxSessions \in Nat /\ MaxTasks \in Nat
ASSUME NoTaskAssumption == NoTask \notin Task

VARIABLES
    queue,      \* tasks captured and not yet shifted
    current,    \* the task being processed, or NoTask
    pc,         \* where run() is suspended
    tracked,    \* the keys of the sessions map
    scope,      \* scopeResolved and accepted of each session
    started,    \* SessionState.started of each session
    accepting,  \* the flag close() clears first
    closed,     \* the flag close() sets last
    closing,    \* where close() is suspended
    settled,    \* has the promise close() is racing settled?
    aborted,    \* has the controller of the request in flight been aborted?
    home,       \* external: the directory OpenCode knows the session by
    captured,   \* history: every task capture() pushed
    posts       \* history: every payload deliver() was called with

vars == <<queue, current, pc, tracked, scope, started, accepting, closed, closing,
          settled, aborted, home, captured, posts>>
sessionVars == <<tracked, scope, started>>
closeVars == <<accepting, closed, closing, settled>>

TypeOK ==
    /\ queue \in Seq(Task)
    /\ current \in Task \cup {NoTask}
    /\ pc \in {"idle", "lookup", "scoped", "start", "event", "loop", "returned"}
    /\ tracked \subseteq Sessions
    /\ scope \in [Sessions -> {"unresolved", "accepted", "rejected"}]
    /\ started \in [Sessions -> BOOLEAN]
    /\ accepting \in BOOLEAN
    /\ closed \in BOOLEAN
    /\ closing \in {"open", "waiting", "grace", "done"}
    /\ settled \in BOOLEAN
    /\ aborted \in BOOLEAN
    /\ home \in [Sessions -> Dirs]
    /\ captured \in Seq(Task)
    /\ posts \in Seq(Post)

Init ==
    /\ queue = <<>>
    /\ current = NoTask
    /\ pc = "idle"
    /\ tracked = {}
    /\ scope = [s \in Sessions |-> "unresolved"]
    /\ started = [s \in Sessions |-> FALSE]
    /\ accepting = TRUE
    /\ closed = FALSE
    /\ closing = "open"
    /\ settled = FALSE
    /\ aborted = FALSE
    /\ home \in [Sessions -> Dirs]
    /\ captured = <<>>
    /\ posts = <<>>

-----------------------------------------------------------------------------
(* `processing' and a defined `processingPromise' are both pc # "idle".    *)

Processing == pc # "idle"
Busy == IF Processing THEN 1 ELSE 0

(* run() shifts the head of q and processTask runs up to its first await:  *)
(* getSession, then resolveScope as far as it goes synchronously.          *)

Untracked(s) == s \notin tracked /\ Cardinality(tracked) >= MaxSessions

Refuse(t) ==
    /\ Untracked(t.session)
    /\ pc' = "loop"
    /\ current' = NoTask
    /\ UNCHANGED <<tracked, scope>>

\* The verdict a resolved scope, or the event's own directory, gives at once.
KnownScope(t) ==
    CASE scope[t.session] = "accepted"   -> "accepted"
      [] scope[t.session] = "rejected"   -> IF t.dir = "inside" THEN "accepted" ELSE "rejected"
      [] scope[t.session] = "unresolved" -> IF t.dir = "outside" THEN "rejected" ELSE "unresolved"

Passes(t, verdict) == verdict = "accepted" /\ t.dir # "outside"

Settle(t, verdict) ==
    IF Passes(t, verdict)
    THEN pc' = "scoped" /\ current' = t
    ELSE pc' = "loop" /\ current' = NoTask

Admit(t) ==
    /\ ~Untracked(t.session)
    /\ tracked' = tracked \cup {t.session}
    /\ scope' = [scope EXCEPT ![t.session] = KnownScope(t)]
    /\ IF KnownScope(t) = "unresolved"
       THEN pc' = "lookup" /\ current' = t
       ELSE Settle(t, KnownScope(t))

\* Mutant: the newest task first.
ShiftNewest(q) ==
    /\ queue' = SubSeq(q, 1, Len(q) - 1)
    /\ Refuse(q[Len(q)]) \/ Admit(q[Len(q)])

Shift(q) ==
    /\ queue' = Tail(q)
    /\ Refuse(Head(q)) \/ Admit(Head(q))

-----------------------------------------------------------------------------
(* The producers: the event subscription gives a task a directory or none  *)
(* and an activity flag; the prompt and tool hooks give no directory and   *)
(* activity TRUE.                                                          *)

\* Mutant: the task in progress is forgotten.
FullQueue == Len(queue) >= MaxQueue

Full == Len(queue) + Busy >= MaxQueue

\* capture(): a refused task changes nothing, so only the accepted ones are steps.
Capture(s, d, a) ==
    LET t == [id |-> Len(captured) + 1, session |-> s, dir |-> d, activity |-> a]
        q == Append(queue, t) IN
    /\ Len(captured) < MaxTasks
    /\ accepting /\ ~closed
    /\ ~Full
    /\ captured' = Append(captured, t)
    /\ IF Processing
       THEN queue' = q /\ UNCHANGED <<current, pc, tracked, scope>>
       ELSE Shift(q)
    /\ UNCHANGED <<started, closeVars, aborted, home, posts>>

-----------------------------------------------------------------------------
(* The run() coroutine.                                                    *)

\* Mutant: a session nothing is known of is taken for the project's.
LookupScopeTrusting(t, info) == IF info = "outside" THEN "rejected" ELSE "accepted"

\* The verdict of a finished lookup: the session's directory, when known, has a
\* veto; otherwise the event's directory or the session's must be inside.
LookupScope(t, info) ==
    IF info = "outside" THEN "rejected"
    ELSE IF t.dir = "inside" \/ info = "inside" THEN "accepted" ELSE "rejected"

\* The lookup answers with the session's directory, or with nothing: it failed, timed out
\* or has no location.
LookupDone ==
    /\ pc = "lookup"
    /\ \E info \in {home[current.session], "none"} :
         LET verdict == LookupScope(current, info) IN
         /\ scope' = [scope EXCEPT ![current.session] = verdict]
         /\ Settle(current, verdict)
    /\ UNCHANGED <<queue, tracked, started, closeVars, aborted, home, captured, posts>>

Deliver(kind) ==
    /\ posts' = Append(posts, [id |-> current.id, session |-> current.session,
                               dir |-> current.dir, kind |-> kind])
    /\ aborted' = FALSE

\* task.apply(state) may throw or return nothing; metadata events never have a payload.
Apply ==
    \/ /\ pc' = "loop"
       /\ current' = NoTask
       /\ UNCHANGED <<posts, aborted>>
    \/ /\ current.activity
       /\ pc' = "event"
       /\ Deliver("event")
       /\ UNCHANGED current

\* Mutant: the SessionStart is not remembered.
StartSessionAgain ==
    /\ current.activity /\ ~started[current.session]
    /\ pc' = "start"
    /\ Deliver("SessionStart")
    /\ UNCHANGED <<started, current>>

StartSession ==
    /\ current.activity /\ ~started[current.session]
    /\ started' = [started EXCEPT ![current.session] = TRUE]
    /\ pc' = "start"
    /\ Deliver("SessionStart")
    /\ UNCHANGED current

\* processTask goes on after resolveScope: SessionStart first, if it is owed.
Resume ==
    /\ pc = "scoped"
    /\ \/ StartSession
       \/ /\ ~(current.activity /\ ~started[current.session])
          /\ Apply
          /\ UNCHANGED started
    /\ UNCHANGED <<queue, tracked, scope, closeVars, home, captured>>

\* deliver() settles whatever became of the request: the result is ignored.
StartDone ==
    /\ pc = "start"
    /\ Apply
    /\ UNCHANGED <<queue, sessionVars, closeVars, home, captured>>

\* Mutant: a payload that failed is posted again.
EventRetried ==
    /\ pc = "event"
    /\ \/ pc' = "loop" /\ current' = NoTask /\ UNCHANGED <<posts, aborted>>
       \/ Len(posts) < 2 * MaxTasks /\ Deliver("event") /\ UNCHANGED <<pc, current>>
    /\ UNCHANGED <<queue, sessionVars, closeVars, home, captured>>

EventDone ==
    /\ pc = "event"
    /\ pc' = "loop"
    /\ current' = NoTask
    /\ UNCHANGED <<queue, sessionVars, closeVars, aborted, home, captured, posts>>

Work == queue # <<>> /\ ~closed

Loop ==
    /\ pc = "loop"
    /\ IF Work
       THEN Shift(queue)
       ELSE pc' = "returned" /\ UNCHANGED <<queue, current, tracked, scope>>
    /\ UNCHANGED <<started, closeVars, aborted, home, captured, posts>>

\* Mutant: the finally callback does not drain again.
FinallyOnce ==
    /\ pc = "returned"
    /\ pc' = "idle"
    /\ settled' = TRUE
    /\ UNCHANGED <<queue, current, tracked, scope, started, accepting, closed, closing,
                   aborted, home, captured, posts>>

\* The finally callback of drain(), which drains again what was captured meanwhile.
Finally ==
    /\ pc = "returned"
    /\ IF Work
       THEN Shift(queue)
       ELSE pc' = "idle" /\ UNCHANGED <<queue, current, tracked, scope>>
    /\ settled' = TRUE
    /\ UNCHANGED <<started, accepting, closed, closing, aborted, home, captured, posts>>

-----------------------------------------------------------------------------
(* close(): wait for the run in progress, and for the next one its finally *)
(* callback may have started, until the deadline.                          *)

\* Mutant: giving up leaves the queue to the run in progress.
ShutLater == UNCHANGED <<closed, queue>>

Shut ==
    /\ closed' = TRUE
    /\ queue' = <<>>

CloseBegin ==
    /\ closing = "open"
    /\ accepting' = FALSE
    /\ settled' = FALSE
    /\ IF Processing
       THEN closing' = "waiting" /\ UNCHANGED <<closed, queue>>
       ELSE closing' = "done" /\ Shut
    /\ UNCHANGED <<current, pc, sessionVars, aborted, home, captured, posts>>

\* The awaited run finished in time.
CloseResume ==
    /\ closing = "waiting" /\ settled
    /\ settled' = FALSE
    /\ IF Processing
       THEN UNCHANGED <<closing, closed, queue>>
       ELSE closing' = "done" /\ Shut
    /\ UNCHANGED <<accepting, current, pc, sessionVars, aborted, home, captured, posts>>

\* Mutant: without the timer of the race, close() goes on when the run has settled.
CloseTimeoutSettled ==
    /\ closing = "waiting" /\ settled
    /\ closing' = IF Processing THEN "grace" ELSE "done"
    /\ Shut
    /\ aborted' = (aborted \/ pc \in {"start", "event"})
    /\ UNCHANGED <<accepting, settled, current, pc, sessionVars, home, captured, posts>>

\* The deadline passed: abort the request in flight, if a run is still in progress.
CloseTimeout ==
    /\ closing = "waiting"
    /\ closing' = IF Processing THEN "grace" ELSE "done"
    /\ Shut
    /\ aborted' = (aborted \/ pc \in {"start", "event"})
    /\ UNCHANGED <<accepting, settled, current, pc, sessionVars, home, captured, posts>>

\* The run settled, or its 100 ms of grace are over.
GraceEnd ==
    /\ closing = "grace"
    /\ closing' = "done"
    /\ UNCHANGED <<queue, current, pc, sessionVars, accepting, closed, settled, aborted,
                   home, captured, posts>>

-----------------------------------------------------------------------------
Run == LookupDone \/ Resume \/ StartDone \/ EventDone \/ Loop \/ Finally
Close == CloseBegin \/ CloseResume \/ CloseTimeout \/ GraceEnd

Next ==
    \/ \E s \in Sessions, d \in Dirs, a \in BOOLEAN : Capture(s, d, a)
    \/ LookupDone
    \/ Resume
    \/ StartDone
    \/ EventDone
    \/ Loop
    \/ Finally
    \/ CloseBegin
    \/ CloseResume
    \/ CloseTimeout
    \/ GraceEnd

Spec == Init /\ [][Next]_vars

(* Requests and lookups may hang for ever: only promise jobs and the two   *)
(* timers of close() are relied on.                                        *)
CloseSpec ==
    /\ Spec
    /\ WF_vars(Resume) /\ WF_vars(Loop) /\ WF_vars(Finally)
    /\ WF_vars(CloseResume) /\ WF_vars(CloseTimeout) /\ WF_vars(GraceEnd)

-----------------------------------------------------------------------------
(* What the pipeline guarantees.                                           *)

\* Tasks waiting and the one in progress never exceed MAX_QUEUE_SIZE, whatever captures
\* arrive between a run's return and its finally callback.
QueueBound == Len(queue) + Busy <= MaxQueue

\* No lost wake-up: with no run in progress nothing waits, so no captured task is left
\* behind for want of a later capture.
NoTaskStranded == ~Processing => queue = <<>>

\* Every payload of a session comes after its SessionStart, and there is one of them,
\* though the flag is set before the request and the request may fail.
SessionStartFirst ==
    \A i \in 1..Len(posts) :
        IF posts[i].kind = "SessionStart"
        THEN \A j \in 1..(i - 1) : posts[j].session # posts[i].session
        ELSE \E j \in 1..(i - 1) : /\ posts[j].session = posts[i].session
                                   /\ posts[j].kind = "SessionStart"

\* Payloads are posted in the order their tasks were captured, each task's own payload
\* once and after the SessionStart it triggered.
InCaptureOrder ==
    \A i, j \in 1..Len(posts) :
        i < j => \/ posts[i].id < posts[j].id
                 \/ /\ posts[i].id = posts[j].id
                    /\ posts[i].kind = "SessionStart"
                    /\ posts[j].kind = "event"

\* No payload leaves for an event outside the project, and none for a session nothing ever
\* placed inside: neither its own directory nor that of a task captured before.
OnlyProjectSessions ==
    \A i \in 1..Len(posts) :
        /\ posts[i].dir # "outside"
        /\ \/ home[posts[i].session] = "inside"
           \/ \E k \in 1..posts[i].id : /\ captured[k].session = posts[i].session
                                        /\ captured[k].dir = "inside"

\* Once close() has given up waiting, no further task is begun: the one in progress may
\* still post its remaining payloads, nothing else does.
NoTaskAfterGivingUp ==
    [][(closing \in {"grace", "done"}) => (current' \in {current, NoTask})]_vars

\* Promise jobs always run, and each wait of run() is bounded by a timer: the lookup by
\* SESSION_LOOKUP_TIMEOUT_MS, a request by its timeout.
WaitsEnd == WF_vars(Run)

\* When the waits of run() end, every captured task is eventually taken and finished,
\* unless close() discards it.
Finished == Len(captured) - Len(queue) - (IF current = NoTask THEN 0 ELSE 1)
CapturedFinishes ==
    WaitsEnd => \A n \in 1..MaxTasks : Len(captured) >= n ~> closed \/ Finished >= n

\* close() returns, even when the request or lookup in progress never ends.
CloseReturns == closing # "open" ~> closing = "done"
=============================================================================
