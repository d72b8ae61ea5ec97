----------------------------- MODULE TraceLoader -----------------------------
(***************************************************************************)
(* The dashboard's requests (App of frontend/src/App.jsx): which of the    *)
(* answers that come back, in any order and at any time, are shown on the  *)
(* route the user has moved to meanwhile.                                  *)
(*                                                                         *)
(* A route change or a change of apiState is rendered first; the effects   *)
(* that load or reset the trace and the analysis run later (Effects), and  *)
(* answers may arrive in between.  What a trace holds is in TracePages:    *)
(* here it is the set of sessions its pages came from.                     *)
(***************************************************************************)
EXTENDS Naturals

CONSTANTS
    Sessions,
    None,       \* null
    MaxMoves    \* model bound: navigations, retries and "load more" clicks

ASSUME LoaderAssumption == None \notin Sessions /\ MaxMoves \in Nat

Route == {[view |-> "sessions", id |-> None]}
            \cup [view : {"detail", "evaluation"}, id : Sessions]
ApiState == {"loading", "connected", "unauthorized", "error"}

VARIABLES
    route,      \* the route rendered
    api,        \* apiState
    boot,       \* the promise chain of loadSessions, see RetrySessions
    seen,       \* the apiState and route the effects ran for
    run,        \* how often they ran: only the last run's requests are `mounted'
    trace,      \* the state of the trace, see below
    traceReqs,  \* trace requests in flight, with the version and run they belong to
    pageReqs,   \* page requests in flight
    analysis,   \* the state of the analysis
    analysisReqs,
    moves

vars == <<route, api, boot, seen, run, trace, traceReqs, pageReqs, analysis, analysisReqs, moves>>

\* version is traceRequestVersionRef and token activeTracePageRequestRef: the
\* version whose page request is active, 0 for null.
TraceState ==
    [version   : Nat,
     pages     : SUBSET Sessions,           \* remoteTrace, {} for null
     more      : BOOLEAN,                   \* remoteTrace.pagination.has_more
     session   : Sessions \cup {None},      \* traceSessionId
     requested : Sessions \cup {None},      \* traceRequestSessionId
     state     : {"idle", "loading", "ready", "missing", "unauthorized", "error"},
     token     : Nat,
     page      : {"idle", "loading", "error"}]   \* tracePageState

AnalysisState ==
    [payload : Sessions \cup {None},        \* whose analysis analysisPayload is
     session : Sessions \cup {None},        \* analysisSessionId
     state   : {"idle", "loading", "ready", "missing", "error"}]

TypeOK ==
    /\ route \in Route
    /\ api \in ApiState
    /\ boot \in {"running", "broken", "over"}
    /\ seen \in [api : ApiState, route : Route]
    /\ run \in Nat
    /\ trace \in TraceState
    /\ traceReqs \subseteq [session : Sessions, version : 1 .. trace.version, run : 0 .. run]
    /\ pageReqs \subseteq [session : Sessions, version : 1 .. trace.version]
    /\ analysis \in AnalysisState
    /\ analysisReqs \subseteq [session : Sessions, run : 0 .. run, at : Nat]
    /\ trace.state = "ready" <=> trace.pages # {}
    /\ moves \in 0..MaxMoves

NoPages(t) == [t EXCEPT !.pages = {}, !.more = FALSE, !.session = None, !.token = 0, !.page = "idle"]

InitTrace == [version |-> 0, pages |-> {}, more |-> FALSE, session |-> None,
              requested |-> None, state |-> "idle", token |-> 0, page |-> "idle"]
InitAnalysis == [payload |-> None, session |-> None, state |-> "idle"]

\* The first effects have run on a page opened at any route.
Init ==
    /\ route \in Route
    /\ api = "loading" /\ boot = "running"
    /\ seen = [api |-> api, route |-> route]
    /\ run = 1
    /\ trace = [InitTrace EXCEPT !.version = 1]
    /\ analysis = InitAnalysis
    /\ traceReqs = {} /\ pageReqs = {} /\ analysisReqs = {}
    /\ moves = 0

-----------------------------------------------------------------------------
\* What is rendered

\* The detail page is rendered while the sessions are loading, too.
ShowsDetail == route.view = "detail" /\ api \in {"loading", "connected"}
ShowsEvaluation == route.view = "evaluation" /\ api = "connected"

HasCurrentTrace == trace.pages # {} /\ trace.session = route.id

DetailTraceState ==
    IF api = "loading" \/ trace.requested # route.id THEN "loading" ELSE trace.state

ShownAnalysisState == IF analysis.session = route.id THEN analysis.state ELSE "loading"

-----------------------------------------------------------------------------
\* Requests

\* loadTrace of session s; what was loaded goes, and no page request is active.
TraceRequested(s) ==
    [NoPages(trace) EXCEPT !.version = trace.version + 1, !.requested = s, !.state = "loading"]

TraceReset == [InitTrace EXCEPT !.version = trace.version + 1]

\* Mutant: the request leaves what is shown, under the name of the new session.
AnalysisRenamed == [analysis EXCEPT !.session = route.id]

AnalysisRequested == [InitAnalysis EXCEPT !.state = "loading"]

\* isActive() of a request: those of retries always are.
Active(r) == r.run \in {0, run}

\* The requests of a run of the effects, told apart by `moves' in a retry.
Effects ==
    LET enters(view) == api = "connected" /\ route.view = view IN
    /\ seen # [api |-> api, route |-> route]
    /\ seen' = [api |-> api, route |-> route]
    /\ run' = run + 1
    /\ IF enters("detail")
       THEN /\ trace' = TraceRequested(route.id)
            /\ traceReqs' = traceReqs \cup
                  {[session |-> route.id, version |-> trace.version + 1, run |-> run + 1]}
       ELSE trace' = TraceReset /\ UNCHANGED traceReqs
    /\ IF enters("evaluation")
       THEN /\ analysis' = AnalysisRequested
            /\ analysisReqs' = analysisReqs \cup
                  {[session |-> route.id, run |-> run + 1, at |-> moves]}
       ELSE analysis' = InitAnalysis /\ UNCHANGED analysisReqs
    /\ UNCHANGED <<route, api, boot, pageReqs, moves>>

RetryTrace ==
    /\ ShowsDetail /\ DetailTraceState \in {"missing", "unauthorized", "error"}
    /\ trace' = TraceRequested(route.id)
    /\ traceReqs' = traceReqs \cup
          {[session |-> route.id, version |-> trace.version + 1, run |-> 0]}
    /\ UNCHANGED <<route, api, boot, seen, run, pageReqs, analysis, analysisReqs>>

RetryAnalysis ==
    /\ ShowsEvaluation /\ ShownAnalysisState \in {"missing", "error"}
    /\ analysis' = AnalysisRequested
    /\ analysisReqs' = analysisReqs \cup {[session |-> route.id, run |-> 0, at |-> moves]}
    /\ UNCHANGED <<route, api, boot, seen, run, trace, traceReqs, pageReqs>>

\* loadMoreTrace; a page that is not contiguous fails at once (see TracePages).
LoadMoreTrace ==
    /\ ShowsDetail /\ DetailTraceState = "ready"
    /\ trace.more /\ trace.page # "loading"
    /\ trace.session = route.id /\ trace.token = 0
    /\ trace' = [trace EXCEPT !.token = trace.version, !.page = "loading"]
    /\ pageReqs' = pageReqs \cup {[session |-> route.id, version |-> trace.version]}
    /\ UNCHANGED <<route, api, boot, seen, run, traceReqs, analysis, analysisReqs>>

-----------------------------------------------------------------------------
\* Answers

Applies(r) == Active(r) /\ r.version = trace.version

\* Mutant: errors are not shown.
TraceAnswerOnly(r) ==
    /\ traceReqs' = traceReqs \ {r}
    /\ IF Applies(r)
       THEN \/ \E more \in BOOLEAN :
                 trace' = [trace EXCEPT !.pages = {r.session}, !.more = more,
                                        !.session = r.session, !.state = "ready"]
            \/ UNCHANGED trace
       ELSE UNCHANGED trace
    /\ UNCHANGED <<route, api, boot, seen, run, pageReqs, analysis, analysisReqs, moves>>

\* The first page, once it has been shown as loading for long enough, or an error.
TraceAnswer(r) ==
    /\ traceReqs' = traceReqs \ {r}
    /\ IF Applies(r)
       THEN \/ \E more \in BOOLEAN :
                 trace' = [trace EXCEPT !.pages = {r.session}, !.more = more,
                                        !.session = r.session, !.state = "ready"]
            \/ \E e \in {"missing", "unauthorized", "error"} : trace' = [trace EXCEPT !.state = e]
       ELSE UNCHANGED trace
    /\ UNCHANGED <<route, api, boot, seen, run, pageReqs, analysis, analysisReqs, moves>>

\* The end of a page request that was answered, refused or failed.
Released(t, r) == [t EXCEPT !.token = IF @ = r.version THEN 0 ELSE @]

\* Mutant: the version is not compared.
PageAnswerAlways(r) ==
    /\ pageReqs' = pageReqs \ {r}
    /\ trace' = [Released(trace, r) EXCEPT
                    !.pages = IF @ = {} THEN {} ELSE @ \cup {r.session}]
    /\ UNCHANGED <<route, api, boot, seen, run, traceReqs, analysis, analysisReqs, moves>>

PageAnswer(r) ==
    /\ pageReqs' = pageReqs \ {r}
    /\ IF r.version # trace.version
       THEN trace' = Released(trace, r)
       ELSE \/ \E more \in BOOLEAN :
                 trace' = Released([trace EXCEPT !.pages = @ \cup {r.session}, !.more = more,
                                                 !.page = "idle"], r)
            \/ trace' = Released([trace EXCEPT !.page = "error"], r)
    /\ UNCHANGED <<route, api, boot, seen, run, traceReqs, analysis, analysisReqs, moves>>

\* An error keeps the payload but takes over the session.
AnalysisAnswer(r) ==
    /\ analysisReqs' = analysisReqs \ {r}
    /\ IF Active(r)
       THEN \/ analysis' = [payload |-> r.session, session |-> r.session, state |-> "ready"]
            \/ \E e \in {"missing", "error"} :
                 analysis' = [analysis EXCEPT !.session = r.session, !.state = e]
       ELSE UNCHANGED analysis
    /\ UNCHANGED <<route, api, boot, seen, run, trace, traceReqs, pageReqs, moves>>

-----------------------------------------------------------------------------
\* The rest of the application

SessionsAnswer ==
    /\ boot = "running"
    /\ api' \in {"connected", "unauthorized", "error"}
    /\ boot' = "over"
    /\ UNCHANGED <<route, seen, run, trace, traceReqs, pageReqs, analysis, analysisReqs, moves>>

\* "Try again" of the sign-in boundary, and "Retry request" of the error panel,
\* whose click event takes the place of isActive: every step of its chain throws,
\* and nothing sets apiState again.
RetrySessions ==
    /\ api \in {"unauthorized", "error"}
    /\ boot' = IF api = "unauthorized" THEN "running" ELSE "broken"
    /\ api' = "loading"
    /\ UNCHANGED <<route, seen, run, trace, traceReqs, pageReqs, analysis, analysisReqs>>

Navigate ==
    /\ route' \in Route \ {route}
    /\ UNCHANGED <<api, boot, seen, run, trace, traceReqs, pageReqs, analysis, analysisReqs>>

Move ==
    /\ moves < MaxMoves /\ moves' = moves + 1
    /\ Navigate \/ RetryTrace \/ RetryAnalysis \/ LoadMoreTrace \/ RetrySessions

Next ==
    \/ Move
    \/ Effects
    \/ SessionsAnswer
    \/ \E r \in traceReqs : TraceAnswer(r)
    \/ \E r \in pageReqs : PageAnswer(r)
    \/ \E r \in analysisReqs : AnalysisAnswer(r)

Spec == Init /\ [][Next]_vars

\* React runs effects, and requests are answered; users need not do anything.
FairSpec ==
    /\ Spec
    /\ WF_vars(Effects)
    /\ WF_vars(SessionsAnswer)
    /\ WF_vars(\E r \in traceReqs : TraceAnswer(r))
    /\ WF_vars(\E r \in pageReqs : PageAnswer(r))
    /\ WF_vars(\E r \in analysisReqs : AnalysisAnswer(r))

-----------------------------------------------------------------------------
\* Properties

\* The trace shown is the one of the route, and holds no page of another session.
ShownTraceIsOfRoute == ShowsDetail /\ HasCurrentTrace => trace.pages = {route.id}

\* While a detail page is shown as loading, an answer that will be used is under
\* way, of the sessions or of its trace, or the effects that request it are; only
\* after "Retry request" of the sessions there is none.
LoadingTraceIsRead ==
    ShowsDetail /\ DetailTraceState = "loading" =>
        IF api = "loading"
        THEN boot \in {"running", "broken"}
        ELSE \/ seen # [api |-> api, route |-> route]
             \/ \E r \in traceReqs : Applies(r) /\ r.session = route.id

\* An analysis shown as ready is the one of the route.
ShownAnalysisIsOfRoute ==
    ShowsEvaluation /\ ShownAnalysisState = "ready" => analysis.payload = route.id

\* A detail page does not stay loading, whether it was opened before the sessions
\* were read or after; but after "Retry request" it does (see SessionsLoadingEnds).
TraceLoadingEnds ==
    (ShowsDetail /\ DetailTraceState = "loading") ~>
        \/ ~(ShowsDetail /\ DetailTraceState = "loading")
        \/ boot = "broken"

\* Said of the code, and not so: "Loading saved evaluation", "Reading the session
\* analysis".
LoadingAnalysisIsRead ==
    ShowsEvaluation /\ ShownAnalysisState = "loading" =>
        \/ seen # [api |-> api, route |-> route]
        \/ \E r \in analysisReqs : Active(r) /\ r.session = route.id

\* Said of the code, and not so: "Loading sessions...", "Resolving your
\* application session", also after "Retry request".
SessionsLoadingEnds == (api = "loading") ~> (api # "loading")
=============================================================================
