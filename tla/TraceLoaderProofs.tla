-------------------------- MODULE TraceLoaderProofs --------------------------
(***************************************************************************)
(* Whatever is answered late, the trace and the analysis shown are of the  *)
(* route, for any sessions and any number of moves.                        *)
(***************************************************************************)
EXTENDS TraceLoader, TLAPS

\* The request of the current version, of which there is one at most, is what the trace is
\* loading, and no run of the effects came after it.
CurrentRequest ==
    /\ \A r \in traceReqs : r.version = trace.version =>
          trace.state = "loading" /\ trace.requested = r.session /\ Active(r)
    /\ \A r, q \in traceReqs : r.version = trace.version /\ q.version = trace.version => r = q
    /\ trace.state = "loading" => \E r \in traceReqs : r.version = trace.version

\* Every page held, or requested for the current version, is of one session.
OneSession ==
    /\ trace.version >= 1
    /\ trace.pages # {} => trace.pages = {trace.session}
    /\ \A r \in pageReqs : r.version = trace.version => trace.pages = {r.session}

\* The effects have requested the trace of the detail page they ran for.
RequestedBySeen ==
    seen.api = "connected" /\ seen.route.view = "detail" => trace.requested = seen.route.id

ReadyAnalysis == analysis.state = "ready" => analysis.payload = analysis.session

\* The sessions are shown as loading only while a chain was begun and has not set apiState.
LoadingHasChain == api = "loading" => boot # "over"

LoaderInv ==
    /\ TypeOK
    /\ CurrentRequest
    /\ OneSession
    /\ RequestedBySeen
    /\ ReadyAnalysis
    /\ LoadingHasChain

-----------------------------------------------------------------------------
LEMMA LoaderStarts == Init => LoaderInv
<1> SUFFICES ASSUME Init PROVE LoaderInv
  OBVIOUS
<1>1. /\ trace \in TraceState /\ trace.version = 1 /\ trace.pages = {} /\ trace.state = "idle"
  BY DEF Init, InitTrace, TraceState
<1>2. analysis \in AnalysisState /\ analysis.state = "idle"
  BY DEF Init, InitAnalysis, AnalysisState
<1>3. TypeOK
  BY <1>1, <1>2, LoaderAssumption DEF Init, TypeOK, ApiState
<1>4. CurrentRequest /\ OneSession /\ RequestedBySeen /\ ReadyAnalysis /\ LoadingHasChain
  BY <1>1, <1>2 DEF Init, CurrentRequest, OneSession, RequestedBySeen, ReadyAnalysis,
                    LoadingHasChain
<1> QED  BY <1>3, <1>4 DEF LoaderInv

\* A first page is requested, by the effects or by a retry: the trace is emptied under a
\* version of its own.
LEMMA TraceRequestedFields ==
    ASSUME TypeOK, NEW s \in Sessions
    PROVE  /\ TraceRequested(s) \in TraceState
           /\ TraceRequested(s).version = trace.version + 1
           /\ TraceRequested(s).pages = {}
           /\ TraceRequested(s).state = "loading"
           /\ TraceRequested(s).requested = s
<1>1. trace \in TraceState
  BY DEF TypeOK
<1> DEFINE t == NoPages(trace)
<1>2. t \in TraceState /\ t.version = trace.version /\ t.pages = {}
  BY <1>1 DEF TraceState, NoPages
<1>3. trace.version + 1 \in Nat
  BY <1>1 DEF TraceState
<1> DEFINE u == [t EXCEPT !.version = trace.version + 1]
<1>4. TraceRequested(s) = [[u EXCEPT !.requested = s] EXCEPT !.state = "loading"]
  BY DEF TraceRequested
<1> HIDE DEF t
<1>5. u \in TraceState /\ u.version = trace.version + 1 /\ u.pages = {}
  BY <1>2, <1>3 DEF TraceState
<1> HIDE DEF u
<1> QED  BY <1>4, <1>5 DEF TraceState

LEMMA TraceResetFields ==
    ASSUME TypeOK
    PROVE  /\ TraceReset \in TraceState
           /\ TraceReset.version = trace.version + 1
           /\ TraceReset.pages = {}
           /\ TraceReset.state = "idle"
<1>1. trace.version \in Nat
  BY DEF TypeOK, TraceState
<1>2. InitTrace \in TraceState /\ InitTrace.pages = {} /\ InitTrace.state = "idle"
  BY DEF InitTrace, TraceState
<1> QED  BY <1>1, <1>2 DEF TraceReset, TraceState

LEMMA EffectsKeep ==
    ASSUME LoaderInv, Effects
    PROVE  LoaderInv'
<1> DEFINE detail == api = "connected" /\ route.view = "detail"
           request == [session |-> route.id, version |-> trace.version + 1, run |-> run + 1]
<1>1. /\ TypeOK /\ trace.version \in Nat /\ run \in Nat /\ trace.version >= 1
      /\ seen' = [api |-> api, route |-> route] /\ run' = run + 1
      /\ UNCHANGED <<route, api, boot, pageReqs, moves>>
  BY DEF LoaderInv, TypeOK, TraceState, OneSession, Effects
<1>2. route.view # "sessions" => route.id \in Sessions
  BY <1>1 DEF TypeOK, Route
<1>3. /\ trace' \in TraceState /\ trace'.version = trace.version + 1 /\ trace'.pages = {}
      /\ \/ /\ detail /\ trace'.requested = route.id /\ trace'.state = "loading"
            /\ traceReqs' = traceReqs \cup {request} /\ request.session \in Sessions
         \/ ~detail /\ trace'.state = "idle" /\ traceReqs' = traceReqs
  <2>1. CASE detail
    BY <1>1, <1>2, <2>1, TraceRequestedFields DEF Effects
  <2>2. CASE ~detail
    BY <1>1, <2>2, TraceResetFields DEF Effects
  <2> QED  BY <2>1, <2>2
<1>4. \A r \in traceReqs : r.version \in 1..trace.version /\ r.version # trace'.version
  BY <1>1, <1>3 DEF TypeOK
<1>5. \A r \in pageReqs : r.version \in 1..trace.version /\ r.version # trace'.version
  BY <1>1, <1>3 DEF TypeOK
<1>6. /\ analysis' \in AnalysisState /\ analysis'.state \in {"idle", "loading"}
      /\ analysisReqs' \subseteq [session : Sessions, run : 0 .. run', at : Nat]
  <2>1. /\ InitAnalysis \in AnalysisState /\ InitAnalysis.state = "idle"
        /\ AnalysisRequested \in AnalysisState /\ AnalysisRequested.state = "loading"
    BY DEF InitAnalysis, AnalysisRequested, AnalysisState
  <2>2. /\ analysis' \in {InitAnalysis, AnalysisRequested}
        /\ \/ analysisReqs' = analysisReqs
           \/ /\ route.view = "evaluation"
              /\ analysisReqs' = analysisReqs \cup
                    {[session |-> route.id, run |-> run + 1, at |-> moves]}
    BY DEF Effects
  <2>3. moves \in Nat /\ analysisReqs \subseteq [session : Sessions, run : 0 .. run, at : Nat]
    BY <1>1, LoaderAssumption DEF TypeOK
  <2>4. analysisReqs \subseteq [session : Sessions, run : 0 .. run', at : Nat]
    BY <1>1, <2>3
  <2> QED  BY <1>1, <1>2, <2>1, <2>2, <2>3, <2>4
<1>7. traceReqs' \subseteq [session : Sessions, version : 1 .. trace'.version, run : 0 .. run']
  <2>1. traceReqs \subseteq [session : Sessions, version : 1 .. trace'.version, run : 0 .. run']
    BY <1>1, <1>3 DEF TypeOK
  <2>2. detail => request \in [session : Sessions, version : 1 .. trace'.version, run : 0 .. run']
    BY <1>1, <1>2, <1>3
  <2> QED  BY <1>3, <2>1, <2>2
<1>8. pageReqs' \subseteq [session : Sessions, version : 1 .. trace'.version]
  BY <1>1, <1>3 DEF TypeOK
<1>9. TypeOK'
  BY <1>1, <1>3, <1>6, <1>7, <1>8 DEF TypeOK
<1>10. CurrentRequest'
  <2>1. CASE detail /\ trace'.requested = route.id /\ trace'.state = "loading"
             /\ traceReqs' = traceReqs \cup {request}
    <3>1. request.version = trace'.version /\ request.session = route.id /\ request.run = run'
      BY <1>1, <1>3
    <3>2. \A r \in traceReqs' : r.version = trace'.version => r = request
      BY <1>4, <2>1
    <3> QED  BY <2>1, <3>1, <3>2 DEF CurrentRequest, Active
  <2>2. CASE trace'.state = "idle" /\ traceReqs' = traceReqs
    BY <1>4, <2>2 DEF CurrentRequest
  <2> QED  BY <1>3, <2>1, <2>2
<1>11. OneSession'
  BY <1>1, <1>3, <1>5 DEF OneSession
<1>12. RequestedBySeen' /\ ReadyAnalysis' /\ LoadingHasChain'
  BY <1>1, <1>3, <1>6 DEF LoaderInv, RequestedBySeen, ReadyAnalysis, LoadingHasChain
<1> QED  BY <1>9, <1>10, <1>11, <1>12 DEF LoaderInv

LEMMA RetryTraceKeeps ==
    ASSUME LoaderInv, RetryTrace, moves' \in 0..MaxMoves
    PROVE  LoaderInv'
<1> DEFINE request == [session |-> route.id, version |-> trace.version + 1, run |-> 0]
<1>1. /\ TypeOK /\ trace.version \in Nat /\ run \in Nat /\ trace.version >= 1
      /\ route.id \in Sessions /\ trace.requested = route.id
      /\ UNCHANGED <<route, api, boot, seen, run, pageReqs, analysis, analysisReqs>>
      /\ traceReqs' = traceReqs \cup {request}
  BY DEF LoaderInv, TypeOK, TraceState, OneSession, RetryTrace, ShowsDetail, Route, DetailTraceState
<1>2. /\ trace' \in TraceState /\ trace'.version = trace.version + 1 /\ trace'.pages = {}
      /\ trace'.requested = route.id /\ trace'.state = "loading"
  BY <1>1, TraceRequestedFields DEF RetryTrace
<1>3. \A r \in traceReqs : r.version \in 1..trace.version /\ r.version # trace'.version
  BY <1>1, <1>2 DEF TypeOK
<1>4. \A r \in pageReqs : r.version \in 1..trace.version /\ r.version # trace'.version
  BY <1>1, <1>2 DEF TypeOK
<1>5. /\ traceReqs' \subseteq [session : Sessions, version : 1 .. trace'.version, run : 0 .. run']
      /\ pageReqs' \subseteq [session : Sessions, version : 1 .. trace'.version]
  <2>1. request \in [session : Sessions, version : 1 .. trace'.version, run : 0 .. run']
    BY <1>1, <1>2
  <2> QED  BY <1>1, <1>2, <2>1 DEF TypeOK
<1>6. TypeOK'
  BY <1>1, <1>2, <1>5 DEF TypeOK
<1>7. CurrentRequest'
  <2>1. request.version = trace'.version /\ request.session = route.id /\ request.run = 0
    BY <1>2
  <2>2. \A r \in traceReqs' : r.version = trace'.version => r = request
    BY <1>1, <1>3
  <2> QED  BY <1>1, <1>2, <2>1, <2>2 DEF CurrentRequest, Active
<1>8. OneSession'
  BY <1>1, <1>2, <1>4 DEF OneSession
<1>9. RequestedBySeen' /\ ReadyAnalysis' /\ LoadingHasChain'
  BY <1>1, <1>2 DEF LoaderInv, RequestedBySeen, ReadyAnalysis, LoadingHasChain
<1> QED  BY <1>6, <1>7, <1>8, <1>9 DEF LoaderInv

LEMMA RetryAnalysisKeeps ==
    ASSUME LoaderInv, RetryAnalysis, moves' \in 0..MaxMoves
    PROVE  LoaderInv'
<1>1. /\ AnalysisRequested \in AnalysisState /\ AnalysisRequested.state = "loading"
      /\ analysis' = AnalysisRequested
      /\ UNCHANGED <<route, api, boot, seen, run, trace, traceReqs, pageReqs>>
  BY DEF InitAnalysis, AnalysisRequested, AnalysisState, RetryAnalysis
<1>2. analysisReqs' \subseteq [session : Sessions, run : 0 .. run, at : Nat]
  <2>1. route.id \in Sessions /\ moves \in Nat /\ run \in Nat
    BY LoaderAssumption DEF LoaderInv, TypeOK, RetryAnalysis, ShowsEvaluation, Route
  <2> QED  BY <2>1 DEF LoaderInv, TypeOK, RetryAnalysis
<1>3. TypeOK'
  BY <1>1, <1>2 DEF LoaderInv, TypeOK
<1>4. CurrentRequest' /\ OneSession' /\ RequestedBySeen' /\ ReadyAnalysis' /\ LoadingHasChain'
  BY <1>1 DEF LoaderInv, CurrentRequest, OneSession, RequestedBySeen, ReadyAnalysis, Active,
                    LoadingHasChain
<1> QED  BY <1>3, <1>4 DEF LoaderInv

LEMMA LoadMoreKeeps ==
    ASSUME LoaderInv, LoadMoreTrace, moves' \in 0..MaxMoves
    PROVE  LoaderInv'
<1>1. /\ trace \in TraceState /\ trace.version \in Nat /\ trace.version >= 1
      /\ route.id \in Sessions /\ trace.state = "ready" /\ trace.pages = {route.id}
      /\ UNCHANGED <<route, api, boot, seen, run, traceReqs, analysis, analysisReqs>>
      /\ trace' = [trace EXCEPT !.token = trace.version, !.page = "loading"]
      /\ pageReqs' = pageReqs \cup {[session |-> route.id, version |-> trace.version]}
  BY DEF LoaderInv, TypeOK, TraceState, OneSession, LoadMoreTrace, ShowsDetail, Route,
         DetailTraceState
<1>2. /\ trace' \in TraceState /\ trace'.version = trace.version /\ trace'.pages = trace.pages
      /\ trace'.state = trace.state /\ trace'.session = trace.session
      /\ trace'.requested = trace.requested
  BY <1>1 DEF TraceState
<1>3. pageReqs' \subseteq [session : Sessions, version : 1 .. trace'.version]
  <2>1. [session |-> route.id, version |-> trace.version]
            \in [session : Sessions, version : 1 .. trace'.version]
    BY <1>1, <1>2
  <2> QED  BY <1>1, <1>2, <2>1 DEF LoaderInv, TypeOK
<1>4. TypeOK'
  BY <1>1, <1>2, <1>3 DEF LoaderInv, TypeOK
<1>5. CurrentRequest' /\ RequestedBySeen' /\ ReadyAnalysis' /\ LoadingHasChain'
  BY <1>1, <1>2 DEF LoaderInv, CurrentRequest, RequestedBySeen, ReadyAnalysis, Active,
                    LoadingHasChain
<1>6. OneSession'
  BY <1>1, <1>2 DEF LoaderInv, OneSession
<1> QED  BY <1>4, <1>5, <1>6 DEF LoaderInv

-----------------------------------------------------------------------------
LEMMA TraceAnswerKeeps ==
    ASSUME LoaderInv, NEW r \in traceReqs, TraceAnswer(r)
    PROVE  LoaderInv'
<1>1. /\ trace \in TraceState /\ r.session \in Sessions /\ traceReqs' = traceReqs \ {r}
      /\ UNCHANGED <<route, api, boot, seen, run, pageReqs, analysis, analysisReqs, moves>>
  BY DEF LoaderInv, TypeOK, TraceAnswer
<1>2. CASE Applies(r)
  <2>1. r.version = trace.version /\ trace.state = "loading" /\ trace.pages = {}
    BY <1>2 DEF Applies, LoaderInv, CurrentRequest, TypeOK
  <2>2. \A q \in traceReqs' : q.version # trace.version
    BY <1>1, <2>1 DEF LoaderInv, CurrentRequest
  <2> DEFINE Answered ==
               /\ trace' \in TraceState /\ trace'.version = trace.version
               /\ trace'.requested = trace.requested
               /\ \/ /\ trace'.state = "ready" /\ trace'.pages = {r.session}
                     /\ trace'.session = r.session
                  \/ trace'.state \in {"missing", "unauthorized", "error"} /\ trace'.pages = {}
  <2>3. Answered
    <3>1. ASSUME NEW more \in BOOLEAN,
                 trace' = [trace EXCEPT !.pages = {r.session}, !.more = more,
                                        !.session = r.session, !.state = "ready"]
          PROVE  Answered
      BY <1>1, <3>1 DEF TraceState
    <3>2. ASSUME NEW e \in {"missing", "unauthorized", "error"}, trace' = [trace EXCEPT !.state = e]
          PROVE  Answered
      BY <1>1, <2>1, <3>2 DEF TraceState
    <3> QED  BY <1>2, <3>1, <3>2 DEF TraceAnswer
  <2>4. \A q \in pageReqs : q.version # trace.version
    BY <2>1 DEF LoaderInv, OneSession
  <2>5. TypeOK'
    BY <1>1, <2>3 DEF LoaderInv, TypeOK
  <2>6. CurrentRequest'
    BY <2>2, <2>3 DEF CurrentRequest
  <2>7. OneSession'
    BY <1>1, <2>3, <2>4 DEF LoaderInv, OneSession
  <2>8. RequestedBySeen' /\ ReadyAnalysis' /\ LoadingHasChain'
    BY <1>1, <2>3 DEF LoaderInv, RequestedBySeen, ReadyAnalysis, LoadingHasChain
  <2> QED  BY <2>5, <2>6, <2>7, <2>8 DEF LoaderInv
<1>3. CASE ~Applies(r)
  <2>1. trace' = trace
    BY <1>3 DEF TraceAnswer
  <2>2. r.version # trace.version
    BY <1>3 DEF Applies, LoaderInv, CurrentRequest
  <2>3. TypeOK'
    BY <1>1, <2>1 DEF LoaderInv, TypeOK
  <2>4. CurrentRequest'
    BY <1>1, <2>1, <2>2 DEF LoaderInv, CurrentRequest, Active
  <2>5. OneSession' /\ RequestedBySeen' /\ ReadyAnalysis' /\ LoadingHasChain'
    BY <1>1, <2>1 DEF LoaderInv, OneSession, RequestedBySeen, ReadyAnalysis, LoadingHasChain
  <2> QED  BY <2>3, <2>4, <2>5 DEF LoaderInv
<1> QED  BY <1>2, <1>3

\* The end of a page request changes at most the token.
LEMMA ReleasedFields ==
    ASSUME NEW t \in TraceState, NEW r
    PROVE  /\ Released(t, r) \in TraceState /\ Released(t, r).version = t.version
           /\ Released(t, r).pages = t.pages /\ Released(t, r).session = t.session
           /\ Released(t, r).requested = t.requested /\ Released(t, r).state = t.state
BY DEF Released, TraceState

LEMMA PageAnswerKeeps ==
    ASSUME LoaderInv, NEW r \in pageReqs, PageAnswer(r)
    PROVE  LoaderInv'
<1>1. /\ trace \in TraceState /\ r.session \in Sessions /\ pageReqs' = pageReqs \ {r}
      /\ UNCHANGED <<route, api, boot, seen, run, traceReqs, analysis, analysisReqs, moves>>
  BY DEF LoaderInv, TypeOK, PageAnswer
<1> DEFINE Same(t) ==
             /\ t \in TraceState /\ t.version = trace.version /\ t.pages = trace.pages
             /\ t.session = trace.session /\ t.requested = trace.requested
             /\ t.state = trace.state
           Kept == \E t : trace' = Released(t, r) /\ Same(t)
<1>2. Kept
  <2>1. CASE r.version # trace.version
    BY <1>1, <2>1 DEF PageAnswer
  <2>2. ASSUME NEW more \in BOOLEAN, r.version = trace.version,
               trace' = Released([trace EXCEPT !.pages = @ \cup {r.session}, !.more = more,
                                               !.page = "idle"], r)
        PROVE  Kept
    <3> DEFINE t == [trace EXCEPT !.pages = @ \cup {r.session}, !.more = more, !.page = "idle"]
    <3>1. trace.pages \cup {r.session} = trace.pages
      BY <2>2 DEF LoaderInv, OneSession
    <3>2. Same(t)
      BY <1>1, <3>1 DEF TraceState
    <3> QED  BY <2>2, <3>2
  <2>3. ASSUME trace' = Released([trace EXCEPT !.page = "error"], r)
        PROVE  Kept
    <3> DEFINE t == [trace EXCEPT !.page = "error"]
    <3>1. Same(t)
      BY <1>1 DEF TraceState
    <3> QED  BY <2>3, <3>1
  <2> QED  BY <2>1, <2>2, <2>3 DEF PageAnswer
<1>3. /\ trace' \in TraceState /\ trace'.version = trace.version /\ trace'.pages = trace.pages
      /\ trace'.session = trace.session /\ trace'.requested = trace.requested
      /\ trace'.state = trace.state
  BY <1>2, ReleasedFields
<1>4. TypeOK'
  BY <1>1, <1>3 DEF LoaderInv, TypeOK
<1>5. CurrentRequest' /\ OneSession' /\ RequestedBySeen' /\ ReadyAnalysis' /\ LoadingHasChain'
  BY <1>1, <1>3 DEF LoaderInv, CurrentRequest, OneSession, RequestedBySeen, ReadyAnalysis, Active,
                    LoadingHasChain
<1> QED  BY <1>4, <1>5 DEF LoaderInv

LEMMA AnalysisAnswerKeeps ==
    ASSUME LoaderInv, NEW r \in analysisReqs, AnalysisAnswer(r)
    PROVE  LoaderInv'
<1>1. /\ analysis \in AnalysisState /\ r.session \in Sessions
      /\ analysisReqs' = analysisReqs \ {r}
      /\ UNCHANGED <<route, api, boot, seen, run, trace, traceReqs, pageReqs, moves>>
  BY DEF LoaderInv, TypeOK, AnalysisAnswer
<1> DEFINE Kept == /\ analysis' \in AnalysisState
                   /\ analysis'.state = "ready" => analysis'.payload = analysis'.session
<1>2. Kept
  <2>1. CASE analysis' = [payload |-> r.session, session |-> r.session, state |-> "ready"]
    BY <1>1, <2>1 DEF AnalysisState
  <2>2. ASSUME NEW e \in {"missing", "error"},
               analysis' = [analysis EXCEPT !.session = r.session, !.state = e]
        PROVE  Kept
    <3>1. analysis' \in AnalysisState /\ analysis'.state = e
      BY <1>1, <2>2 DEF AnalysisState
    <3> QED  BY <3>1
  <2>3. CASE analysis' = analysis
    BY <1>1, <2>3 DEF LoaderInv, ReadyAnalysis
  <2> QED  BY <2>1, <2>2, <2>3 DEF AnalysisAnswer
<1>3. TypeOK'
  BY <1>1, <1>2 DEF LoaderInv, TypeOK
<1>4. CurrentRequest' /\ OneSession' /\ RequestedBySeen' /\ ReadyAnalysis' /\ LoadingHasChain'
  BY <1>1, <1>2 DEF LoaderInv, CurrentRequest, OneSession, RequestedBySeen, ReadyAnalysis, Active,
                    LoadingHasChain
<1> QED  BY <1>3, <1>4 DEF LoaderInv

LEMMA NavigateKeeps ==
    ASSUME LoaderInv, Navigate \/ RetrySessions, moves' \in 0..MaxMoves
    PROVE  LoaderInv'
<1>1. /\ route' \in Route /\ api' \in ApiState
      /\ boot' \in {"running", "broken", "over"}
      /\ (api' = api /\ boot' = boot) \/ boot' # "over"
      /\ UNCHANGED <<seen, run, trace, traceReqs, pageReqs, analysis, analysisReqs>>
  BY DEF LoaderInv, TypeOK, Navigate, RetrySessions, ApiState
<1>2. TypeOK'
  BY <1>1 DEF LoaderInv, TypeOK
<1>3. CurrentRequest' /\ OneSession' /\ RequestedBySeen' /\ ReadyAnalysis' /\ LoadingHasChain'
  BY <1>1 DEF LoaderInv, CurrentRequest, OneSession, RequestedBySeen, ReadyAnalysis, Active,
                    LoadingHasChain
<1> QED  BY <1>2, <1>3 DEF LoaderInv

LEMMA SessionsAnswerKeeps ==
    ASSUME LoaderInv, SessionsAnswer \/ UNCHANGED vars
    PROVE  LoaderInv'
<1>1. /\ api' \in ApiState
      /\ boot' \in {"running", "broken", "over"}
      /\ (api' = api /\ boot' = boot) \/ api' # "loading"
      /\ UNCHANGED <<route, seen, run, trace, traceReqs, pageReqs, analysis, analysisReqs, moves>>
  BY DEF LoaderInv, TypeOK, SessionsAnswer, ApiState, vars
<1>2. TypeOK'
  BY <1>1 DEF LoaderInv, TypeOK
<1>3. CurrentRequest' /\ OneSession' /\ RequestedBySeen' /\ ReadyAnalysis' /\ LoadingHasChain'
  BY <1>1 DEF LoaderInv, CurrentRequest, OneSession, RequestedBySeen, ReadyAnalysis, Active,
                    LoadingHasChain
<1> QED  BY <1>2, <1>3 DEF LoaderInv

LEMMA MoveKeeps ==
    ASSUME LoaderInv, Move
    PROVE  LoaderInv'
<1>1. moves' \in 0..MaxMoves
  BY LoaderAssumption DEF LoaderInv, TypeOK, Move
<1>2. CASE Navigate \/ RetrySessions
  BY <1>1, <1>2, NavigateKeeps
<1>3. CASE RetryTrace
  BY <1>1, <1>3, RetryTraceKeeps
<1>4. CASE RetryAnalysis
  BY <1>1, <1>4, RetryAnalysisKeeps
<1>5. CASE LoadMoreTrace
  BY <1>1, <1>5, LoadMoreKeeps
<1> QED  BY <1>2, <1>3, <1>4, <1>5 DEF Move

LEMMA LoaderKeeps == LoaderInv /\ [Next]_vars => LoaderInv'
<1> SUFFICES ASSUME LoaderInv, [Next]_vars PROVE LoaderInv'
  OBVIOUS
<1>1. CASE Move
  BY <1>1, MoveKeeps
<1>2. CASE Effects
  BY <1>2, EffectsKeep
<1>3. CASE SessionsAnswer \/ UNCHANGED vars
  BY <1>3, SessionsAnswerKeeps
<1>4. ASSUME NEW r \in traceReqs, TraceAnswer(r)
      PROVE  LoaderInv'
  BY <1>4, TraceAnswerKeeps
<1>5. ASSUME NEW r \in pageReqs, PageAnswer(r)
      PROVE  LoaderInv'
  BY <1>5, PageAnswerKeeps
<1>6. ASSUME NEW r \in analysisReqs, AnalysisAnswer(r)
      PROVE  LoaderInv'
  BY <1>6, AnalysisAnswerKeeps
<1> QED  BY <1>1, <1>2, <1>3, <1>4, <1>5, <1>6 DEF Next

LEMMA LoaderInvariant == Spec => []LoaderInv
BY LoaderStarts, LoaderKeeps, PTL DEF Spec

-----------------------------------------------------------------------------
\* Every request in flight belongs to a version and a run that were, and a trace is shown as
\* ready exactly when it has pages.
THEOREM LoaderTypeCorrect == Spec => []TypeOK
<1>1. LoaderInv => TypeOK
  BY DEF LoaderInv
<1> QED  BY <1>1, LoaderInvariant, PTL

\* App never renders, under one session's route, pages another session's requests brought.
THEOREM TraceShownIsOfRoute == Spec => []ShownTraceIsOfRoute
<1>1. LoaderInv => ShownTraceIsOfRoute
  BY DEF LoaderInv, OneSession, ShownTraceIsOfRoute, HasCurrentTrace
<1> QED  BY <1>1, LoaderInvariant, PTL

\* A detail page that shows "loading" waits for the sessions, whose chain has begun, or has its
\* effects still to run, or a request of its trace whose answer will be applied: no order of
\* moves, retries and superseded answers leaves it with none.
THEOREM LoadingIsRead == Spec => []LoadingTraceIsRead
<1>1. LoaderInv => LoadingTraceIsRead
  BY DEF LoaderInv, TypeOK, CurrentRequest, RequestedBySeen, LoadingHasChain, LoadingTraceIsRead,
         ShowsDetail, DetailTraceState, Applies
<1> QED  BY <1>1, LoaderInvariant, PTL

\* The analysis rendered as ready on a session's evaluation page is that session's.
THEOREM AnalysisShownIsOfRoute == Spec => []ShownAnalysisIsOfRoute
<1>1. LoaderInv => ShownAnalysisIsOfRoute
  BY DEF LoaderInv, ReadyAnalysis, ShownAnalysisIsOfRoute, ShownAnalysisState
<1> QED  BY <1>1, LoaderInvariant, PTL
=============================================================================
