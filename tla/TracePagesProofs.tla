--------------------------- MODULE TracePagesProofs ---------------------------
(***************************************************************************)
(* Theorems about TracePages: however events are stored between two pages, *)
(* fewer than Limit of them overtaken, the merged rows have no gap, are in *)
(* the order of the timeline, and every start among them points at the     *)
(* call that the server told of it.                                        *)
(***************************************************************************)
EXTENDS TracePages, FiniteSetTheorems, TLAPS

-----------------------------------------------------------------------------
\* Members of finite sets of numbers by rank

\* Members of one rank are one.
LEMMA RankInjective ==
    ASSUME NEW S \in SUBSET Nat, IsFiniteSet(S), NEW i \in S, NEW k \in S,
           Cardinality({j \in S : j <= i}) = Cardinality({j \in S : j <= k})
    PROVE  i = k
<1> DEFINE Upto(x) == {j \in S : j <= x}
<1>1. ASSUME NEW x \in S, NEW y \in S, x < y
      PROVE  Cardinality(Upto(x)) # Cardinality(Upto(y))
  <2>1. \A j \in S : j <= x => j <= y
    <3> TAKE j \in S
    <3>1. x \in Nat /\ y \in Nat /\ j \in Nat
      OBVIOUS
    <3> QED
      BY <1>1, <3>1
  <2>2. Upto(x) \in SUBSET Upto(y) /\ Upto(y) \in SUBSET S
    BY <2>1
  <2>3. IsFiniteSet(Upto(y))
    BY <2>2, FS_Subset
  <2>4. y \in Upto(y) /\ y \notin Upto(x)
    BY <1>1
  <2> QED
    BY <2>2, <2>3, <2>4, FS_Subset
<1>2. ~ (i < k) /\ ~ (k < i)
  BY <1>1
<1> QED
  BY <1>2

\* Rank is a bijection from the set to the numbers up to its size.
LEMMA NthMember ==
    ASSUME NEW S \in SUBSET Nat, IsFiniteSet(S), NEW n \in 1 .. Cardinality(S)
    PROVE  Nth(S, n) \in S /\ Cardinality({j \in S : j <= Nth(S, n)}) = n
<1> DEFINE Upto(i) == {j \in S : j <= i}
           rank == [i \in S |-> Cardinality(Upto(i))]
           N == Cardinality(S)
<1>1. N \in Nat
  BY FS_CardinalityType
<1>2. \A i \in S : IsFiniteSet(Upto(i)) /\ Cardinality(Upto(i)) \in 1 .. N
  <2> TAKE i \in S
  <2>1. Upto(i) \in SUBSET S
    OBVIOUS
  <2>2. IsFiniteSet(Upto(i)) /\ Cardinality(Upto(i)) <= N
    BY <2>1, FS_Subset
  <2>3. Cardinality(Upto(i)) \in Nat
    BY <2>2, FS_CardinalityType
  <2>4. i \in Upto(i)
    OBVIOUS
  <2>5. Cardinality(Upto(i)) # 0
    BY <2>2, <2>4, FS_EmptySet
  <2> QED
    BY <1>1, <2>2, <2>3, <2>5
<1>3. \A i, k \in S : Cardinality(Upto(i)) = Cardinality(Upto(k)) => i = k
  BY RankInjective
<1>4. rank \in Injection(S, 1 .. N)
  <2>1. rank \in [S -> 1 .. N]
    BY <1>2
  <2>2. \A i, k \in S : rank[i] = rank[k] => i = k
    BY <1>3
  <2> QED
    BY <2>1, <2>2 DEF Injection, IsInjective
<1>5. IsFiniteSet(1 .. N) /\ Cardinality(1 .. N) = N
  BY <1>1, FS_Interval
<1>6. rank \in Surjection(S, 1 .. N)
  BY <1>4, <1>5, FS_Injection
<1>7. \E i \in S : Cardinality(Upto(i)) = n
  BY <1>6 DEF Surjection
<1> QED
  BY <1>7 DEF Nth

LEMMA NthOnto ==
    ASSUME NEW S \in SUBSET Nat, IsFiniteSet(S), NEW i \in S
    PROVE  \E n \in 1 .. Cardinality(S) : Nth(S, n) = i
<1> DEFINE U == {j \in S : j <= i}
           n == Cardinality(U)
<1>1. U \in SUBSET S /\ i \in U
  OBVIOUS
<1>2. IsFiniteSet(U) /\ n <= Cardinality(S)
  BY <1>1, FS_Subset
<1>3. n \in Nat /\ n # 0 /\ Cardinality(S) \in Nat
  BY <1>1, <1>2, FS_CardinalityType, FS_EmptySet
<1> HIDE DEF n
<1>4. n \in 1 .. Cardinality(S)
  BY <1>2, <1>3
<1>5. Nth(S, n) \in S /\ Cardinality({j \in S : j <= Nth(S, n)}) = n
  BY <1>4, NthMember
<1>6. Nth(S, n) = i
  BY <1>5, RankInjective DEF n
<1> QED
  BY <1>4, <1>6

LEMMA NthOfInterval ==
    ASSUME NEW k \in Nat, NEW n \in 1 .. k
    PROVE  Nth(1 .. k, n) = n
<1>1. IsFiniteSet(1 .. k) /\ Cardinality(1 .. k) = k
  BY FS_Interval
<1> DEFINE i == Nth(1 .. k, n)
<1>2. i \in 1 .. k /\ Cardinality({j \in 1 .. k : j <= i}) = n
  <2>1. 1 .. k \in SUBSET Nat /\ n \in 1 .. Cardinality(1 .. k)
    BY <1>1
  <2> HIDE DEF i
  <2> QED
    BY <1>1, <2>1, NthMember DEF i
<1>3. {j \in 1 .. k : j <= i} = 1 .. i
  BY <1>2
<1>4. Cardinality(1 .. i) = i
  BY <1>2, FS_Interval
<1> QED
  BY <1>2, <1>3, <1>4

LEMMA AtAllPositions ==
    ASSUME NEW T, NEW s \in Seq(T)
    PROVE  AtPositions(s, DOMAIN s) = s
<1>1. DOMAIN s = 1 .. Len(s) /\ Len(s) \in Nat
  OBVIOUS
<1>2. Cardinality(1 .. Len(s)) = Len(s)
  BY <1>1, FS_Interval
<1>3. \A n \in 1 .. Len(s) : Nth(1 .. Len(s), n) = n
  BY <1>1, NthOfInterval
<1>4. AtPositions(s, DOMAIN s) = [n \in 1 .. Len(s) |-> s[n]]
  BY <1>1, <1>2, <1>3 DEF AtPositions
<1> QED
  BY <1>1, <1>4

LEMMA AtPositionsType ==
    ASSUME NEW T, NEW s \in Seq(T), NEW S \in SUBSET DOMAIN s
    PROVE  AtPositions(s, S) \in Seq(T)
<1>1. DOMAIN s = 1 .. Len(s) /\ Len(s) \in Nat
  OBVIOUS
<1>2. IsFiniteSet(DOMAIN s)
  BY <1>1, FS_Interval
<1>3. IsFiniteSet(S) /\ S \in SUBSET Nat
  BY <1>1, <1>2, FS_Subset
<1>4. Cardinality(S) \in Nat
  BY <1>3, FS_CardinalityType
<1>5. \A n \in 1 .. Cardinality(S) : s[Nth(S, n)] \in T
  <2> TAKE n \in 1 .. Cardinality(S)
  <2>1. Nth(S, n) \in S
    BY <1>3, NthMember
  <2> QED
    BY <2>1
<1> QED
  BY <1>4, <1>5 DEF AtPositions

-----------------------------------------------------------------------------
\* Types

LEMMA EventKinds ==
    ASSUME NEW e \in Event
    PROVE  e.kind \in {"PreToolUse", "PostToolUse", "Stop"}
BY DEF Event, Pre, Post

LEMMA ToolCallIndexType ==
    ASSUME NEW s \in Seq(Event), NEW i \in DOMAIN s
    PROVE  ToolCallIndex(s, i) \in Nat
<1>1. DOMAIN s = 1 .. Len(s) /\ Len(s) \in Nat /\ s[i] \in Event
  OBVIOUS
<1>2. CASE s[i].kind = "Stop"
  BY <1>2 DEF ToolCallIndex
<1>3. CASE s[i].kind # "Stop"
  <2>1. OpenedAt(s, i) \in 1 .. i
    <3>1. CASE Opens(s, i)
      BY <1>1, <3>1 DEF OpenedAt
    <3>2. CASE ~Opens(s, i)
      <4>1. \E j \in 1 .. i - 1 : s[j] = Pre(s[i].of)
        BY <1>1, <1>3, <3>2, EventKinds DEF Opens
      <4> QED
        BY <1>1, <3>2, <4>1 DEF OpenedAt
    <3> QED
      BY <3>1, <3>2
  <2> DEFINE opened == {j \in 1 .. OpenedAt(s, i) : Opens(s, j)}
  <2>2. IsFiniteSet(1 .. OpenedAt(s, i))
    BY <1>1, <2>1, FS_Interval
  <2>3. IsFiniteSet(opened)
    BY <2>2, FS_Subset
  <2>4. Cardinality(opened) \in Nat
    BY <2>3, FS_CardinalityType
  <2> QED
    BY <1>3, <2>4 DEF ToolCallIndex
<1> QED
  BY <1>2, <1>3

\* How many rows a page has, and which events they are.
LEMMA PageRowsAre ==
    ASSUME NEW s \in Seq(Event), NEW offset \in Nat
    PROVE  LET first == Smaller(offset, Len(s))
               n == PageEnd(s, offset) - first
           IN  /\ first \in 0 .. Len(s)
               /\ n \in 0 .. Limit
               /\ first + n <= Len(s)
               /\ PageRows(s, offset) \in Seq(Row)
               /\ Len(PageRows(s, offset)) = n
               /\ DOMAIN PageRows(s, offset) = 1 .. n
               /\ \A i \in 1 .. n : /\ first + i \in DOMAIN s
                                    /\ PageRows(s, offset)[i].event = s[first + i]
                                    /\ PageRows(s, offset)[i].ix = ToolCallIndex(s, first + i)
<1> DEFINE first == Smaller(offset, Len(s))
           n == PageEnd(s, offset) - first
           rows == PageRows(s, offset)
<1>1. DOMAIN s = 1 .. Len(s) /\ Len(s) \in Nat
  OBVIOUS
<1>2. /\ first \in 0 .. Len(s)
      /\ n \in 0 .. Limit
      /\ first + n <= Len(s)
  BY <1>1, PageAssumption DEF Smaller, PageEnd
<1>3. rows = [i \in 1 .. n |->
                [event |-> s[first + i], ix |-> ToolCallIndex(s, first + i), at |-> 0]]
  BY DEF PageRows
<1>4. \A i \in 1 .. n : first + i \in DOMAIN s
  BY <1>1, <1>2
<1>5. \A i \in 1 .. n :
        [event |-> s[first + i], ix |-> ToolCallIndex(s, first + i), at |-> 0] \in Row
  BY <1>4, ToolCallIndexType DEF Row
<1> HIDE DEF n, first, rows
<1>6. n \in Nat
  BY <1>2, PageAssumption
<1>7. rows \in Seq(Row) /\ Len(rows) = n /\ DOMAIN rows = 1 .. n
  BY <1>3, <1>5, <1>6
<1>8. \A i \in 1 .. n : rows[i].event = s[first + i] /\ rows[i].ix = ToolCallIndex(s, first + i)
  BY <1>3
<1> QED
  BY <1>2, <1>4, <1>7, <1>8 DEF n, first, rows

LEMMA ImageFinite ==
    ASSUME NEW k \in Nat, NEW g
    PROVE  /\ IsFiniteSet({g[i] : i \in 1 .. k})
           /\ Cardinality({g[i] : i \in 1 .. k}) <= k
<1> DEFINE T == {g[i] : i \in 1 .. k}
           h == [i \in 1 .. k |-> g[i]]
<1>1. h \in Surjection(1 .. k, T)
  <2>1. h \in [1 .. k -> T]
    OBVIOUS
  <2>2. \A t \in T : \E i \in 1 .. k : h[i] = t
    OBVIOUS
  <2> QED
    BY <2>1, <2>2 DEF Surjection
<1>2. IsFiniteSet(1 .. k) /\ Cardinality(1 .. k) = k
  BY FS_Interval
<1> HIDE DEF T, h
<1>3. IsFiniteSet(T) /\ Cardinality(T) <= k
  BY <1>1, <1>2, FS_Surjection
<1> QED
  BY <1>3 DEF T

LEMMA StartIndexesFinite ==
    ASSUME NEW rows \in Seq(Row)
    PROVE  IsFiniteSet(StartIndexes(rows)) /\ StartIndexes(rows) \in SUBSET Nat
<1> DEFINE ixs == [i \in 1 .. Len(rows) |-> rows[i].ix]
<1>1. DOMAIN rows = 1 .. Len(rows) /\ Len(rows) \in Nat
  OBVIOUS
<1>2. \A i \in DOMAIN rows : rows[i].ix \in Nat
  <2> TAKE i \in DOMAIN rows
  <2>1. rows[i] \in Row
    OBVIOUS
  <2> QED
    BY <2>1 DEF Row
<1>3. StartIndexes(rows) \in SUBSET {ixs[i] : i \in 1 .. Len(rows)}
  BY <1>1 DEF StartIndexes
<1>4. IsFiniteSet({ixs[i] : i \in 1 .. Len(rows)})
  <2> HIDE DEF ixs
  <2> QED
    BY <1>1, ImageFinite
<1>5. IsFiniteSet(StartIndexes(rows))
  <2> HIDE DEF ixs
  <2> QED
    BY <1>3, <1>4, FS_Subset
<1> QED
  BY <1>2, <1>5 DEF StartIndexes

\* The calls of a page's rows are found among the events.
LEMMA CallAtType ==
    ASSUME NEW s \in Seq(Event), NEW offset \in Nat,
           NEW ix \in StartIndexes(PageRows(s, offset))
    PROVE  CallAt(s, ix) \in Call
<1> DEFINE rows == PageRows(s, offset)
           first == Smaller(offset, Len(s))
           n == PageEnd(s, offset) - first
<1>1. DOMAIN rows = 1 .. n
      /\ \A j \in 1 .. n : /\ first + j \in DOMAIN s
                           /\ rows[j].event = s[first + j]
                           /\ rows[j].ix = ToolCallIndex(s, first + j)
  BY PageRowsAre
<1>2. PICK j \in DOMAIN rows : rows[j].event.kind = "PreToolUse" /\ rows[j].ix = ix
  BY DEF StartIndexes
<1>3. /\ first + j \in DOMAIN s
      /\ Opens(s, first + j)
      /\ ToolCallIndex(s, first + j) = ix
  BY <1>1, <1>2 DEF Opens
<1> DEFINE i == CHOOSE i \in DOMAIN s : Opens(s, i) /\ ToolCallIndex(s, i) = ix
<1>4. i \in DOMAIN s
  BY <1>3
<1>5. s[i] \in Event
  BY <1>4
<1> DEFINE status == IF s[i].kind = "PostToolUse" THEN "unmatched"
                     ELSE IF \E k \in DOMAIN s : k > i /\ s[k] = Post(s[i].of)
                          THEN "completed" ELSE "pending"
<1>6. CallAt(s, ix) = [start |-> s[i], status |-> status, ix |-> 0]
  BY DEF CallAt
<1>7. status \in {"pending", "completed", "unmatched"}
  OBVIOUS
<1> HIDE DEF i, status
<1> QED
  BY <1>5, <1>6, <1>7 DEF Call

LEMMA PageType ==
    ASSUME NEW s \in Seq(Event), NEW offset \in Nat
    PROVE  PaginateTrace(s, offset) \in Trace
<1> DEFINE rows == PageRows(s, offset)
           included == StartIndexes(rows)
           calls == [n \in 1 .. Cardinality(included) |-> CallAt(s, Nth(included, n))]
<1>1. rows \in Seq(Row)
  BY PageRowsAre
<1>2. IsFiniteSet(included) /\ included \in SUBSET Nat
  <2> HIDE DEF rows
  <2> QED
    BY <1>1, StartIndexesFinite
<1>3. Cardinality(included) \in Nat
  BY <1>2, FS_CardinalityType
<1>4. \A n \in 1 .. Cardinality(included) : CallAt(s, Nth(included, n)) \in Call
  <2> TAKE n \in 1 .. Cardinality(included)
  <2>1. Nth(included, n) \in included
    <3> HIDE DEF included
    <3> QED
      BY <1>2, NthMember
  <2> QED
    BY <2>1, CallAtType
<1>5. calls \in Seq(Call)
  BY <1>3, <1>4
<1>6. Len(s) \in Nat /\ (PageEnd(s, offset) < Len(s)) \in BOOLEAN
  OBVIOUS
<1>7. PaginateTrace(s, offset) =
        [timeline |-> rows, calls |-> calls, offset |-> offset, total |-> Len(s),
         more |-> PageEnd(s, offset) < Len(s)]
  BY DEF PaginateTrace
<1> HIDE DEF rows, calls
<1> QED
  BY <1>1, <1>5, <1>6, <1>7 DEF Trace

LEMMA PreparedType ==
    ASSUME NEW page \in Trace
    PROVE  PreparedCalls(page) \in Seq(Call)
<1> DEFINE indexes == StartIndexes(page.timeline)
           given(n) == IF n <= Cardinality(indexes) THEN Nth(indexes, n) ELSE 0
<1>1. page.timeline \in Seq(Row) /\ page.calls \in Seq(Call)
  BY DEF Trace
<1>2. IsFiniteSet(indexes) /\ indexes \in SUBSET Nat
  BY <1>1, StartIndexesFinite
<1>3. Cardinality(indexes) \in Nat
  BY <1>2, FS_CardinalityType
<1>4. DOMAIN page.calls = 1 .. Len(page.calls) /\ Len(page.calls) \in Nat
  BY <1>1
<1>5. \A n \in DOMAIN page.calls : given(n) \in Nat
  <2> TAKE n \in DOMAIN page.calls
  <2>1. ASSUME n <= Cardinality(indexes) PROVE Nth(indexes, n) \in Nat
    <3>1. n \in 1 .. Cardinality(indexes)
      BY <1>3, <1>4, <2>1
    <3> HIDE DEF indexes
    <3> QED
      BY <1>2, <3>1, NthMember
  <2> QED
    BY <2>1
<1>6. \A n \in DOMAIN page.calls : [page.calls[n] EXCEPT !.ix = given(n)] \in Call
  <2> HIDE DEF given
  <2> TAKE n \in DOMAIN page.calls
  <2>1. page.calls[n] \in Call /\ given(n) \in Nat
    BY <1>1, <1>5
  <2> QED
    BY <2>1 DEF Call
<1>7. PreparedCalls(page) =
        [n \in DOMAIN page.calls |-> [page.calls[n] EXCEPT !.ix = given(n)]]
  BY DEF PreparedCalls
<1> HIDE DEF given
<1> QED
  BY <1>4, <1>6, <1>7

\* Aligning rows changes neither their number nor their events.
LEMMA AlignedRows ==
    ASSUME NEW rows \in Seq(Row), NEW calls \in Seq(Call)
    PROVE  /\ Aligned(rows, calls) \in Seq(Row)
           /\ Len(Aligned(rows, calls)) = Len(rows)
           /\ \A i \in DOMAIN rows : Aligned(rows, calls)[i].event = rows[i].event
<1> DEFINE at(i) == IF \E c \in DOMAIN calls : calls[c].ix = rows[i].ix
                    THEN CHOOSE c \in DOMAIN calls : calls[c].ix = rows[i].ix
                    ELSE 0
<1>1. DOMAIN rows = 1 .. Len(rows) /\ Len(rows) \in Nat
      /\ DOMAIN calls = 1 .. Len(calls) /\ Len(calls) \in Nat
  OBVIOUS
<1>2. \A i \in DOMAIN rows : at(i) \in Nat
  BY <1>1
<1> DEFINE row(i) == [rows[i] EXCEPT !.at = at(i)]
<1>3. Aligned(rows, calls) = [i \in DOMAIN rows |-> row(i)]
  BY DEF Aligned
<1> HIDE DEF at
<1>4. \A i \in DOMAIN rows : row(i) \in Row /\ row(i).event = rows[i].event
  <2> TAKE i \in DOMAIN rows
  <2>1. rows[i] \in Row /\ at(i) \in Nat
    BY <1>2
  <2> QED
    BY <2>1 DEF Row
<1> HIDE DEF row
<1> QED
  BY <1>1, <1>3, <1>4

\* What a merge gives, whatever the two traces are.
LEMMA MergeType ==
    ASSUME NEW current \in Trace, NEW next \in Trace
    PROVE  MergeTracePage(current, next) \in Trace
<1> DEFINE prepared == PreparedCalls(next)
           rows == current.timeline \o
                   AtPositions(next.timeline, FreshRows(current.timeline, next.timeline))
           calls == current.calls \o AtPositions(prepared, FreshCalls(current.calls, prepared))
<1>1. /\ current.timeline \in Seq(Row) /\ next.timeline \in Seq(Row)
      /\ current.calls \in Seq(Call)
      /\ prepared \in Seq(Call)
  BY PreparedType DEF Trace
<1>2. AtPositions(next.timeline, FreshRows(current.timeline, next.timeline)) \in Seq(Row)
  BY <1>1, AtPositionsType DEF FreshRows
<1>3. AtPositions(prepared, FreshCalls(current.calls, prepared)) \in Seq(Call)
  <2> HIDE DEF prepared
  <2> QED
    BY <1>1, AtPositionsType DEF FreshCalls
<1>4. rows \in Seq(Row) /\ calls \in Seq(Call)
  BY <1>1, <1>2, <1>3
<1>5. MergeTracePage(current, next) =
        [next EXCEPT !.timeline = Aligned(rows, calls), !.calls = calls]
  BY DEF MergeTracePage
<1> HIDE DEF rows, calls
<1>6. Aligned(rows, calls) \in Seq(Row)
  BY <1>4, AlignedRows
<1> QED
  BY <1>4, <1>5, <1>6 DEF Trace

-----------------------------------------------------------------------------
\* Placed rows

Distinct(s) == \A i, j \in DOMAIN s : s[i] = s[j] => i = j

\* The events of the rows W stand in s at the positions f, in this order; what
\* stands before a row is another row's event or was overtaken.  If d events
\* overtook the last row, its position is d more than its place in W.
PlacedAt(W, s, L, f) ==
    /\ f \in [DOMAIN W -> DOMAIN s]
    /\ \A k \in DOMAIN W : s[f[k]] = W[k].event /\ f[k] >= k
    /\ \A i, j \in DOMAIN W : i < j => f[j] - f[i] >= j - i
    /\ W # <<>> => f[Len(W)] - Len(W) <= Cardinality(L)
    /\ \A a \in DOMAIN s, r \in DOMAIN W :
          a < f[r] => s[a] \in L \/ \E k \in DOMAIN W : f[k] = a

IsPlaced(W, s, L) == \E f \in [DOMAIN W -> DOMAIN s] : PlacedAt(W, s, L, f)

LEMMA EmptyPlaced ==
    ASSUME NEW s, NEW L
    PROVE  IsPlaced(<<>>, s, L)
<1>1. DOMAIN (<<>>) = {}
  OBVIOUS
<1> DEFINE f == [k \in {} |-> k]
<1>2. f \in [DOMAIN (<<>>) -> DOMAIN s]
  BY <1>1
<1>3. PlacedAt(<<>>, s, L, f)
  BY <1>1, <1>2 DEF PlacedAt
<1> QED
  BY <1>2, <1>3 DEF IsPlaced

LEMMA SameEventsPlaced ==
    ASSUME NEW W \in Seq(Row), NEW V \in Seq(Row), NEW s, NEW L,
           Len(V) = Len(W), \A i \in DOMAIN W : V[i].event = W[i].event,
           IsPlaced(W, s, L)
    PROVE  IsPlaced(V, s, L)
<1>1. DOMAIN V = DOMAIN W /\ (V # <<>> => W # <<>>)
  OBVIOUS
<1>2. PICK f \in [DOMAIN W -> DOMAIN s] : PlacedAt(W, s, L, f)
  BY DEF IsPlaced
<1>3. PlacedAt(V, s, L, f)
  BY <1>1, <1>2 DEF PlacedAt
<1> QED
  BY <1>1, <1>3 DEF IsPlaced

\* An insertion moves the rows after it, and only the rows it overtakes.
Inserted(s, e, p) ==
    [i \in 1 .. Len(s) + 1 |-> IF i < p THEN s[i] ELSE IF i = p THEN e ELSE s[i - 1]]

LEMMA InsertPlaced ==
    ASSUME NEW W \in Seq(Row), NEW s \in Seq(Event), NEW L, NEW e,
           NEW p \in 1 .. Len(s) + 1,
           IsFiniteSet(L), e \notin L,
           IsPlaced(W, s, L)
    PROVE  IsPlaced(W, Inserted(s, e, p), IF p <= Len(s) THEN L \cup {e} ELSE L)
<1> DEFINE t == Inserted(s, e, p)
           M == IF p <= Len(s) THEN L \cup {e} ELSE L
<1>0. /\ t = [i \in 1 .. Len(s) + 1 |->
                 IF i < p THEN s[i] ELSE IF i = p THEN e ELSE s[i - 1]]
      /\ M = IF p <= Len(s) THEN L \cup {e} ELSE L
      /\ L \subseteq M
  BY DEF Inserted
<1> HIDE DEF t, M
<1>1. PICK f \in [DOMAIN W -> DOMAIN s] : PlacedAt(W, s, L, f)
  BY DEF IsPlaced
<1> DEFINE n == Len(W)
           g == [k \in DOMAIN W |-> IF f[k] < p THEN f[k] ELSE f[k] + 1]
<1>2. /\ DOMAIN s = 1 .. Len(s) /\ Len(s) \in Nat
      /\ DOMAIN W = 1 .. n /\ n \in Nat
      /\ DOMAIN t = 1 .. Len(s) + 1
      /\ \A k \in DOMAIN W : f[k] \in 1 .. Len(s)
  BY <1>0
<1>3. /\ \A i \in 1 .. Len(s) : IF i < p THEN t[i] = s[i] ELSE t[i + 1] = s[i]
      /\ t[p] = e
  BY <1>0, <1>2
<1>4. g \in [DOMAIN W -> DOMAIN t]
  BY <1>2
<1>5. \A k \in DOMAIN W : g[k] = IF f[k] < p THEN f[k] ELSE f[k] + 1
  OBVIOUS
<1> HIDE DEF g
<1>6. \A k \in DOMAIN W : t[g[k]] = W[k].event /\ g[k] >= k
  <2> TAKE k \in DOMAIN W
  <2>1. s[f[k]] = W[k].event /\ f[k] >= k /\ k \in Nat /\ f[k] \in 1 .. Len(s)
    BY <1>1, <1>2 DEF PlacedAt
  <2>2. t[g[k]] = s[f[k]]
    BY <1>3, <1>5, <2>1
  <2> QED
    BY <1>5, <2>1, <2>2
<1>7. \A i, j \in DOMAIN W : i < j => g[j] - g[i] >= j - i
  <2> TAKE i, j \in DOMAIN W
  <2> HAVE i < j
  <2>1. f[j] - f[i] >= j - i
    BY <1>1 DEF PlacedAt
  <2>2. f[i] \in Nat /\ f[j] \in Nat /\ p \in Nat /\ i \in Nat /\ j \in Nat
    BY <1>2
  <2>3. /\ g[i] = IF f[i] < p THEN f[i] ELSE f[i] + 1
        /\ g[j] = IF f[j] < p THEN f[j] ELSE f[j] + 1
    BY <1>5
  <2>4. f[i] < f[j]
    BY <2>1, <2>2
  <2>5. CASE f[i] < p /\ f[j] < p
    BY <2>1, <2>3, <2>5
  <2>6. CASE f[i] < p /\ ~ (f[j] < p)
    BY <2>1, <2>2, <2>3, <2>6
  <2>7. CASE ~ (f[i] < p) /\ ~ (f[j] < p)
    BY <2>1, <2>2, <2>3, <2>7
  <2> QED
    BY <2>2, <2>4, <2>5, <2>6, <2>7
<1>8. /\ Cardinality(L) \in Nat
      /\ Cardinality(M) = IF p <= Len(s) THEN Cardinality(L) + 1 ELSE Cardinality(L)
  BY <1>0, FS_CardinalityType, FS_AddElement
<1>9. W # <<>> => g[n] - n <= Cardinality(M)
  <2> HAVE W # <<>>
  <2>1. n \in DOMAIN W
    BY <1>2
  <2>2. f[n] - n <= Cardinality(L) /\ f[n] \in 1 .. Len(s)
    BY <1>1, <1>2, <2>1 DEF PlacedAt
  <2>3. g[n] = IF f[n] < p THEN f[n] ELSE f[n] + 1
    BY <1>5, <2>1
  <2>4. f[n] \in Nat /\ p \in Nat /\ n \in Nat /\ Len(s) \in Nat /\ f[n] <= Len(s)
    BY <1>2, <2>2
  <2>5. Cardinality(M) \in Nat /\ Cardinality(L) <= Cardinality(M)
    BY <1>8
  <2>6. CASE f[n] < p
    BY <1>8, <2>2, <2>3, <2>4, <2>5, <2>6
  <2>7. CASE ~ (f[n] < p)
    <3>1. Cardinality(M) = Cardinality(L) + 1
      BY <1>8, <2>4, <2>7
    <3>2. g[n] = f[n] + 1
      BY <2>3, <2>7
    <3> HIDE DEF n
    <3> QED
      BY <1>8, <2>2, <2>4, <3>1, <3>2
  <2> QED
    BY <2>6, <2>7
<1>10. ASSUME NEW a \in DOMAIN t, NEW r \in DOMAIN W, a < g[r]
       PROVE  t[a] \in M \/ \E k \in DOMAIN W : g[k] = a
  <2>1. f[r] \in 1 .. Len(s) /\ a \in 1 .. Len(s) + 1
        /\ g[r] = IF f[r] < p THEN f[r] ELSE f[r] + 1
    BY <1>2, <1>5
  <2>2. CASE a < p
    <3>1. a \in DOMAIN s /\ a < f[r] /\ t[a] = s[a]
      BY <1>2, <1>3, <1>10, <2>1, <2>2
    <3>2. s[a] \in L \/ \E k \in DOMAIN W : f[k] = a
      BY <1>1, <3>1 DEF PlacedAt
    <3>3. L \subseteq M
      BY <1>0
    <3> QED
      BY <1>5, <2>2, <3>1, <3>2, <3>3
  <2>3. CASE a = p
    <3>1. p <= Len(s)
      BY <1>10, <2>1, <2>3
    <3> QED
      BY <1>0, <1>3, <2>3, <3>1
  <2>4. CASE a > p
    <3>1. a - 1 \in DOMAIN s /\ a - 1 < f[r] /\ t[a] = s[a - 1] /\ ~ (a - 1 < p)
      BY <1>2, <1>3, <1>10, <2>1, <2>4
    <3>2. s[a - 1] \in L \/ \E k \in DOMAIN W : f[k] = a - 1
      BY <1>1, <3>1 DEF PlacedAt
    <3>3. L \subseteq M
      BY <1>0
    <3>4. ASSUME NEW k \in DOMAIN W, f[k] = a - 1 PROVE g[k] = a
      BY <1>5, <2>1, <3>1, <3>4
    <3> QED
      BY <3>1, <3>2, <3>3, <3>4
  <2> QED
    BY <2>1, <2>2, <2>3, <2>4
<1>11. PlacedAt(W, t, M, g)
  BY <1>4, <1>6, <1>7, <1>9, <1>10 DEF PlacedAt
<1> QED
  BY <1>4, <1>11 DEF IsPlaced, t, M

\* Rows taken from the start of the timeline up to their number are placed.
LEMMA PrefixPlaced ==
    ASSUME NEW W \in Seq(Row), NEW s \in Seq(Event), NEW L, IsFiniteSet(L),
           Len(W) <= Len(s), \A k \in DOMAIN W : s[k] = W[k].event
    PROVE  IsPlaced(W, s, L)
<1> DEFINE f == [k \in DOMAIN W |-> k]
<1>1. /\ DOMAIN s = 1 .. Len(s) /\ Len(s) \in Nat
      /\ DOMAIN W = 1 .. Len(W) /\ Len(W) \in Nat
      /\ Cardinality(L) \in Nat
  BY FS_CardinalityType
<1>2. f \in [DOMAIN W -> DOMAIN s]
  BY <1>1
<1>3. \A k \in DOMAIN W : f[k] = k
  OBVIOUS
<1> HIDE DEF f
<1>4. \A k \in DOMAIN W : s[f[k]] = W[k].event /\ f[k] >= k
  BY <1>1, <1>3
<1>5. \A i, j \in DOMAIN W : i < j => f[j] - f[i] >= j - i
  BY <1>1, <1>3
<1>6. W # <<>> => f[Len(W)] - Len(W) <= Cardinality(L)
  <2> HAVE W # <<>>
  <2>1. Len(W) \in DOMAIN W
    BY <1>1
  <2>2. f[Len(W)] = Len(W)
    BY <1>3, <2>1
  <2> QED
    BY <1>1, <2>2
<1>7. \A a \in DOMAIN s, r \in DOMAIN W : a < f[r] => s[a] \in L \/ \E k \in DOMAIN W : f[k] = a
  BY <1>1, <1>3
<1> QED
  BY <1>2, <1>4, <1>5, <1>6, <1>7 DEF PlacedAt, IsPlaced

\* A page whose events are as many as its rows once the loaded ones are taken away
\* repeats none of them.
LEMMA AllNew ==
    ASSUME NEW current \in Seq(Row), NEW next \in Seq(Row),
           Cardinality(NewEvents(current, next)) = Len(next)
    PROVE  \A i \in DOMAIN next, r \in DOMAIN current : current[r].event # next[i].event
<1> DEFINE g == [i \in 1 .. Len(next) |-> next[i].event]
           S == {g[i] : i \in 1 .. Len(next)}
<1>1. DOMAIN next = 1 .. Len(next) /\ Len(next) \in Nat
  OBVIOUS
<1>2. \A i \in DOMAIN next : next[i].event \in S
  BY <1>1
<1>3. NewEvents(current, next) \in SUBSET S
  BY <1>1, <1>2 DEF NewEvents
<1>4. IsFiniteSet(S) /\ Cardinality(S) <= Len(next)
  <2> HIDE DEF g
  <2> QED
    BY <1>1, ImageFinite
<1> HIDE DEF S
<1>5. Cardinality(S) \in Nat
  BY <1>4, FS_CardinalityType
<1>6. Cardinality(NewEvents(current, next)) <= Cardinality(S)
  BY <1>3, <1>4, FS_Subset
<1>7. Cardinality(S) = Cardinality(NewEvents(current, next))
  BY <1>1, <1>4, <1>5, <1>6
<1>8. S = NewEvents(current, next)
  BY <1>3, <1>4, <1>7, FS_Subset
<1> QED
  BY <1>2, <1>8 DEF NewEvents

\* The rows of a page that starts inside the timeline.
LEMMA PageFrom ==
    ASSUME NEW s \in Seq(Event), NEW n \in 0 .. Len(s)
    PROVE  LET P == PageRows(s, n) IN
           /\ P \in Seq(Row)
           /\ Len(P) = Smaller(Limit, Len(s) - n)
           /\ Len(P) = PageEnd(s, n) - n
           /\ \A i \in DOMAIN P : P[i].event = s[n + i]
<1> DEFINE P == PageRows(s, n)
           first == Smaller(n, Len(s))
           k == PageEnd(s, n) - first
<1>1. /\ P \in Seq(Row)
      /\ Len(P) = k
      /\ DOMAIN P = 1 .. k
      /\ \A i \in 1 .. k : P[i].event = s[first + i]
  <2>1. n \in Nat
    OBVIOUS
  <2> QED
    BY <2>1, PageRowsAre
<1>2. first = n
  BY DEF Smaller
<1>3. k = PageEnd(s, n) - n
  BY <1>2
<1>4. PageEnd(s, n) - n = Smaller(Limit, Len(s) - n)
  BY PageAssumption DEF PageEnd, Smaller
<1> HIDE DEF P, first, k
<1>5. Len(P) = PageEnd(s, n) - n /\ Len(P) = Smaller(Limit, Len(s) - n)
  BY <1>1, <1>3, <1>4
<1>6. \A i \in DOMAIN P : P[i].event = s[n + i]
  BY <1>1, <1>2
<1> QED
  BY <1>1, <1>5, <1>6 DEF P

\* The next page of the timeline, if it repeats no row: since fewer events than a page
\* has rows overtook the loaded ones, none did, and rows and page make a prefix.
LEMMA PagePrefix ==
    ASSUME NEW W \in Seq(Row), NEW s \in Seq(Event), NEW L, IsFiniteSet(L),
           Cardinality(L) < Limit, IsPlaced(W, s, L),
           Len(W) <= Len(s),
           \A i \in DOMAIN PageRows(s, Len(W)), r \in DOMAIN W :
               W[r].event # PageRows(s, Len(W))[i].event
    PROVE  LET J == W \o PageRows(s, Len(W)) IN
           J \in Seq(Row) /\ Len(J) <= Len(s) /\ \A k \in DOMAIN J : s[k] = J[k].event
<1> DEFINE n == Len(W)
           P == PageRows(s, n)
           m == Len(P)
<1>1. /\ DOMAIN s = 1 .. Len(s) /\ Len(s) \in Nat
      /\ DOMAIN W = 1 .. n /\ n \in Nat
      /\ Cardinality(L) \in Nat
      /\ Limit \in Nat
  BY FS_CardinalityType, PageAssumption
<1>2. n \in 0 .. Len(s)
  BY <1>1
<1>3. /\ P \in Seq(Row)
      /\ m = Smaller(Limit, Len(s) - n)
      /\ \A i \in DOMAIN P : P[i].event = s[n + i]
  <2> HIDE DEF n
  <2> QED
    BY <1>2, PageFrom
<1>4. /\ m \in Nat /\ n + m <= Len(s)
      /\ m = Limit \/ n + m = Len(s)
      /\ DOMAIN P = 1 .. m
  <2>1. m \in Nat /\ DOMAIN P = 1 .. m
    <3> HIDE DEF P
    <3> QED
      BY <1>3
  <2>2. Len(s) - n \in Nat /\ n \in Nat /\ Limit \in Nat /\ Len(s) \in Nat
    BY <1>1, <1>2
  <2> HIDE DEF m, n, P
  <2>3. CASE Limit <= Len(s) - n
    <3>1. m = Limit
      BY <1>3, <2>3 DEF Smaller
    <3> QED
      BY <2>1, <2>2, <2>3, <3>1
  <2>4. CASE ~ (Limit <= Len(s) - n)
    <3>1. m = Len(s) - n
      BY <1>3, <2>4 DEF Smaller
    <3> QED
      BY <2>1, <2>2, <3>1
  <2> QED
    BY <2>3, <2>4
<1>5. PICK f \in [DOMAIN W -> DOMAIN s] : PlacedAt(W, s, L, f)
  BY DEF IsPlaced
<1>6. \A i \in 1 .. m, r \in DOMAIN W : W[r].event # s[n + i]
  BY <1>3, <1>4
<1> HIDE DEF n, P, m
<1>7. ASSUME NEW k \in DOMAIN W PROVE s[k] = W[k].event
  <2>1. n \in DOMAIN W /\ W # <<>> /\ k \in 1 .. n
    BY <1>1, <1>7
  <2>2. /\ s[f[n]] = W[n].event /\ f[n] >= n
        /\ f[n] - n <= Cardinality(L)
        /\ f[n] \in 1 .. Len(s)
    BY <1>1, <1>5, <2>1 DEF PlacedAt, n
  <2>3. f[n] = n
    <3> SUFFICES ASSUME f[n] # n PROVE FALSE
      OBVIOUS
    <3> DEFINE d == f[n] - n
    <3>1. d \in 1 .. m
      <4>1. d \in Int /\ d > 0 /\ d < Limit /\ d <= Len(s) - n
        BY <1>1, <2>2
      <4> HIDE DEF d
      <4> QED
        <5>1. CASE m = Limit
          BY <1>1, <4>1, <5>1
        <5>2. CASE n + m = Len(s)
          <6>1. n \in Nat /\ m \in Nat /\ Len(s) \in Nat
            BY <1>1, <1>4
          <6>2. m = Len(s) - n
            BY <5>2, <6>1
          <6>3. d <= m
            BY <4>1, <6>2
          <6> QED
            BY <4>1, <6>1, <6>3
        <5> QED
          BY <1>4, <5>1, <5>2
    <3>2. n + (f[n] - n) = f[n]
      BY <1>1, <2>2
    <3>3. W[n].event # s[f[n]]
      BY <1>6, <2>1, <3>1, <3>2
    <3> QED
      BY <2>2, <3>3
  <2>4. /\ s[f[k]] = W[k].event /\ f[k] >= k
        /\ k < n => f[n] - f[k] >= n - k
        /\ f[k] \in 1 .. Len(s)
    BY <1>1, <1>5, <2>1 DEF PlacedAt
  <2>5. f[k] = k
    BY <1>1, <2>1, <2>3, <2>4
  <2> QED
    BY <2>4, <2>5
<1> DEFINE J == W \o P
<1>8. J \in Seq(Row) /\ Len(J) = n + m /\ DOMAIN J = 1 .. n + m
  <2>1. J \in Seq(Row) /\ Len(J) = Len(W) + Len(P)
    BY <1>3
  <2> QED
    BY <2>1 DEF n, m
<1>9. \A k \in DOMAIN J : s[k] = J[k].event
  <2> TAKE k \in DOMAIN J
  <2>1. k \in 1 .. n + m
    BY <1>8
  <2>2. CASE k <= n
    <3>1. J[k] = W[k] /\ k \in DOMAIN W
      BY <1>1, <1>3, <2>1, <2>2 DEF n
    <3> QED
      BY <1>7, <3>1
  <2>3. CASE k > n
    <3>1. J[k] = P[k - n] /\ k - n \in 1 .. m
      BY <1>1, <1>3, <1>4, <2>1, <2>3 DEF n, m
    <3>2. n + (k - n) = k
      BY <1>1, <2>1
    <3>3. P[k - n].event = s[n + (k - n)]
      BY <1>3, <1>4, <3>1
    <3> HIDE DEF J
    <3> QED
      BY <3>1, <3>2, <3>3
  <2> QED
    BY <1>1, <2>1, <2>2, <2>3
<1> HIDE DEF J
<1> QED
  BY <1>4, <1>8, <1>9 DEF J, P, n

LEMMA PagePlaced ==
    ASSUME NEW W \in Seq(Row), NEW s \in Seq(Event), NEW L, IsFiniteSet(L),
           Cardinality(L) < Limit, IsPlaced(W, s, L),
           Len(W) <= Len(s),
           \A i \in DOMAIN PageRows(s, Len(W)), r \in DOMAIN W :
               W[r].event # PageRows(s, Len(W))[i].event
    PROVE  IsPlaced(W \o PageRows(s, Len(W)), s, L)
<1> DEFINE J == W \o PageRows(s, Len(W))
<1>1. J \in Seq(Row) /\ Len(J) <= Len(s) /\ \A k \in DOMAIN J : s[k] = J[k].event
  BY PagePrefix
<1> HIDE DEF J
<1>2. IsPlaced(J, s, L)
  BY <1>1, PrefixPlaced
<1> QED
  BY <1>2 DEF J

\* A merge that finds all rows of a page fresh appends them.
LEMMA MergedRows ==
    ASSUME NEW current \in Trace, NEW next \in Trace,
           FreshRows(current.timeline, next.timeline) = DOMAIN next.timeline
    PROVE  LET merged == MergeTracePage(current, next)
               joined == current.timeline \o next.timeline
           IN  /\ joined \in Seq(Row)
               /\ Len(merged.timeline) = Len(joined)
               /\ \A i \in DOMAIN joined : merged.timeline[i].event = joined[i].event
               /\ merged.total = next.total
               /\ merged.more = next.more
<1> DEFINE prepared == PreparedCalls(next)
           rows == current.timeline \o
                   AtPositions(next.timeline, FreshRows(current.timeline, next.timeline))
           calls == current.calls \o AtPositions(prepared, FreshCalls(current.calls, prepared))
           joined == current.timeline \o next.timeline
<1>1. /\ current.timeline \in Seq(Row) /\ next.timeline \in Seq(Row)
      /\ current.calls \in Seq(Call)
      /\ prepared \in Seq(Call)
  BY PreparedType DEF Trace
<1>2. rows = joined
  BY <1>1, AtAllPositions
<1>3. AtPositions(prepared, FreshCalls(current.calls, prepared)) \in Seq(Call)
  <2> HIDE DEF prepared
  <2> QED
    BY <1>1, AtPositionsType DEF FreshCalls
<1>4. joined \in Seq(Row) /\ calls \in Seq(Call)
  BY <1>1, <1>3
<1>5. MergeTracePage(current, next) =
        [next EXCEPT !.timeline = Aligned(joined, calls), !.calls = calls]
  BY <1>2 DEF MergeTracePage
<1> HIDE DEF calls, rows
<1>6. /\ Len(Aligned(joined, calls)) = Len(joined)
      /\ \A i \in DOMAIN joined : Aligned(joined, calls)[i].event = joined[i].event
  <2> HIDE DEF joined
  <2> QED
    BY <1>4, AlignedRows
<1> HIDE DEF joined
<1>7. /\ MergeTracePage(current, next).timeline = Aligned(joined, calls)
      /\ MergeTracePage(current, next).total = next.total
      /\ MergeTracePage(current, next).more = next.more
  BY <1>5 DEF Trace
<1> QED
  BY <1>4, <1>6, <1>7 DEF joined

-----------------------------------------------------------------------------
\* Types

LEMMA NoneTypes == NoTrace \in Trace /\ NoRequest \in Request
<1>1. /\ <<>> \in Seq(Row) /\ <<>> \in Seq(Call)
  OBVIOUS
<1>2. NoTrace \in Trace
  BY <1>1 DEF NoTrace, Trace
<1> QED
  BY <1>2 DEF NoRequest, Request

\* A first page is awaited while the trace is shown as loading, a next one
\* while it is shown.
Requested ==
    /\ LoadingIsRequested
    /\ req.kind = "first" => req.offset = 0
    /\ req.kind = "next" => Loaded
    /\ req.kind = "none" => ~req.read

LEMMA ControlInit == Init => TypeOK /\ Requested
<1> SUFFICES ASSUME Init PROVE TypeOK /\ Requested
  OBVIOUS
<1>1. <<>> \in Seq(Event)
  OBVIOUS
<1>2. TypeOK
  BY <1>1, NoneTypes DEF Init, TypeOK
<1>3. Requested
  BY DEF Init, Requested, LoadingIsRequested, NoRequest
<1> QED
  BY <1>2, <1>3

LEMMA StoredType ==
    ASSUME NEW s \in Seq(Event), NEW e \in Event, NEW p \in 1 .. Len(s) + 1
    PROVE  Inserted(s, e, p) \in Seq(Event)
<1>1. Len(s) \in Nat /\ DOMAIN s = 1 .. Len(s)
  OBVIOUS
<1>2. ASSUME NEW i \in 1 .. Len(s) + 1
      PROVE  (IF i < p THEN s[i] ELSE IF i = p THEN e ELSE s[i - 1]) \in Event
  <2>1. CASE i < p
    <3>1. i \in DOMAIN s
      BY <1>1, <2>1
    <3> QED
      BY <2>1, <3>1
  <2>2. CASE i = p
    BY <2>2
  <2>3. CASE i > p
    <3>1. i - 1 \in DOMAIN s /\ ~ (i < p) /\ i # p
      BY <1>1, <2>3
    <3> QED
      BY <3>1
  <2> QED
    BY <1>1, <2>1, <2>2, <2>3
<1> DEFINE v(i) == IF i < p THEN s[i] ELSE IF i = p THEN e ELSE s[i - 1]
<1>3. \A i \in 1 .. Len(s) + 1 : v(i) \in Event
  BY <1>2
<1> HIDE DEF v
<1>4. [i \in 1 .. Len(s) + 1 |-> v(i)] \in Seq(Event)
  BY <1>1, <1>3
<1> QED
  BY <1>4 DEF v, Inserted

LEMMA TypeStep == TypeOK /\ Requested /\ [Next]_vars => TypeOK'
<1> SUFFICES ASSUME TypeOK, Requested, [Next]_vars PROVE TypeOK'
  OBVIOUS
<1> USE NoneTypes
<1>1. ASSUME NEW e \in Event, NEW p \in 1 .. Len(store) + 1, Store(e, p) PROVE TypeOK'
  <2>1. store' \in Seq(Event)
    BY <1>1, StoredType DEF Store, TypeOK, Inserted
  <2>2. late' \in SUBSET Event
    BY <1>1 DEF Store, TypeOK
  <2> QED
    BY <1>1, <2>1, <2>2 DEF Store, TypeOK
<1>2. CASE LoadTrace
  BY <1>2 DEF LoadTrace, TypeOK, NoRequest, Request
<1>3. CASE Leave
  BY <1>3 DEF Leave, TypeOK
<1>4. CASE ReadPage
  <2>1. req.offset \in Nat
    BY DEF TypeOK, Request
  <2>2. PaginateTrace(store, req.offset) \in Trace
    BY <2>1, PageType DEF TypeOK
  <2> QED
    BY <1>4, <2>2 DEF ReadPage, TypeOK, Request
<1>5. CASE FirstPage
  <2>1. MergeTracePage(NoTrace, req.page) \in Trace
    BY MergeType DEF TypeOK, Request
  <2>2. traceState = "loading" /\ remote = NoTrace
    BY <1>5 DEF FirstPage, TypeOK, Requested, LoadingIsRequested
  <2> QED
    BY <1>5, <2>1, <2>2 DEF FirstPage, TypeOK
<1>6. CASE FirstPageFails
  <2>1. remote = NoTrace
    BY <1>6 DEF FirstPageFails, TypeOK, Requested, LoadingIsRequested
  <2> QED
    BY <1>6, <2>1 DEF FirstPageFails, TypeOK
<1>7. CASE LoadMoreTrace
  <2>1. remote.offset + Limit \in Nat
    BY PageAssumption DEF TypeOK, Trace
  <2>2. [NoRequest EXCEPT !.kind = "next", !.offset = remote.offset + Limit] \in Request
    BY <2>1 DEF Request, NoRequest
  <2> QED
    BY <1>7, <2>2 DEF LoadMoreTrace, TypeOK
<1>8. CASE NextPage
  <2>1. MergeTracePage(remote, req.page) \in Trace
    BY MergeType DEF TypeOK, Request
  <2>2. traceState = "ready"
    BY <1>8 DEF NextPage, Requested, Loaded
  <2> QED
    BY <1>8, <2>1, <2>2 DEF NextPage, TypeOK
<1>9. CASE NextPageFails
  BY <1>9 DEF NextPageFails, TypeOK
<1>10. CASE UNCHANGED vars
  BY <1>10 DEF vars, TypeOK
<1> QED
  BY <1>1, <1>2, <1>3, <1>4, <1>5, <1>6, <1>7, <1>8, <1>9, <1>10 DEF Next

LEMMA RequestedStep == TypeOK /\ Requested /\ [Next]_vars => Requested'
<1> SUFFICES ASSUME TypeOK, Requested, [Next]_vars PROVE Requested'
  OBVIOUS
<1> USE DEF Requested, LoadingIsRequested, Loaded
<1>1. ASSUME NEW e \in Event, NEW p \in 1 .. Len(store) + 1, Store(e, p) PROVE Requested'
  BY <1>1 DEF Store
<1>2. CASE LoadTrace
  BY <1>2 DEF LoadTrace, NoRequest
<1>3. CASE Leave
  BY <1>3 DEF Leave, NoRequest
<1>4. CASE ReadPage
  <2>1. req'.kind = req.kind /\ req'.offset = req.offset
    BY <1>4 DEF ReadPage, TypeOK, Request
  <2> QED
    BY <1>4, <2>1 DEF ReadPage
<1>5. CASE FirstPage
  BY <1>5 DEF FirstPage, NoRequest
<1>6. CASE FirstPageFails
  BY <1>6 DEF FirstPageFails, NoRequest
<1>7. CASE LoadMoreTrace
  BY <1>7 DEF LoadMoreTrace, NoRequest
<1>8. CASE NextPage
  BY <1>8 DEF NextPage, NoRequest
<1>9. CASE NextPageFails
  BY <1>9 DEF NextPageFails, NoRequest
<1>10. CASE UNCHANGED vars
  BY <1>10 DEF vars
<1> QED
  BY <1>1, <1>2, <1>3, <1>4, <1>5, <1>6, <1>7, <1>8, <1>9, <1>10 DEF Next

\* Every state of a behaviour has the declared types.
THEOREM PagesTypeCorrect == Spec => []TypeOK
<1>1. TypeOK /\ Requested /\ [Next]_vars => (TypeOK /\ Requested)'
  BY TypeStep, RequestedStep
<1> QED
  BY <1>1, ControlInit, PTL DEF Spec

\* What is shown as loading is being requested, in every state of a behaviour
\* (loadTrace, loadMoreTrace and the effects that leave a session).
THEOREM LoadingRequested == Spec => []LoadingIsRequested
<1>1. TypeOK /\ Requested /\ [Next]_vars => (TypeOK /\ Requested)'
  BY TypeStep, RequestedStep
<1>2. Requested => LoadingIsRequested
  BY DEF Requested
<1> QED
  BY <1>1, <1>2, ControlInit, PTL DEF Spec

-----------------------------------------------------------------------------
\* The invariant of the merge

\* late is a small set of stored events; an event is stored once.
Overtaken ==
    /\ Distinct(store)
    /\ late \subseteq {store[i] : i \in DOMAIN store}
    /\ IsFiniteSet(late)
    /\ Cardinality(late) <= MaxLate

RowsPlaced == IsPlaced(remote.timeline, store, late)

\* The rows there will be once the page that was read is merged, and whether it will.
Joined == remote.timeline \o req.page.timeline
Usable ==
    /\ req.read
    /\ req.kind = "first" \/ HasContiguousNextTracePage(remote, req.page, req.offset)

PageReady ==
    Usable =>
        /\ IsPlaced(Joined, store, late)
        /\ FreshRows(remote.timeline, req.page.timeline) = DOMAIN req.page.timeline
        /\ req.page.more <=> Len(Joined) < req.page.total

PagesInv ==
    TypeOK /\ Requested /\ Overtaken /\ RowsPlaced /\ PageReady /\ CountsAgree

LEMMA InvInit == Init => PagesInv
<1> SUFFICES ASSUME Init PROVE PagesInv
  OBVIOUS
<1>1. store = <<>> /\ late = {} /\ remote = NoTrace /\ ~req.read /\ traceState = "idle"
  BY DEF Init, NoRequest
<1>2. Overtaken
  <2>1. DOMAIN store = {}
    BY <1>1
  <2>2. MaxLate \in Nat
    BY PageAssumption
  <2> QED
    BY <1>1, <2>1, <2>2, FS_EmptySet DEF Overtaken, Distinct
<1>3. RowsPlaced
  BY <1>1, EmptyPlaced DEF RowsPlaced, NoTrace
<1>4. PageReady /\ CountsAgree
  BY <1>1 DEF PageReady, Usable, CountsAgree, Loaded
<1> QED
  BY <1>2, <1>3, <1>4, ControlInit DEF PagesInv

\* What a step of the server does to the rows in the browser.
LEMMA StoreStep ==
    ASSUME PagesInv, NEW e \in Event, NEW p \in 1 .. Len(store) + 1, Store(e, p)
    PROVE  Overtaken' /\ RowsPlaced' /\ PageReady' /\ CountsAgree'
<1>1. /\ store \in Seq(Event) /\ DOMAIN store = 1 .. Len(store) /\ Len(store) \in Nat
      /\ remote.timeline \in Seq(Row) /\ req.page.timeline \in Seq(Row)
      /\ traceState = "ready" \/ remote = NoTrace
  <2>1. store \in Seq(Event) /\ remote \in Trace /\ req.page \in Trace
    BY DEF PagesInv, TypeOK, Request
  <2>2. remote.timeline \in Seq(Row) /\ req.page.timeline \in Seq(Row)
    BY <2>1 DEF Trace
  <2> QED
    BY <2>1, <2>2 DEF PagesInv, TypeOK
<1>2. /\ \A i \in DOMAIN store : store[i] # e
      /\ store' = [i \in 1 .. Len(store) + 1 |->
                      IF i < p THEN store[i] ELSE IF i = p THEN e ELSE store[i - 1]]
      /\ remote' = remote /\ req' = req /\ traceState' = traceState
  BY DEF Store
<1>3. /\ DOMAIN store' = 1 .. Len(store) + 1
      /\ store'[p] = e
      /\ \A i \in DOMAIN store : IF i < p THEN store'[i] = store[i] ELSE store'[i + 1] = store[i]
  BY <1>1, <1>2
<1>4. /\ IF Reading /\ p <= Len(store)
         THEN Cardinality(late) < MaxLate /\ late' = late \cup {e}
         ELSE late' = late
  BY DEF Store
<1>5. /\ Distinct(store) /\ IsFiniteSet(late) /\ Cardinality(late) <= MaxLate
      /\ \A x \in late : \E i \in DOMAIN store : store[i] = x
  BY DEF PagesInv, Overtaken
<1>6. e \notin late
  BY <1>2, <1>5
<1>7. Overtaken'
  <2>1. ASSUME NEW i \in DOMAIN store', i # p
        PROVE  \E j \in DOMAIN store : /\ store'[i] = store[j]
                                       /\ j = IF i < p THEN i ELSE i - 1
    <3>1. CASE i < p
      <4>1. i \in DOMAIN store
        BY <1>1, <1>3, <3>1
      <4> QED
        BY <1>3, <3>1, <4>1
    <3>2. CASE i > p
      <4>1. i - 1 \in DOMAIN store /\ ~ (i - 1 < p) /\ i - 1 + 1 = i /\ ~ (i < p)
        BY <1>1, <1>3, <3>2
      <4> QED
        BY <1>3, <4>1
    <3> QED
      BY <1>3, <2>1, <3>1, <3>2
  <2>2. Distinct(store')
    <3> SUFFICES ASSUME NEW i \in DOMAIN store', NEW j \in DOMAIN store', store'[i] = store'[j]
                 PROVE  i = j
      BY DEF Distinct
    <3>1. CASE i = p
      <4>1. CASE j # p
        BY <1>2, <1>3, <2>1, <3>1, <4>1
      <4> QED
        BY <3>1, <4>1
    <3>2. CASE i # p /\ j = p
      BY <1>2, <1>3, <2>1, <3>2
    <3>3. CASE i # p /\ j # p
      <4>1. PICK a \in DOMAIN store : store'[i] = store[a] /\ a = IF i < p THEN i ELSE i - 1
        BY <2>1, <3>3
      <4>2. PICK b \in DOMAIN store : store'[j] = store[b] /\ b = IF j < p THEN j ELSE j - 1
        BY <2>1, <3>3
      <4>3. a = b
        BY <1>5, <4>1, <4>2 DEF Distinct
      <4>4. i \in 1 .. Len(store) + 1 /\ j \in 1 .. Len(store) + 1
        BY <1>3
      <4> QED
        BY <1>1, <3>3, <4>1, <4>2, <4>3, <4>4
    <3> QED
      BY <3>1, <3>2, <3>3
  <2>3. \A i \in DOMAIN store : \E k \in DOMAIN store' : store'[k] = store[i]
    <3> TAKE i \in DOMAIN store
    <3>1. i \in DOMAIN store' /\ i + 1 \in DOMAIN store'
      BY <1>1, <1>3
    <3> QED
      BY <1>3, <3>1
  <2>4. \A x \in late' : \E k \in DOMAIN store' : store'[k] = x
    <3> TAKE x \in late'
    <3>1. CASE x = e
      BY <1>1, <1>3, <3>1
    <3>2. CASE x # e
      <4>1. x \in late
        BY <1>4, <3>2
      <4> QED
        BY <1>5, <2>3, <4>1
    <3> QED
      BY <3>1, <3>2
  <2>5. IsFiniteSet(late') /\ Cardinality(late') <= MaxLate
    <3>1. CASE late' = late
      BY <1>5, <3>1
    <3>2. CASE late' = late \cup {e} /\ Cardinality(late) < MaxLate
      <4>1. IsFiniteSet(late \cup {e}) /\ Cardinality(late \cup {e}) = Cardinality(late) + 1
        BY <1>5, <1>6, FS_AddElement
      <4>2. Cardinality(late) \in Nat /\ MaxLate \in Nat
        BY <1>5, FS_CardinalityType, PageAssumption
      <4> QED
        BY <3>2, <4>1, <4>2
    <3> QED
      BY <1>4, <3>1, <3>2
  <2> QED
    BY <2>2, <2>4, <2>5 DEF Overtaken
<1>8. CASE Reading
  <2>1. IF p <= Len(store) THEN late' = late \cup {e} ELSE late' = late
    BY <1>4, <1>8
  <2>2. ASSUME NEW W \in Seq(Row), IsPlaced(W, store, late)
        PROVE  \E s, L : s = store' /\ L = late' /\ IsPlaced(W, s, L)
    <3>1. PICK s, L : s = store' /\ L = late'
      OBVIOUS
    <3>2. /\ s = Inserted(store, e, p)
          /\ L = IF p <= Len(store) THEN late \cup {e} ELSE late
      BY <1>2, <2>1, <3>1 DEF Inserted
    <3>3. IsPlaced(W, s, L)
      <4>1. store \in Seq(Event) /\ IsFiniteSet(late) /\ e \notin late
        BY <1>1, <1>5, <1>6
      <4> QED
        BY <2>2, <3>2, <4>1, InsertPlaced
    <3> QED
      BY <3>1, <3>3
  <2>3. RowsPlaced'
    <3>1. IsPlaced(remote.timeline, store, late)
      BY DEF PagesInv, RowsPlaced
    <3>2. \E s, L : s = store' /\ L = late' /\ IsPlaced(remote.timeline, s, L)
      BY <1>1, <2>2, <3>1
    <3> QED
      BY <1>2, <3>2 DEF RowsPlaced
  <2>4. PageReady'
    <3> SUFFICES ASSUME Usable
                 PROVE  /\ IsPlaced(Joined, store, late)'
                        /\ FreshRows(remote.timeline, req.page.timeline) = DOMAIN req.page.timeline
                        /\ req.page.more <=> Len(Joined) < req.page.total
      BY <1>2 DEF PageReady, Usable, Joined
    <3>1. /\ IsPlaced(Joined, store, late)
          /\ FreshRows(remote.timeline, req.page.timeline) = DOMAIN req.page.timeline
          /\ req.page.more <=> Len(Joined) < req.page.total
      BY DEF PagesInv, PageReady
    <3>2. Joined \in Seq(Row) /\ Joined' = Joined
      BY <1>1, <1>2 DEF Joined
    <3>3. \E s, L : s = store' /\ L = late' /\ IsPlaced(Joined, s, L)
      BY <2>2, <3>1, <3>2
    <3>4. IsPlaced(Joined, store, late)'
      BY <3>2, <3>3
    <3> QED
      BY <3>1, <3>4
  <2> QED
    BY <1>2, <1>7, <2>3, <2>4 DEF PagesInv, CountsAgree, Loaded
<1>9. CASE ~Reading
  <2>1. remote = NoTrace /\ ~req.read
    BY <1>1, <1>9 DEF Reading
  <2>2. RowsPlaced'
    BY <1>2, <2>1, EmptyPlaced DEF RowsPlaced, NoTrace
  <2>3. PageReady'
    BY <1>2, <2>1 DEF PageReady, Usable
  <2> QED
    BY <1>2, <1>7, <2>2, <2>3 DEF PagesInv, CountsAgree, Loaded
<1> QED
  BY <1>8, <1>9

\* The trace is dropped.
LEMMA DroppedStep ==
    ASSUME PagesInv, store' = store, late' = {}, remote' = NoTrace, ~req'.read,
           traceState' # "ready"
    PROVE  Overtaken' /\ RowsPlaced' /\ PageReady' /\ CountsAgree'
<1>1. Overtaken'
  <2>1. 0 <= MaxLate
    BY PageAssumption
  <2> QED
    BY <2>1, FS_EmptySet DEF PagesInv, Overtaken
<1>2. RowsPlaced'
  BY EmptyPlaced DEF RowsPlaced, NoTrace
<1> QED
  BY <1>1, <1>2 DEF PageReady, Usable, CountsAgree, Loaded

\* Nothing but the request and what is shown of it changes.
LEMMA KeptStep ==
    ASSUME PagesInv, store' = store, late' = late, remote' = remote, ~req'.read,
           traceState' = traceState
    PROVE  Overtaken' /\ RowsPlaced' /\ PageReady' /\ CountsAgree'
<1>1. Overtaken' /\ RowsPlaced'
  BY DEF PagesInv, Overtaken, RowsPlaced
<1> QED
  BY <1>1 DEF PagesInv, PageReady, Usable, CountsAgree, Loaded

\* The page becomes part of the rows.
LEMMA MergedStep ==
    ASSUME PagesInv, store' = store, late' = late, Usable, ~req'.read,
           remote' = MergeTracePage(remote, req.page)
    PROVE  Overtaken' /\ RowsPlaced' /\ PageReady' /\ CountsAgree'
<1>1. remote \in Trace /\ req.page \in Trace
  BY DEF PagesInv, TypeOK, Request
<1>2. /\ IsPlaced(Joined, store, late)
      /\ FreshRows(remote.timeline, req.page.timeline) = DOMAIN req.page.timeline
      /\ req.page.more <=> Len(Joined) < req.page.total
  BY DEF PagesInv, PageReady
<1>3. PICK merged : merged = remote'
  OBVIOUS
<1>4. /\ Joined \in Seq(Row)
      /\ Len(merged.timeline) = Len(Joined)
      /\ \A i \in DOMAIN Joined : merged.timeline[i].event = Joined[i].event
      /\ merged.total = req.page.total
      /\ merged.more = req.page.more
  BY <1>1, <1>2, <1>3, MergedRows DEF Joined
<1>5. merged.timeline \in Seq(Row)
  <2>1. merged \in Trace
    BY <1>1, <1>3, MergeType
  <2> QED
    BY <2>1 DEF Trace
<1>6. IsPlaced(merged.timeline, store, late)
  <2>1. PICK J : J = Joined
    OBVIOUS
  <2>2. IsPlaced(J, store, late) /\ J \in Seq(Row)
    BY <1>2, <1>4, <2>1
  <2> QED
    BY <1>4, <1>5, <2>1, <2>2, SameEventsPlaced
<1>7. RowsPlaced'
  BY <1>3, <1>6 DEF RowsPlaced
<1>8. CountsAgree'
  BY <1>2, <1>3, <1>4 DEF CountsAgree
<1>9. Overtaken'
  BY DEF PagesInv, Overtaken
<1> QED
  BY <1>7, <1>8, <1>9 DEF PageReady, Usable

\* What a page read from the current timeline will do, if it is used.
LEMMA PageOfStore ==
    ASSUME NEW W \in Seq(Row), NEW s \in Seq(Event), NEW L, IsFiniteSet(L),
           Cardinality(L) < Limit, IsPlaced(W, s, L), Distinct(s),
           Len(W) <= Len(s),
           \A i \in DOMAIN PageRows(s, Len(W)), r \in DOMAIN W :
               W[r].event # PageRows(s, Len(W))[i].event
    PROVE  LET P == PageRows(s, Len(W)) IN
           /\ IsPlaced(W \o P, s, L)
           /\ FreshRows(W, P) = DOMAIN P
           /\ PageEnd(s, Len(W)) < Len(s) <=> Len(W \o P) < Len(s)
<1> DEFINE n == Len(W)
           P == PageRows(s, n)
<1>1. IsPlaced(W \o P, s, L)
  BY PagePlaced
<1>2. n \in 0 .. Len(s) /\ n \in Nat /\ Len(s) \in Nat /\ DOMAIN s = 1 .. Len(s)
  OBVIOUS
<1>3. /\ P \in Seq(Row)
      /\ Len(P) = Smaller(Limit, Len(s) - n)
      /\ Len(P) = PageEnd(s, n) - n
      /\ \A i \in DOMAIN P : P[i].event = s[n + i]
  <2> HIDE DEF n
  <2> QED
    BY <1>2, PageFrom
<1>4. \A i \in DOMAIN P, r \in DOMAIN W : W[r].event # P[i].event
  OBVIOUS
<1> HIDE DEF P, n
<1>5. DOMAIN P = 1 .. Len(P) /\ Len(P) \in Nat /\ n + Len(P) <= Len(s)
  <2>1. DOMAIN P = 1 .. Len(P) /\ Len(P) \in Nat
    BY <1>3
  <2>2. Len(s) - n \in Nat /\ Limit \in Nat
    BY <1>2, PageAssumption
  <2>3. Len(P) <= Len(s) - n
    BY <1>3, <2>2 DEF Smaller
  <2> QED
    BY <1>2, <2>1, <2>3
<1>6. ASSUME NEW i \in DOMAIN P, NEW j \in 1 .. i - 1 PROVE P[j].event # P[i].event
  <2>1. /\ j \in DOMAIN P
        /\ n + j \in DOMAIN s /\ n + i \in DOMAIN s /\ n + j # n + i
    BY <1>2, <1>5
  <2>2. P[j].event = s[n + j] /\ P[i].event = s[n + i]
    BY <1>3, <2>1
  <2> QED
    BY <2>1, <2>2 DEF Distinct
<1>7. FreshRows(W, P) = DOMAIN P
  BY <1>4, <1>6 DEF FreshRows
<1>8. Len(W \o P) = n + Len(P)
  <2>1. P \in Seq(Row)
    BY <1>3
  <2>2. Len(W \o P) = Len(W) + Len(P)
    BY <2>1
  <2> QED
    BY <2>2 DEF n
<1>9. PageEnd(s, n) \in Int
  <2>1. n + Limit \in Int /\ Len(s) \in Int
    BY <1>2, PageAssumption
  <2> QED
    BY <2>1 DEF PageEnd, Smaller
<1>10. PageEnd(s, n) = n + Len(P)
  BY <1>2, <1>3, <1>5, <1>9
<1> QED
  BY <1>1, <1>7, <1>8, <1>10 DEF P, n

\* A page that will be merged begins where the loaded rows end and repeats none of them.
LEMMA UsablePage ==
    ASSUME PagesInv, ReadPage, Usable'
    PROVE  LET W == remote.timeline
               P == PageRows(store, req.offset)
           IN  /\ req'.page = PaginateTrace(store, req.offset)
               /\ req.offset = Len(W) /\ Len(W) <= Len(store)
               /\ \A i \in DOMAIN P, r \in DOMAIN W : W[r].event # P[i].event
<1>1. /\ remote' = remote /\ req.kind # "none"
      /\ req' = [req EXCEPT !.read = TRUE, !.page = PaginateTrace(store, req.offset)]
  BY DEF ReadPage
<1>2. /\ store \in Seq(Event) /\ remote \in Trace /\ req \in Request
      /\ traceState = "ready" \/ remote = NoTrace
  BY DEF PagesInv, TypeOK
<1>3. remote.timeline \in Seq(Row) /\ req.kind \in {"none", "first", "next"} /\ req.offset \in Nat
  BY <1>2 DEF Trace, Request
<1>4. PICK W, P : W = remote.timeline /\ P = PageRows(store, req.offset)
  OBVIOUS
<1>5. /\ req'.kind = req.kind /\ req'.offset = req.offset
      /\ req'.page = PaginateTrace(store, req.offset)
  BY <1>1, <1>2 DEF Request
<1>6. req'.page.timeline = P /\ req'.page.total = Len(store)
  BY <1>4, <1>5 DEF PaginateTrace
<1>7. CASE req.kind = "first"
  <2>1. req.offset = 0 /\ W = <<>>
    BY <1>2, <1>4, <1>7 DEF PagesInv, Requested, LoadingIsRequested, NoTrace
  <2>2. Len(W) = 0 /\ DOMAIN W = {}
    BY <2>1
  <2> QED
    BY <1>2, <1>4, <1>5, <2>1, <2>2
<1>8. CASE req.kind = "next"
  <2>1. HasContiguousNextTracePage(remote', req'.page, req'.offset)
    BY <1>5, <1>8 DEF Usable
  <2>2. /\ Len(W) = req.offset
        /\ Len(store) > req.offset
        /\ Cardinality(NewEvents(W, P)) = Smaller(Limit, Len(store) - req.offset)
    BY <1>1, <1>4, <1>5, <1>6, <2>1 DEF HasContiguousNextTracePage
  <2>3. Len(store) \in Nat /\ req.offset \in 0 .. Len(store)
    BY <1>2, <1>3, <2>2
  <2>4. P \in Seq(Row) /\ Len(P) = Smaller(Limit, Len(store) - req.offset)
    BY <1>2, <1>4, <2>3, PageFrom
  <2>5. \A i \in DOMAIN P, r \in DOMAIN W : W[r].event # P[i].event
    BY <1>3, <1>4, <2>2, <2>4, AllNew
  <2> QED
    BY <1>4, <1>5, <2>2, <2>3, <2>5
<1> QED
  BY <1>1, <1>3, <1>7, <1>8

LEMMA ReadPageStep ==
    ASSUME PagesInv, ReadPage
    PROVE  Overtaken' /\ RowsPlaced' /\ PageReady' /\ CountsAgree'
<1>1. /\ store' = store /\ late' = late /\ remote' = remote /\ traceState' = traceState
  BY DEF ReadPage
<1>2. Overtaken' /\ RowsPlaced' /\ CountsAgree'
  BY <1>1 DEF PagesInv, Overtaken, RowsPlaced, CountsAgree, Loaded
<1>3. SUFFICES ASSUME Usable' PROVE PageReady'
  BY <1>2 DEF PageReady
<1>4. store \in Seq(Event) /\ remote \in Trace
  BY DEF PagesInv, TypeOK
<1>5. PICK W, P : W = remote.timeline /\ P = PageRows(store, Len(remote.timeline))
  OBVIOUS
<1>6. /\ req'.page = PaginateTrace(store, Len(W))
      /\ Len(W) <= Len(store)
      /\ \A i \in DOMAIN P, r \in DOMAIN W : W[r].event # P[i].event
  BY <1>3, <1>5, UsablePage
<1>7. /\ req'.page.timeline = P
      /\ req'.page.total = Len(store)
      /\ req'.page.more = (PageEnd(store, Len(W)) < Len(store))
  BY <1>5, <1>6 DEF PaginateTrace
<1>8. /\ IsFiniteSet(late) /\ Cardinality(late) < Limit
      /\ Distinct(store) /\ IsPlaced(W, store, late)
  <2>1. IsFiniteSet(late) /\ Cardinality(late) <= MaxLate /\ Distinct(store)
    BY DEF PagesInv, Overtaken
  <2>2. Cardinality(late) \in Nat
    BY <2>1, FS_CardinalityType
  <2>3. IsPlaced(W, store, late)
    BY <1>5 DEF PagesInv, RowsPlaced
  <2> QED
    BY <2>1, <2>2, <2>3, PageAssumption
<1>9. P = PageRows(store, Len(W)) /\ W \in Seq(Row)
  BY <1>4, <1>5 DEF Trace
<1>10. /\ IsPlaced(W \o P, store, late)
       /\ FreshRows(W, P) = DOMAIN P
       /\ PageEnd(store, Len(W)) < Len(store) <=> Len(W \o P) < Len(store)
  BY <1>4, <1>6, <1>8, <1>9, PageOfStore
<1>11. Joined' = W \o P
  BY <1>1, <1>5, <1>7 DEF Joined
<1> QED
  BY <1>1, <1>5, <1>6, <1>7, <1>10, <1>11 DEF PageReady

LEMMA InvStep == PagesInv /\ [Next]_vars => PagesInv'
<1> SUFFICES ASSUME PagesInv, [Next]_vars PROVE PagesInv'
  OBVIOUS
<1>1. TypeOK' /\ Requested'
  BY TypeStep, RequestedStep DEF PagesInv
<1> SUFFICES Overtaken' /\ RowsPlaced' /\ PageReady' /\ CountsAgree'
  BY <1>1 DEF PagesInv
<1>2. ASSUME NEW e \in Event, NEW p \in 1 .. Len(store) + 1, Store(e, p)
      PROVE  Overtaken' /\ RowsPlaced' /\ PageReady' /\ CountsAgree'
  BY <1>2, StoreStep
<1>3. CASE LoadTrace
  <2>1. ~req'.read
    BY <1>3 DEF LoadTrace, NoRequest
  <2> QED
    BY <1>3, <2>1, DroppedStep DEF LoadTrace
<1>4. CASE Leave
  <2>1. ~req'.read
    BY <1>4 DEF Leave, NoRequest
  <2> QED
    BY <1>4, <2>1, DroppedStep DEF Leave
<1>5. CASE ReadPage
  BY <1>5, ReadPageStep
<1>6. CASE FirstPage
  <2>1. remote = NoTrace /\ ~req'.read /\ store' = store
    BY <1>6 DEF FirstPage, NoRequest, PagesInv, TypeOK, Requested, LoadingIsRequested
  <2>2. CASE req.page.total = 0
    BY <1>6, <2>1, <2>2, DroppedStep DEF FirstPage
  <2>3. CASE req.page.total # 0
    <3>1. Usable
      BY <1>6 DEF FirstPage, Usable
    <3>2. remote' = MergeTracePage(remote, req.page) /\ late' = late
      BY <1>6, <2>1, <2>3 DEF FirstPage
    <3> QED
      BY <2>1, <3>1, <3>2, MergedStep
  <2> QED
    BY <2>2, <2>3
<1>7. CASE FirstPageFails
  <2>1. remote = NoTrace /\ ~req'.read
    BY <1>7 DEF FirstPageFails, NoRequest, PagesInv, TypeOK, Requested, LoadingIsRequested
  <2> QED
    BY <1>7, <2>1, DroppedStep DEF FirstPageFails
<1>8. CASE LoadMoreTrace
  <2>1. ~req'.read
    BY <1>8 DEF LoadMoreTrace, NoRequest, PagesInv, Requested
  <2> QED
    BY <1>8, <2>1, KeptStep DEF LoadMoreTrace
<1>9. CASE NextPage
  <2>1. ~req'.read /\ store' = store /\ late' = late /\ traceState' = traceState
    BY <1>9 DEF NextPage, NoRequest
  <2>2. CASE HasContiguousNextTracePage(remote, req.page, req.offset)
    <3>1. Usable /\ remote' = MergeTracePage(remote, req.page)
      BY <1>9, <2>2 DEF NextPage, Usable
    <3> QED
      BY <2>1, <3>1, MergedStep
  <2>3. CASE ~HasContiguousNextTracePage(remote, req.page, req.offset)
    <3>1. remote' = remote
      BY <1>9, <2>3 DEF NextPage
    <3> QED
      BY <2>1, <3>1, KeptStep
  <2> QED
    BY <2>2, <2>3
<1>10. CASE NextPageFails
  <2>1. ~req'.read
    BY <1>10 DEF NextPageFails, NoRequest
  <2> QED
    BY <1>10, <2>1, KeptStep DEF NextPageFails
<1>11. CASE UNCHANGED vars
  BY <1>11 DEF vars, PagesInv, Overtaken, RowsPlaced, PageReady, Usable, Joined,
                CountsAgree, Loaded
<1> QED
  BY <1>2, <1>3, <1>4, <1>5, <1>6, <1>7, <1>8, <1>9, <1>10, <1>11 DEF Next

-----------------------------------------------------------------------------
\* Indexes of tool calls

\* The index of the call an event opens is its rank among the events that open one.
LEMMA StartIndex ==
    ASSUME NEW s \in Seq(Event), NEW i \in DOMAIN s, Opens(s, i)
    PROVE  /\ ToolCallIndex(s, i) = Cardinality({j \in 1 .. i : Opens(s, j)})
           /\ ToolCallIndex(s, i) \in Nat \ {0}
<1>1. s[i].kind # "Stop" /\ OpenedAt(s, i) = i
  BY DEF Opens, OpenedAt
<1>2. ToolCallIndex(s, i) = Cardinality({j \in 1 .. i : Opens(s, j)})
  BY <1>1 DEF ToolCallIndex
<1>3. i \in Nat /\ i \in 1 .. i
  OBVIOUS
<1>4. IsFiniteSet({j \in 1 .. i : Opens(s, j)})
  <2>1. IsFiniteSet(1 .. i)
    BY <1>3, FS_Interval
  <2> QED
    BY <2>1, FS_Subset
<1>5. i \in {j \in 1 .. i : Opens(s, j)}
  BY <1>3
<1> QED
  BY <1>2, <1>4, <1>5, FS_CardinalityType, FS_EmptySet

\* So no two calls have one index.
LEMMA StartIndexInjective ==
    ASSUME NEW s \in Seq(Event), NEW i \in DOMAIN s, NEW k \in DOMAIN s,
           Opens(s, i), Opens(s, k), ToolCallIndex(s, i) = ToolCallIndex(s, k)
    PROVE  i = k
<1> DEFINE S == {j \in DOMAIN s : Opens(s, j)}
<1>1. DOMAIN s = 1 .. Len(s) /\ Len(s) \in Nat
  OBVIOUS
<1>2. IsFiniteSet(S) /\ S \in SUBSET Nat
  <2>1. IsFiniteSet(DOMAIN s)
    BY <1>1, FS_Interval
  <2> QED
    BY <1>1, <2>1, FS_Subset
<1>3. \A x \in DOMAIN s : {j \in 1 .. x : Opens(s, j)} = {j \in S : j <= x}
  BY <1>1
<1>4. Cardinality({j \in S : j <= i}) = Cardinality({j \in S : j <= k})
  BY <1>3, StartIndex
<1>5. i \in S /\ k \in S
  OBVIOUS
<1> HIDE DEF S
<1> QED
  BY <1>2, <1>4, <1>5, RankInjective

\* An index depends on nothing after its event.
LEMMA IndexOfPrefix ==
    ASSUME NEW s \in Seq(Event), NEW t \in Seq(Event), NEW i \in DOMAIN s,
           i \in DOMAIN t, \A j \in 1 .. i : s[j] = t[j], Distinct(s)
    PROVE  ToolCallIndex(s, i) = ToolCallIndex(t, i)
<1>1. /\ DOMAIN s = 1 .. Len(s) /\ Len(s) \in Nat
      /\ i \in Nat /\ i \in 1 .. i /\ \A j \in 1 .. i - 1 : j \in 1 .. i /\ j \in DOMAIN s
      /\ s[i] = t[i] /\ s[i] \in Event
  OBVIOUS
<1>2. \A j \in 1 .. i : Opens(s, j) <=> Opens(t, j)
  <2> TAKE j \in 1 .. i
  <2>1. s[j] = t[j] /\ \A k \in 1 .. j - 1 : s[k] = t[k]
    BY <1>1
  <2> QED
    BY <2>1 DEF Opens
<1>3. CASE s[i].kind = "Stop"
  BY <1>1, <1>3 DEF ToolCallIndex
<1>4. CASE s[i].kind # "Stop"
  <2>1. OpenedAt(s, i) = OpenedAt(t, i) /\ OpenedAt(s, i) \in 1 .. i
    <3>1. CASE Opens(s, i)
      BY <1>1, <1>2, <3>1 DEF OpenedAt
    <3>2. CASE ~Opens(s, i)
      <4>1. PICK k \in 1 .. i - 1 : s[k] = Pre(s[i].of)
        BY <1>1, <1>4, <3>2, EventKinds DEF Opens
      <4>2. \A j \in 1 .. i - 1 : /\ s[j] = Pre(s[i].of) => j = k
                                  /\ t[j] = Pre(t[i].of) => j = k
        BY <1>1, <4>1 DEF Distinct
      <4>3. t[k] = Pre(t[i].of)
        BY <1>1, <4>1
      <4>4. k = CHOOSE j \in 1 .. i - 1 : s[j] = Pre(s[i].of)
        BY <4>1, <4>2
      <4>5. k = CHOOSE j \in 1 .. i - 1 : t[j] = Pre(t[i].of)
        BY <4>2, <4>3
      <4> QED
        BY <1>1, <1>2, <3>2, <4>4, <4>5 DEF OpenedAt
    <3> QED
      BY <3>1, <3>2
  <2>2. {j \in 1 .. OpenedAt(s, i) : Opens(s, j)} = {j \in 1 .. OpenedAt(t, i) : Opens(t, j)}
    <3>1. \A j \in 1 .. OpenedAt(s, i) : j \in 1 .. i
      BY <1>1, <2>1
    <3> QED
      BY <1>2, <2>1, <3>1
  <2> QED
    BY <1>1, <1>4, <2>2 DEF ToolCallIndex
<1> QED
  BY <1>3, <1>4

-----------------------------------------------------------------------------
\* Rows and their calls

IsStart(row) == row.event.kind = "PreToolUse"
RowEvents(rows) == [i \in DOMAIN rows |-> rows[i].event]

\* Every row has the index its event has among the rows.
Indexed(rows) == \A i \in DOMAIN rows : rows[i].ix = ToolCallIndex(RowEvents(rows), i)

\* Every call is that of a start with its index, and every start has its call, one.
Tells(rows, calls) ==
    /\ \A c \in DOMAIN calls : \E i \in DOMAIN rows :
          IsStart(rows[i]) /\ calls[c].start = rows[i].event /\ calls[c].ix = rows[i].ix
    /\ \A i \in DOMAIN rows : IsStart(rows[i]) => \E c \in DOMAIN calls : calls[c].ix = rows[i].ix
    /\ \A c, d \in DOMAIN calls : calls[c].ix = calls[d].ix => c = d

\* A row points at the call with its index, if there is one.
Points(rows, calls) ==
    \A i \in DOMAIN rows :
        IF \E c \in DOMAIN calls : calls[c].ix = rows[i].ix
        THEN rows[i].at \in DOMAIN calls /\ calls[rows[i].at].ix = rows[i].ix
        ELSE rows[i].at = 0

LEMMA RowEventsType ==
    ASSUME NEW rows \in Seq(Row)
    PROVE  /\ RowEvents(rows) \in Seq(Event) /\ DOMAIN RowEvents(rows) = DOMAIN rows
           /\ \A i \in DOMAIN rows : RowEvents(rows)[i] = rows[i].event
<1>1. DOMAIN rows = 1 .. Len(rows) /\ Len(rows) \in Nat
  OBVIOUS
<1>2. \A i \in DOMAIN rows : rows[i].event \in Event
  <2> TAKE i \in DOMAIN rows
  <2>1. rows[i] \in Row
    OBVIOUS
  <2> QED
    BY <2>1 DEF Row
<1> QED
  BY <1>1, <1>2 DEF RowEvents

\* The server's calls, with the indexes the browser reads off the rows, are those of the
\* starts among the rows, one each.
LEMMA PageTells ==
    ASSUME NEW s \in Seq(Event), NEW offset \in Nat
    PROVE  LET page == PaginateTrace(s, offset)
               calls == PreparedCalls(page)
           IN  Tells(page.timeline, calls)
<1> DEFINE P == PageRows(s, offset)
           first == Smaller(offset, Len(s))
           inc == StartIndexes(P)
           page == PaginateTrace(s, offset)
           calls == PreparedCalls(page)
           N == Cardinality(inc)
<1>1. /\ P \in Seq(Row)
      /\ \A j \in DOMAIN P : /\ first + j \in DOMAIN s
                             /\ P[j].event = s[first + j]
                             /\ P[j].ix = ToolCallIndex(s, first + j)
  <2>1. DOMAIN P = 1 .. PageEnd(s, offset) - first
    BY PageRowsAre
  <2> QED
    BY <2>1, PageRowsAre
<1>2. IsFiniteSet(inc) /\ inc \in SUBSET Nat
  <2> HIDE DEF P
  <2> QED
    BY <1>1, StartIndexesFinite
<1>3. N \in Nat
  BY <1>2, FS_CardinalityType
<1>4. /\ page.timeline = P
      /\ page.calls = [n \in 1 .. N |-> CallAt(s, Nth(inc, n))]
  BY DEF PaginateTrace
<1>5. \A n \in 1 .. N : /\ Nth(inc, n) \in inc
                        /\ Cardinality({j \in inc : j <= Nth(inc, n)}) = n
  <2> HIDE DEF inc
  <2> QED
    BY <1>2, NthMember
<1>6. calls = [n \in 1 .. N |-> [CallAt(s, Nth(inc, n)) EXCEPT !.ix = Nth(inc, n)]]
  <2>1. \A n \in 1 .. N : n <= N
    BY <1>3
  <2> HIDE DEF page
  <2> QED
    BY <1>4, <2>1 DEF PreparedCalls
<1>7. DOMAIN calls = 1 .. N
  BY <1>6
<1>8. ASSUME NEW j \in DOMAIN P, IsStart(P[j])
      PROVE  /\ Opens(s, first + j) /\ P[j].ix \in inc
  <2>1. Opens(s, first + j)
    BY <1>1, <1>8 DEF Opens, IsStart
  <2>2. P[j].ix # 0
    BY <1>1, <2>1, StartIndex
  <2> QED
    BY <1>8, <2>1, <2>2 DEF StartIndexes, IsStart
<1>9. ASSUME NEW n \in 1 .. N
      PROVE  /\ calls[n].ix = Nth(inc, n)
             /\ \E j \in DOMAIN P : /\ IsStart(P[j]) /\ calls[n].start = P[j].event
                                    /\ calls[n].ix = P[j].ix
  <2>1. PICK ix : ix = Nth(inc, n) /\ ix \in inc
    BY <1>5
  <2>2. CallAt(s, ix) \in Call
    BY <2>1, CallAtType
  <2>3. calls[n].ix = ix /\ calls[n].start = CallAt(s, ix).start
    <3>1. calls[n] = [CallAt(s, ix) EXCEPT !.ix = ix]
      BY <1>6, <2>1
    <3> HIDE DEF calls
    <3> QED
      BY <2>2, <3>1 DEF Call
  <2>4. PICK j \in DOMAIN P : IsStart(P[j]) /\ P[j].ix = ix
    BY <2>1 DEF StartIndexes, IsStart
  <2>5. first + j \in DOMAIN s /\ Opens(s, first + j) /\ ToolCallIndex(s, first + j) = ix
    BY <1>1, <1>8, <2>4
  <2> DEFINE i == CHOOSE i \in DOMAIN s : Opens(s, i) /\ ToolCallIndex(s, i) = ix
  <2>6. i \in DOMAIN s /\ Opens(s, i) /\ ToolCallIndex(s, i) = ix
    BY <2>5
  <2>7. CallAt(s, ix).start = s[i]
    BY DEF CallAt
  <2> HIDE DEF i
  <2>8. i = first + j
    BY <2>5, <2>6, StartIndexInjective
  <2>9. calls[n].start = P[j].event
    BY <1>1, <2>3, <2>7, <2>8
  <2> QED
    BY <2>1, <2>3, <2>4, <2>9
<1>10. ASSUME NEW j \in DOMAIN P, IsStart(P[j])
       PROVE  \E n \in 1 .. N : calls[n].ix = P[j].ix
  <2>1. P[j].ix \in inc
    BY <1>8, <1>10
  <2>2. PICK n \in 1 .. N : Nth(inc, n) = P[j].ix
    <3> HIDE DEF inc
    <3> QED
      BY <1>2, <2>1, NthOnto
  <2> QED
    BY <1>9, <2>2
<1>11. \A c, d \in 1 .. N : calls[c].ix = calls[d].ix => c = d
  <2> SUFFICES ASSUME NEW c \in 1 .. N, NEW d \in 1 .. N, calls[c].ix = calls[d].ix
               PROVE  c = d
    OBVIOUS
  <2>1. Nth(inc, c) = Nth(inc, d)
    BY <1>9
  <2>2. /\ Cardinality({j \in inc : j <= Nth(inc, c)}) = c
        /\ Cardinality({j \in inc : j <= Nth(inc, d)}) = d
    BY <1>5
  <2> QED
    BY <2>1, <2>2
<1> HIDE DEF calls, P, N
<1>12. Tells(P, calls)
  BY <1>7, <1>9, <1>10, <1>11 DEF Tells
<1> QED
  BY <1>4, <1>12 DEF calls

\* Aligning lets every row point at its call, and changes neither event nor index.
LEMMA AlignedPoints ==
    ASSUME NEW rows \in Seq(Row), NEW calls \in Seq(Call)
    PROVE  /\ \A i \in DOMAIN rows : /\ Aligned(rows, calls)[i].event = rows[i].event
                                     /\ Aligned(rows, calls)[i].ix = rows[i].ix
           /\ DOMAIN Aligned(rows, calls) = DOMAIN rows
           /\ Points(Aligned(rows, calls), calls)
<1> DEFINE at(i) == IF \E c \in DOMAIN calls : calls[c].ix = rows[i].ix
                    THEN CHOOSE c \in DOMAIN calls : calls[c].ix = rows[i].ix
                    ELSE 0
           row(i) == [rows[i] EXCEPT !.at = at(i)]
<1>1. Aligned(rows, calls) = [i \in DOMAIN rows |-> row(i)]
  BY DEF Aligned
<1>2. \A i \in DOMAIN rows :
         IF \E c \in DOMAIN calls : calls[c].ix = rows[i].ix
         THEN at(i) \in DOMAIN calls /\ calls[at(i)].ix = rows[i].ix
         ELSE at(i) = 0
  OBVIOUS
<1> HIDE DEF at
<1>3. \A i \in DOMAIN rows : row(i).event = rows[i].event /\ row(i).ix = rows[i].ix
                             /\ row(i).at = at(i)
  <2> TAKE i \in DOMAIN rows
  <2>1. rows[i] \in Row
    OBVIOUS
  <2> QED
    BY <2>1 DEF Row
<1> HIDE DEF row
<1>4. PICK A : A = Aligned(rows, calls)
  OBVIOUS
<1>5. /\ DOMAIN A = DOMAIN rows
      /\ \A i \in DOMAIN rows : A[i].event = rows[i].event /\ A[i].ix = rows[i].ix /\ A[i].at = at(i)
  BY <1>1, <1>3, <1>4
<1>6. Points(A, calls)
  BY <1>2, <1>5 DEF Points
<1> QED
  BY <1>4, <1>5, <1>6

LEMMA JoinedMembers ==
    ASSUME NEW T, NEW x \in Seq(T), NEW y \in Seq(T)
    PROVE  LET z == x \o y IN
           /\ \A i \in DOMAIN x : i \in DOMAIN z /\ z[i] = x[i]
           /\ \A i \in DOMAIN y : \E k \in DOMAIN z : z[k] = y[i]
           /\ \A i \in DOMAIN z : i \in DOMAIN x \/ \E k \in DOMAIN y : z[i] = y[k]
<1> DEFINE z == x \o y
<1>1. /\ DOMAIN x = 1 .. Len(x) /\ Len(x) \in Nat /\ DOMAIN y = 1 .. Len(y) /\ Len(y) \in Nat
      /\ DOMAIN z = 1 .. Len(x) + Len(y)
  OBVIOUS
<1>2. \A i \in 1 .. Len(x) : z[i] = x[i]
  OBVIOUS
<1>3. \A i \in 1 .. Len(y) : Len(x) + i \in 1 .. Len(x) + Len(y) /\ z[Len(x) + i] = y[i]
  BY <1>1
<1>4. \A i \in 1 .. Len(x) + Len(y) : i \notin 1 .. Len(x) =>
         i - Len(x) \in 1 .. Len(y) /\ z[i] = y[i - Len(x)]
  BY <1>1
<1> HIDE DEF z
<1>5. \A i \in DOMAIN x : i \in DOMAIN z /\ z[i] = x[i]
  BY <1>1, <1>2
<1> QED
  BY <1>1, <1>3, <1>4, <1>5 DEF z

\* Merging the calls of a page: the loaded ones stay, those with a new index are added.
LEMMA MergedTells ==
    ASSUME NEW R \in Seq(Row), NEW P \in Seq(Row), NEW C \in Seq(Call), NEW D \in Seq(Call),
           Tells(R, C), Tells(P, D)
    PROVE  Tells(R \o P, C \o AtPositions(D, FreshCalls(C, D)))
<1> DEFINE F == FreshCalls(C, D)
           A == AtPositions(D, F)
           J == R \o P
           K == C \o A
<1>1. /\ DOMAIN R = 1 .. Len(R) /\ Len(R) \in Nat /\ DOMAIN P = 1 .. Len(P) /\ Len(P) \in Nat
      /\ DOMAIN C = 1 .. Len(C) /\ Len(C) \in Nat /\ DOMAIN D = 1 .. Len(D) /\ Len(D) \in Nat
  OBVIOUS
<1>2. F \in SUBSET DOMAIN D
  BY DEF FreshCalls
<1>3. IsFiniteSet(F) /\ F \in SUBSET Nat
  <2>1. IsFiniteSet(DOMAIN D)
    BY <1>1, FS_Interval
  <2> QED
    BY <1>1, <1>2, <2>1, FS_Subset
<1>4. Cardinality(F) \in Nat
  BY <1>3, FS_CardinalityType
<1>5. A \in Seq(Call)
  BY <1>2, AtPositionsType
<1>6. A = [n \in 1 .. Cardinality(F) |-> D[Nth(F, n)]]
  BY DEF AtPositions
<1> HIDE DEF F, A
<1>7. DOMAIN A = 1 .. Cardinality(F) /\ Len(A) = Cardinality(F)
  BY <1>4, <1>6
<1>8. /\ \A n \in DOMAIN A : \E d \in DOMAIN D : A[n] = D[d]
      /\ \A d \in F : \E n \in DOMAIN A : A[n] = D[d]
  <2>1. \A n \in DOMAIN A : Nth(F, n) \in DOMAIN D
    BY <1>2, <1>3, <1>7, NthMember
  <2>2. \A d \in F : \E n \in DOMAIN A : Nth(F, n) = d
    BY <1>3, <1>7, NthOnto
  <2> QED
    BY <1>6, <1>7, <2>1, <2>2
<1>9. /\ \A i \in DOMAIN R : i \in DOMAIN J /\ J[i] = R[i]
      /\ \A i \in DOMAIN P : \E k \in DOMAIN J : J[k] = P[i]
      /\ \A i \in DOMAIN J : i \in DOMAIN R \/ \E k \in DOMAIN P : J[i] = P[k]
  <2>1. PICK T : T = Row
    OBVIOUS
  <2>2. R \in Seq(T) /\ P \in Seq(T)
    BY <2>1
  <2> QED
    BY <2>2, JoinedMembers
<1>10. /\ \A c \in DOMAIN C : c \in DOMAIN K /\ K[c] = C[c]
       /\ \A n \in DOMAIN A : \E c \in DOMAIN K : K[c] = A[n]
       /\ \A c \in DOMAIN K : c \in DOMAIN C \/ \E n \in DOMAIN A : K[c] = A[n]
  BY <1>5, JoinedMembers
<1> HIDE DEF J, K
<1>11. ASSUME NEW c \in DOMAIN K
       PROVE  \E i \in DOMAIN J :
                 IsStart(J[i]) /\ K[c].start = J[i].event /\ K[c].ix = J[i].ix
  <2>1. CASE c \in DOMAIN C
    <3>1. PICK i \in DOMAIN R :
             IsStart(R[i]) /\ C[c].start = R[i].event /\ C[c].ix = R[i].ix
      BY <2>1 DEF Tells
    <3> QED
      BY <1>9, <1>10, <2>1, <3>1
  <2>2. CASE c \notin DOMAIN C
    <3>1. PICK d \in DOMAIN D : K[c] = D[d]
      BY <1>8, <1>10, <2>2
    <3>2. PICK i \in DOMAIN P :
             IsStart(P[i]) /\ D[d].start = P[i].event /\ D[d].ix = P[i].ix
      BY DEF Tells
    <3>3. PICK k \in DOMAIN J : J[k] = P[i]
      BY <1>9
    <3> QED
      BY <3>1, <3>2, <3>3
  <2> QED
    BY <2>1, <2>2
<1>12. ASSUME NEW i \in DOMAIN J, IsStart(J[i])
       PROVE  \E c \in DOMAIN K : K[c].ix = J[i].ix
  <2>1. CASE i \in DOMAIN R
    <3>1. PICK c \in DOMAIN C : C[c].ix = R[i].ix
      BY <1>9, <1>12, <2>1 DEF Tells
    <3> QED
      BY <1>9, <1>10, <2>1, <3>1
  <2>2. CASE i \notin DOMAIN R
    <3>1. PICK k \in DOMAIN P : J[i] = P[k]
      BY <1>9, <2>2
    <3>2. PICK d \in DOMAIN D : D[d].ix = P[k].ix
      BY <1>12, <3>1 DEF Tells
    <3>3. CASE d \in F
      BY <1>8, <1>10, <3>1, <3>2, <3>3
    <3>4. CASE d \notin F
      <4>1. \A j \in 1 .. d - 1 : j \in DOMAIN D /\ j # d
        BY <1>1
      <4>2. PICK c \in DOMAIN C : C[c].ix = D[d].ix
        BY <3>4, <4>1 DEF F, FreshCalls, Tells
      <4> QED
        BY <1>10, <3>1, <3>2, <4>2
    <3> QED
      BY <3>3, <3>4
  <2> QED
    BY <2>1, <2>2
<1>13. ASSUME NEW n \in DOMAIN A, NEW m \in DOMAIN A, A[n].ix = A[m].ix
       PROVE  n = m
  <2>1. /\ Nth(F, n) \in F /\ Cardinality({j \in F : j <= Nth(F, n)}) = n
        /\ Nth(F, m) \in F /\ Cardinality({j \in F : j <= Nth(F, m)}) = m
    BY <1>3, <1>7, NthMember
  <2>2. Nth(F, n) = Nth(F, m)
    BY <1>2, <1>6, <1>7, <1>13, <2>1 DEF Tells
  <2> QED
    BY <2>1, <2>2
<1>14. ASSUME NEW c \in DOMAIN C, NEW n \in DOMAIN A
       PROVE  C[c].ix # A[n].ix
  <2>1. Nth(F, n) \in F /\ A[n] = D[Nth(F, n)]
    BY <1>3, <1>6, <1>7, NthMember
  <2> QED
    BY <2>1 DEF F, FreshCalls
<1>15. \A c \in DOMAIN K : c \notin DOMAIN C => c - Len(C) \in DOMAIN A /\ K[c] = A[c - Len(C)]
  <2>1. DOMAIN K = 1 .. Len(C) + Len(A)
    BY <1>5 DEF K
  <2> QED
    BY <1>1, <1>4, <1>5, <1>7, <2>1 DEF K
<1>16. ASSUME NEW c \in DOMAIN K, NEW d \in DOMAIN K, K[c].ix = K[d].ix
       PROVE  c = d
  <2>1. CASE c \in DOMAIN C /\ d \in DOMAIN C
    BY <1>10, <1>16, <2>1 DEF Tells
  <2>2. CASE c \in DOMAIN C /\ d \notin DOMAIN C
    BY <1>10, <1>14, <1>15, <1>16, <2>2
  <2>3. CASE c \notin DOMAIN C /\ d \in DOMAIN C
    BY <1>10, <1>14, <1>15, <1>16, <2>3
  <2>4. CASE c \notin DOMAIN C /\ d \notin DOMAIN C
    <3>1. c - Len(C) = d - Len(C)
      BY <1>13, <1>15, <1>16, <2>4
    <3>2. c \in Nat /\ d \in Nat
      BY <1>5 DEF K
    <3> QED
      BY <1>1, <3>1, <3>2
  <2> QED
    BY <2>1, <2>2, <2>3, <2>4
<1>17. Tells(J, K)
  BY <1>11, <1>12, <1>16 DEF Tells
<1> QED
  BY <1>17 DEF J, K, A, F

\* The rows of the page follow the loaded ones in the timeline the server read, so their
\* indexes go on where those of the loaded rows end.
LEMMA PageIndexed ==
    ASSUME NEW W \in Seq(Row), NEW s \in Seq(Event), Distinct(s), Len(W) <= Len(s),
           W \o PageRows(s, Len(W)) \in Seq(Row),
           Len(W \o PageRows(s, Len(W))) <= Len(s),
           \A k \in DOMAIN (W \o PageRows(s, Len(W))) :
               s[k] = (W \o PageRows(s, Len(W)))[k].event,
           Indexed(W)
    PROVE  Indexed(W \o PageRows(s, Len(W)))
<1> DEFINE P == PageRows(s, Len(W))
           J == W \o P
           n == Len(W)
<1>1. P \in Seq(Row) /\ \A i \in DOMAIN P : P[i].ix = ToolCallIndex(s, n + i)
  <2>1. n \in Nat /\ Len(s) \in Nat /\ Smaller(n, Len(s)) = n
    BY DEF Smaller
  <2>2. P \in Seq(Row) /\ DOMAIN P = 1 .. PageEnd(s, n) - Smaller(n, Len(s))
    BY <2>1, PageRowsAre
  <2>3. \A i \in 1 .. PageEnd(s, n) - Smaller(n, Len(s)) :
           P[i].ix = ToolCallIndex(s, Smaller(n, Len(s)) + i)
    BY <2>1, PageRowsAre
  <2> QED
    BY <2>1, <2>2, <2>3
<1> HIDE DEF P
<1>2. /\ DOMAIN W = 1 .. n /\ n \in Nat /\ DOMAIN P = 1 .. Len(P) /\ Len(P) \in Nat
      /\ DOMAIN s = 1 .. Len(s) /\ Len(s) \in Nat
  BY <1>1
<1>3. J \in Seq(Row) /\ DOMAIN J = 1 .. n + Len(P) /\ n + Len(P) <= Len(s)
  BY <1>1, <1>2 DEF P
<1>4. \A k \in DOMAIN J : s[k] = J[k].event
  BY DEF P
<1>5. /\ \A k \in 1 .. n : J[k] = W[k]
      /\ \A k \in DOMAIN J : k \notin 1 .. n => k - n \in DOMAIN P /\ J[k] = P[k - n]
  BY <1>1, <1>2, <1>3
<1> HIDE DEF J
<1>6. /\ RowEvents(J) \in Seq(Event) /\ DOMAIN RowEvents(J) = DOMAIN J
      /\ \A k \in DOMAIN J : RowEvents(J)[k] = J[k].event
  BY <1>3, RowEventsType
<1>7. ASSUME NEW k \in DOMAIN J
      PROVE  ToolCallIndex(s, k) = ToolCallIndex(RowEvents(J), k)
  <2>1. k \in DOMAIN s /\ \A j \in 1 .. k : j \in DOMAIN J
    BY <1>2, <1>3
  <2>2. \A j \in 1 .. k : s[j] = RowEvents(J)[j]
    BY <1>4, <1>6, <2>1
  <2> QED
    BY <1>6, <2>1, <2>2, IndexOfPrefix
<1>8. ASSUME NEW k \in 1 .. n
      PROVE  ToolCallIndex(s, k) = W[k].ix
  <2>1. /\ RowEvents(W) \in Seq(Event) /\ DOMAIN RowEvents(W) = DOMAIN W
        /\ \A j \in DOMAIN W : RowEvents(W)[j] = W[j].event
    BY RowEventsType
  <2>2. k \in DOMAIN s /\ k \in DOMAIN W /\ \A j \in 1 .. k : j \in DOMAIN J /\ j \in 1 .. n
    BY <1>2, <1>3
  <2>3. \A j \in 1 .. k : s[j] = RowEvents(W)[j]
    BY <1>2, <1>4, <1>5, <2>1, <2>2
  <2>4. ToolCallIndex(s, k) = ToolCallIndex(RowEvents(W), k)
    BY <2>1, <2>2, <2>3, IndexOfPrefix
  <2> QED
    BY <2>2, <2>4 DEF Indexed
<1>9. ASSUME NEW k \in DOMAIN J
      PROVE  J[k].ix = ToolCallIndex(s, k)
  <2>1. CASE k \in 1 .. n
    BY <1>5, <1>8, <2>1
  <2>2. CASE k \notin 1 .. n
    <3>1. k - n \in DOMAIN P /\ J[k] = P[k - n]
      BY <1>5, <2>2
    <3>2. n + (k - n) = k
      BY <1>2, <1>3
    <3> QED
      BY <1>1, <3>1, <3>2
  <2> QED
    BY <2>1, <2>2
<1>10. Indexed(J)
  BY <1>7, <1>9 DEF Indexed
<1> QED
  BY <1>10 DEF J, P

-----------------------------------------------------------------------------
\* The invariant of the calls

\* The rows shown, and the calls they point at.
Shown(rows, calls) == Indexed(rows) /\ Tells(rows, calls) /\ Points(rows, calls)

\* A page that was read brings the calls of its rows, and fits behind the loaded rows.
PageTold ==
    req.read => Tells(req.page.timeline, PreparedCalls(req.page))

CallsInv ==
    /\ Shown(remote.timeline, remote.calls)
    /\ PageTold
    /\ Usable => Indexed(Joined)

LEMMA NothingShown == Shown(NoTrace.timeline, NoTrace.calls)
<1>1. DOMAIN NoTrace.timeline = {} /\ DOMAIN NoTrace.calls = {}
  BY DEF NoTrace
<1> QED
  BY <1>1 DEF Shown, Indexed, Tells, Points

LEMMA CallsInit == Init => CallsInv
BY NothingShown DEF Init, NoRequest, CallsInv, PageTold, Usable

\* Aligning the joined rows with the merged calls makes them a trace that can be shown.
LEMMA MergeShows ==
    ASSUME PagesInv, CallsInv, Usable
    PROVE  LET merged == MergeTracePage(remote, req.page) IN
           Shown(merged.timeline, merged.calls)
<1>1. /\ remote \in Trace /\ req.page \in Trace /\ req.read
      /\ FreshRows(remote.timeline, req.page.timeline) = DOMAIN req.page.timeline
  BY DEF PagesInv, TypeOK, Request, PageReady, Usable
<1>2. PICK W, C : W = remote.timeline /\ C = remote.calls
  OBVIOUS
<1>3. PICK P, D : P = req.page.timeline /\ D = PreparedCalls(req.page)
  OBVIOUS
<1>4. W \in Seq(Row) /\ C \in Seq(Call) /\ P \in Seq(Row) /\ D \in Seq(Call)
  BY <1>1, <1>2, <1>3, PreparedType DEF Trace
<1>5. Tells(W, C) /\ Tells(P, D) /\ Indexed(W \o P)
  BY <1>1, <1>2, <1>3 DEF CallsInv, Shown, PageTold, Joined
<1>6. AtPositions(P, FreshRows(W, P)) = P
  BY <1>1, <1>2, <1>3, <1>4, AtAllPositions
<1>7. PICK J, K : J = W \o P /\ K = C \o AtPositions(D, FreshCalls(C, D))
  OBVIOUS
<1>8. J \in Seq(Row) /\ K \in Seq(Call)
  <2>1. FreshCalls(C, D) \in SUBSET DOMAIN D
    BY DEF FreshCalls
  <2>2. AtPositions(D, FreshCalls(C, D)) \in Seq(Call)
    BY <1>4, <2>1, AtPositionsType
  <2> QED
    BY <1>4, <1>7, <2>2
<1>9. Tells(J, K)
  BY <1>4, <1>5, <1>7, MergedTells
<1>10. Indexed(J)
  BY <1>5, <1>7
<1>11. PICK A : A = Aligned(J, K)
  OBVIOUS
<1>12. /\ DOMAIN A = DOMAIN J /\ Points(A, K)
       /\ \A i \in DOMAIN J : A[i].event = J[i].event /\ A[i].ix = J[i].ix
  BY <1>8, <1>11, AlignedPoints
<1>13. RowEvents(A) = RowEvents(J)
  BY <1>12 DEF RowEvents
<1>14. Indexed(A) /\ Tells(A, K)
  BY <1>9, <1>10, <1>12, <1>13 DEF Indexed, Tells, IsStart
<1>15. /\ MergeTracePage(remote, req.page).timeline = A
       /\ MergeTracePage(remote, req.page).calls = K
  BY <1>1, <1>2, <1>3, <1>6, <1>7, <1>11 DEF MergeTracePage, Trace
<1> QED
  BY <1>12, <1>14, <1>15 DEF Shown

\* What the server answers tells of its rows; if it will be used it goes on behind them.
LEMMA ReadShows ==
    ASSUME PagesInv, CallsInv, ReadPage
    PROVE  CallsInv'
<1>1. /\ store \in Seq(Event) /\ remote \in Trace /\ req \in Request /\ req.offset \in Nat
      /\ remote' = remote
      /\ req' = [req EXCEPT !.read = TRUE, !.page = PaginateTrace(store, req.offset)]
  BY DEF PagesInv, TypeOK, Request, ReadPage
<1>2. req'.page = PaginateTrace(store, req.offset)
  BY <1>1 DEF Request
<1>3. PageTold'
  BY <1>1, <1>2, PageTells DEF PageTold
<1>4. ASSUME Usable' PROVE Indexed(Joined)'
  <2>1. PICK W, P : W = remote.timeline /\ P = PageRows(store, Len(remote.timeline))
    OBVIOUS
  <2>2. /\ req'.page.timeline = P
        /\ Len(W) <= Len(store)
        /\ \A i \in DOMAIN P, r \in DOMAIN W : W[r].event # P[i].event
    BY <1>2, <1>4, <2>1, UsablePage DEF PaginateTrace
  <2>3. /\ IsFiniteSet(late) /\ Cardinality(late) < Limit
        /\ Distinct(store) /\ IsPlaced(W, store, late)
    <3>1. IsFiniteSet(late) /\ Cardinality(late) <= MaxLate /\ Distinct(store)
      BY DEF PagesInv, Overtaken
    <3>2. Cardinality(late) \in Nat
      BY <3>1, FS_CardinalityType
    <3>3. IsPlaced(W, store, late)
      BY <2>1 DEF PagesInv, RowsPlaced
    <3> QED
      BY <3>1, <3>2, <3>3, PageAssumption
  <2>4. P = PageRows(store, Len(W)) /\ W \in Seq(Row) /\ Indexed(W)
    BY <1>1, <2>1 DEF Trace, CallsInv, Shown
  <2>5. /\ W \o P \in Seq(Row) /\ Len(W \o P) <= Len(store)
        /\ \A k \in DOMAIN (W \o P) : store[k] = (W \o P)[k].event
    <3>1. \A i \in DOMAIN PageRows(store, Len(W)), r \in DOMAIN W :
             W[r].event # PageRows(store, Len(W))[i].event
      BY <2>2, <2>4
    <3>2. LET J == W \o PageRows(store, Len(W)) IN
          J \in Seq(Row) /\ Len(J) <= Len(store) /\ \A k \in DOMAIN J : store[k] = J[k].event
      BY <1>1, <2>2, <2>3, <2>4, <3>1, PagePrefix
    <3> QED
      BY <2>4, <3>2
  <2>6. Indexed(W \o P)
    BY <1>1, <2>2, <2>3, <2>4, <2>5, PageIndexed
  <2> QED
    BY <1>1, <2>1, <2>2, <2>6 DEF Joined
<1> QED
  BY <1>1, <1>3, <1>4 DEF CallsInv

LEMMA CallsStep == PagesInv /\ CallsInv /\ [Next]_vars => CallsInv'
<1> SUFFICES ASSUME PagesInv, CallsInv, [Next]_vars PROVE CallsInv'
  OBVIOUS
<1>1. ASSUME remote' = remote \/ remote' = NoTrace, ~req'.read
      PROVE  CallsInv'
  BY <1>1, NothingShown DEF CallsInv, PageTold, Usable
<1>2. ASSUME Usable, remote' = MergeTracePage(remote, req.page), ~req'.read
      PROVE  CallsInv'
  BY <1>2, MergeShows DEF CallsInv, PageTold, Usable
<1>3. ASSUME NEW e \in Event, NEW p \in 1 .. Len(store) + 1, Store(e, p)
      PROVE  CallsInv'
  BY <1>3 DEF Store, CallsInv, PageTold, Usable, Joined
<1>4. CASE LoadTrace
  BY <1>1, <1>4 DEF LoadTrace, NoRequest
<1>5. CASE Leave
  BY <1>1, <1>5 DEF Leave, NoRequest
<1>6. CASE ReadPage
  BY <1>6, ReadShows
<1>7. CASE FirstPage
  <2>1. ~req'.read /\ remote = NoTrace
    BY <1>7 DEF FirstPage, NoRequest, PagesInv, TypeOK, Requested, LoadingIsRequested
  <2>2. CASE req.page.total = 0
    BY <1>1, <1>7, <2>1, <2>2 DEF FirstPage
  <2>3. CASE req.page.total # 0
    <3>1. Usable /\ remote' = MergeTracePage(remote, req.page)
      BY <1>7, <2>1, <2>3 DEF FirstPage, Usable
    <3> QED
      BY <1>2, <2>1, <3>1
  <2> QED
    BY <2>2, <2>3
<1>8. CASE FirstPageFails
  BY <1>1, <1>8 DEF FirstPageFails, NoRequest
<1>9. CASE LoadMoreTrace
  <2>1. ~req'.read /\ remote' = remote
    BY <1>9 DEF LoadMoreTrace, NoRequest, PagesInv, Requested
  <2> QED
    BY <1>1, <2>1
<1>10. CASE NextPage
  <2>1. ~req'.read
    BY <1>10 DEF NextPage, NoRequest
  <2>2. CASE HasContiguousNextTracePage(remote, req.page, req.offset)
    <3>1. Usable /\ remote' = MergeTracePage(remote, req.page)
      BY <1>10, <2>2 DEF NextPage, Usable
    <3> QED
      BY <1>2, <2>1, <3>1
  <2>3. CASE ~HasContiguousNextTracePage(remote, req.page, req.offset)
    BY <1>1, <1>10, <2>1, <2>3 DEF NextPage
  <2> QED
    BY <2>2, <2>3
<1>11. CASE NextPageFails
  BY <1>1, <1>11 DEF NextPageFails, NoRequest
<1>12. CASE UNCHANGED vars
  BY <1>12 DEF vars, CallsInv, PageTold, Usable, Joined
<1> QED
  BY <1>3, <1>4, <1>5, <1>6, <1>7, <1>8, <1>9, <1>10, <1>11, <1>12 DEF Next

\* Equal indexes among the rows belong to one start.
LEMMA StartsApart ==
    ASSUME NEW W \in Seq(Row), Indexed(W), NEW i \in DOMAIN W, NEW k \in DOMAIN W,
           IsStart(W[i]), IsStart(W[k]), W[i].ix = W[k].ix
    PROVE  i = k
<1>1. /\ RowEvents(W) \in Seq(Event) /\ DOMAIN RowEvents(W) = DOMAIN W
      /\ \A j \in DOMAIN W : RowEvents(W)[j] = W[j].event
  BY RowEventsType
<1>2. Opens(RowEvents(W), i) /\ Opens(RowEvents(W), k)
  BY <1>1 DEF Opens, IsStart
<1>3. ToolCallIndex(RowEvents(W), i) = ToolCallIndex(RowEvents(W), k)
  BY DEF Indexed
<1> QED
  BY <1>1, <1>2, <1>3, StartIndexInjective

\* So a start points at its call.
LEMMA StartAt ==
    ASSUME NEW W \in Seq(Row), NEW C, Shown(W, C), NEW i \in DOMAIN W, IsStart(W[i])
    PROVE  W[i].at \in DOMAIN C /\ C[W[i].at].ix = W[i].ix /\ C[W[i].at].start = W[i].event
<1>1. Indexed(W) /\ Tells(W, C) /\ Points(W, C)
  BY DEF Shown
<1>2. W[i].at \in DOMAIN C /\ C[W[i].at].ix = W[i].ix
  BY <1>1 DEF Points, Tells
<1>3. PICK k \in DOMAIN W :
         IsStart(W[k]) /\ C[W[i].at].start = W[k].event /\ C[W[i].at].ix = W[k].ix
  BY <1>1, <1>2 DEF Tells
<1>4. i = k
  BY <1>1, <1>2, <1>3, StartsApart
<1> QED
  BY <1>2, <1>3, <1>4

LEMMA ShownStarts ==
    ASSUME PagesInv, CallsInv
    PROVE  StartsShowTheirCalls
<1>1. PICK W, C : W = remote.timeline /\ C = remote.calls
  OBVIOUS
<1>2. W \in Seq(Row) /\ Shown(W, C)
  <2>1. remote \in Trace
    BY DEF PagesInv, TypeOK
  <2> QED
    BY <1>1, <2>1 DEF Trace, CallsInv
<1>3. \A i \in DOMAIN W :
         IsStart(W[i]) => W[i].at \in DOMAIN C /\ C[W[i].at].start = W[i].event
  BY <1>2, StartAt
<1> QED
  BY <1>1, <1>3 DEF StartsShowTheirCalls, IsStart

-----------------------------------------------------------------------------
\* Theorems

LEMMA InvAlways == Spec => []PagesInv
BY InvInit, InvStep, PTL DEF Spec

LEMMA InvGivesRows == PagesInv => NoGapButLate /\ RowsInOrder
<1> SUFFICES ASSUME PagesInv PROVE NoGapButLate /\ RowsInOrder
  OBVIOUS
<1> DEFINE W == remote.timeline
<1>1. PICK f \in [DOMAIN W -> DOMAIN store] : PlacedAt(W, store, late, f)
  BY DEF PagesInv, RowsPlaced, IsPlaced
<1>2. Distinct(store) /\ store \in Seq(Event) /\ W \in Seq(Row)
  <2>1. Distinct(store) /\ store \in Seq(Event) /\ remote \in Trace
    BY DEF PagesInv, Overtaken, TypeOK
  <2> QED
    BY <2>1 DEF Trace
<1>3. \A r \in DOMAIN W : f[r] \in DOMAIN store /\ store[f[r]] = W[r].event
  BY <1>1 DEF PlacedAt
<1>4. \A r \in DOMAIN W, j \in DOMAIN store : store[j] = W[r].event => j = f[r]
  BY <1>2, <1>3 DEF Distinct
<1>5. NoGapButLate
  <2> SUFFICES ASSUME NEW r \in DOMAIN W, NEW i \in DOMAIN store, NEW j \in DOMAIN store,
                      i < j, store[j] = W[r].event
               PROVE  store[i] \in late \/ \E k \in DOMAIN W : W[k].event = store[i]
    BY DEF NoGapButLate
  <2>1. i < f[r]
    BY <1>4
  <2>2. store[i] \in late \/ \E k \in DOMAIN W : f[k] = i
    BY <1>1, <2>1 DEF PlacedAt
  <2> QED
    BY <1>3, <2>2
<1>6. RowsInOrder
  <2> SUFFICES ASSUME NEW i \in DOMAIN W, NEW j \in DOMAIN W,
                      NEW a \in DOMAIN store, NEW b \in DOMAIN store,
                      i < j, store[a] = W[i].event, store[b] = W[j].event
               PROVE  a < b
    BY DEF RowsInOrder
  <2>1. a = f[i] /\ b = f[j]
    BY <1>4
  <2>2. f[j] - f[i] >= j - i
    BY <1>1 DEF PlacedAt
  <2>3. /\ DOMAIN W = 1 .. Len(W) /\ Len(W) \in Nat
        /\ DOMAIN store = 1 .. Len(store) /\ Len(store) \in Nat
    BY <1>2
  <2>4. i \in Nat /\ j \in Nat /\ a \in Nat /\ b \in Nat
    BY <2>3
  <2> QED
    BY <2>1, <2>2, <2>4
<1> QED
  BY <1>5, <1>6

\* The merged rows have no gap but for events overtaken since the reading began,
\* whatever is stored between the pages (mergeTracePage behind its contiguity check).
THEOREM NoGaps == Spec => []NoGapButLate
<1>1. PagesInv => NoGapButLate
  BY InvGivesRows
<1> QED
  BY <1>1, InvAlways, PTL

\* The merged rows are in the order reconstruction gives the events, each once.
THEOREM RowsOrdered == Spec => []RowsInOrder
<1>1. PagesInv => RowsInOrder
  BY InvGivesRows
<1> QED
  BY <1>1, InvAlways, PTL

\* More rows are offered exactly while fewer are loaded than the server last counted.
THEOREM CountsCorrect == Spec => []CountsAgree
<1>1. PagesInv => CountsAgree
  BY DEF PagesInv
<1> QED
  BY <1>1, InvAlways, PTL

\* The tool row shown at a start is the call of that start, although its index was counted
\* in a timeline of another moment (alignTraceToolCallIndexes).
THEOREM StartsShowCalls == Spec => []StartsShowTheirCalls
<1>1. PagesInv /\ CallsInv => StartsShowTheirCalls
  BY ShownStarts
<1> QED
  BY <1>1, InvAlways, CallsInit, CallsStep, PTL DEF Spec

=============================================================================
