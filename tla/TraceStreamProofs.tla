-------------------------- MODULE TraceStreamProofs --------------------------
(***************************************************************************)
(* Theorems about TraceStream: whatever pages a trace was put together     *)
(* from, every message and every call has one row, every event of the      *)
(* timeline has one unless it completes a call loaded before it, and the   *)
(* rows are in the order of the timeline; and a merged page changes no row *)
(* that was shown.                                                         *)
(*                                                                         *)
(* composeApiStream goes through the rows once: the arguments are by       *)
(* induction on how many of them it has placed.                            *)
(***************************************************************************)
EXTENDS TraceStream, TracePagesProofs, SequenceTheorems, WellFoundedInduction

-----------------------------------------------------------------------------
\* Induction on the natural numbers, for a set: no number is the least one missing.
LEMMA SetInduction ==
    ASSUME NEW S, 0 \in S, \A n \in Nat : n \in S => n + 1 \in S
    PROVE  Nat \subseteq S
<1>1. PICK R : /\ IsWellFoundedOn(R, Nat)
               /\ \A x, y \in Nat : x < y => <<x, y>> \in R
  BY NatLessThanWellFounded DEF OpToRel
<1>2. PICK T : T = Nat \ S
  OBVIOUS
<1>3. SUFFICES ASSUME T # {} PROVE FALSE
  BY <1>2
<1>4. PICK x \in T : \A y \in T : ~ (<<y, x>> \in R)
  BY <1>1, <1>2, <1>3, WFMin
<1>5. x # 0 /\ x \in Nat /\ x - 1 \in Nat /\ x - 1 < x /\ x - 1 + 1 = x
  BY <1>2
<1>6. x - 1 \notin T
  BY <1>1, <1>4, <1>5
<1> QED
  BY <1>2, <1>5, <1>6

-----------------------------------------------------------------------------
\* The placing of rows, one at a time

\* What the loop has after each of the first n rows.
IsPlacing(trace, g, n) ==
    g = [k \in 0 .. n |->
            IF k = 0 THEN Unplaced ELSE Place(trace, g[k - 1], trace.timeline[k])]

LEMMA PlacingExists ==
    ASSUME NEW trace, NEW N \in Nat
    PROVE  \E g : IsPlacing(trace, g, N)
<1> DEFINE S == {n \in Nat : \E g : IsPlacing(trace, g, n)}
<1>1. 0 \in S
  <2>1. IsPlacing(trace, [k \in 0 .. 0 |-> Unplaced], 0)
    BY DEF IsPlacing
  <2> QED
    BY <2>1
<1>2. ASSUME NEW n \in Nat, n \in S
      PROVE  n + 1 \in S
  <2>1. PICK g : IsPlacing(trace, g, n)
    BY <1>2
  <2>2. PICK x : x = Place(trace, g[n], trace.timeline[n + 1])
    OBVIOUS
  <2>3. PICK h : h = [k \in 0 .. n + 1 |-> IF k = n + 1 THEN x ELSE g[k]]
    OBVIOUS
  <2>4. \A k \in 0 .. n : h[k] = g[k]
    BY <2>3
  <2>5. ASSUME NEW k \in 0 .. n + 1
        PROVE  h[k] = IF k = 0 THEN Unplaced ELSE Place(trace, h[k - 1], trace.timeline[k])
    <3>1. CASE k = n + 1
      <4>1. k # 0 /\ k - 1 = n /\ n \in 0 .. n
        BY <3>1
      <4>2. h[k] = x /\ h[k - 1] = g[n]
        BY <2>3, <2>4, <3>1, <4>1
      <4> QED
        BY <2>2, <3>1, <4>1, <4>2
    <3>2. CASE k # n + 1 /\ k # 0
      <4>1. k \in 0 .. n /\ k - 1 \in 0 .. n
        BY <3>2
      <4>2. h[k] = g[k] /\ h[k - 1] = g[k - 1]
        BY <2>4, <4>1
      <4>3. g[k] = Place(trace, g[k - 1], trace.timeline[k])
        BY <2>1, <3>2, <4>1 DEF IsPlacing
      <4> QED
        BY <3>2, <4>2, <4>3
    <3>3. CASE k # n + 1 /\ k = 0
      <4>1. k \in 0 .. n /\ h[k] = g[k]
        BY <2>4, <3>3
      <4> QED
        BY <2>1, <3>3, <4>1 DEF IsPlacing
    <3> QED
      BY <3>1, <3>2, <3>3
  <2>6. IsPlacing(trace, h, n + 1)
    BY <2>3, <2>5 DEF IsPlacing
  <2> QED
    BY <2>6
<1> HIDE DEF S
<1>3. Nat \subseteq S
  BY <1>1, <1>2, SetInduction
<1> QED
  BY <1>3 DEF S

\* So the loop is what its body says, row by row.
LEMMA PlacingIs ==
    ASSUME NEW trace, Len(trace.timeline) \in Nat
    PROVE  /\ Placing(trace)[0] = Unplaced
           /\ \A n \in 1 .. Len(trace.timeline) :
                 Placing(trace)[n] = Place(trace, Placing(trace)[n - 1], trace.timeline[n])
<1>1. PICK N \in Nat : N = Len(trace.timeline)
  OBVIOUS
<1>2. \E g : IsPlacing(trace, g, N)
  BY <1>1, PlacingExists
<1>3. Placing(trace) = CHOOSE g : IsPlacing(trace, g, N)
  BY <1>1 DEF Placing, IsPlacing
<1>4. IsPlacing(trace, Placing(trace), N)
  BY <1>2, <1>3
<1> QED
  BY <1>1, <1>4 DEF IsPlacing

-----------------------------------------------------------------------------
\* Members of a sequence at a set of positions

LEMMA AtPositionsMembers ==
    ASSUME NEW T, NEW s \in Seq(T), NEW S \in SUBSET DOMAIN s
    PROVE  /\ AtPositions(s, S) \in Seq(T)
           /\ IsFiniteSet(S) /\ S \in SUBSET Nat
           /\ Cardinality(S) \in Nat
           /\ DOMAIN AtPositions(s, S) = 1 .. Cardinality(S)
           /\ \A n \in DOMAIN AtPositions(s, S) : \E i \in S : AtPositions(s, S)[n] = s[i]
           /\ \A i \in S : \E n \in DOMAIN AtPositions(s, S) : AtPositions(s, S)[n] = s[i]
<1>1. DOMAIN s = 1 .. Len(s) /\ Len(s) \in Nat
  OBVIOUS
<1>2. IsFiniteSet(S) /\ S \in SUBSET Nat
  <2>1. IsFiniteSet(DOMAIN s)
    BY <1>1, FS_Interval
  <2> QED
    BY <1>1, <2>1, FS_Subset
<1>3. PICK N \in Nat : N = Cardinality(S)
  BY <1>2, FS_CardinalityType
<1>4. PICK A : A = AtPositions(s, S)
  OBVIOUS
<1>5. A = [n \in 1 .. N |-> s[Nth(S, n)]]
  BY <1>3, <1>4 DEF AtPositions
<1>6. \A n \in 1 .. N : Nth(S, n) \in S
  BY <1>2, <1>3, NthMember
<1>7. \A i \in S : \E n \in 1 .. N : Nth(S, n) = i
  BY <1>2, <1>3, NthOnto
<1>8. A \in Seq(T)
  BY <1>4, AtPositionsType
<1> QED
  BY <1>2, <1>3, <1>4, <1>5, <1>6, <1>7, <1>8

\* Larger positions leave the members before them where they are.
LEMMA NthMore ==
    ASSUME NEW S \in SUBSET Nat, NEW U \in SUBSET Nat, IsFiniteSet(U), S \subseteq U,
           \A i \in S, j \in U \ S : i < j, NEW n \in 1 .. Cardinality(S)
    PROVE  n \in 1 .. Cardinality(U) /\ Nth(U, n) = Nth(S, n)
<1>1. IsFiniteSet(S) /\ Cardinality(S) <= Cardinality(U)
  BY FS_Subset
<1>2. Cardinality(S) \in Nat /\ Cardinality(U) \in Nat
  BY <1>1, FS_CardinalityType
<1>3. n \in 1 .. Cardinality(U)
  BY <1>1, <1>2
<1>4. PICK i \in S : i = Nth(S, n) /\ Cardinality({j \in S : j <= i}) = n
  BY <1>1, NthMember
<1>5. PICK k \in U : k = Nth(U, n) /\ Cardinality({j \in U : j <= k}) = n
  BY <1>3, NthMember
<1>6. {j \in U : j <= i} = {j \in S : j <= i}
  <2>1. ASSUME NEW j \in U \ S PROVE ~ (j <= i)
    <3>1. i < j /\ i \in Nat /\ j \in Nat
      OBVIOUS
    <3> QED
      BY <3>1
  <2> QED
    BY <2>1
<1>7. i = k
  BY <1>4, <1>5, <1>6, RankInjective
<1> QED
  BY <1>3, <1>4, <1>5, <1>7

LEMMA AtMore ==
    ASSUME NEW T, NEW s \in Seq(T), NEW t \in Seq(T), NEW S \in SUBSET DOMAIN s,
           NEW U \in SUBSET DOMAIN t, S \subseteq U, \A i \in S, j \in U \ S : i < j,
           \A i \in S : t[i] = s[i]
    PROVE  /\ Len(AtPositions(s, S)) <= Len(AtPositions(t, U))
           /\ \A n \in DOMAIN AtPositions(s, S) :
                 /\ n \in DOMAIN AtPositions(t, U)
                 /\ AtPositions(t, U)[n] = AtPositions(s, S)[n]
<1>1. PICK A, B : A = AtPositions(s, S) /\ B = AtPositions(t, U)
  OBVIOUS
<1>2. /\ A \in Seq(T) /\ S \in SUBSET Nat /\ IsFiniteSet(S) /\ Cardinality(S) \in Nat
      /\ A = [n \in 1 .. Cardinality(S) |-> s[Nth(S, n)]]
  BY <1>1, AtPositionsMembers DEF AtPositions
<1>3. /\ B \in Seq(T) /\ U \in SUBSET Nat /\ IsFiniteSet(U) /\ Cardinality(U) \in Nat
      /\ B = [n \in 1 .. Cardinality(U) |-> t[Nth(U, n)]]
  BY <1>1, AtPositionsMembers DEF AtPositions
<1>4. \A n \in 1 .. Cardinality(S) : n \in 1 .. Cardinality(U) /\ Nth(U, n) = Nth(S, n)
  BY <1>2, <1>3, NthMore
<1>5. \A n \in 1 .. Cardinality(S) : Nth(S, n) \in S
  BY <1>2, NthMember
<1>6. ASSUME NEW n \in 1 .. Cardinality(S) PROVE n \in DOMAIN B /\ B[n] = A[n]
  <2>1. n \in DOMAIN B /\ B[n] = t[Nth(U, n)] /\ A[n] = s[Nth(S, n)]
    BY <1>2, <1>3, <1>4
  <2>2. Nth(U, n) = Nth(S, n) /\ Nth(S, n) \in S
    BY <1>4, <1>5
  <2>3. t[Nth(S, n)] = s[Nth(S, n)]
    BY <2>2
  <2> QED
    BY <2>1, <2>2, <2>3, Zenon
<1>7. Len(A) = Cardinality(S) /\ Len(B) = Cardinality(U)
  BY <1>2, <1>3
<1>8. Cardinality(S) <= Cardinality(U)
  BY <1>2, <1>3, FS_Subset
<1> QED
  BY <1>1, <1>2, <1>6, <1>7, <1>8

\* Members of a sequence without repetitions are not repeated.
LEMMA AtPositionsDistinct ==
    ASSUME NEW T, NEW s \in Seq(T), NEW S \in SUBSET DOMAIN s, Distinct(s)
    PROVE  Distinct(AtPositions(s, S))
<1>1. /\ IsFiniteSet(S) /\ S \in SUBSET Nat
      /\ DOMAIN AtPositions(s, S) = 1 .. Cardinality(S)
      /\ \A n \in 1 .. Cardinality(S) : AtPositions(s, S)[n] = s[Nth(S, n)]
  BY AtPositionsMembers DEF AtPositions
<1>2. \A n \in 1 .. Cardinality(S) :
         Nth(S, n) \in S /\ Cardinality({j \in S : j <= Nth(S, n)}) = n
  BY <1>1, NthMember
<1>3. ASSUME NEW m \in 1 .. Cardinality(S), NEW n \in 1 .. Cardinality(S),
             AtPositions(s, S)[m] = AtPositions(s, S)[n]
      PROVE  m = n
  <2>1. s[Nth(S, m)] = s[Nth(S, n)] /\ Nth(S, m) \in DOMAIN s /\ Nth(S, n) \in DOMAIN s
    BY <1>1, <1>2, <1>3
  <2>2. Nth(S, m) = Nth(S, n)
    BY <2>1 DEF Distinct
  <2>3. /\ Cardinality({j \in S : j <= Nth(S, m)}) = m
        /\ Cardinality({j \in S : j <= Nth(S, n)}) = n
    BY <1>2
  <2> QED
    BY <2>2, <2>3, Zenon
<1> QED
  BY <1>1, <1>3 DEF Distinct

\* A position after the others adds its member at the end.
LEMMA AtOneMore ==
    ASSUME NEW T, NEW s \in Seq(T), NEW S \in SUBSET DOMAIN s, NEW m \in DOMAIN s,
           \A i \in S : i < m
    PROVE  AtPositions(s, S \cup {m}) = Append(AtPositions(s, S), s[m])
<1>1. PICK U : U = S \cup {m}
  OBVIOUS
<1>2. U \in SUBSET DOMAIN s /\ m \in U /\ m \notin S
  <2>1. m \in Nat
    OBVIOUS
  <2>2. m \notin S
    BY <2>1
  <2> QED
    BY <1>1, <2>2
<1>3. /\ IsFiniteSet(S) /\ S \in SUBSET Nat /\ AtPositions(s, S) \in Seq(T)
      /\ DOMAIN AtPositions(s, S) = 1 .. Cardinality(S) /\ Cardinality(S) \in Nat
  BY AtPositionsMembers
<1>4. IsFiniteSet(U) /\ U \in SUBSET Nat
  BY <1>2, AtPositionsMembers
<1>5. PICK N \in Nat : N = Cardinality(S)
  BY <1>3
<1>6. Cardinality(U) = N + 1
  BY <1>1, <1>2, <1>3, <1>5, FS_AddElement
<1>7. ASSUME NEW n \in 1 .. N
      PROVE  Nth(U, n) = Nth(S, n)
  <2>1. \A i \in S, j \in U \ S : i < j
    BY <1>1
  <2> QED
    BY <1>1, <1>3, <1>4, <1>5, <2>1, NthMore
<1>8. Nth(U, N + 1) = m
  <2>1. N + 1 \in 1 .. Cardinality(U)
    BY <1>5, <1>6
  <2>2. PICK k \in U : k = Nth(U, N + 1) /\ Cardinality({j \in U : j <= k}) = N + 1
    BY <1>4, <2>1, NthMember
  <2>3. {j \in U : j <= m} = U
    <3>1. \A j \in U : j <= m
      BY <1>1, <1>3
    <3> QED
      BY <3>1
  <2>4. Cardinality({j \in U : j <= m}) = Cardinality({j \in U : j <= k})
    BY <1>6, <2>2, <2>3
  <2>5. m = k
    BY <1>2, <1>4, <2>4, RankInjective
  <2> QED
    BY <2>2, <2>5
<1>9. AtPositions(s, S) = [n \in 1 .. N |-> s[Nth(S, n)]]
  BY <1>5 DEF AtPositions
<1>10. AtPositions(s, U) = [n \in 1 .. N + 1 |-> s[Nth(U, n)]]
  BY <1>6 DEF AtPositions
<1>11. PICK A \in Seq(T) : A = AtPositions(s, S)
  BY <1>3
<1>12. Len(A) = N /\ DOMAIN A = 1 .. N
  BY <1>3, <1>5, <1>11
<1>13. s[m] \in T
  OBVIOUS
<1>14. PICK x \in T : x = s[m]
  BY <1>13
<1>15. PICK B : B = AtPositions(s, U)
  OBVIOUS
<1>16. /\ B \in Seq(T) /\ Len(B) = N + 1
       /\ \A n \in 1 .. N + 1 : B[n] = s[Nth(U, n)]
  <2>1. B \in Seq(T)
    BY <1>2, <1>15, AtPositionsMembers
  <2> QED
    BY <1>10, <1>15, <2>1
<1>17. /\ Append(A, x) \in Seq(T) /\ Len(Append(A, x)) = N + 1
       /\ \A n \in 1 .. N + 1 : Append(A, x)[n] = IF n = N + 1 THEN x ELSE A[n]
  BY <1>12
<1>18. ASSUME NEW n \in 1 .. N + 1
       PROVE  B[n] = Append(A, x)[n]
  <2>1. CASE n = N + 1
    BY <1>8, <1>14, <1>16, <1>17, <2>1
  <2>2. CASE n # N + 1
    <3>1. n \in 1 .. N
      BY <2>2
    <3>2. A[n] = s[Nth(S, n)]
      BY <1>9, <1>11, <3>1
    <3> QED
      BY <1>7, <1>16, <1>17, <2>2, <3>1, <3>2
  <2> QED
    BY <2>1, <2>2
<1>19. B = Append(A, x)
  BY <1>16, <1>17, <1>18, SeqEqual
<1> QED
  BY <1>1, <1>11, <1>14, <1>15, <1>19

LEMMA AtNoPositions ==
    ASSUME NEW s
    PROVE  AtPositions(s, {}) = <<>>
<1>1. Cardinality({}) = 0
  BY FS_EmptySet
<1> QED
  BY <1>1 DEF AtPositions


-----------------------------------------------------------------------------
\* Messages

LEMMA EventsOfRows ==
    ASSUME NEW W \in Seq(Row)
    PROVE  /\ EventsOf(W) \in Seq(Event) /\ DOMAIN EventsOf(W) = DOMAIN W
           /\ \A i \in DOMAIN W : EventsOf(W)[i] = W[i].event
<1>1. EventsOf(W) = RowEvents(W)
  BY DEF EventsOf, RowEvents
<1> QED
  BY <1>1, RowEventsType

\* The conversation is the messages of the rows.
LEMMA ConversationIs ==
    ASSUME NEW W \in Seq(Row)
    PROVE  /\ Conversation(W) \in Seq(Messages(W))
           /\ Messages(W) \in SUBSET Event
           /\ \A m \in Messages(W) : \E k \in DOMAIN Conversation(W) : Conversation(W)[k] = m
<1> DEFINE S == {i \in DOMAIN W : IsSpoken(W[i].event)}
<1>1. PICK E : E = EventsOf(W)
  OBVIOUS
<1>2. /\ E \in Seq(Event) /\ DOMAIN E = DOMAIN W
      /\ \A i \in DOMAIN W : E[i] = W[i].event
  BY <1>1, EventsOfRows
<1>3. S \in SUBSET DOMAIN E
  BY <1>2
<1>4. PICK C : C = AtPositions(E, S)
  OBVIOUS
<1>5. C = Conversation(W)
  BY <1>1, <1>4 DEF Conversation
<1>6. /\ C \in Seq(Event)
      /\ \A n \in DOMAIN C : \E i \in S : C[n] = E[i]
      /\ \A i \in S : \E n \in DOMAIN C : C[n] = E[i]
  <2> HIDE DEF S
  <2> QED
    BY <1>2, <1>3, <1>4, AtPositionsMembers
<1>7. /\ \A n \in DOMAIN C : C[n] \in Messages(W)
      /\ \A m \in Messages(W) : \E n \in DOMAIN C : C[n] = m
  <2>1. \A i \in S : E[i] \in Messages(W)
    BY <1>2 DEF Messages
  <2>2. \A m \in Messages(W) : \E i \in S : m = E[i]
    BY <1>2 DEF Messages
  <2> HIDE DEF S
  <2>3. \A n \in DOMAIN C : C[n] \in Messages(W)
    BY <1>6, <2>1, Zenon
  <2>4. \A m \in Messages(W) : \E n \in DOMAIN C : C[n] = m
    <3> TAKE m \in Messages(W)
    <3>1. PICK i \in S : m = E[i]
      BY <2>2
    <3>2. PICK n \in DOMAIN C : C[n] = E[i]
      BY <1>6
    <3> QED
      BY <3>1, <3>2
  <2> QED
    BY <2>3, <2>4
<1>8. C \in Seq(Messages(W))
  BY <1>6, <1>7
<1>9. Messages(W) \in SUBSET Event
  BY <1>2 DEF Messages
<1> QED
  BY <1>5, <1>7, <1>8, <1>9

RowId == [of : {"conversation", "tool", "timeline"}, n : Nat, event : SUBSET Event]

\* A message's id is its place in the conversation.
LEMMA MessageIds ==
    ASSUME NEW W \in Seq(Row), NEW m \in Messages(W)
    PROVE  /\ MessageId(W, m) \in RowId
           /\ MessageId(W, m).of = "conversation"
           /\ \A o \in Messages(W) : MessageId(W, o) = MessageId(W, m) => o = m
<1> DEFINE C == Conversation(W)
<1>1. C \in Seq(Messages(W))
  BY ConversationIs
<1> DEFINE place(x) == CHOOSE i \in DOMAIN C : C[i] = x
<1>2. \A x \in Messages(W) : place(x) \in DOMAIN C /\ C[place(x)] = x
  BY ConversationIs
<1>3. DOMAIN C \in SUBSET Nat
  BY <1>1
<1>4. \A x \in Messages(W) :
         MessageId(W, x) = [of |-> "conversation", n |-> place(x), event |-> {}]
  BY DEF MessageId
<1> HIDE DEF place, C
<1>5. place(m) \in Nat
  BY <1>2, <1>3
<1>6. \A o \in Messages(W) : MessageId(W, o) = MessageId(W, m) => place(o) = place(m)
  BY <1>4
<1>7. \A o \in Messages(W) : MessageId(W, o) = MessageId(W, m) => o = m
  BY <1>2, <1>6
<1>8. MessageId(W, m) \in RowId /\ MessageId(W, m).of = "conversation"
  BY <1>4, <1>5 DEF RowId
<1> QED
  BY <1>7, <1>8

\* Looking messages up finds messages of the conversation only.
LEMMA LookupFinds ==
    ASSUME NEW W \in Seq(Row)
    PROVE  LookupOrder(Conversation(W)) \in Seq(Messages(W))
<1>1. PICK M, C : M = Messages(W) /\ C = Conversation(W)
  OBVIOUS
<1>2. C \in Seq(M)
  BY <1>1, ConversationIs
<1>3. ASSUME NEW a, NEW b
      PROVE  Those(C, a, b) \in Seq(M)
  <2>1. PICK S \in SUBSET DOMAIN C :
           S = {k \in DOMAIN C : /\ (C[k].of \in Turnless) = a
                                 /\ (C[k].of \in Visible) = b}
    OBVIOUS
  <2>2. AtPositions(C, S) \in Seq(M)
    BY <1>2, AtPositionsType
  <2> QED
    BY <2>1, <2>2 DEF Those
<1>4. /\ Those(C, TRUE, TRUE) \in Seq(M) /\ Those(C, TRUE, FALSE) \in Seq(M)
      /\ Those(C, FALSE, TRUE) \in Seq(M) /\ Those(C, FALSE, FALSE) \in Seq(M)
  BY <1>3
<1>5. \A x, y : x \in Seq(M) /\ y \in Seq(M) => x \o y \in Seq(M)
  BY ConcatProperties
<1>6. LookupOrder(C) \in Seq(M)
  BY <1>4, <1>5, Zenon DEF LookupOrder
<1> QED
  BY <1>1, <1>6

\* What is in one of two sequences is in the joined one.
Has(s, m) == \E k \in DOMAIN s : s[k] = m

LEMMA JoinedHas ==
    ASSUME NEW T, NEW x \in Seq(T), NEW y \in Seq(T), NEW m, Has(x, m) \/ Has(y, m)
    PROVE  Has(x \o y, m)
<1>1. PICK z \in Seq(T) : z = x \o y
  <2>1. x \o y \in Seq(T)
    OBVIOUS
  <2> QED
    BY <2>1
<1>2. /\ \A i \in DOMAIN x : i \in DOMAIN z /\ z[i] = x[i]
      /\ \A i \in DOMAIN y : \E k \in DOMAIN z : z[k] = y[i]
  BY <1>1, JoinedMembers
<1>3. Has(z, m)
  BY <1>2 DEF Has
<1> QED
  BY <1>1, <1>3

\* All messages are looked up.
LEMMA LookupReaches ==
    ASSUME NEW W \in Seq(Row), NEW m \in Messages(W)
    PROVE  Has(LookupOrder(Conversation(W)), m)
<1>1. PICK M, C : M = Messages(W) /\ C = Conversation(W)
  OBVIOUS
<1>2. C \in Seq(M)
  BY <1>1, ConversationIs
<1>3. ASSUME NEW u, NEW v
      PROVE  /\ Those(C, u, v) \in Seq(M)
             /\ (m.of \in Turnless) = u /\ (m.of \in Visible) = v => Has(Those(C, u, v), m)
  <2>1. PICK S \in SUBSET DOMAIN C :
           S = {k \in DOMAIN C : /\ (C[k].of \in Turnless) = u
                                 /\ (C[k].of \in Visible) = v}
    OBVIOUS
  <2>2. Those(C, u, v) = AtPositions(C, S)
    BY <2>1 DEF Those
  <2>3. /\ AtPositions(C, S) \in Seq(M)
        /\ \A k \in S : \E n \in DOMAIN AtPositions(C, S) : AtPositions(C, S)[n] = C[k]
    BY <1>2, AtPositionsMembers
  <2>4. PICK i \in DOMAIN C : C[i] = m
    BY <1>1, ConversationIs
  <2>5. ASSUME (m.of \in Turnless) = u, (m.of \in Visible) = v PROVE i \in S
    BY <2>1, <2>4, <2>5
  <2> QED
    BY <2>2, <2>3, <2>4, <2>5 DEF Has
<1>4. PICK p \in Seq(M), q \in Seq(M), r \in Seq(M), t \in Seq(M) :
         /\ p = Those(C, TRUE, TRUE) /\ q = Those(C, TRUE, FALSE)
         /\ r = Those(C, FALSE, TRUE) /\ t = Those(C, FALSE, FALSE)
  BY <1>3
<1>5. Has(p, m) \/ Has(q, m) \/ Has(r, m) \/ Has(t, m)
  <2>1. CASE m.of \in Turnless /\ m.of \in Visible
    <3>1. (m.of \in Turnless) = TRUE /\ (m.of \in Visible) = TRUE
      BY <2>1
    <3>2. Has(Those(C, TRUE, TRUE), m)
      BY <1>3, <3>1, Zenon
    <3> QED
      BY <1>4, <3>2
  <2>2. CASE m.of \in Turnless /\ m.of \notin Visible
    <3>1. (m.of \in Turnless) = TRUE /\ (m.of \in Visible) = FALSE
      BY <2>2
    <3>2. Has(Those(C, TRUE, FALSE), m)
      BY <1>3, <3>1, Zenon
    <3> QED
      BY <1>4, <3>2
  <2>3. CASE m.of \notin Turnless /\ m.of \in Visible
    <3>1. (m.of \in Turnless) = FALSE /\ (m.of \in Visible) = TRUE
      BY <2>3
    <3>2. Has(Those(C, FALSE, TRUE), m)
      BY <1>3, <3>1, Zenon
    <3> QED
      BY <1>4, <3>2
  <2>4. CASE m.of \notin Turnless /\ m.of \notin Visible
    <3>1. (m.of \in Turnless) = FALSE /\ (m.of \in Visible) = FALSE
      BY <2>4
    <3>2. Has(Those(C, FALSE, FALSE), m)
      BY <1>3, <3>1, Zenon
    <3> QED
      BY <1>4, <3>2
  <2> QED
    BY <2>1, <2>2, <2>3, <2>4
<1>6. PICK x, y, z : x = p \o q /\ y = x \o r /\ z = y \o t
  OBVIOUS
<1>7. x \in Seq(M) /\ y \in Seq(M)
  <2>1. x \in Seq(M)
    BY <1>6
  <2> QED
    BY <1>6, <2>1
<1>8. Has(p, m) \/ Has(q, m) => Has(x, m)
  BY <1>6, JoinedHas
<1>9. Has(x, m) \/ Has(r, m) => Has(y, m)
  BY <1>6, <1>7, JoinedHas
<1>10. Has(y, m) \/ Has(t, m) => Has(z, m)
  BY <1>6, <1>7, JoinedHas
<1>11. LookupOrder(C) = z
  BY <1>4, <1>6 DEF LookupOrder
<1> QED
  BY <1>1, <1>5, <1>8, <1>9, <1>10, <1>11

Taken(rows, e, claimed) == Consumed(LookupOrder(Conversation(rows)), e, claimed)

\* A message event takes a message of its moment that is not taken, its own before others;
Takes(rows, e, claimed, m) ==
    /\ Taken(rows, e, claimed) = {m}
    /\ IsMessageEvent(e) /\ m \in Messages(rows) \ claimed /\ Moment[m.of] = Moment[e.of]
    /\ IsSpoken(e) /\ e \notin claimed => m = e

\* or none, if all messages of its moment are taken.
TakesNone(rows, e, claimed) ==
    /\ Taken(rows, e, claimed) = {}
    /\ IsSpoken(e) => e \in claimed
    /\ IsMessageEvent(e) =>
          \A m \in Messages(rows) : Moment[m.of] = Moment[e.of] => m \in claimed

LEMMA ConsumedIs ==
    ASSUME NEW W \in Seq(Row), NEW n \in DOMAIN W, NEW claimed
    PROVE  \/ TakesNone(W, W[n].event, claimed)
           \/ \E m : Takes(W, W[n].event, claimed, m)
<1>1. PICK e : e = W[n].event
  OBVIOUS
<1>2. IsSpoken(e) => IsMessageEvent(e) /\ e \in Messages(W)
  BY <1>1, StreamAssumption DEF IsSpoken, IsMessageEvent, Messages
<1>3. PICK order \in Seq(Messages(W)) : order = LookupOrder(Conversation(W))
  BY LookupFinds
<1>4. PICK atMoment \in SUBSET DOMAIN order :
         atMoment = {k \in DOMAIN order :
                        order[k] \notin claimed /\ Moment[order[k].of] = Moment[e.of]}
  OBVIOUS
<1>5. Taken(W, e, claimed) =
         IF ~IsMessageEvent(e) THEN {}
         ELSE IF IsSpoken(e) /\ e \notin claimed THEN {e}
         ELSE IF atMoment # {} THEN {order[Nth(atMoment, 1)]} ELSE {}
  BY <1>3, <1>4 DEF Taken, Consumed
<1>6. CASE ~IsMessageEvent(e)
  BY <1>1, <1>2, <1>5, <1>6 DEF TakesNone
<1>7. CASE IsMessageEvent(e) /\ IsSpoken(e) /\ e \notin claimed
  BY <1>1, <1>2, <1>5, <1>7 DEF Takes
<1>8. CASE IsMessageEvent(e) /\ ~(IsSpoken(e) /\ e \notin claimed)
  <2>1. CASE atMoment = {}
    <3>1. \A m \in Messages(W) : \E k \in DOMAIN order : order[k] = m
      BY <1>3, LookupReaches DEF Has
    <3>2. \A m \in Messages(W) : Moment[m.of] = Moment[e.of] => m \in claimed
      BY <1>4, <2>1, <3>1
    <3>3. Taken(W, e, claimed) = {} /\ (IsSpoken(e) => e \in claimed)
      BY <1>5, <1>8, <2>1
    <3> QED
      BY <1>1, <3>2, <3>3 DEF TakesNone
  <2>2. CASE atMoment # {}
    <3>1. IsFiniteSet(atMoment) /\ atMoment \in SUBSET Nat /\ Cardinality(atMoment) \in Nat
      BY AtPositionsMembers
    <3>2. 1 \in 1 .. Cardinality(atMoment)
      <4>1. Cardinality(atMoment) # 0
        BY <2>2, <3>1, FS_EmptySet
      <4> QED
        BY <3>1, <4>1
    <3>3. Nth(atMoment, 1) \in atMoment
      BY <3>1, <3>2, NthMember
    <3>4. PICK m : m = order[Nth(atMoment, 1)]
      OBVIOUS
    <3>5. m \in Messages(W) \ claimed /\ Moment[m.of] = Moment[e.of]
      BY <1>4, <3>3, <3>4
    <3>6. Taken(W, e, claimed) = {m}
      BY <1>5, <1>8, <2>2, <3>4
    <3> QED
      BY <1>1, <1>8, <3>5, <3>6 DEF Takes
  <2> QED
    BY <2>1, <2>2
<1> QED
  BY <1>6, <1>7, <1>8


-----------------------------------------------------------------------------
\* What has been placed after the first n rows

StreamEntry == [id : RowId, shows : Event, at : Event]
Accumulated == [stream : Seq(StreamEntry), claimed : SUBSET Event, emitted : SUBSET Nat]

Ats(stream) == [k \in DOMAIN stream |-> stream[k].at]

\* The id of an entry says what it shows.
Shows(trace, claimed, emitted, entry) ==
    \/ entry.shows \in claimed /\ entry.id = MessageId(trace.timeline, entry.shows)
    \/ \E c \in emitted : entry.id = ToolId(c) /\ entry.shows = trace.calls[c].start
    \/ entry.id = EventId(entry.at)

\* Each message and each call taken is shown, and no id is given twice.
Entries(trace, claimed, emitted, stream) ==
    /\ \A k \in DOMAIN stream : Shows(trace, claimed, emitted, stream[k])
    /\ \A m \in claimed : \E k \in DOMAIN stream :
          stream[k].id = MessageId(trace.timeline, m) /\ stream[k].shows = m
    /\ \A c \in emitted : \E k \in DOMAIN stream :
          stream[k].id = ToolId(c) /\ stream[k].shows = trace.calls[c].start
    /\ \A j, k \in DOMAIN stream : stream[j].id = stream[k].id => j = k

\* The calls of the starts among the first n rows.
Emitted(rows, n) == {rows[i].at : i \in {j \in 1 .. n : IsStart(rows[j])}}

\* Where the entries are, and which messages and calls are taken.
PlacedTo(trace, n, acc) ==
    LET rows == trace.timeline IN
    /\ acc \in Accumulated
    /\ acc.emitted = Emitted(rows, n)
    /\ acc.claimed \subseteq Messages(rows)
    /\ \A i \in 1 .. n : IsSpoken(rows[i].event) => rows[i].event \in acc.claimed
    /\ Ats(acc.stream) = AtPositions(EventsOf(rows), (1 .. n) \ HiddenRows(rows))
    /\ Entries(trace, acc.claimed, acc.emitted, acc.stream)

\* Ids of different kinds, or of different calls or events, differ.
LEMMA IdsApart ==
    ASSUME NEW W \in Seq(Row)
    PROVE  /\ \A m \in Messages(W), c \in Nat : MessageId(W, m) # ToolId(c)
           /\ \A m \in Messages(W) : \A e : MessageId(W, m) # EventId(e)
           /\ \A c \in Nat : \A e : ToolId(c) # EventId(e)
           /\ \A c, d \in Nat : ToolId(c) = ToolId(d) => c = d
           /\ \A e, f : EventId(e) = EventId(f) => e = f
<1>1. \A m \in Messages(W) : MessageId(W, m).of = "conversation"
  BY MessageIds
<1>2. \A c : ToolId(c).of = "tool" /\ ToolId(c).n = c
  BY DEF ToolId
<1>3. \A e : EventId(e).of = "timeline" /\ EventId(e).event = {e}
  BY DEF EventId
<1>4. \A e, f : {e} = {f} => e = f
  OBVIOUS
<1>5. \A e, f : EventId(e) = EventId(f) => e = f
  BY <1>3, <1>4
<1> QED
  BY <1>1, <1>2, <1>3, <1>5

\* One more entry, under a new id.
LEMMA OneMoreEntry ==
    ASSUME NEW trace, NEW claimed, NEW emitted, NEW stream \in Seq(StreamEntry),
           Entries(trace, claimed, emitted, stream),
           NEW claimed2, NEW emitted2, claimed \subseteq claimed2, emitted \subseteq emitted2,
           NEW x \in StreamEntry, Shows(trace, claimed2, emitted2, x),
           \A k \in DOMAIN stream : stream[k].id # x.id,
           \A m \in claimed2 \ claimed : x.id = MessageId(trace.timeline, m) /\ x.shows = m,
           \A c \in emitted2 \ emitted : x.id = ToolId(c) /\ x.shows = trace.calls[c].start
    PROVE  Entries(trace, claimed2, emitted2, Append(stream, x))
<1>1. PICK z \in Seq(StreamEntry) : z = Append(stream, x)
  <2>1. Append(stream, x) \in Seq(StreamEntry)
    OBVIOUS
  <2> QED
    BY <2>1, Zenon
<1>2. PICK N \in Nat : N = Len(stream) /\ DOMAIN stream = 1 .. N
  OBVIOUS
<1>3. /\ DOMAIN z = 1 .. N + 1 /\ z[N + 1] = x /\ N + 1 \in 1 .. N + 1
      /\ \A k \in 1 .. N : z[k] = stream[k] /\ k \in 1 .. N + 1
      /\ \A k \in 1 .. N + 1 : k # N + 1 => k \in 1 .. N
  BY <1>1, <1>2
<1>4. ASSUME NEW k \in DOMAIN z
      PROVE  Shows(trace, claimed2, emitted2, z[k])
  <2>1. CASE k = N + 1
    BY <1>3, <2>1
  <2>2. CASE k # N + 1
    <3>1. k \in DOMAIN stream /\ z[k] = stream[k]
      BY <1>2, <1>3, <2>2
    <3>2. Shows(trace, claimed, emitted, stream[k])
      BY <3>1 DEF Entries
    <3> QED
      BY <3>1, <3>2 DEF Shows
  <2> QED
    BY <2>1, <2>2
<1>5. ASSUME NEW m \in claimed2
      PROVE  \E k \in DOMAIN z : z[k].id = MessageId(trace.timeline, m) /\ z[k].shows = m
  <2>1. CASE m \in claimed
    <3>1. PICK k \in DOMAIN stream :
             stream[k].id = MessageId(trace.timeline, m) /\ stream[k].shows = m
      BY <2>1 DEF Entries
    <3> QED
      BY <1>2, <1>3, <3>1
  <2>2. CASE m \notin claimed
    BY <1>3, <2>2
  <2> QED
    BY <2>1, <2>2
<1>6. ASSUME NEW c \in emitted2
      PROVE  \E k \in DOMAIN z : z[k].id = ToolId(c) /\ z[k].shows = trace.calls[c].start
  <2>1. CASE c \in emitted
    <3>1. PICK k \in DOMAIN stream :
             stream[k].id = ToolId(c) /\ stream[k].shows = trace.calls[c].start
      BY <2>1 DEF Entries
    <3> QED
      BY <1>2, <1>3, <3>1
  <2>2. CASE c \notin emitted
    BY <1>3, <2>2
  <2> QED
    BY <2>1, <2>2
<1>7. ASSUME NEW j \in DOMAIN z, NEW k \in DOMAIN z, z[j].id = z[k].id
      PROVE  j = k
  <2>1. CASE j # N + 1 /\ k # N + 1
    <3>1. j \in DOMAIN stream /\ k \in DOMAIN stream /\ stream[j].id = stream[k].id
      BY <1>2, <1>3, <1>7, <2>1
    <3> QED
      BY <3>1 DEF Entries
  <2>2. CASE j = N + 1 /\ k # N + 1
    BY <1>2, <1>3, <1>7, <2>2
  <2>3. CASE j # N + 1 /\ k = N + 1
    BY <1>2, <1>3, <1>7, <2>3
  <2> QED
    BY <2>1, <2>2, <2>3
<1>8. Entries(trace, claimed2, emitted2, z)
  BY <1>4, <1>5, <1>6, <1>7 DEF Entries
<1> QED
  BY <1>1, <1>8

LEMMA OneMoreAt ==
    ASSUME NEW stream \in Seq(StreamEntry), NEW x \in StreamEntry
    PROVE  /\ Ats(stream) \in Seq(Event)
           /\ Ats(Append(stream, x)) = Append(Ats(stream), x.at)
<1>1. PICK N \in Nat : N = Len(stream) /\ DOMAIN stream = 1 .. N
  OBVIOUS
<1>2. PICK z \in Seq(StreamEntry) : z = Append(stream, x)
  <2>1. Append(stream, x) \in Seq(StreamEntry)
    OBVIOUS
  <2> QED
    BY <2>1, Zenon
<1>3. /\ DOMAIN z = 1 .. N + 1 /\ z[N + 1] = x /\ N + 1 \in 1 .. N + 1
      /\ \A k \in 1 .. N : z[k] = stream[k]
      /\ \A k \in 1 .. N + 1 : k # N + 1 => k \in 1 .. N
  BY <1>1, <1>2
<1>4. x.at \in Event /\ \A k \in 1 .. N : stream[k].at \in Event
  <2>1. \A k \in 1 .. N : stream[k] \in StreamEntry
    BY <1>1
  <2> QED
    BY <2>1 DEF StreamEntry
<1>5. PICK A : A = Ats(stream)
  OBVIOUS
<1>6. PICK B : B = Ats(z)
  OBVIOUS
<1>7. A \in Seq(Event) /\ Len(A) = N /\ \A k \in 1 .. N : A[k] = stream[k].at
  <2>1. A = [k \in 1 .. N |-> stream[k].at]
    BY <1>1, <1>5 DEF Ats
  <2> QED
    BY <1>4, <2>1
<1>8. B \in Seq(Event) /\ Len(B) = N + 1 /\ \A k \in 1 .. N + 1 : B[k] = z[k].at
  <2>1. B = [k \in 1 .. N + 1 |-> z[k].at]
    BY <1>3, <1>6 DEF Ats
  <2>2. \A k \in 1 .. N + 1 : z[k].at \in Event
    BY <1>3, <1>4
  <2> QED
    BY <2>1, <2>2
<1>9. /\ Append(A, x.at) \in Seq(Event) /\ Len(Append(A, x.at)) = N + 1
      /\ \A k \in 1 .. N + 1 : Append(A, x.at)[k] = IF k = N + 1 THEN x.at ELSE A[k]
  BY <1>4, <1>7
<1>10. \A k \in 1 .. N + 1 : B[k] = Append(A, x.at)[k]
  BY <1>3, <1>7, <1>8, <1>9
<1>11. B = Append(A, x.at)
  BY <1>8, <1>9, <1>10, SeqEqual
<1> QED
  BY <1>2, <1>5, <1>6, <1>7, <1>11

-----------------------------------------------------------------------------
\* The rows and the calls of a trace that was put together

Ready(trace) ==
    /\ trace \in Trace
    /\ Shown(trace.timeline, trace.calls)
    /\ Distinct(EventsOf(trace.timeline))

LEMMA ReadyRows ==
    ASSUME NEW trace, Ready(trace)
    PROVE  LET W == trace.timeline IN
           /\ W \in Seq(Row) /\ DOMAIN W = 1 .. Len(W) /\ Len(W) \in Nat
           /\ trace.calls \in Seq(Call) /\ DOMAIN trace.calls \in SUBSET (Nat \ {0})
           /\ \A i \in DOMAIN W : W[i].event \in Event
           /\ \A i, j \in DOMAIN W : W[i].event = W[j].event => i = j
<1>1. PICK W, C : W = trace.timeline /\ C = trace.calls
  OBVIOUS
<1>2. W \in Seq(Row) /\ C \in Seq(Call) /\ Distinct(EventsOf(W))
  BY <1>1 DEF Ready, Trace
<1>3. /\ EventsOf(W) \in Seq(Event) /\ DOMAIN EventsOf(W) = DOMAIN W
      /\ \A i \in DOMAIN W : EventsOf(W)[i] = W[i].event
  BY <1>2, EventsOfRows
<1>4. \A i, j \in DOMAIN W : W[i].event = W[j].event => i = j
  BY <1>2, <1>3 DEF Distinct
<1>5. \A i \in DOMAIN W : W[i].event \in Event
  BY <1>3
<1>6. DOMAIN W = 1 .. Len(W) /\ Len(W) \in Nat /\ DOMAIN C \in SUBSET (Nat \ {0})
  BY <1>2
<1> QED
  BY <1>1, <1>2, <1>4, <1>5, <1>6

\* Each start points at a call of its own, and each call has a start pointing at it.
LEMMA StartsAndCalls ==
    ASSUME NEW trace, Ready(trace)
    PROVE  LET W == trace.timeline
               C == trace.calls
           IN  /\ \A i \in DOMAIN W : IsStart(W[i]) =>
                     W[i].at \in DOMAIN C /\ C[W[i].at].start = W[i].event
               /\ \A i, j \in DOMAIN W :
                     IsStart(W[i]) /\ IsStart(W[j]) /\ W[i].at = W[j].at => i = j
               /\ \A c \in DOMAIN C : \E i \in DOMAIN W : IsStart(W[i]) /\ W[i].at = c
<1>1. PICK W, C : W = trace.timeline /\ C = trace.calls
  OBVIOUS
<1>2. W \in Seq(Row) /\ Shown(W, C)
  BY <1>1 DEF Ready, Trace
<1>3. Indexed(W) /\ Tells(W, C)
  BY <1>2 DEF Shown
<1>4. \A i \in DOMAIN W : IsStart(W[i]) =>
         W[i].at \in DOMAIN C /\ C[W[i].at].ix = W[i].ix /\ C[W[i].at].start = W[i].event
  BY <1>2, StartAt
<1>5. ASSUME NEW i \in DOMAIN W, NEW j \in DOMAIN W, IsStart(W[i]), IsStart(W[j]),
             W[i].at = W[j].at
      PROVE  i = j
  <2>1. W[i].ix = W[j].ix
    BY <1>4, <1>5
  <2> QED
    BY <1>2, <1>3, <1>5, <2>1, StartsApart
<1>6. ASSUME NEW c \in DOMAIN C
      PROVE  \E i \in DOMAIN W : IsStart(W[i]) /\ W[i].at = c
  <2>1. PICK i \in DOMAIN W : IsStart(W[i]) /\ C[c].ix = W[i].ix
    BY <1>3 DEF Tells
  <2>2. W[i].at \in DOMAIN C /\ C[W[i].at].ix = C[c].ix
    BY <1>4, <2>1
  <2>3. W[i].at = c
    BY <1>3, <2>2 DEF Tells
  <2> QED
    BY <2>1, <2>3
<1> QED
  BY <1>1, <1>4, <1>5, <1>6

\* A completion points at a start before it exactly if it completes one of those.
LEMMA CompletionsAndStarts ==
    ASSUME NEW trace, Ready(trace), NEW i \in DOMAIN trace.timeline,
           trace.timeline[i].event.kind = "PostToolUse"
    PROVE  LET W == trace.timeline IN
           (\E j \in 1 .. i - 1 : IsStart(W[j]) /\ W[j].at = W[i].at)
               <=> \E j \in 1 .. i - 1 : W[j].event = Pre(W[i].event.of)
<1>1. PICK W, C : W = trace.timeline /\ C = trace.calls
  OBVIOUS
<1>2. W \in Seq(Row) /\ C \in Seq(Call) /\ Shown(W, C)
  BY <1>1 DEF Ready, Trace
<1>3. Indexed(W) /\ Tells(W, C) /\ Points(W, C)
  BY <1>2 DEF Shown
<1>4. /\ i \in DOMAIN W /\ W[i].event.kind = "PostToolUse"
      /\ i \in Nat /\ \A j \in 1 .. i - 1 : j \in DOMAIN W /\ j # i
  BY <1>1, <1>2
<1>5. PICK E : E = RowEvents(W)
  OBVIOUS
<1>6. /\ E \in Seq(Event) /\ DOMAIN E = DOMAIN W
      /\ \A j \in DOMAIN W : E[j] = W[j].event
  BY <1>2, <1>5, RowEventsType
<1>7. \A j \in DOMAIN W : W[j].ix = ToolCallIndex(E, j)
  BY <1>3, <1>5 DEF Indexed
<1>8. \A j \in DOMAIN W : IsStart(W[j]) => Opens(E, j) /\ W[j].at \in DOMAIN C
                                           /\ C[W[j].at].ix = W[j].ix
  <2>1. \A j \in DOMAIN W : IsStart(W[j]) => Opens(E, j)
    BY <1>6 DEF Opens, IsStart
  <2> QED
    BY <1>2, <2>1, StartAt
<1>9. ASSUME NEW j \in 1 .. i - 1, IsStart(W[j]), W[j].at = W[i].at
      PROVE  \E k \in 1 .. i - 1 : W[k].event = Pre(W[i].event.of)
  <2>1. W[i].at \in DOMAIN C /\ C[W[i].at].ix = W[j].ix
    BY <1>4, <1>8, <1>9
  <2>2. 0 \notin DOMAIN C
    BY <1>2
  <2>3. C[W[i].at].ix = W[i].ix
    BY <1>3, <1>4, <2>1, <2>2 DEF Points
  <2>4. ToolCallIndex(E, i) = ToolCallIndex(E, j)
    BY <1>4, <1>7, <2>1, <2>3
  <2>5. ~Opens(E, i)
    BY <1>4, <1>6, <1>8, <1>9, <2>4, StartIndexInjective
  <2> QED
    BY <1>4, <1>6, <2>5 DEF Opens
<1>10. ASSUME NEW j \in 1 .. i - 1, W[j].event = Pre(W[i].event.of)
       PROVE  \E k \in 1 .. i - 1 : IsStart(W[k]) /\ W[k].at = W[i].at
  <2>1. ~Opens(E, i)
    BY <1>4, <1>6, <1>10 DEF Opens
  <2> DEFINE k == CHOOSE k \in 1 .. i - 1 : E[k] = Pre(E[i].of)
  <2>2. k \in 1 .. i - 1 /\ E[k] = Pre(E[i].of)
    BY <1>4, <1>6, <1>10
  <2>3. OpenedAt(E, i) = k
    BY <2>1 DEF OpenedAt
  <2> HIDE DEF k
  <2>4. IsStart(W[k]) /\ k \in DOMAIN W
    BY <1>4, <1>6, <2>2 DEF IsStart, Pre
  <2>5. ToolCallIndex(E, i) = Cardinality({x \in 1 .. k : Opens(E, x)})
    BY <1>4, <1>6, <2>3 DEF ToolCallIndex
  <2>6. ToolCallIndex(E, k) = Cardinality({x \in 1 .. k : Opens(E, x)})
    BY <1>6, <1>8, <2>4, StartIndex
  <2>7. W[i].ix = W[k].ix
    BY <1>4, <1>7, <2>4, <2>5, <2>6
  <2>8. W[k].at \in DOMAIN C /\ C[W[k].at].ix = W[i].ix
    BY <1>8, <2>4, <2>7
  <2>9. W[i].at \in DOMAIN C /\ C[W[i].at].ix = W[i].ix
    BY <1>3, <1>4, <2>8 DEF Points
  <2>10. W[k].at = W[i].at
    BY <1>3, <2>8, <2>9 DEF Tells
  <2> QED
    BY <2>2, <2>4, <2>10
<1> QED
  BY <1>1, <1>9, <1>10


-----------------------------------------------------------------------------
\* One row is placed

\* The four ways a row is placed exclude each other.
LEMMA PlaceTakesMessage ==
    ASSUME NEW trace, NEW acc \in Accumulated, NEW row,
           Taken(trace.timeline, row.event, acc.claimed) # {}, IsMessageEvent(row.event)
    PROVE  LET m == CHOOSE m \in Taken(trace.timeline, row.event, acc.claimed) : TRUE IN
           Place(trace, acc, row) =
              [stream  |-> Append(acc.stream, Entry(MessageId(trace.timeline, m), m, row.event)),
               claimed |-> acc.claimed \cup {m},
               emitted |-> acc.emitted]
<1>1. ~EmitsTool(trace.timeline, row, acc.emitted) /\ ~Hides(row, acc.emitted)
  BY DEF IsMessageEvent, EmitsTool, Hides
<1> QED
  BY <1>1 DEF Place, PlaceTaking, Taken, Accumulated

LEMMA PlaceEmitsTool ==
    ASSUME NEW trace, NEW acc \in Accumulated, NEW row,
           Taken(trace.timeline, row.event, acc.claimed) = {},
           EmitsTool(trace.timeline, row, acc.emitted)
    PROVE  Place(trace, acc, row) =
              [stream  |-> Append(acc.stream,
                                  Entry(ToolId(row.at), trace.calls[row.at].start, row.event)),
               claimed |-> acc.claimed,
               emitted |-> acc.emitted \cup {row.at}]
<1>1. ~Hides(row, acc.emitted)
  BY DEF EmitsTool, Hides
<1> QED
  BY <1>1 DEF Place, PlaceTaking, Taken, Accumulated

LEMMA PlaceHides ==
    ASSUME NEW trace, NEW acc \in Accumulated, NEW row,
           Taken(trace.timeline, row.event, acc.claimed) = {},
           Hides(row, acc.emitted)
    PROVE  Place(trace, acc, row) = acc
<1>1. ~EmitsTool(trace.timeline, row, acc.emitted)
  BY DEF EmitsTool, Hides
<1> QED
  BY <1>1 DEF Place, PlaceTaking, Taken

LEMMA PlaceShowsEvent ==
    ASSUME NEW trace, NEW acc \in Accumulated, NEW row,
           Taken(trace.timeline, row.event, acc.claimed) = {},
           ~EmitsTool(trace.timeline, row, acc.emitted), ~Hides(row, acc.emitted)
    PROVE  Place(trace, acc, row) =
              [stream  |-> Append(acc.stream, Entry(EventId(row.event), row.event, row.event)),
               claimed |-> acc.claimed,
               emitted |-> acc.emitted]
BY DEF Place, PlaceTaking, Taken, Accumulated


LEMMA EmittedByRow ==
    ASSUME NEW W \in Seq(Row), NEW n \in DOMAIN W
    PROVE  Emitted(W, n) = Emitted(W, n - 1) \cup (IF IsStart(W[n]) THEN {W[n].at} ELSE {})
<1>1. n \in Nat \ {0} /\ n \in 1 .. n /\ n \notin 1 .. n - 1
      /\ \A j : j \in 1 .. n <=> j \in 1 .. n - 1 \/ j = n
  OBVIOUS
<1>2. CASE IsStart(W[n])
  <2>1. {j \in 1 .. n : IsStart(W[j])} = {j \in 1 .. n - 1 : IsStart(W[j])} \cup {n}
    BY <1>1, <1>2
  <2> QED
    BY <1>2, <2>1 DEF Emitted
<1>3. CASE ~IsStart(W[n])
  <2>1. {j \in 1 .. n : IsStart(W[j])} = {j \in 1 .. n - 1 : IsStart(W[j])}
    BY <1>1, <1>3
  <2> QED
    BY <1>3, <2>1 DEF Emitted
<1> QED
  BY <1>2, <1>3

LEMMA PlacedPositions ==
    ASSUME NEW trace, Ready(trace), NEW n \in DOMAIN trace.timeline
    PROVE  LET W == trace.timeline
               H == HiddenRows(W)
               E == EventsOf(W)
           IN  /\ n \in H => (1 .. n) \ H = (1 .. n - 1) \ H
               /\ n \notin H => AtPositions(E, (1 .. n) \ H) =
                                    Append(AtPositions(E, (1 .. n - 1) \ H), W[n].event)
<1>1. PICK W \in Seq(Row) : W = trace.timeline
  BY ReadyRows, Zenon
<1>2. PICK H : H = HiddenRows(W)
  OBVIOUS
<1>3. /\ n \in DOMAIN W /\ DOMAIN W = 1 .. Len(W) /\ Len(W) \in Nat /\ n \in Nat
      /\ \A j : j \in 1 .. n <=> j \in 1 .. n - 1 \/ j = n
  BY <1>1
<1>4. n \in H => (1 .. n) \ H = (1 .. n - 1) \ H
  BY <1>3
<1>5. ASSUME n \notin H
      PROVE  AtPositions(EventsOf(W), (1 .. n) \ H) =
                 Append(AtPositions(EventsOf(W), (1 .. n - 1) \ H), W[n].event)
  <2>1. PICK E \in Seq(Event) : E = EventsOf(W) /\ DOMAIN E = DOMAIN W /\ E[n] = W[n].event
    BY <1>1, <1>3, EventsOfRows, Zenon
  <2>2. PICK S : S = (1 .. n - 1) \ H
    OBVIOUS
  <2>3. S \in SUBSET DOMAIN E /\ n \in DOMAIN E /\ \A i \in S : i < n
    BY <1>3, <2>1, <2>2
  <2>4. (1 .. n) \ H = S \cup {n}
    BY <1>3, <1>5, <2>2
  <2>5. AtPositions(E, S \cup {n}) = Append(AtPositions(E, S), E[n])
    BY <2>3, AtOneMore
  <2> QED
    BY <2>1, <2>2, <2>4, <2>5
<1> QED
  BY <1>1, <1>2, <1>4, <1>5

\* A row that is shown adds one entry.
LEMMA OneMorePlaced ==
    ASSUME NEW trace, Ready(trace), NEW n \in DOMAIN trace.timeline,
           NEW acc, PlacedTo(trace, n - 1, acc), n \notin HiddenRows(trace.timeline),
           NEW claimed2 \in SUBSET Messages(trace.timeline),
           NEW emitted2, emitted2 = Emitted(trace.timeline, n), emitted2 \in SUBSET Nat,
           acc.claimed \subseteq claimed2, acc.emitted \subseteq emitted2,
           IsSpoken(trace.timeline[n].event) => trace.timeline[n].event \in claimed2,
           NEW x \in StreamEntry, x.at = trace.timeline[n].event,
           Shows(trace, claimed2, emitted2, x),
           \A k \in DOMAIN acc.stream : acc.stream[k].id # x.id,
           \A m \in claimed2 \ acc.claimed : x.id = MessageId(trace.timeline, m) /\ x.shows = m,
           \A c \in emitted2 \ acc.emitted : x.id = ToolId(c) /\ x.shows = trace.calls[c].start
    PROVE  PlacedTo(trace, n, [stream  |-> Append(acc.stream, x),
                               claimed |-> claimed2, emitted |-> emitted2])
<1>1. PICK W \in Seq(Row) : W = trace.timeline
  BY ReadyRows, Zenon
<1>2. PICK stream \in Seq(StreamEntry) : stream = acc.stream
  BY DEF PlacedTo, Accumulated
<1>3. PICK z : z = [stream  |-> Append(stream, x), claimed |-> claimed2, emitted |-> emitted2]
  OBVIOUS
<1>4. z.stream = Append(stream, x) /\ z.claimed = claimed2 /\ z.emitted = emitted2
  BY <1>3
<1>5. z \in Accumulated
  <2>1. Append(stream, x) \in Seq(StreamEntry)
    OBVIOUS
  <2>2. claimed2 \in SUBSET Event
    BY <1>1, ConversationIs
  <2> QED
    BY <1>3, <2>1, <2>2 DEF Accumulated
<1>6. \A i \in 1 .. n : IsSpoken(W[i].event) => W[i].event \in claimed2
  <2> TAKE i \in 1 .. n
  <2>1. CASE i = n
    BY <1>1, <2>1
  <2>2. CASE i # n
    <3>1. i \in 1 .. n - 1
      BY <1>1, <2>2
    <3> QED
      BY <1>1, <3>1 DEF PlacedTo
  <2> QED
    BY <2>1, <2>2
<1>7. Ats(Append(stream, x)) = AtPositions(EventsOf(W), (1 .. n) \ HiddenRows(W))
  <2>1. Ats(Append(stream, x)) = Append(Ats(stream), x.at)
    BY OneMoreAt
  <2>2. Ats(stream) = AtPositions(EventsOf(W), (1 .. n - 1) \ HiddenRows(W))
    BY <1>1, <1>2 DEF PlacedTo
  <2>3. AtPositions(EventsOf(W), (1 .. n) \ HiddenRows(W)) =
            Append(AtPositions(EventsOf(W), (1 .. n - 1) \ HiddenRows(W)), W[n].event)
    BY <1>1, PlacedPositions
  <2> QED
    BY <1>1, <2>1, <2>2, <2>3
<1>8. Entries(trace, claimed2, emitted2, Append(stream, x))
  <2>1. Entries(trace, acc.claimed, acc.emitted, stream)
    BY <1>2 DEF PlacedTo
  <2>2. \A k \in DOMAIN stream : stream[k].id # x.id
    BY <1>2
  <2> QED
    BY <2>1, <2>2, OneMoreEntry
<1>9. PlacedTo(trace, n, z)
  BY <1>1, <1>4, <1>5, <1>6, <1>7, <1>8 DEF PlacedTo
<1> QED
  BY <1>2, <1>3, <1>9


\* A message or a call that is not taken, and the next event, have ids that are not given.
LEMMA FreeIds ==
    ASSUME NEW trace, Ready(trace), NEW n \in DOMAIN trace.timeline,
           NEW acc, PlacedTo(trace, n - 1, acc), NEW k \in DOMAIN acc.stream
    PROVE  LET W == trace.timeline IN
           /\ \A m \in Messages(W) \ acc.claimed : acc.stream[k].id # MessageId(W, m)
           /\ \A c \in Nat \ acc.emitted : acc.stream[k].id # ToolId(c)
           /\ acc.stream[k].id # EventId(W[n].event)
<1>1. PICK W \in Seq(Row) : W = trace.timeline
  BY ReadyRows, Zenon
<1>2. PICK x : x = acc.stream[k]
  OBVIOUS
<1>3. Shows(trace, acc.claimed, acc.emitted, x)
  BY <1>2 DEF PlacedTo, Entries
<1>4. acc.claimed \in SUBSET Messages(W) /\ acc.emitted \in SUBSET Nat
  BY <1>1 DEF PlacedTo, Accumulated
<1>5. x.at # W[n].event
  <2>1. PICK E \in Seq(Event) : /\ E = EventsOf(W) /\ DOMAIN E = DOMAIN W
                               /\ \A i \in DOMAIN W : E[i] = W[i].event
    BY <1>1, EventsOfRows, Zenon
  <2>2. PICK S : S = (1 .. n - 1) \ HiddenRows(W)
    OBVIOUS
  <2>3. S \in SUBSET DOMAIN E /\ \A i \in S : i # n /\ i \in DOMAIN W
    BY <1>1, <2>1, <2>2
  <2>4. Ats(acc.stream) = AtPositions(E, S)
    BY <1>1, <2>1, <2>2 DEF PlacedTo
  <2>5. k \in DOMAIN Ats(acc.stream) /\ Ats(acc.stream)[k] = x.at
    BY <1>2 DEF Ats
  <2>6. PICK i \in S : AtPositions(E, S)[k] = E[i]
    BY <2>3, <2>4, <2>5, AtPositionsMembers
  <2>7. x.at = W[i].event /\ i \in DOMAIN W /\ i # n
    BY <2>1, <2>3, <2>4, <2>5, <2>6
  <2>8. \A a, b \in DOMAIN W : W[a].event = W[b].event => a = b
    BY <1>1, ReadyRows
  <2> QED
    BY <1>1, <2>7, <2>8
<1>6. ASSUME NEW m \in Messages(W) \ acc.claimed
      PROVE  x.id # MessageId(W, m)
  <2>1. CASE x.shows \in acc.claimed /\ x.id = MessageId(W, x.shows)
    BY <1>4, <1>6, <2>1, MessageIds
  <2>2. CASE \E c \in acc.emitted : x.id = ToolId(c)
    BY <1>4, <1>6, <2>2, IdsApart
  <2>3. CASE x.id = EventId(x.at)
    BY <1>6, <2>3, IdsApart
  <2> QED
    BY <1>1, <1>3, <2>1, <2>2, <2>3 DEF Shows
<1>7. ASSUME NEW c \in Nat \ acc.emitted
      PROVE  x.id # ToolId(c)
  <2>1. CASE x.shows \in acc.claimed /\ x.id = MessageId(W, x.shows)
    BY <1>4, <1>7, <2>1, IdsApart
  <2>2. CASE \E d \in acc.emitted : x.id = ToolId(d)
    BY <1>4, <1>7, <2>2, IdsApart
  <2>3. CASE x.id = EventId(x.at)
    BY <1>7, <2>3, IdsApart
  <2> QED
    BY <1>1, <1>3, <2>1, <2>2, <2>3 DEF Shows
<1>8. x.id # EventId(W[n].event)
  <2>1. CASE x.shows \in acc.claimed /\ x.id = MessageId(W, x.shows)
    BY <1>4, <2>1, IdsApart
  <2>2. CASE \E d \in acc.emitted : x.id = ToolId(d)
    BY <1>4, <2>2, IdsApart
  <2>3. CASE x.id = EventId(x.at)
    BY <1>5, <2>3, IdsApart
  <2> QED
    BY <1>1, <1>3, <2>1, <2>2, <2>3 DEF Shows
<1> QED
  BY <1>1, <1>2, <1>6, <1>7, <1>8

\* What is known of the next row: a start points at a call that is not shown yet, and a
\* completion is hidden if its start was placed.
LEMMA NextRow ==
    ASSUME NEW trace, Ready(trace), NEW n \in DOMAIN trace.timeline,
           NEW acc, PlacedTo(trace, n - 1, acc)
    PROVE  LET W == trace.timeline
               row == W[n]
           IN  /\ row.event \in Event /\ n \in Nat \ {0}
               /\ Emitted(W, n) = acc.emitted \cup (IF IsStart(row) THEN {row.at} ELSE {})
               /\ n \in HiddenRows(W) <=> Hides(row, acc.emitted)
               /\ IsStart(row) => /\ trace.calls[row.at].start = row.event
                                  /\ row.at \in Nat \ acc.emitted
                                  /\ EmitsTool(W, row, acc.emitted)
<1> DEFINE W == trace.timeline
           C == trace.calls
           row == W[n]
           e == row.event
<1>1. W \in Seq(Row)
  BY ReadyRows
<1>2. C \in Seq(Call)
  BY ReadyRows
<1>3. acc.emitted = Emitted(W, n - 1)
  BY <1>1 DEF PlacedTo
<1>4. e \in Event /\ n \in Nat \ {0}
  <2>1. row \in Row
    BY <1>1
  <2> QED
    BY <1>1, <2>1 DEF Row
<1>5. Emitted(W, n) = acc.emitted \cup (IF IsStart(row) THEN {row.at} ELSE {})
  BY <1>1, <1>3, EmittedByRow
<1>6. \A a : a \in acc.emitted <=> \E j \in 1 .. n - 1 : IsStart(W[j]) /\ W[j].at = a
  BY <1>3 DEF Emitted
<1>7. \A j \in 1 .. n - 1 : j \in DOMAIN W /\ j # n
  BY <1>1
<1>8. n \in HiddenRows(W) <=> Hides(row, acc.emitted)
  <2>1. CASE e.kind = "PostToolUse"
    <3>1. (\E j \in 1 .. n - 1 : IsStart(W[j]) /\ W[j].at = W[n].at)
              <=> \E j \in 1 .. n - 1 : W[j].event = Pre(W[n].event.of)
      BY <1>1, <2>1, CompletionsAndStarts
    <3> QED
      BY <1>1, <1>6, <2>1, <3>1 DEF HiddenRows, Hides
  <2>2. CASE e.kind # "PostToolUse"
    BY <2>2 DEF HiddenRows, Hides
  <2> QED
    BY <2>1, <2>2
<1>9. ASSUME IsStart(row)
      PROVE  C[row.at].start = e /\ row.at \in Nat \ acc.emitted /\ EmitsTool(W, row, acc.emitted)
  <2>1. row.at \in DOMAIN C /\ C[row.at].start = e
    BY <1>1, <1>2, <1>9, StartsAndCalls
  <2>2. row.at \in Nat \ {0}
    BY <2>1, ReadyRows
  <2>3. \A i, j \in DOMAIN W : IsStart(W[i]) /\ IsStart(W[j]) /\ W[i].at = W[j].at => i = j
    BY <1>1, StartsAndCalls
  <2>4. row.at \notin acc.emitted
    BY <1>1, <1>6, <1>7, <1>9, <2>3
  <2> QED
    BY <1>9, <2>1, <2>2, <2>4 DEF EmitsTool, IsStart
<1> QED
  BY <1>4, <1>5, <1>8, <1>9

\* The four things that can be done with the next row: it takes a message,
PlacesMessage(trace, n, acc, m) ==
    LET W == trace.timeline
        e == W[n].event
    IN  /\ Takes(W, e, acc.claimed, m)
        /\ ~IsStart(W[n]) /\ n \notin HiddenRows(W)
        /\ Place(trace, acc, W[n]) =
              [stream  |-> Append(acc.stream, Entry(MessageId(W, m), m, e)),
               claimed |-> acc.claimed \cup {m}, emitted |-> acc.emitted]

\* it shows its call,
PlacesCall(trace, n, acc) ==
    LET W == trace.timeline
        e == W[n].event
    IN  /\ TakesNone(W, e, acc.claimed)
        /\ IsStart(W[n]) /\ n \notin HiddenRows(W)
        /\ Place(trace, acc, W[n]) =
              [stream  |-> Append(acc.stream, Entry(ToolId(W[n].at), e, e)),
               claimed |-> acc.claimed, emitted |-> acc.emitted \cup {W[n].at}]

\* it is hidden,
PlacesNothing(trace, n, acc) ==
    LET W == trace.timeline
    IN  /\ TakesNone(W, W[n].event, acc.claimed)
        /\ ~IsStart(W[n]) /\ n \in HiddenRows(W)
        /\ Place(trace, acc, W[n]) = acc

\* or it stands for itself.
PlacesEvent(trace, n, acc) ==
    LET W == trace.timeline
        e == W[n].event
    IN  /\ TakesNone(W, e, acc.claimed)
        /\ ~IsStart(W[n]) /\ n \notin HiddenRows(W)
        /\ Place(trace, acc, W[n]) =
              [stream  |-> Append(acc.stream, Entry(EventId(e), e, e)),
               claimed |-> acc.claimed, emitted |-> acc.emitted]

LEMMA PlaceIs ==
    ASSUME NEW trace, Ready(trace), NEW n \in DOMAIN trace.timeline,
           NEW acc, PlacedTo(trace, n - 1, acc)
    PROVE  \/ \E m : PlacesMessage(trace, n, acc, m)
           \/ PlacesCall(trace, n, acc)
           \/ PlacesNothing(trace, n, acc)
           \/ PlacesEvent(trace, n, acc)
<1> DEFINE W == trace.timeline
           row == W[n]
           e == row.event
           taken == Taken(W, e, acc.claimed)
<1>1. W \in Seq(Row) /\ acc \in Accumulated
  BY ReadyRows DEF PlacedTo
<1>2. /\ n \in HiddenRows(W) <=> Hides(row, acc.emitted)
      /\ IsStart(row) => /\ trace.calls[row.at].start = e
                         /\ EmitsTool(W, row, acc.emitted)
  BY NextRow
<1>3. TakesNone(W, e, acc.claimed) \/ \E m : Takes(W, e, acc.claimed, m)
  BY <1>1, ConsumedIs
<1>4. ASSUME NEW m, Takes(W, e, acc.claimed, m)
      PROVE  PlacesMessage(trace, n, acc, m)
  <2> DEFINE o == CHOOSE o \in taken : TRUE
  <2>1. taken = {m} /\ IsMessageEvent(e)
    BY <1>4 DEF Takes
  <2>2. taken # {} /\ o = m
    BY <2>1
  <2>3. Place(trace, acc, row) =
           [stream |-> Append(acc.stream, Entry(MessageId(W, o), o, e)),
            claimed |-> acc.claimed \cup {o}, emitted |-> acc.emitted]
    BY <1>1, <2>1, <2>2, PlaceTakesMessage
  <2>4. ~IsStart(row) /\ n \notin HiddenRows(W)
    BY <1>2, <2>1 DEF IsMessageEvent, IsStart, Hides
  <2> HIDE DEF o
  <2> QED
    BY <1>4, <2>2, <2>3, <2>4 DEF PlacesMessage
<1>5. ASSUME TakesNone(W, e, acc.claimed), IsStart(row)
      PROVE  PlacesCall(trace, n, acc)
  <2>1. Place(trace, acc, row) =
           [stream |-> Append(acc.stream, Entry(ToolId(row.at), trace.calls[row.at].start, e)),
            claimed |-> acc.claimed, emitted |-> acc.emitted \cup {row.at}]
    BY <1>1, <1>2, <1>5, PlaceEmitsTool DEF TakesNone
  <2>2. n \notin HiddenRows(W)
    BY <1>2, <1>5 DEF IsStart, Hides
  <2> QED
    BY <1>2, <1>5, <2>1, <2>2 DEF PlacesCall
<1>6. ASSUME TakesNone(W, e, acc.claimed), ~IsStart(row), n \in HiddenRows(W)
      PROVE  PlacesNothing(trace, n, acc)
  <2>1. Place(trace, acc, row) = acc
    BY <1>1, <1>2, <1>6, PlaceHides DEF TakesNone
  <2> QED
    BY <1>6, <2>1 DEF PlacesNothing
<1>7. ASSUME TakesNone(W, e, acc.claimed), ~IsStart(row), n \notin HiddenRows(W)
      PROVE  PlacesEvent(trace, n, acc)
  <2>1. ~EmitsTool(W, row, acc.emitted) /\ ~Hides(row, acc.emitted)
    BY <1>2, <1>7 DEF EmitsTool, IsStart
  <2>2. Place(trace, acc, row) =
           [stream |-> Append(acc.stream, Entry(EventId(e), e, e)),
            claimed |-> acc.claimed, emitted |-> acc.emitted]
    BY <1>1, <1>7, <2>1, PlaceShowsEvent DEF TakesNone
  <2> QED
    BY <1>7, <2>2 DEF PlacesEvent
<1> QED
  BY <1>3, <1>4, <1>5, <1>6, <1>7

\* Placing the next row keeps all of it.
LEMMA PlaceStep ==
    ASSUME NEW trace, Ready(trace), NEW n \in DOMAIN trace.timeline,
           NEW acc, PlacedTo(trace, n - 1, acc)
    PROVE  PlacedTo(trace, n, Place(trace, acc, trace.timeline[n]))
<1> DEFINE W == trace.timeline
           C == trace.calls
           row == W[n]
           e == row.event
<1>1. W \in Seq(Row)
  BY ReadyRows
<1>2. /\ e \in Event /\ n \in Nat \ {0}
      /\ Emitted(W, n) = acc.emitted \cup (IF IsStart(row) THEN {row.at} ELSE {})
      /\ IsStart(row) => C[row.at].start = e /\ row.at \in Nat \ acc.emitted
  BY NextRow
<1>3. acc \in Accumulated /\ acc.claimed \in SUBSET Messages(W)
  BY <1>1 DEF PlacedTo
<1>4. acc.emitted \in SUBSET Nat /\ Messages(W) \in SUBSET Event
  BY <1>1, <1>3, ConversationIs DEF Accumulated
<1>5. ASSUME NEW m, PlacesMessage(trace, n, acc, m)
      PROVE  PlacedTo(trace, n, Place(trace, acc, row))
  <2>1. PICK x, claimed2 : x = Entry(MessageId(W, m), m, e) /\ claimed2 = acc.claimed \cup {m}
    OBVIOUS
  <2>2. /\ Place(trace, acc, row) = [stream |-> Append(acc.stream, x), claimed |-> claimed2,
                                     emitted |-> acc.emitted]
        /\ ~IsStart(row) /\ n \notin HiddenRows(W)
        /\ m \in Messages(W) \ acc.claimed
        /\ IsSpoken(e) /\ e \notin acc.claimed => m = e
    BY <1>5, <2>1 DEF PlacesMessage, Takes
  <2>3. /\ x.id = MessageId(W, m) /\ x.shows = m /\ x.at = e /\ x \in StreamEntry
    <3>1. MessageId(W, m) \in RowId
      BY <1>1, <2>2, MessageIds
    <3> QED
      BY <1>2, <1>4, <2>1, <2>2, <3>1 DEF Entry, StreamEntry
  <2>4. Emitted(W, n) = acc.emitted
    BY <1>2, <2>2
  <2>5. claimed2 \in SUBSET Messages(W) /\ (IsSpoken(e) => e \in claimed2)
    BY <1>3, <2>1, <2>2
  <2>6. Shows(trace, claimed2, acc.emitted, x)
    BY <2>1, <2>3 DEF Shows
  <2>7. \A k \in DOMAIN acc.stream : acc.stream[k].id # x.id
    BY <1>1, <2>2, <2>3, FreeIds
  <2>8. \A o \in claimed2 \ acc.claimed : x.id = MessageId(W, o) /\ x.shows = o
    BY <2>1, <2>3
  <2>9. acc.claimed \subseteq claimed2 /\ acc.emitted \subseteq acc.emitted
    BY <2>1
  <2>10. \A c \in acc.emitted \ acc.emitted : x.id = ToolId(c) /\ x.shows = C[c].start
    OBVIOUS
  <2>11. PlacedTo(trace, n, [stream |-> Append(acc.stream, x), claimed |-> claimed2,
                             emitted |-> acc.emitted])
    BY <1>4, <2>2, <2>3, <2>4, <2>5, <2>6, <2>7, <2>8, <2>9, <2>10, OneMorePlaced
  <2> QED
    BY <2>2, <2>11
<1>6. ASSUME PlacesCall(trace, n, acc)
      PROVE  PlacedTo(trace, n, Place(trace, acc, row))
  <2>1. PICK x, emitted2 : x = Entry(ToolId(row.at), e, e) /\ emitted2 = acc.emitted \cup {row.at}
    OBVIOUS
  <2>2. /\ Place(trace, acc, row) = [stream |-> Append(acc.stream, x), claimed |-> acc.claimed,
                                     emitted |-> emitted2]
        /\ IsStart(row) /\ n \notin HiddenRows(W)
    BY <1>6, <2>1 DEF PlacesCall
  <2>3. /\ x.id = ToolId(row.at) /\ x.shows = e /\ x.shows = C[row.at].start /\ x.at = e
        /\ x \in StreamEntry
    BY <1>2, <2>1, <2>2 DEF Entry, StreamEntry, ToolId, RowId
  <2>4. emitted2 = Emitted(W, n) /\ emitted2 \in SUBSET Nat
    BY <1>2, <1>4, <2>1, <2>2
  <2>5. IsSpoken(e) => e \in acc.claimed
    BY <2>2 DEF IsSpoken, IsStart
  <2>6. Shows(trace, acc.claimed, emitted2, x)
    BY <2>1, <2>3 DEF Shows
  <2>7. \A k \in DOMAIN acc.stream : acc.stream[k].id # x.id
    BY <1>1, <1>2, <2>2, <2>3, FreeIds
  <2>8. \A c \in emitted2 \ acc.emitted : x.id = ToolId(c) /\ x.shows = C[c].start
    BY <2>1, <2>3
  <2>9. acc.claimed \subseteq acc.claimed /\ acc.emitted \subseteq emitted2
    BY <2>1
  <2>10. \A m \in acc.claimed \ acc.claimed : x.id = MessageId(W, m) /\ x.shows = m
    OBVIOUS
  <2>11. PlacedTo(trace, n, [stream |-> Append(acc.stream, x), claimed |-> acc.claimed,
                             emitted |-> emitted2])
    BY <1>3, <2>2, <2>3, <2>4, <2>5, <2>6, <2>7, <2>8, <2>9, <2>10, OneMorePlaced
  <2> QED
    BY <2>2, <2>11
<1>7. ASSUME PlacesNothing(trace, n, acc)
      PROVE  PlacedTo(trace, n, Place(trace, acc, row))
  <2>1. Place(trace, acc, row) = acc /\ ~IsStart(row) /\ n \in HiddenRows(W)
    BY <1>7 DEF PlacesNothing
  <2>2. Emitted(W, n) = acc.emitted
    BY <1>2, <2>1
  <2>3. (1 .. n) \ HiddenRows(W) = (1 .. n - 1) \ HiddenRows(W)
    BY <1>1, <2>1, PlacedPositions
  <2>4. \A i \in 1 .. n : IsSpoken(W[i].event) => W[i].event \in acc.claimed
    <3> TAKE i \in 1 .. n
    <3>1. CASE i = n
      BY <2>1, <3>1 DEF IsSpoken, HiddenRows
    <3>2. CASE i # n
      <4>1. i \in 1 .. n - 1
        BY <1>2, <3>2
      <4> QED
        BY <1>1, <4>1 DEF PlacedTo
    <3> QED
      BY <3>1, <3>2
  <2> QED
    BY <1>1, <2>1, <2>2, <2>3, <2>4 DEF PlacedTo
<1>8. ASSUME PlacesEvent(trace, n, acc)
      PROVE  PlacedTo(trace, n, Place(trace, acc, row))
  <2>1. PICK x : x = Entry(EventId(e), e, e)
    OBVIOUS
  <2>2. /\ Place(trace, acc, row) = [stream |-> Append(acc.stream, x), claimed |-> acc.claimed,
                                     emitted |-> acc.emitted]
        /\ ~IsStart(row) /\ n \notin HiddenRows(W)
        /\ IsSpoken(e) => e \in acc.claimed
    BY <1>8, <2>1 DEF PlacesEvent, TakesNone
  <2>3. x.id = EventId(e) /\ x.shows = e /\ x.at = e /\ x \in StreamEntry
    BY <1>2, <2>1 DEF Entry, StreamEntry, EventId, RowId
  <2>4. Emitted(W, n) = acc.emitted
    BY <1>2, <2>2
  <2>5. Shows(trace, acc.claimed, acc.emitted, x)
    BY <2>3 DEF Shows
  <2>6. \A k \in DOMAIN acc.stream : acc.stream[k].id # x.id
    BY <1>1, <2>3, FreeIds
  <2>7. PlacedTo(trace, n, [stream |-> Append(acc.stream, x), claimed |-> acc.claimed,
                            emitted |-> acc.emitted])
    BY <1>3, <1>4, <2>2, <2>3, <2>4, <2>5, <2>6, OneMorePlaced
  <2> QED
    BY <2>2, <2>7
<1> QED
  BY <1>5, <1>6, <1>7, <1>8, PlaceIs


\* Before the first row nothing is placed.
LEMMA NothingPlaced ==
    ASSUME NEW trace
    PROVE  PlacedTo(trace, 0, Unplaced)
<1>1. PICK W : W = trace.timeline
  OBVIOUS
<1>2. 1 .. 0 = {}
  OBVIOUS
<1>3. /\ Unplaced.stream = <<>> /\ Unplaced.claimed = {} /\ Unplaced.emitted = {}
      /\ Unplaced \in Accumulated
  BY DEF Unplaced, Accumulated
<1>4. Emitted(W, 0) = {}
  BY <1>2 DEF Emitted
<1>5. Ats(<<>>) = <<>>
  BY DEF Ats
<1>6. AtPositions(EventsOf(W), (1 .. 0) \ HiddenRows(W)) = <<>>
  <2>1. (1 .. 0) \ HiddenRows(W) = {}
    BY <1>2
  <2> QED
    BY <2>1, AtNoPositions
<1>7. Entries(trace, {}, {}, <<>>)
  BY DEF Entries
<1>8. \A i \in 1 .. 0 : IsSpoken(W[i].event) => W[i].event \in {}
  BY <1>2
<1> QED
  BY <1>1, <1>3, <1>4, <1>5, <1>6, <1>7, <1>8 DEF PlacedTo

LEMMA AllPlaced ==
    ASSUME NEW trace, Ready(trace)
    PROVE  \A n \in 0 .. Len(trace.timeline) : PlacedTo(trace, n, Placing(trace)[n])
<1> DEFINE W == trace.timeline
           N == Len(W)
           S == {n \in Nat : n <= N => PlacedTo(trace, n, Placing(trace)[n])}
<1>1. W \in Seq(Row) /\ DOMAIN W = 1 .. N /\ N \in Nat
  BY ReadyRows
<1>2. /\ Placing(trace)[0] = Unplaced
      /\ \A n \in 1 .. N : Placing(trace)[n] = Place(trace, Placing(trace)[n - 1], W[n])
  BY <1>1, PlacingIs
<1>3. PlacedTo(trace, 0, Unplaced)
  BY NothingPlaced
<1>4. 0 \in S
  BY <1>2, <1>3
<1>5. ASSUME NEW n \in Nat, n \in S
      PROVE  n + 1 \in S
  <2> SUFFICES ASSUME n + 1 <= N PROVE PlacedTo(trace, n + 1, Placing(trace)[n + 1])
    OBVIOUS
  <2>1. PICK m : m = n + 1
    OBVIOUS
  <2>2. PICK acc : acc = Placing(trace)[n]
    OBVIOUS
  <2>3. m \in DOMAIN trace.timeline /\ m \in 1 .. N /\ m - 1 = n /\ n <= N
    BY <1>1, <2>1
  <2>4. PlacedTo(trace, m - 1, acc)
    BY <1>5, <2>2, <2>3
  <2>5. PlacedTo(trace, m, Place(trace, acc, trace.timeline[m]))
    BY <2>3, <2>4, PlaceStep
  <2>6. Placing(trace)[m] = Place(trace, acc, trace.timeline[m])
    BY <1>2, <2>2, <2>3
  <2> QED
    BY <2>1, <2>5, <2>6
<1> HIDE DEF S
<1>6. Nat \subseteq S
  BY <1>4, <1>5, SetInduction
<1> QED
  BY <1>1, <1>6 DEF S

-----------------------------------------------------------------------------
\* The stream

\* After the last row every message and every call is taken.
LEMMA AllTaken ==
    ASSUME NEW trace, Ready(trace)
    PROVE  LET W == trace.timeline
               acc == PlacedRows(trace)
           IN  /\ acc.stream \in Seq(StreamEntry)
               /\ acc.claimed = Messages(W)
               /\ acc.emitted = DOMAIN trace.calls
               /\ Ats(acc.stream) = AtPositions(EventsOf(W), DOMAIN W \ HiddenRows(W))
               /\ Entries(trace, Messages(W), DOMAIN trace.calls, acc.stream)
<1>1. PICK W, C, acc : W = trace.timeline /\ C = trace.calls /\ acc = PlacedRows(trace)
  OBVIOUS
<1>2. W \in Seq(Row) /\ DOMAIN W = 1 .. Len(W) /\ Len(W) \in Nat
  BY <1>1, ReadyRows
<1>3. PlacedTo(trace, Len(W), acc)
  BY <1>1, <1>2, AllPlaced DEF PlacedRows
<1>4. acc.stream \in Seq(StreamEntry)
  BY <1>3 DEF PlacedTo, Accumulated
<1>5. acc.claimed = Messages(W)
  <2>1. acc.claimed \subseteq Messages(W)
    BY <1>1, <1>3 DEF PlacedTo
  <2>2. \A i \in DOMAIN W : IsSpoken(W[i].event) => W[i].event \in acc.claimed
    BY <1>1, <1>2, <1>3 DEF PlacedTo
  <2>3. Messages(W) \subseteq acc.claimed
    BY <2>2 DEF Messages
  <2> QED
    BY <2>1, <2>3
<1>6. acc.emitted = DOMAIN C
  <2>1. acc.emitted = {W[i].at : i \in {j \in DOMAIN W : IsStart(W[j])}}
    BY <1>1, <1>2, <1>3 DEF PlacedTo, Emitted
  <2>2. \A i \in DOMAIN W : IsStart(W[i]) => W[i].at \in DOMAIN C
    BY <1>1, StartsAndCalls
  <2>3. \A c \in DOMAIN C : \E i \in DOMAIN W : IsStart(W[i]) /\ W[i].at = c
    BY <1>1, StartsAndCalls
  <2> QED
    BY <2>1, <2>2, <2>3
<1>7. Ats(acc.stream) = AtPositions(EventsOf(W), DOMAIN W \ HiddenRows(W))
  BY <1>1, <1>2, <1>3 DEF PlacedTo
<1>8. Entries(trace, Messages(W), DOMAIN C, acc.stream)
  BY <1>3, <1>5, <1>6 DEF PlacedTo
<1> QED
  BY <1>1, <1>4, <1>5, <1>6, <1>7, <1>8

\* So nothing is left over for the end.
LEMMA NothingLeft ==
    ASSUME NEW trace, Ready(trace)
    PROVE  ComposeApiStream(trace) = PlacedRows(trace).stream
<1>1. PICK W, messages, placed :
         W = trace.timeline /\ messages = Conversation(W) /\ placed = PlacedRows(trace)
  OBVIOUS
<1>2. /\ messages \in Seq(Messages(W)) /\ placed.claimed = Messages(W)
      /\ placed.emitted = DOMAIN trace.calls /\ placed.stream \in Seq(StreamEntry)
  BY <1>1, ReadyRows, ConversationIs, AllTaken
<1>3. \A v : Untaken(messages, placed.claimed, v) = <<>>
  <2> TAKE v
  <2>1. \A k \in DOMAIN messages : messages[k] \in placed.claimed
    BY <1>2
  <2>2. {k \in DOMAIN messages : /\ messages[k] \notin placed.claimed
                                 /\ (messages[k].of \in Visible) = v} = {}
    BY <2>1
  <2> QED
    BY <2>2, AtNoPositions DEF Untaken
<1>4. <<>> \o <<>> = <<>>
  OBVIOUS
<1>5. MessageEntries(W, <<>>) = <<>>
  BY DEF MessageEntries
<1>6. CallEntries(trace.calls, placed.emitted) = <<>>
  <2>1. Cardinality(DOMAIN trace.calls \ placed.emitted) = 0
    <3>1. DOMAIN trace.calls \ placed.emitted = {}
      BY <1>2
    <3> QED
      BY <3>1, FS_EmptySet
  <2>2. CallEntries(trace.calls, placed.emitted) \in [1 .. 0 -> {}]
    BY <2>1 DEF CallEntries
  <2> QED
    BY <2>2
<1>7. Leftovers(messages, trace, placed) = <<>>
  BY <1>1, <1>3, <1>4, <1>5, <1>6, Zenon DEF Leftovers
<1>8. placed.stream \o <<>> = placed.stream
  BY <1>2, ConcatEmptySeq
<1>9. ComposeApiStream(trace) = placed.stream \o Leftovers(messages, trace, placed)
  BY <1>1, Zenon DEF ComposeApiStream, WithLeftovers
<1> QED
  BY <1>1, <1>7, <1>8, <1>9

-----------------------------------------------------------------------------
\* What a row shows, from the rows before it and its place alone

\* A message event without content may take a message of its moment.
Silent(e) == IsMessageEvent(e) /\ ~IsSpoken(e)

SilentTo(rows, n, e) ==
    \E j \in 1 .. n : Silent(rows[j].event) /\ Moment[rows[j].event.of] = Moment[e.of]

\* The entry of a row: a message is its own unless such an event took it before.
Settled(trace, i) ==
    LET W == trace.timeline
        e == W[i].event
    IN  IF IsSpoken(e) /\ ~SilentTo(W, i - 1, e) THEN Entry(MessageId(W, e), e, e)
        ELSE IF IsStart(W[i]) THEN Entry(ToolId(W[i].at), e, e)
        ELSE Entry(EventId(e), e, e)

SettledEntry(trace, n, entry) ==
    \E i \in 1 .. n :
        /\ entry.at = trace.timeline[i].event
        /\ MayStandIn(entry.at) \/ entry = Settled(trace, i)

\* Messages are taken by their own events and by events without content of their moment;
\* the latter leave a message of the moment only if they took another.
SettledTo(trace, n, acc) ==
    LET W == trace.timeline IN
    /\ \A m \in acc.claimed : (\E i \in 1 .. n : W[i].event = m) \/ SilentTo(W, n, m)
    /\ \A m \in Messages(W) \ acc.claimed :
          SilentTo(W, n, m) => \E q \in Spoken \ {m.of} : Moment[q] = Moment[m.of]
    /\ \A k \in DOMAIN acc.stream : SettledEntry(trace, n, acc.stream[k])

\* Messages of one moment that are different are of different events.
LEMMA MessagesApart ==
    ASSUME NEW W \in Seq(Row), NEW m \in Messages(W)
    PROVE  /\ m.of \in Spoken /\ IsMessageEvent(m) /\ IsSpoken(m)
           /\ \A o \in Messages(W) : o # m => o.of # m.of
<1>1. \A o \in Messages(W) : o \in Event /\ IsSpoken(o)
  BY ConversationIs DEF Messages
<1>2. \A o \in Event : o.kind = "Stop" => o = [kind |-> "Stop", of |-> o.of]
  BY EventKinds DEF Event, Pre, Post
<1> QED
  BY <1>1, <1>2, StreamAssumption DEF IsSpoken, IsMessageEvent

LEMMA SilentMore ==
    ASSUME NEW W, NEW n \in Nat \ {0}, NEW e
    PROVE  SilentTo(W, n, e) <=>
               \/ SilentTo(W, n - 1, e)
               \/ Silent(W[n].event) /\ Moment[W[n].event.of] = Moment[e.of]
<1>1. \A j : j \in 1 .. n <=> j \in 1 .. n - 1 \/ j = n
  OBVIOUS
<1> QED
  BY <1>1 DEF SilentTo

\* An event without content and two messages of one moment: which row shows which is open.
LEMMA StandsIn ==
    ASSUME NEW W \in Seq(Row), NEW n \in Nat, n <= Len(W), NEW m, IsMessageEvent(m),
           SilentTo(W, n, m), NEW q \in Spoken \ {m.of}, Moment[q] = Moment[m.of]
    PROVE  MayStandIn(m)
<1>1. PICK j \in 1 .. n : Silent(W[j].event) /\ Moment[W[j].event.of] = Moment[m.of]
  BY DEF SilentTo
<1>2. W[j].event.of \in MessageEvents
  BY <1>1 DEF Silent, IsMessageEvent
<1>3. W[j].event.of \notin Spoken
  BY <1>1 DEF Silent, IsMessageEvent, IsSpoken
<1> QED
  BY <1>1, <1>2, <1>3 DEF MayStandIn

LEMMA SettledStep ==
    ASSUME NEW trace, Ready(trace), NEW n \in DOMAIN trace.timeline,
           NEW acc, PlacedTo(trace, n - 1, acc), SettledTo(trace, n - 1, acc)
    PROVE  SettledTo(trace, n, Place(trace, acc, trace.timeline[n]))
<1>1. PICK W, e : W = trace.timeline /\ e = W[n].event
  OBVIOUS
<1>2. PICK claimed, stream : claimed = acc.claimed /\ stream = acc.stream
  OBVIOUS
<1>3. /\ W \in Seq(Row) /\ n \in Nat \ {0} /\ n - 1 \in Nat /\ n <= Len(W) /\ n - 1 <= Len(W)
      /\ n \in DOMAIN W /\ n \in 1 .. n
      /\ \A j : j \in 1 .. n <=> j \in 1 .. n - 1 \/ j = n
  <2>1. W \in Seq(Row)
    BY <1>1, ReadyRows
  <2> QED
    BY <1>1, <2>1
<1>4. claimed \in SUBSET Messages(W) /\ stream \in Seq(StreamEntry)
  BY <1>1, <1>2 DEF PlacedTo, Accumulated
<1>5. IsSpoken(e) => e \in Messages(W) /\ IsMessageEvent(e) /\ e.of \in Spoken
  BY <1>1, <1>3, StreamAssumption DEF Messages, IsSpoken, IsMessageEvent
<1>6. \A m : SilentTo(W, n, m) <=>
                SilentTo(W, n - 1, m) \/ (Silent(e) /\ Moment[e.of] = Moment[m.of])
  BY <1>1, <1>3, SilentMore
<1>7. /\ \A m \in claimed : (\E i \in 1 .. n - 1 : W[i].event = m) \/ SilentTo(W, n - 1, m)
      /\ \A m \in Messages(W) \ claimed :
            SilentTo(W, n - 1, m) => \E q \in Spoken \ {m.of} : Moment[q] = Moment[m.of]
      /\ \A k \in DOMAIN stream : SettledEntry(trace, n - 1, stream[k])
  BY <1>1, <1>2 DEF SettledTo
<1>8. e \in claimed => SilentTo(W, n - 1, e)
  <2>1. ASSUME NEW i \in 1 .. n - 1 PROVE W[i].event # e
    <3>1. i \in DOMAIN W /\ i # n
      BY <1>3
    <3> QED
      BY <1>1, <1>3, <3>1, ReadyRows
  <2> QED
    BY <1>7, <2>1
<1>9. ASSUME NEW x, SettledEntry(trace, n - 1, x) PROVE SettledEntry(trace, n, x)
  BY <1>3, <1>9 DEF SettledEntry
\* An entry is added.
<1>10. ASSUME NEW x \in StreamEntry, x.at = e, MayStandIn(e) \/ x = Settled(trace, n)
       PROVE  \A k \in DOMAIN Append(stream, x) : SettledEntry(trace, n, Append(stream, x)[k])
  <2>1. SettledEntry(trace, n, x)
    BY <1>1, <1>3, <1>10 DEF SettledEntry
  <2>2. PICK N \in Nat : N = Len(stream) /\ DOMAIN stream = 1 .. N
    BY <1>4
  <2>3. /\ DOMAIN Append(stream, x) = 1 .. N + 1 /\ Append(stream, x)[N + 1] = x
        /\ \A k \in 1 .. N : Append(stream, x)[k] = stream[k]
        /\ \A k \in 1 .. N + 1 : k # N + 1 => k \in 1 .. N
    BY <1>4, <2>2
  <2> TAKE k \in DOMAIN Append(stream, x)
  <2>4. CASE k = N + 1
    BY <2>1, <2>3, <2>4
  <2>5. CASE k # N + 1
    <3>1. k \in DOMAIN stream /\ Append(stream, x)[k] = stream[k]
      BY <2>2, <2>3, <2>5
    <3>2. SettledEntry(trace, n - 1, stream[k])
      BY <1>7, <3>1
    <3>3. SettledEntry(trace, n, stream[k])
      BY <1>9, <3>2
    <3> QED
      BY <3>1, <3>3
  <2> QED
    BY <2>4, <2>5
\* No message is taken.
<1>11. ASSUME TakesNone(W, e, claimed)
       PROVE  /\ \A m \in claimed : (\E i \in 1 .. n : W[i].event = m) \/ SilentTo(W, n, m)
              /\ \A m \in Messages(W) \ claimed :
                    SilentTo(W, n, m) => \E q \in Spoken \ {m.of} : Moment[q] = Moment[m.of]
  <2>1. \A m \in Messages(W) \ claimed : SilentTo(W, n, m) => SilentTo(W, n - 1, m)
    BY <1>6, <1>11 DEF TakesNone, Silent
  <2> QED
    BY <1>3, <1>6, <1>7, <2>1
<1>12. ASSUME NEW m, PlacesMessage(trace, n, acc, m)
       PROVE  SettledTo(trace, n, Place(trace, acc, W[n]))
  <2>1. /\ Takes(W, e, claimed, m)
        /\ Place(trace, acc, W[n]).stream = Append(stream, Entry(MessageId(W, m), m, e))
        /\ Place(trace, acc, W[n]).claimed = claimed \cup {m}
    BY <1>1, <1>2, <1>12 DEF PlacesMessage
  <2>2. /\ IsMessageEvent(e) /\ m \in Messages(W) \ claimed /\ Moment[m.of] = Moment[e.of]
        /\ IsSpoken(e) /\ e \notin claimed => m = e
    BY <2>1 DEF Takes
  <2>3. m.of \in Spoken /\ \A o \in Messages(W) : o # m => o.of # m.of
    BY <1>3, <2>2, MessagesApart
  <2>4. (\E i \in 1 .. n : W[i].event = m) \/ SilentTo(W, n, m)
    <3>1. CASE IsSpoken(e) /\ e \notin claimed
      BY <1>1, <1>3, <2>2, <3>1
    <3>2. CASE IsSpoken(e) /\ e \in claimed
      <4>1. SilentTo(W, n - 1, m)
        BY <1>8, <2>2, <3>2 DEF SilentTo
      <4> QED
        BY <1>6, <4>1
    <3>3. CASE ~IsSpoken(e)
      BY <1>6, <2>2, <3>3 DEF Silent
    <3> QED
      BY <3>1, <3>2, <3>3
  <2>5. \A o \in claimed \cup {m} : (\E i \in 1 .. n : W[i].event = o) \/ SilentTo(W, n, o)
    BY <1>3, <1>6, <1>7, <2>4
  <2>6. ASSUME NEW o \in Messages(W) \ (claimed \cup {m}), SilentTo(W, n, o)
        PROVE  \E q \in Spoken \ {o.of} : Moment[q] = Moment[o.of]
    <3>1. CASE SilentTo(W, n - 1, o)
      BY <1>7, <2>6, <3>1
    <3>2. CASE Silent(e) /\ Moment[e.of] = Moment[o.of]
      BY <2>2, <2>3, <2>6, <3>2
    <3> QED
      BY <1>6, <2>6, <3>1, <3>2
  <2>7. PICK x : x = Entry(MessageId(W, m), m, e)
    OBVIOUS
  <2>8. x \in StreamEntry /\ x.at = e
    <3>1. MessageId(W, m) \in RowId /\ m \in Event
      BY <1>3, <2>2, MessageIds, ConversationIs
    <3>2. e \in Event
      BY <1>1, ReadyRows
    <3> QED
      BY <2>7, <3>1, <3>2 DEF Entry, StreamEntry
  <2>9. MayStandIn(e) \/ x = Settled(trace, n)
    <3>1. CASE IsSpoken(e) /\ ~SilentTo(W, n - 1, e)
      <4>1. m = e
        BY <1>8, <2>2, <3>1
      <4> QED
        BY <1>1, <2>7, <3>1, <4>1 DEF Settled
    <3>2. CASE IsSpoken(e) /\ e \notin claimed /\ SilentTo(W, n - 1, e)
      <4>1. PICK q \in Spoken \ {e.of} : Moment[q] = Moment[e.of]
        BY <1>5, <1>7, <3>2
      <4> QED
        BY <1>3, <2>2, <3>2, <4>1, StandsIn
    <3>3. CASE IsSpoken(e) /\ e \in claimed /\ SilentTo(W, n - 1, e)
      <4>1. m.of \in Spoken \ {e.of}
        BY <1>5, <2>2, <2>3, <3>3
      <4> QED
        BY <1>3, <2>2, <3>3, <4>1, StandsIn
    <3>4. CASE ~IsSpoken(e)
      <4>1. e.of \in MessageEvents \ Spoken /\ m.of \in Spoken \ {e.of}
        BY <2>2, <2>3, <3>4 DEF IsSpoken, IsMessageEvent
      <4> QED
        BY <2>2, <4>1 DEF MayStandIn
    <3> QED
      BY <3>1, <3>2, <3>3, <3>4
  <2>10. \A k \in DOMAIN Append(stream, x) : SettledEntry(trace, n, Append(stream, x)[k])
    BY <1>10, <2>8, <2>9
  <2> QED
    BY <1>1, <2>1, <2>5, <2>6, <2>7, <2>10 DEF SettledTo
<1>13. ASSUME PlacesCall(trace, n, acc)
       PROVE  SettledTo(trace, n, Place(trace, acc, W[n]))
  <2>1. PICK x : x = Entry(ToolId(W[n].at), e, e)
    OBVIOUS
  <2>2. /\ TakesNone(W, e, claimed) /\ IsStart(W[n])
        /\ Place(trace, acc, W[n]).stream = Append(stream, x)
        /\ Place(trace, acc, W[n]).claimed = claimed
    BY <1>1, <1>2, <1>13, <2>1 DEF PlacesCall
  <2>3. x \in StreamEntry /\ x.at = e
    <3>1. /\ e \in Event /\ W[n].at \in Nat
      BY <1>1, <2>2, NextRow
    <3> QED
      BY <2>1, <3>1 DEF Entry, StreamEntry, ToolId, RowId
  <2>4. x = Settled(trace, n)
    BY <1>1, <2>1, <2>2 DEF Settled, IsStart, IsSpoken
  <2>5. \A k \in DOMAIN Append(stream, x) : SettledEntry(trace, n, Append(stream, x)[k])
    BY <1>10, <2>3, <2>4
  <2> QED
    BY <1>1, <1>11, <2>2, <2>5 DEF SettledTo
<1>14. ASSUME PlacesNothing(trace, n, acc)
       PROVE  SettledTo(trace, n, Place(trace, acc, W[n]))
  <2>1. TakesNone(W, e, claimed) /\ Place(trace, acc, W[n]) = acc
    BY <1>1, <1>2, <1>14 DEF PlacesNothing
  <2>2. \A k \in DOMAIN stream : SettledEntry(trace, n, stream[k])
    BY <1>7, <1>9
  <2> QED
    BY <1>1, <1>2, <1>11, <2>1, <2>2 DEF SettledTo
<1>15. ASSUME PlacesEvent(trace, n, acc)
       PROVE  SettledTo(trace, n, Place(trace, acc, W[n]))
  <2>1. PICK x : x = Entry(EventId(e), e, e)
    OBVIOUS
  <2>2. /\ TakesNone(W, e, claimed) /\ ~IsStart(W[n])
        /\ Place(trace, acc, W[n]).stream = Append(stream, x)
        /\ Place(trace, acc, W[n]).claimed = claimed
    BY <1>1, <1>2, <1>15, <2>1 DEF PlacesEvent
  <2>3. x \in StreamEntry /\ x.at = e
    <3>1. e \in Event
      BY <1>1, ReadyRows
    <3> QED
      BY <2>1, <3>1 DEF Entry, StreamEntry, EventId, RowId
  <2>4. x = Settled(trace, n)
    <3>1. IsSpoken(e) => SilentTo(W, n - 1, e)
      BY <1>8, <2>2 DEF TakesNone
    <3> QED
      BY <1>1, <2>1, <2>2, <3>1 DEF Settled
  <2>5. \A k \in DOMAIN Append(stream, x) : SettledEntry(trace, n, Append(stream, x)[k])
    BY <1>10, <2>3, <2>4
  <2> QED
    BY <1>1, <1>11, <2>2, <2>5 DEF SettledTo
<1>16. \/ \E m : PlacesMessage(trace, n, acc, m)
       \/ PlacesCall(trace, n, acc) \/ PlacesNothing(trace, n, acc) \/ PlacesEvent(trace, n, acc)
  BY PlaceIs
<1> QED
  BY <1>1, <1>12, <1>13, <1>14, <1>15, <1>16

LEMMA AllSettled ==
    ASSUME NEW trace, Ready(trace)
    PROVE  SettledTo(trace, Len(trace.timeline), PlacedRows(trace))
<1> DEFINE W == trace.timeline
           N == Len(W)
           S == {n \in Nat : n <= N => SettledTo(trace, n, Placing(trace)[n])}
<1>1. W \in Seq(Row) /\ DOMAIN W = 1 .. N /\ N \in Nat
  BY ReadyRows
<1>2. /\ Placing(trace)[0] = Unplaced
      /\ \A n \in 1 .. N : Placing(trace)[n] = Place(trace, Placing(trace)[n - 1], W[n])
  BY <1>1, PlacingIs
<1>3. SettledTo(trace, 0, Unplaced)
  <2>1. Unplaced.claimed = {} /\ DOMAIN Unplaced.stream = {} /\ 1 .. 0 = {}
    BY DEF Unplaced
  <2> QED
    BY <2>1 DEF SettledTo, SilentTo
<1>4. 0 \in S
  BY <1>2, <1>3
<1>5. ASSUME NEW n \in Nat, n \in S
      PROVE  n + 1 \in S
  <2> SUFFICES ASSUME n + 1 <= N PROVE SettledTo(trace, n + 1, Placing(trace)[n + 1])
    OBVIOUS
  <2>1. PICK m : m = n + 1
    OBVIOUS
  <2>2. PICK acc : acc = Placing(trace)[n]
    OBVIOUS
  <2>3. /\ m \in DOMAIN trace.timeline /\ m \in 1 .. N /\ m - 1 = n /\ n <= N
        /\ n \in 0 .. Len(trace.timeline)
    BY <1>1, <2>1
  <2>4. PlacedTo(trace, m - 1, acc) /\ SettledTo(trace, m - 1, acc)
    BY <1>5, <2>2, <2>3, AllPlaced
  <2>5. SettledTo(trace, m, Place(trace, acc, trace.timeline[m]))
    BY <2>3, <2>4, SettledStep
  <2>6. Placing(trace)[m] = Place(trace, acc, trace.timeline[m])
    BY <1>2, <2>2, <2>3
  <2> QED
    BY <2>1, <2>5, <2>6
<1> HIDE DEF S
<1>6. Nat \subseteq S
  BY <1>4, <1>5, SetInduction
<1> QED
  BY <1>1, <1>6 DEF S, PlacedRows

-----------------------------------------------------------------------------
\* A trace and one that goes on after it

Continues(before, after) ==
    LET V == before.timeline
        W == after.timeline
    IN  /\ DOMAIN V \subseteq DOMAIN W
        /\ \A i \in DOMAIN V : /\ W[i].event = V[i].event
                               /\ IsStart(V[i]) => W[i].at = V[i].at

\* What can be said of their rows.
LEMMA ContinuedRows ==
    ASSUME NEW before, NEW after, Ready(before), Ready(after), Continues(before, after)
    PROVE  LET V == before.timeline
               W == after.timeline
           IN  /\ V \in Seq(Row) /\ W \in Seq(Row)
               /\ DOMAIN V \subseteq DOMAIN W
               /\ \A i \in DOMAIN V : W[i].event = V[i].event
               /\ \A i \in DOMAIN V, j \in DOMAIN W \ DOMAIN V : i < j
               /\ EventsOf(V) \in Seq(Event) /\ EventsOf(W) \in Seq(Event)
               /\ DOMAIN EventsOf(V) = DOMAIN V /\ DOMAIN EventsOf(W) = DOMAIN W
               /\ \A i \in DOMAIN V : EventsOf(W)[i] = EventsOf(V)[i]
<1>1. PICK V, W : V = before.timeline /\ W = after.timeline
  OBVIOUS
<1>2. V \in Seq(Row) /\ W \in Seq(Row)
  BY <1>1, ReadyRows
<1>3. DOMAIN V \subseteq DOMAIN W /\ \A i \in DOMAIN V : W[i].event = V[i].event
  BY <1>1 DEF Continues
<1>4. \A i \in DOMAIN V, j \in DOMAIN W \ DOMAIN V : i < j
  BY <1>2
<1>5. PICK D, E : D = EventsOf(V) /\ E = EventsOf(W)
  OBVIOUS
<1>6. D \in Seq(Event) /\ DOMAIN D = DOMAIN V /\ \A i \in DOMAIN V : D[i] = V[i].event
  BY <1>2, <1>5, EventsOfRows
<1>7. E \in Seq(Event) /\ DOMAIN E = DOMAIN W /\ \A i \in DOMAIN W : E[i] = W[i].event
  BY <1>2, <1>5, EventsOfRows
<1>8. \A i \in DOMAIN V : E[i] = D[i]
  BY <1>3, <1>6, <1>7
<1> QED
  BY <1>1, <1>2, <1>3, <1>4, <1>5, <1>6, <1>7, <1>8

\* A message keeps its id: the conversation goes on after its messages.
LEMMA MessageIdStays ==
    ASSUME NEW before, NEW after, Ready(before), Ready(after), Continues(before, after),
           NEW m \in Messages(before.timeline)
    PROVE  MessageId(after.timeline, m) = MessageId(before.timeline, m)
<1>1. PICK V, W : V = before.timeline /\ W = after.timeline
  OBVIOUS
<1>2. PICK D, E : D = EventsOf(V) /\ E = EventsOf(W)
  OBVIOUS
<1>3. /\ V \in Seq(Row) /\ W \in Seq(Row)
      /\ DOMAIN V \subseteq DOMAIN W
      /\ \A i \in DOMAIN V : W[i].event = V[i].event
      /\ \A i \in DOMAIN V, j \in DOMAIN W \ DOMAIN V : i < j
      /\ D \in Seq(Event) /\ E \in Seq(Event)
      /\ DOMAIN D = DOMAIN V /\ DOMAIN E = DOMAIN W
      /\ \A i \in DOMAIN V : E[i] = D[i]
  BY <1>1, <1>2, ContinuedRows
<1>4. PICK S, U : /\ S = {i \in DOMAIN V : IsSpoken(V[i].event)}
                  /\ U = {i \in DOMAIN W : IsSpoken(W[i].event)}
  OBVIOUS
<1>5. /\ S \in SUBSET DOMAIN D /\ U \in SUBSET DOMAIN E /\ S \subseteq U
      /\ \A i \in S, j \in U \ S : i < j
      /\ \A i \in S : E[i] = D[i]
  <2>1. \A j \in U \ S : j \in DOMAIN W \ DOMAIN V
    BY <1>3, <1>4
  <2> QED
    BY <1>3, <1>4, <2>1
<1>6. PICK B, A : B = Conversation(V) /\ A = Conversation(W)
  OBVIOUS
<1>7. B = AtPositions(D, S) /\ A = AtPositions(E, U)
  BY <1>2, <1>4, <1>6 DEF Conversation
<1>8. Len(B) <= Len(A) /\ \A n \in DOMAIN B : n \in DOMAIN A /\ A[n] = B[n]
  <2>1. /\ Len(AtPositions(D, S)) <= Len(AtPositions(E, U))
        /\ \A n \in DOMAIN AtPositions(D, S) :
              /\ n \in DOMAIN AtPositions(E, U)
              /\ AtPositions(E, U)[n] = AtPositions(D, S)[n]
    <3>1. D \in Seq(Event) /\ E \in Seq(Event)
      BY <1>3
    <3> QED
      BY <1>5, <3>1, AtMore
  <2> QED
    BY <1>7, <2>1
<1>9. Distinct(A)
  <2>1. Distinct(E)
    BY <1>1, <1>2 DEF Ready
  <2> QED
    BY <1>3, <1>5, <1>7, <2>1, AtPositionsDistinct
<1>10. PICK k \in DOMAIN B : k = (CHOOSE i \in DOMAIN B : B[i] = m) /\ B[k] = m
  <2>1. \E i \in DOMAIN B : B[i] = m
    BY <1>1, <1>3, <1>6, ConversationIs
  <2> QED
    BY <2>1
<1>11. k \in DOMAIN A /\ A[k] = m /\ \A i \in DOMAIN A : A[i] = m => i = k
  BY <1>8, <1>9, <1>10 DEF Distinct
<1>12. k = CHOOSE i \in DOMAIN A : A[i] = m
  BY <1>11
<1>13. MessageId(V, m) = [of |-> "conversation", n |-> k, event |-> {}]
  BY <1>6, <1>10 DEF MessageId
<1>14. MessageId(W, m) = [of |-> "conversation", n |-> k, event |-> {}]
  BY <1>6, <1>12 DEF MessageId
<1> QED
  BY <1>1, <1>13, <1>14

\* So does every row that no event without content can change.
LEMMA SettledStays ==
    ASSUME NEW before, NEW after, Ready(before), Ready(after), Continues(before, after),
           NEW i \in DOMAIN before.timeline
    PROVE  Settled(after, i) = Settled(before, i)
<1>1. PICK V, W : V = before.timeline /\ W = after.timeline
  OBVIOUS
<1>2. /\ V \in Seq(Row) /\ i \in DOMAIN V /\ W[i].event = V[i].event
      /\ \A j \in 1 .. i - 1 : W[j].event = V[j].event
      /\ IsStart(V[i]) => W[i].at = V[i].at
  <2>1. V \in Seq(Row) /\ \A j \in DOMAIN V : W[j].event = V[j].event
    BY <1>1, ContinuedRows
  <2>2. \A j \in 1 .. i - 1 : j \in DOMAIN V
    BY <1>1, <2>1
  <2>3. IsStart(V[i]) => W[i].at = V[i].at
    BY <1>1 DEF Continues
  <2> QED
    BY <1>1, <2>1, <2>2, <2>3
<1>3. PICK e : e = V[i].event
  OBVIOUS
<1>4. SilentTo(W, i - 1, e) <=> SilentTo(V, i - 1, e)
  BY <1>2 DEF SilentTo
<1>5. IsStart(W[i]) <=> IsStart(V[i])
  BY <1>2 DEF IsStart
<1>6. IsSpoken(e) => MessageId(W, e) = MessageId(V, e)
  <2> SUFFICES ASSUME IsSpoken(e) PROVE MessageId(W, e) = MessageId(V, e)
    OBVIOUS
  <2>1. e \in Messages(before.timeline)
    BY <1>1, <1>2, <1>3 DEF Messages
  <2>2. MessageId(after.timeline, e) = MessageId(before.timeline, e)
    BY <2>1, MessageIdStays
  <2> QED
    BY <1>1, <2>2
<1>7. Settled(before, i) =
         IF IsSpoken(e) /\ ~SilentTo(V, i - 1, e) THEN Entry(MessageId(V, e), e, e)
         ELSE IF IsStart(V[i]) THEN Entry(ToolId(V[i].at), e, e)
         ELSE Entry(EventId(e), e, e)
  BY <1>1, <1>3, Zenon DEF Settled
<1>8. Settled(after, i) =
         IF IsSpoken(e) /\ ~SilentTo(W, i - 1, e) THEN Entry(MessageId(W, e), e, e)
         ELSE IF IsStart(W[i]) THEN Entry(ToolId(W[i].at), e, e)
         ELSE Entry(EventId(e), e, e)
  <2>1. W[i].event = e
    BY <1>2, <1>3
  <2> QED
    BY <1>1, <2>1, Zenon DEF Settled
<1> QED
  BY <1>2, <1>4, <1>5, <1>6, <1>7, <1>8

\* The rows stand for the same events, in the same order.
LEMMA PlacesStay ==
    ASSUME NEW before, NEW after, Ready(before), Ready(after), Continues(before, after),
           NEW s, s = ComposeApiStream(before), NEW t, t = ComposeApiStream(after)
    PROVE  /\ Len(s) <= Len(t)
           /\ \A k \in DOMAIN s : k \in DOMAIN t /\ t[k].at = s[k].at
<1>1. PICK V, W : V = before.timeline /\ W = after.timeline
  OBVIOUS
<1>2. PICK D, E : D = EventsOf(V) /\ E = EventsOf(W)
  OBVIOUS
<1>3. /\ V \in Seq(Row) /\ W \in Seq(Row)
      /\ DOMAIN V \subseteq DOMAIN W
      /\ \A i \in DOMAIN V : W[i].event = V[i].event
      /\ \A i \in DOMAIN V, j \in DOMAIN W \ DOMAIN V : i < j
      /\ D \in Seq(Event) /\ E \in Seq(Event)
      /\ DOMAIN D = DOMAIN V /\ DOMAIN E = DOMAIN W
      /\ \A i \in DOMAIN V : E[i] = D[i]
  BY <1>1, <1>2, ContinuedRows
<1>4. PICK S, U : S = DOMAIN V \ HiddenRows(V) /\ U = DOMAIN W \ HiddenRows(W)
  OBVIOUS
<1>5. \A i \in DOMAIN V : i \in HiddenRows(W) <=> i \in HiddenRows(V)
  <2> TAKE i \in DOMAIN V
  <2>1. \A j \in 1 .. i - 1 : j \in DOMAIN V
    BY <1>3
  <2> QED
    BY <1>3, <2>1 DEF HiddenRows
<1>6. /\ S \in SUBSET DOMAIN D /\ U \in SUBSET DOMAIN E /\ S \subseteq U
      /\ \A i \in S, j \in U \ S : i < j
      /\ \A i \in S : E[i] = D[i]
  <2>1. \A j \in U \ S : j \in DOMAIN W \ DOMAIN V
    BY <1>4, <1>5
  <2> QED
    BY <1>3, <1>4, <1>5, <2>1
<1>7. s \in Seq(StreamEntry) /\ Ats(s) = AtPositions(D, S)
  BY <1>1, <1>2, <1>4, NothingLeft, AllTaken
<1>8. t \in Seq(StreamEntry) /\ Ats(t) = AtPositions(E, U)
  BY <1>1, <1>2, <1>4, NothingLeft, AllTaken
<1>9. PICK A, B : A = AtPositions(D, S) /\ B = AtPositions(E, U)
  OBVIOUS
<1>10. Len(A) <= Len(B) /\ \A n \in DOMAIN A : n \in DOMAIN B /\ B[n] = A[n]
  <2>1. /\ Len(AtPositions(D, S)) <= Len(AtPositions(E, U))
        /\ \A n \in DOMAIN AtPositions(D, S) :
              /\ n \in DOMAIN AtPositions(E, U)
              /\ AtPositions(E, U)[n] = AtPositions(D, S)[n]
    <3>1. D \in Seq(Event) /\ E \in Seq(Event)
      BY <1>3
    <3> QED
      BY <1>6, <3>1, AtMore
  <2> QED
    BY <1>9, <2>1
<1>11. /\ Len(A) = Len(s) /\ DOMAIN A = DOMAIN s /\ \A k \in DOMAIN s : A[k] = s[k].at
  <2>1. A = [k \in 1 .. Len(s) |-> s[k].at] /\ Len(s) \in Nat /\ DOMAIN s = 1 .. Len(s)
    BY <1>7, <1>9 DEF Ats
  <2> QED
    BY <2>1
<1>12. /\ Len(B) = Len(t) /\ DOMAIN B = DOMAIN t /\ \A k \in DOMAIN t : B[k] = t[k].at
  <2>1. B = [k \in 1 .. Len(t) |-> t[k].at] /\ Len(t) \in Nat /\ DOMAIN t = 1 .. Len(t)
    BY <1>8, <1>9 DEF Ats
  <2> QED
    BY <2>1
<1> QED
  BY <1>10, <1>11, <1>12

LEMMA RowsStay ==
    ASSUME NEW before, NEW after, Ready(before), Ready(after), Continues(before, after)
    PROVE  Remains(ComposeApiStream(before), ComposeApiStream(after))
<1>1. PICK s, t : s = ComposeApiStream(before) /\ t = ComposeApiStream(after)
  OBVIOUS
<1>2. PICK V, W : V = before.timeline /\ W = after.timeline
  OBVIOUS
<1>3. Len(s) <= Len(t) /\ \A k \in DOMAIN s : k \in DOMAIN t /\ t[k].at = s[k].at
  BY <1>1, PlacesStay
<1>4. /\ V \in Seq(Row) /\ W \in Seq(Row)
      /\ DOMAIN V = 1 .. Len(V) /\ DOMAIN W = 1 .. Len(W)
      /\ \A i \in DOMAIN V : i \in DOMAIN W /\ W[i].event = V[i].event
      /\ \A i, j \in DOMAIN W : W[i].event = W[j].event => i = j
  <2>1. /\ V \in Seq(Row) /\ W \in Seq(Row)
        /\ \A i \in DOMAIN V : i \in DOMAIN W /\ W[i].event = V[i].event
    BY <1>2, ContinuedRows
  <2>2. \A i, j \in DOMAIN W : W[i].event = W[j].event => i = j
    BY <1>2, ReadyRows
  <2> QED
    BY <2>1, <2>2
<1>5. \A k \in DOMAIN s : SettledEntry(before, Len(V), s[k])
  <2>1. s = PlacedRows(before).stream
    BY <1>1, NothingLeft
  <2>2. SettledTo(before, Len(V), PlacedRows(before))
    BY <1>2, AllSettled
  <2> QED
    BY <2>1, <2>2 DEF SettledTo
<1>6. \A k \in DOMAIN t : SettledEntry(after, Len(W), t[k])
  <2>1. t = PlacedRows(after).stream
    BY <1>1, NothingLeft
  <2>2. SettledTo(after, Len(W), PlacedRows(after))
    BY <1>2, AllSettled
  <2> QED
    BY <2>1, <2>2 DEF SettledTo
<1>7. ASSUME NEW k \in DOMAIN s, ~MayStandIn(s[k].at)
      PROVE  t[k] = s[k]
  <2>1. k \in DOMAIN t /\ t[k].at = s[k].at
    BY <1>3
  <2>2. PICK i \in DOMAIN V : s[k].at = V[i].event /\ s[k] = Settled(before, i)
    BY <1>2, <1>4, <1>5, <1>7 DEF SettledEntry
  <2>3. PICK j \in DOMAIN W : t[k].at = W[j].event /\ t[k] = Settled(after, j)
    BY <1>2, <1>4, <1>6, <1>7, <2>1 DEF SettledEntry
  <2>4. i = j
    BY <1>4, <2>1, <2>2, <2>3
  <2>5. Settled(after, i) = Settled(before, i)
    BY <1>2, SettledStays
  <2> QED
    BY <2>2, <2>3, <2>4, <2>5
<1>8. Remains(s, t)
  BY <1>3, <1>7 DEF Remains
<1> QED
  BY <1>1, <1>8

-----------------------------------------------------------------------------
\* The trace the pages are put together to

\* Rows of the store, each once, with their calls can be shown.
LEMMA ReadyIf ==
    ASSUME NEW trace \in Trace, NEW s, DOMAIN s \in SUBSET Nat, Distinct(s),
           NEW L, IsPlaced(trace.timeline, s, L), Shown(trace.timeline, trace.calls)
    PROVE  Ready(trace)
<1>1. PICK W : W = trace.timeline
  OBVIOUS
<1>2. W \in Seq(Row)
  BY <1>1 DEF Trace
<1>3. PICK f \in [DOMAIN W -> DOMAIN s] : PlacedAt(W, s, L, f)
  BY <1>1 DEF IsPlaced
<1>4. /\ DOMAIN W \in SUBSET Nat /\ DOMAIN EventsOf(W) = DOMAIN W
      /\ \A i \in DOMAIN W : EventsOf(W)[i] = W[i].event
  BY <1>2, EventsOfRows
<1>5. ASSUME NEW i \in DOMAIN W, NEW j \in DOMAIN W, W[i].event = W[j].event
      PROVE  i = j
  <2>1. f[i] = f[j]
    BY <1>3, <1>5 DEF PlacedAt, Distinct
  <2>2. ~ (i < j) /\ ~ (j < i)
    <3>1. f[i] \in Nat /\ f[j] \in Nat /\ i \in Nat /\ j \in Nat
      BY <1>3, <1>4
    <3>2. /\ i < j => f[j] - f[i] >= j - i
          /\ j < i => f[i] - f[j] >= i - j
      BY <1>3 DEF PlacedAt
    <3> QED
      BY <2>1, <3>1, <3>2
  <2> QED
    BY <1>4, <2>2
<1>6. Distinct(EventsOf(W))
  BY <1>4, <1>5 DEF Distinct
<1> QED
  BY <1>1, <1>6 DEF Ready

\* What the pages put together can be shown, before a step
LEMMA ReadyTrace ==
    ASSUME PagesInv, CallsInv
    PROVE  Ready(remote)
<1>1. /\ remote \in Trace /\ Shown(remote.timeline, remote.calls) /\ Distinct(store)
      /\ IsPlaced(remote.timeline, store, late)
  BY DEF PagesInv, CallsInv, TypeOK, Overtaken, RowsPlaced
<1>2. DOMAIN store \in SUBSET Nat
  BY DEF PagesInv, TypeOK
<1> QED
  BY <1>1, <1>2, ReadyIf

\* and after it.
LEMMA ReadyNext ==
    ASSUME PagesInv', CallsInv'
    PROVE  Ready(remote')
<1>1. PICK r, s, L : r = remote' /\ s = store' /\ L = late'
  OBVIOUS
<1>2. r \in Trace /\ Shown(r.timeline, r.calls) /\ Distinct(s) /\ IsPlaced(r.timeline, s, L)
  BY <1>1 DEF PagesInv, CallsInv, TypeOK, Overtaken, RowsPlaced
<1>3. DOMAIN s \in SUBSET Nat
  BY <1>1 DEF PagesInv, TypeOK
<1>4. Ready(r)
  BY <1>2, <1>3, ReadyIf
<1> QED
  BY <1>1, <1>4

\* Such a trace is shown as its timeline.
LEMMA ReadyShown ==
    ASSUME Ready(remote)
    PROVE  StreamIsTheTimeline
<1>1. PICK W, C, s : W = remote.timeline /\ C = remote.calls /\ s = ComposeApiStream(remote)
  OBVIOUS
<1> DEFINE Rows(of) == {k \in DOMAIN s : s[k].id.of = of}
<1>2. W \in Seq(Row) /\ DOMAIN C \in SUBSET Nat
  BY <1>1, ReadyRows
<1>3. s = PlacedRows(remote).stream
  BY <1>1, NothingLeft
<1>4. /\ Ats(s) = AtPositions(EventsOf(W), DOMAIN W \ HiddenRows(W))
      /\ Entries(remote, Messages(W), DOMAIN C, s)
  BY <1>1, <1>3, AllTaken
<1>5. \A k \in DOMAIN s : Shows(remote, Messages(W), DOMAIN C, s[k])
  BY <1>4 DEF Entries
<1>6. \A m \in Messages(W) : MessageId(W, m).of = "conversation"
  BY <1>2, MessageIds
<1>7. (\A c : ToolId(c).of = "tool") /\ (\A e : EventId(e).of = "timeline")
  BY DEF ToolId, EventId
<1>8. {s[k].shows : k \in Rows("conversation")} = Messages(W)
  <2>1. ASSUME NEW k \in DOMAIN s, s[k].id.of = "conversation"
        PROVE  s[k].shows \in Messages(W)
    BY <1>5, <1>7, <2>1 DEF Shows
  <2>2. ASSUME NEW m \in Messages(W)
        PROVE  \E k \in DOMAIN s : s[k].id.of = "conversation" /\ s[k].shows = m
    BY <1>1, <1>4, <1>6 DEF Entries
  <2> QED
    BY <2>1, <2>2
<1>9. {s[k].shows : k \in Rows("tool")} = {C[c].start : c \in DOMAIN C}
  <2>1. ASSUME NEW k \in DOMAIN s, s[k].id.of = "tool"
        PROVE  \E c \in DOMAIN C : s[k].shows = C[c].start
    <3>1. CASE s[k].shows \in Messages(W) /\ s[k].id = MessageId(W, s[k].shows)
      BY <1>6, <2>1, <3>1
    <3>2. CASE \E c \in DOMAIN C : s[k].id = ToolId(c) /\ s[k].shows = C[c].start
      BY <3>2
    <3>3. CASE s[k].id = EventId(s[k].at)
      BY <1>7, <2>1, <3>3
    <3> QED
      BY <1>1, <1>5, <3>1, <3>2, <3>3 DEF Shows
  <2>2. ASSUME NEW c \in DOMAIN C
        PROVE  \E k \in DOMAIN s : s[k].id.of = "tool" /\ s[k].shows = C[c].start
    BY <1>1, <1>4, <1>7 DEF Entries
  <2> QED
    BY <2>1, <2>2
<1>10. \A j, k \in DOMAIN s : s[j].id = s[k].id => j = k
  BY <1>4 DEF Entries
<1>11. IsTimeline(s, W, C)
  BY <1>4, <1>8, <1>9, <1>10 DEF IsTimeline, Ats
<1> QED
  BY <1>1, <1>11 DEF StreamIsTheTimeline

-----------------------------------------------------------------------------
\* Merging a page

\* A merged page goes on after the loaded rows, and leaves their starts at their calls.
LEMMA MergedContinues ==
    ASSUME PagesInv, CallsInv, Usable
    PROVE  Continues(remote, MergeTracePage(remote, req.page))
<1>1. /\ remote \in Trace /\ req.page \in Trace
      /\ FreshRows(remote.timeline, req.page.timeline) = DOMAIN req.page.timeline
      /\ Shown(remote.timeline, remote.calls)
  BY DEF PagesInv, CallsInv, TypeOK, Request, PageReady
<1>2. PICK W, C, P, D, next :
         /\ W = remote.timeline /\ C = remote.calls
         /\ P = req.page.timeline /\ D = PreparedCalls(req.page)
         /\ next = MergeTracePage(remote, req.page)
  OBVIOUS
<1>3. W \in Seq(Row) /\ C \in Seq(Call) /\ P \in Seq(Row) /\ D \in Seq(Call)
  BY <1>1, <1>2, PreparedType DEF Trace
<1>4. AtPositions(P, FreshRows(W, P)) = P
  BY <1>1, <1>2, <1>3, AtAllPositions
<1>5. PICK F : F = AtPositions(D, FreshCalls(C, D))
  OBVIOUS
<1>6. F \in Seq(Call)
  <2>1. FreshCalls(C, D) \in SUBSET DOMAIN D
    BY DEF FreshCalls
  <2> QED
    BY <1>3, <1>5, <2>1, AtPositionsType
<1>7. PICK J, K : J = W \o P /\ K = C \o F
  OBVIOUS
<1>8. J \in Seq(Row) /\ \A i \in DOMAIN W : i \in DOMAIN J /\ J[i] = W[i]
  BY <1>3, <1>7
<1>9. K \in Seq(Call) /\ \A c \in DOMAIN C : c \in DOMAIN K /\ K[c] = C[c]
  BY <1>3, <1>6, <1>7
<1>10. next.timeline = Aligned(J, K) /\ next.calls = K
  BY <1>1, <1>2, <1>4, <1>5, <1>7 DEF MergeTracePage, Trace
<1>11. PICK A : A = next.timeline
  OBVIOUS
<1>12. /\ DOMAIN A = DOMAIN J
       /\ \A i \in DOMAIN J : A[i].event = J[i].event /\ A[i].ix = J[i].ix
  BY <1>8, <1>9, <1>10, <1>11, AlignedPoints
<1>13. A \in Seq(Row) /\ Shown(A, K)
  <2>1. A \in Seq(Row)
    BY <1>8, <1>9, <1>10, <1>11, AlignedRows
  <2>2. Shown(A, K)
    BY <1>2, <1>10, <1>11, MergeShows
  <2> QED
    BY <2>1, <2>2
<1>14. \A i \in DOMAIN W : i \in DOMAIN A /\ A[i].event = W[i].event /\ A[i].ix = W[i].ix
  BY <1>8, <1>12
<1>15. ASSUME NEW i \in DOMAIN W, IsStart(W[i])
       PROVE  A[i].at = W[i].at
  <2>1. W[i].at \in DOMAIN C /\ C[W[i].at].ix = W[i].ix
    BY <1>1, <1>2, <1>3, <1>15, StartAt
  <2>2. W[i].at \in DOMAIN K /\ K[W[i].at].ix = W[i].ix
    BY <1>9, <2>1
  <2>3. A[i].at \in DOMAIN K /\ K[A[i].at].ix = W[i].ix
    <3>1. i \in DOMAIN A /\ IsStart(A[i]) /\ A[i].ix = W[i].ix
      BY <1>14, <1>15 DEF IsStart
    <3> QED
      BY <1>13, <3>1, StartAt
  <2>4. \A c, d \in DOMAIN K : K[c].ix = K[d].ix => c = d
    BY <1>13 DEF Shown, Tells
  <2> QED
    BY <2>2, <2>3, <2>4
<1>16. Continues(remote, next)
  BY <1>2, <1>11, <1>14, <1>15 DEF Continues
<1> QED
  BY <1>2, <1>16

LEMMA RowsRemainStep ==
    ASSUME PagesInv, CallsInv, PagesInv', CallsInv', NextPage
    PROVE  Remains(ComposeApiStream(remote), ComposeApiStream(remote'))
<1>1. Ready(remote) /\ Ready(remote')
  BY ReadyTrace, ReadyNext
<1>2. Continues(remote, remote')
  <2>1. CASE HasContiguousNextTracePage(remote, req.page, req.offset)
    <3>1. Usable /\ remote' = MergeTracePage(remote, req.page)
      BY <2>1 DEF NextPage, Usable
    <3> QED
      BY <3>1, MergedContinues
  <2>2. CASE ~HasContiguousNextTracePage(remote, req.page, req.offset)
    <3>1. remote' = remote
      BY <2>2 DEF NextPage
    <3> QED
      BY <3>1 DEF Continues
  <2> QED
    BY <2>1, <2>2
<1> QED
  BY <1>1, <1>2, RowsStay

-----------------------------------------------------------------------------
\* Theorems

\* Whatever the pages and their moments: each message and each call has one row, each event
\* of the timeline one unless it completes a call loaded before it, in the timeline's order,
\* and no two rows have the same id (composeApiStream).
THEOREM StreamShown == Spec => []StreamIsTheTimeline
<1>1. PagesInv /\ CallsInv => StreamIsTheTimeline
  BY ReadyTrace, ReadyShown
<1> QED
  BY <1>1, InvAlways, CallsInit, CallsStep, PTL DEF Spec

\* A merged page changes no row that was shown, neither its place nor its id nor what it
\* shows; only where a message event without content has the moment of a message of another
\* event does it depend on what is loaded which of them shows which (loadMoreTrace).
THEOREM RowsRemain == Spec => LoadedRowsRemain
<1>1. PagesInv /\ CallsInv /\ [Next]_vars =>
         [NextPage => Remains(ComposeApiStream(remote), ComposeApiStream(remote'))]_vars
  <2> SUFFICES ASSUME PagesInv, CallsInv, [Next]_vars, NextPage
               PROVE  Remains(ComposeApiStream(remote), ComposeApiStream(remote'))
    OBVIOUS
  <2>1. PagesInv' /\ CallsInv'
    BY InvStep, CallsStep
  <2> QED
    BY <2>1, RowsRemainStep
<1> QED
  BY <1>1, InvAlways, CallsInit, CallsStep, PTL DEF Spec, LoadedRowsRemain

=============================================================================
