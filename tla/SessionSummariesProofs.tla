------------------------ MODULE SessionSummariesProofs ------------------------
(***************************************************************************)
(* For every set of documents, every number of workers and every capacity: *)
(* each document is in one place at a time - unread, with the cursor, in   *)
(* the channel, with a worker, or counted by one of them - and as long as  *)
(* the walk is not broken none of the window's documents is lost.  When    *)
(* all workers are done the only place left is the accumulators.           *)
(***************************************************************************)
EXTENDS SessionSummaries, FiniteSetTheorems, TLAPS

InChannel(d) == \E i \in 1 .. Len(channel) : channel[i] = d
IsHeld(d) == \E w \in Workers : holds[w] = d
IsCounted(d) == \E w \in Workers : d \in counted[w]

\* Nothing starts before the window is known; the channel is closed by the end
\* of the walk, and workers leave it empty.
Phases ==
    /\ handler = "ids" => rows = "idle" /\ walk = "idle"
    /\ closed => walk \in {"walked", "broken", "ok", "failed"}
    /\ walk \in {"walked", "ok"} => unread = {}
    /\ \A w \in done : closed /\ channel = <<>> /\ holds[w] = None
    /\ walk \in {"ok", "failed"} => closed /\ done = Workers

\* Each document is in one place.
OnePlace ==
    /\ \A d \in unread : ~InChannel(d) /\ ~IsHeld(d) /\ ~IsCounted(d)
                            /\ (walk = "sending" => d # current)
    /\ walk = "sending" => /\ current \in Documents
                           /\ ~InChannel(current) /\ ~IsHeld(current) /\ ~IsCounted(current)
    /\ \A i, j \in 1 .. Len(channel) : channel[i] = channel[j] => i = j
    /\ \A i \in 1 .. Len(channel) : ~IsHeld(channel[i]) /\ ~IsCounted(channel[i])
    /\ \A v, w \in Workers : holds[v] = holds[w] /\ holds[v] # None => v = w
    /\ \A w \in Workers : ~IsCounted(holds[w])
    /\ \A v, w \in Workers : \A d \in counted[v] : d \in Selected /\ (d \in counted[w] => v = w)

\* No document of the window is lost.
NoneLost ==
    walk \in {"idle", "walking", "sending", "walked", "ok"} =>
        \A d \in Selected :
            \/ d \in unread
            \/ walk = "sending" /\ d = current
            \/ InChannel(d) \/ IsHeld(d) \/ IsCounted(d)

\* Who cancelled, failed; who failed, had a reason.
Causes ==
    /\ cancelled => faulty \/ gone
    /\ rows = "failed" => faulty \/ gone
    /\ walk \in {"broken", "failed"} => faulty \/ gone
    /\ ErrorHasCause

Inv == TypeOK /\ Phases /\ OnePlace /\ NoneLost /\ Causes /\ FeaturesAreSequential /\ NothingLeftRunning

USE SummariesAssumption

LEMMA InitInv == Init => Inv
  <1> SUFFICES ASSUME Init PROVE Inv
    OBVIOUS
  <1> USE DEF Init
  <1>1. TypeOK
    <2>1. channel \in Seq(Documents) /\ Len(channel) <= Capacity
      BY SummariesAssumption
    <2>2. unread \in SUBSET Documents /\ done \in SUBSET Workers
      OBVIOUS
    <2>3. counted \in [Workers -> SUBSET Documents]
      OBVIOUS
    <2>4. holds \in [Workers -> Documents \cup {None}] /\ features \in [Documents -> Nat]
      OBVIOUS
    <2> QED BY <2>1, <2>2, <2>3, <2>4 DEF TypeOK
  <1>2. Phases /\ Causes /\ FeaturesAreSequential /\ NothingLeftRunning
    BY DEF Phases, Causes, ErrorHasCause, FeaturesAreSequential, NothingLeftRunning, Answered
  <1>3. \A d : ~InChannel(d) /\ ~IsCounted(d)
    BY DEF InChannel, IsCounted
  <1>4. \A d \in Documents : ~IsHeld(d)
    BY DEF IsHeld
  <1>5. OnePlace
    BY <1>3, <1>4 DEF OnePlace
  <1>6. NoneLost
    BY DEF NoneLost
  <1> QED BY <1>1, <1>2, <1>5, <1>6 DEF Inv

\* The merge counts a document once if exactly one worker did.
LEMMA MergedOnce ==
  ASSUME NEW d \in Documents, NEW w \in Workers, d \in counted[w],
         \A v \in Workers : d \in counted[v] => v = w
  PROVE  Merged(d) = 1
  <1>1. {v \in Workers : d \in counted[v]} = {w}
    OBVIOUS
  <1> QED BY <1>1, FS_Singleton DEF Merged

LEMMA MergedNever ==
  ASSUME NEW d \in Documents, ~IsCounted(d)
  PROVE  Merged(d) = 0
  <1>1. {v \in Workers : d \in counted[v]} = {}
    BY DEF IsCounted
  <1> QED BY <1>1, FS_EmptySet DEF Merged

LEMMA MergedIsNumber == ASSUME NEW d PROVE Merged(d) \in Nat
  <1>1. IsFiniteSet({w \in Workers : d \in counted[w]})
    BY FS_Subset
  <1> QED BY <1>1, FS_CardinalityType DEF Merged
-----------------------------------------------------------------------------
LEMMA NextInv == Inv /\ [Next]_vars => Inv'
  <1> SUFFICES ASSUME Inv, [Next]_vars PROVE Inv'
    OBVIOUS
  <1> USE DEF Inv
  <1>1. CASE ListRecentSessionIDs
    <2> USE <1>1 DEF ListRecentSessionIDs, pool
    <2>1. TypeOK'
      BY DEF TypeOK, Fails
    <2>2. Phases' /\ Causes' /\ FeaturesAreSequential' /\ NothingLeftRunning'
      BY DEF TypeOK, Phases, Causes, ErrorHasCause, FeaturesAreSequential, NothingLeftRunning, Answered,
             Fails, Stopped
    <2>3. OnePlace' /\ NoneLost'
      BY DEF OnePlace, NoneLost, Phases, InChannel, IsHeld, IsCounted
    <2> QED BY <2>1, <2>2, <2>3
  <1>2. CASE ListSessionSummaries
    <2> USE <1>2 DEF ListSessionSummaries, pool, cursor
    <2>1. TypeOK'
      BY DEF TypeOK, Fails
    <2>2. Phases' /\ Causes' /\ FeaturesAreSequential' /\ NothingLeftRunning'
      BY DEF TypeOK, Phases, Causes, ErrorHasCause, FeaturesAreSequential, NothingLeftRunning, Answered,
             Fails, Stopped
    <2>3. OnePlace' /\ NoneLost'
      BY DEF OnePlace, NoneLost, InChannel, IsHeld, IsCounted
    <2> QED BY <2>1, <2>2, <2>3
  <1>3. CASE Answer
    <2> USE <1>3 DEF Answer, pool, cursor
    <2>1. TypeOK'
      BY DEF TypeOK
    <2>2. Workers \ done = {} => channel = <<>>
      BY DEF Phases, TypeOK
    <2>3. Phases' /\ Causes' /\ FeaturesAreSequential' /\ NothingLeftRunning'
      BY <2>2 DEF TypeOK, Phases, Causes, ErrorHasCause, FeaturesAreSequential, NothingLeftRunning, Answered
    <2>4. OnePlace' /\ NoneLost'
      BY DEF OnePlace, NoneLost, InChannel, IsHeld, IsCounted
    <2> QED BY <2>1, <2>3, <2>4
  <1>4. CASE ClientLeaves
    <2> USE <1>4 DEF ClientLeaves, pool, cursor
    <2>1. TypeOK'
      BY DEF TypeOK
    <2>2. Phases' /\ Causes' /\ FeaturesAreSequential' /\ NothingLeftRunning'
      BY DEF Phases, Causes, ErrorHasCause, FeaturesAreSequential, NothingLeftRunning, Answered
    <2>3. OnePlace' /\ NoneLost'
      BY DEF OnePlace, NoneLost, InChannel, IsHeld, IsCounted
    <2> QED BY <2>1, <2>2, <2>3
  <1>5. CASE NextDocument
    <2> USE <1>5 DEF NextDocument, reads, pool
    <2>1. TypeOK'
      BY DEF TypeOK
    <2>2. Phases' /\ Causes' /\ FeaturesAreSequential' /\ NothingLeftRunning'
      BY DEF TypeOK, Phases, Causes, ErrorHasCause, FeaturesAreSequential, NothingLeftRunning, Answered
    <2>3. OnePlace'
      BY DEF TypeOK, OnePlace, InChannel, IsHeld, IsCounted
    <2>4. NoneLost'
      BY DEF TypeOK, NoneLost, InChannel, IsHeld, IsCounted
    <2> QED BY <2>1, <2>2, <2>3, <2>4
  <1>6. CASE Send
    <2> USE <1>6 DEF Send, reads
    <2>1. current \in Documents
      BY DEF OnePlace
    <2>2. TypeOK'
      BY <2>1 DEF TypeOK
    <2>3. Phases' /\ Causes' /\ FeaturesAreSequential' /\ NothingLeftRunning'
      BY DEF TypeOK, Phases, Causes, ErrorHasCause, FeaturesAreSequential, NothingLeftRunning, Answered
    <2>4. /\ Len(channel') = Len(channel) + 1 /\ Len(channel) \in Nat
          /\ channel'[Len(channel) + 1] = current
          /\ \A i \in 1 .. Len(channel) : channel'[i] = channel[i]
      BY <2>1 DEF TypeOK
    <2>5. \A d : InChannel(d)' <=> InChannel(d) \/ d = current
      BY <2>4 DEF InChannel
    <2>6. \A d : (IsHeld(d)' <=> IsHeld(d)) /\ (IsCounted(d)' <=> IsCounted(d))
      BY DEF IsHeld, IsCounted
    <2>7. \A i, j \in 1 .. Len(channel') : channel'[i] = channel'[j] => i = j
      <3> SUFFICES ASSUME NEW i \in 1 .. Len(channel'), NEW j \in 1 .. Len(channel'), channel'[i] = channel'[j]
                   PROVE  i = j
        OBVIOUS
      <3>1. ~InChannel(current)
        BY DEF OnePlace
      <3>2. CASE i <= Len(channel) /\ j <= Len(channel)
        BY <2>4, <3>2 DEF OnePlace
      <3>3. CASE i = Len(channel) + 1 \/ j = Len(channel) + 1
        BY <2>4, <3>1, <3>3 DEF InChannel
      <3> QED BY <2>4, <3>2, <3>3
    <2>8. \A i \in 1 .. Len(channel') : ~IsHeld(channel'[i]) /\ ~IsCounted(channel'[i])
      BY <2>4 DEF OnePlace
    <2>9. OnePlace'
      BY <2>5, <2>6, <2>7, <2>8 DEF OnePlace
    <2>10. NoneLost'
      BY <2>5, <2>6 DEF NoneLost
    <2> QED BY <2>2, <2>3, <2>9, <2>10
  <1>7. CASE GiveUpSending
    <2> USE <1>7 DEF GiveUpSending, reads, pool
    <2>1. TypeOK'
      BY DEF TypeOK
    <2>2. Phases' /\ Causes' /\ FeaturesAreSequential' /\ NothingLeftRunning'
      BY DEF TypeOK, Phases, Causes, ErrorHasCause, FeaturesAreSequential, NothingLeftRunning, Answered, Stopped
    <2>3. OnePlace' /\ NoneLost'
      BY DEF OnePlace, NoneLost, InChannel, IsHeld, IsCounted
    <2> QED BY <2>1, <2>2, <2>3
  <1>8. CASE WalkEnds
    <2> USE <1>8 DEF WalkEnds, pool
    <2>1. TypeOK'
      BY DEF TypeOK, Fails
    <2>2. Phases' /\ Causes' /\ FeaturesAreSequential' /\ NothingLeftRunning'
      BY DEF TypeOK, Phases, Causes, ErrorHasCause, FeaturesAreSequential, NothingLeftRunning, Answered,
             Fails, Stopped
    <2>3. OnePlace' /\ NoneLost'
      BY DEF OnePlace, NoneLost, InChannel, IsHeld, IsCounted
    <2> QED BY <2>1, <2>2, <2>3
  <1>9. CASE Close
    <2> USE <1>9 DEF Close, reads, cursor
    <2>1. TypeOK'
      BY DEF TypeOK
    <2>2. Phases' /\ Causes' /\ FeaturesAreSequential' /\ NothingLeftRunning'
      BY DEF TypeOK, Phases, Causes, ErrorHasCause, FeaturesAreSequential, NothingLeftRunning, Answered
    <2>3. OnePlace' /\ NoneLost'
      BY DEF OnePlace, NoneLost, InChannel, IsHeld, IsCounted
    <2> QED BY <2>1, <2>2, <2>3
  <1>10. CASE FeaturesReturn
    <2> USE <1>10 DEF FeaturesReturn, pool
    <2>1. TypeOK'
      <3>1. features' \in [Documents -> Nat]
        BY MergedIsNumber DEF TypeOK
      <3>2. features' \in [Documents -> Nat] /\ walk' \in {"ok", "failed"} /\ cancelled' \in BOOLEAN
        BY <3>1 DEF TypeOK
      <3> QED BY <3>2 DEF TypeOK
    <2>2. channel = <<>> /\ \A w \in Workers : holds[w] = None
      BY DEF Phases
    <2>3. Phases' /\ Causes' /\ NothingLeftRunning'
      BY <2>2 DEF TypeOK, Phases, Causes, ErrorHasCause, NothingLeftRunning, Answered
    <2>4. OnePlace' /\ NoneLost'
      BY DEF OnePlace, NoneLost, InChannel, IsHeld, IsCounted
    <2>5. FeaturesAreSequential'
      <3> SUFFICES ASSUME walk' = "ok", NEW d \in Documents
                   PROVE  features'[d] = IF d \in Selected THEN 1 ELSE 0
        BY DEF FeaturesAreSequential
      <3>1. walk = "walked" /\ features'[d] = Merged(d)
        OBVIOUS
      <3>2. CASE d \in Selected
        <4>1. IsCounted(d)
          BY <2>2, <3>1, <3>2 DEF NoneLost, Phases, InChannel, IsHeld
        <4>2. PICK w \in Workers : d \in counted[w]
          BY <4>1 DEF IsCounted
        <4>3. \A v \in Workers : d \in counted[v] => v = w
          BY <4>2 DEF OnePlace
        <4> QED BY <3>1, <3>2, <4>2, <4>3, MergedOnce
      <3>3. CASE d \notin Selected
        <4>1. ~IsCounted(d)
          BY <3>3 DEF OnePlace, IsCounted
        <4> QED BY <3>1, <3>3, <4>1, MergedNever
      <3> QED BY <3>2, <3>3
    <2> QED BY <2>1, <2>3, <2>4, <2>5
  <1>11. ASSUME NEW w \in Workers, Take(w) PROVE Inv'
    <2> USE <1>11 DEF Take, reads, cursor
    <2>0. /\ Head(channel) = channel[1] /\ Head(channel) \in Documents
          /\ Len(channel) \in Nat /\ Len(channel) >= 1
          /\ channel' \in Seq(Documents) /\ Len(channel') = Len(channel) - 1
          /\ \A i \in 1 .. Len(channel') : channel'[i] = channel[i + 1]
      BY DEF TypeOK
    <2>1. TypeOK'
      BY <2>0 DEF TypeOK
    <2>2. Phases' /\ Causes' /\ FeaturesAreSequential' /\ NothingLeftRunning'
      BY DEF TypeOK, Phases, Causes, ErrorHasCause, FeaturesAreSequential, NothingLeftRunning, Answered
    <2>3. \A d \in Documents : IsHeld(d)' <=> IsHeld(d) \/ d = channel[1]
      BY <2>0 DEF IsHeld, TypeOK
    <2>4. \A d : InChannel(d) <=> InChannel(d)' \/ d = channel[1]
      <3>1. \A i \in 1 .. Len(channel) : i = 1 \/ i - 1 \in 1 .. Len(channel')
        BY <2>0
      <3>2. \A i \in 1 .. Len(channel) : i # 1 => channel'[i - 1] = channel[i]
        BY <2>0, <3>1
      <3> QED BY <2>0, <3>1, <3>2 DEF InChannel
    <2>5. \A d : IsCounted(d)' <=> IsCounted(d)
      BY DEF IsCounted
    <2>6. \A i \in 1 .. Len(channel') : i + 1 \in 1 .. Len(channel) /\ channel'[i] \in Documents
      BY <2>0 DEF TypeOK
    <2>7. \A i, j \in 1 .. Len(channel') : channel'[i] = channel'[j] => i = j
      BY <2>0, <2>6 DEF OnePlace
    <2>8. \A i \in 1 .. Len(channel') : ~IsHeld(channel[i])' /\ ~IsCounted(channel[i])'
      <3> SUFFICES ASSUME NEW i \in 1 .. Len(channel')
                   PROVE  ~IsHeld(channel[i])' /\ ~IsCounted(channel[i])'
        OBVIOUS
      <3>1. channel'[i] = channel[i + 1] /\ i + 1 # 1 /\ i + 1 \in 1 .. Len(channel) /\ 1 \in 1 .. Len(channel)
        BY <2>0, <2>6
      <3>2. channel[i + 1] # channel[1]
        BY <3>1 DEF OnePlace
      <3>3. ~IsHeld(channel[i + 1]) /\ ~IsCounted(channel[i + 1])
        BY <3>1 DEF OnePlace
      <3> QED BY <2>3, <2>5, <2>6, <3>1, <3>2, <3>3
    <2>9. InChannel(channel[1]) /\ ~IsHeld(channel[1]) /\ ~IsCounted(channel[1])
      BY <2>0 DEF OnePlace, InChannel
    <2>10. \A u, v \in Workers : holds'[u] = holds'[v] /\ holds'[u] # None => u = v
      BY <2>0, <2>9 DEF OnePlace, IsHeld, TypeOK
    <2>11. \A v \in Workers : ~IsCounted(holds[v])'
      BY <2>0, <2>5, <2>9 DEF OnePlace, TypeOK
    <2>12. \A d \in unread : ~InChannel(d)' /\ ~IsHeld(d)' /\ ~IsCounted(d)' /\ (walk = "sending" => d # current)
      BY <2>3, <2>4, <2>5, <2>9 DEF OnePlace, TypeOK
    <2>13. walk = "sending" => /\ current \in Documents
                               /\ ~InChannel(current)' /\ ~IsHeld(current)' /\ ~IsCounted(current)'
      BY <2>3, <2>4, <2>5, <2>9 DEF OnePlace
    <2>14. OnePlace'
      BY <2>7, <2>8, <2>10, <2>11, <2>12, <2>13 DEF OnePlace
    <2>15. NoneLost'
      BY <2>3, <2>4, <2>5 DEF NoneLost
    <2> QED BY <2>1, <2>2, <2>14, <2>15
  <1>12. ASSUME NEW w \in Workers, Count(w) PROVE Inv'
    <2> USE <1>12 DEF Count, Payload, reads, cursor
    <2> DEFINE e == holds[w]
    <2>0. e \in Documents /\ IsHeld(e)
      BY DEF TypeOK, IsHeld
    <2>1. TypeOK'
      BY DEF TypeOK
    <2>2. Phases' /\ Causes' /\ FeaturesAreSequential' /\ NothingLeftRunning'
      BY DEF TypeOK, Phases, Causes, ErrorHasCause, FeaturesAreSequential, NothingLeftRunning, Answered
    <2>3. \A d \in Documents : IsHeld(d)' <=> IsHeld(d) /\ d # e
      BY <2>0 DEF IsHeld, TypeOK, OnePlace
    <2>4. \A d : IsCounted(d)' <=> IsCounted(d) \/ (d = e /\ e \in Selected)
      BY <2>0 DEF IsCounted, TypeOK
    <2>5. \A d : InChannel(d)' <=> InChannel(d)
      BY DEF InChannel
    <2>6. ~IsCounted(e)
      BY DEF OnePlace
    <2>7. \A i \in 1 .. Len(channel) : channel[i] # e /\ channel[i] \in Documents
      BY <2>0 DEF OnePlace, TypeOK
    <2>8. \A v \in Workers : ~IsCounted(holds[v])'
      <3> SUFFICES ASSUME NEW v \in Workers PROVE ~IsCounted(holds[v])'
        OBVIOUS
      <3>1. CASE v = w
        <4>1. holds'[v] = None
          BY <3>1 DEF TypeOK
        <4>2. None # e /\ ~IsCounted(None)
          BY <2>0 DEF IsCounted, TypeOK
        <4> QED BY <2>4, <4>1, <4>2
      <3>2. CASE v # w
        <4>1. holds'[v] = holds[v] /\ holds[v] # e
          BY <3>2, <2>0 DEF OnePlace, TypeOK
        <4> QED BY <2>4, <4>1 DEF OnePlace
      <3> QED BY <3>1, <3>2
    <2>9. \A u, v \in Workers : \A d \in counted'[u] : d \in Selected /\ (d \in counted'[v] => u = v)
      BY <2>0, <2>6 DEF OnePlace, TypeOK, IsCounted
    <2>10. \A u, v \in Workers : holds'[u] = holds'[v] /\ holds'[u] # None => u = v
      BY DEF OnePlace, TypeOK
    <2>11. \A d \in unread : ~InChannel(d)' /\ ~IsHeld(d)' /\ ~IsCounted(d)' /\ (walk = "sending" => d # current)
      BY <2>0, <2>3, <2>4, <2>5 DEF OnePlace, TypeOK
    <2>12. walk = "sending" => /\ current \in Documents
                               /\ ~InChannel(current)' /\ ~IsHeld(current)' /\ ~IsCounted(current)'
      BY <2>0, <2>3, <2>4, <2>5 DEF OnePlace
    <2>13. \A i \in 1 .. Len(channel) : ~IsHeld(channel[i])' /\ ~IsCounted(channel[i])'
      BY <2>3, <2>4, <2>7 DEF OnePlace
    <2>14. OnePlace'
      BY <2>8, <2>9, <2>10, <2>11, <2>12, <2>13 DEF OnePlace
    <2>15. NoneLost'
      BY <2>3, <2>4, <2>5 DEF NoneLost
    <2> QED BY <2>1, <2>2, <2>14, <2>15
  <1>13. ASSUME NEW w \in Workers, Leave(w) PROVE Inv'
    <2> USE <1>13 DEF Leave, reads, cursor
    <2>1. TypeOK'
      BY DEF TypeOK
    <2>2. Phases' /\ Causes' /\ FeaturesAreSequential' /\ NothingLeftRunning'
      BY DEF TypeOK, Phases, Causes, ErrorHasCause, FeaturesAreSequential, NothingLeftRunning, Answered
    <2>3. OnePlace' /\ NoneLost'
      BY DEF OnePlace, NoneLost, InChannel, IsHeld, IsCounted
    <2> QED BY <2>1, <2>2, <2>3
  <1>14. CASE UNCHANGED vars
    <2> USE <1>14 DEF vars
    <2>1. TypeOK' /\ Phases' /\ Causes' /\ FeaturesAreSequential' /\ NothingLeftRunning'
      BY DEF TypeOK, Phases, Causes, ErrorHasCause, FeaturesAreSequential, NothingLeftRunning, Answered
    <2>2. OnePlace' /\ NoneLost'
      BY DEF OnePlace, NoneLost, InChannel, IsHeld, IsCounted
    <2> QED BY <2>1, <2>2
  <1> QED
    BY <1>1, <1>2, <1>3, <1>4, <1>5, <1>6, <1>7, <1>8, <1>9, <1>10, <1>11, <1>12, <1>13, <1>14 DEF Next

-----------------------------------------------------------------------------
LEMMA SpecInv == Spec => []Inv
  BY InitInv, NextInv, PTL DEF Spec

\* The request's state keeps its types, and the channel its bound.
THEOREM SummariesTypeCorrect == Spec => []TypeOK
  BY SpecInv, PTL DEF Inv

\* However many workers there are and however documents are split among them,
\* the features merged are those of one sequential pass.
THEOREM SplitIsSequential == Spec => []FeaturesAreSequential
  BY SpecInv, PTL DEF Inv

\* An error is answered only if a read failed by itself or the client left.
THEOREM ErrorsHaveCauses == Spec => []ErrorHasCause
  BY SpecInv, PTL DEF Inv, Causes

\* When the request is answered its goroutines have ended.
THEOREM NoGoroutineLeft == Spec => []NothingLeftRunning
  BY SpecInv, PTL DEF Inv
=============================================================================
