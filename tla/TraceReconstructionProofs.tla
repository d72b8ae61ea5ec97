---------------------- MODULE TraceReconstructionProofs ----------------------
(***************************************************************************)
(* For every set of ids and every slice storage may return: the tool calls *)
(* of a trace are the pairs the reference pairing gives, its token usage   *)
(* is the latest snapshot, and events with ids of their own are reduced in *)
(* one order, however storage returned them.                               *)
(***************************************************************************)
EXTENDS TraceReconstruction, FiniteSetTheorems, TLAPS

-----------------------------------------------------------------------------
(* Ordering keeps the events: each item is an event of the slice.          *)

LEMMA OrderingsType ==
    ASSUME NEW es \in Seq(HookEvent), NEW o \in Orderings(es)
    PROVE  o \in Seq(Item)
<1>1. PICK p \in [1..Len(es) -> 1..Len(es)] :
            o = [i \in 1..Len(es) |-> [event |-> es[p[i]], index |-> p[i]]]
  BY DEF Orderings
<1>2. \A i \in 1..Len(es) : es[p[i]] \in HookEvent /\ p[i] \in Nat
  OBVIOUS
<1> QED
  BY <1>1, <1>2 DEF Item

LEMMA InitType ==
    ASSUME Init
    PROVE  TypeOK
<1>1. events \in Seq(HookEvent) /\ ordered \in Seq(Item)
  BY StoredAssumption, OrderingsType DEF Init
<1>2. \A S : <<>> \in Seq(S)
  OBVIOUS
<1>3. Len(ordered) \in Nat
  BY <1>1
<1>4. pos \in 0..Len(ordered) /\ pending \in [ToolUseIDs -> Nat] /\ mcpCalls \in Nat
        /\ mcpServers \subseteq Servers /\ direct \in Nat /\ metadata \in Values \cup {NoValue}
  BY <1>3 DEF Init
<1>5. /\ timeline = <<>> /\ toolCalls = <<>> /\ conversation = <<>>
      /\ files = <<>> /\ skills = <<>> /\ cumulative = <<>>
  BY DEF Init
<1> QED
  BY <1>1, <1>2, <1>4, <1>5 DEF TypeOK

-----------------------------------------------------------------------------
(* The event a step reduces, and what recording it leaves behind.          *)

LEMMA CurrentType ==
    ASSUME TypeOK, More
    PROVE  /\ pos + 1 \in 1..Len(ordered)
           /\ Current \in HookEvent
<1>1. pos + 1 \in 1..Len(ordered)
  BY DEF TypeOK, More
<1>2. ordered[pos + 1] \in Item
  BY <1>1 DEF TypeOK
<1> QED
  BY <1>1, <1>2 DEF Current, Item

LEMMA RecordType ==
    ASSUME TypeOK, More,
           NEW R \in SUBSET Reasons, NEW c \in Nat,
           Record(Current, R, c)
    PROVE  /\ timeline' \in Seq(TimelineEvent)
           /\ pos' \in 0..Len(ordered')
           /\ events' \in Seq(HookEvent) /\ ordered' \in Seq(Item)
           /\ conversation' \in Seq(ConversationItem)
           /\ direct' \in Nat /\ cumulative' \in Seq(Nat)
           /\ metadata' \in Values \cup {NoValue}
<1> DEFINE e == Current
           all == PartialReason(e) \cup R
<1>1. e \in HookEvent /\ pos + 1 \in 1..Len(ordered)
  BY CurrentType
<1>2. Evidence(e) \in Usage
  BY <1>1 DEF Evidence, Usage, HookEvent
<1>3. all \in SUBSET Reasons
  BY DEF PartialReason, Reasons
<1>4. timeline' \in Seq(TimelineEvent)
  <2>1. Kind(e, all) \in {"lifecycle", "tool", "partial"}
    BY DEF Kind
  <2>2. [kind |-> Kind(e, all), reasons |-> all, call |-> c, usage |-> Evidence(e)]
            \in TimelineEvent
    BY <1>2, <1>3, <2>1 DEF TimelineEvent
  <2> QED
    BY <2>2 DEF Record, TypeOK
<1>5. conversation' \in Seq(ConversationItem)
  <2> DEFINE item == [event |-> pos + 1, role |-> Roles[e.name]]
  <2>1. CASE e.name \in DOMAIN Roles
    <3>1. Roles[e.name] \in {"user", "assistant"}
      BY <2>1 DEF Roles
    <3>2. item \in ConversationItem
      BY <3>1 DEF TypeOK, ConversationItem
    <3>3. conversation' = conversation \/ conversation' = Append(conversation, item)
      BY DEF Record, Converse
    <3>4. Append(conversation, item) \in Seq(ConversationItem)
      BY <3>2 DEF TypeOK
    <3> QED
      BY <3>3, <3>4 DEF TypeOK
  <2>2. CASE e.name \notin DOMAIN Roles
    BY <2>2 DEF Record, Converse, TypeOK
  <2> QED
    BY <2>1, <2>2
<1>6. direct' \in Nat /\ cumulative' \in Seq(Nat)
  BY <1>2 DEF Record, CountTokens, Usage, TypeOK
<1>7. metadata' \in Values \cup {NoValue}
  BY <1>1 DEF Record, Merge, TypeOK, HookEvent
<1> QED
  BY <1>1, <1>4, <1>5, <1>6, <1>7 DEF Record, TypeOK

LEMMA RecordEffect ==
    ASSUME TypeOK, Len(timeline) = pos, NEW e, NEW R, NEW c, Record(e, R, c)
    PROVE  /\ pos' = pos + 1 /\ ordered' = ordered /\ summary' = summary
           /\ Len(timeline') = pos + 1
           /\ \A j \in 1..pos : timeline'[j] = timeline[j]
           /\ timeline'[pos + 1].call = c
           /\ timeline'[pos + 1].reasons = PartialReason(e) \cup R
BY DEF Record, TypeOK

LEMMA FeaturesType ==
    ASSUME TypeOK, More, Features(Current)
    PROVE  /\ files' \in Seq(FileOperation) /\ skills' \in Seq(Nat)
           /\ mcpCalls' \in Nat /\ mcpServers' \subseteq Servers
<1> DEFINE e == Current
           ops == [i \in 1..Len(e.ops) |-> [event |-> pos + 1, op |-> e.ops[i]]]
           new == [i \in 1..e.skills |-> pos + 1]
<1>1. e \in HookEvent /\ pos + 1 \in Nat
  BY CurrentType
<1>2. ops \in Seq(FileOperation)
  <2>1. e.ops \in Seq(Operations)
    BY <1>1 DEF HookEvent
  <2>2. \A i \in 1..Len(e.ops) : [event |-> pos + 1, op |-> e.ops[i]] \in FileOperation
    BY <1>1, <2>1 DEF FileOperation
  <2> QED
    BY <2>1, <2>2
<1>3. new \in Seq(Nat)
  BY <1>1 DEF HookEvent
<1>4. files \o ops \in Seq(FileOperation) /\ skills \o new \in Seq(Nat)
  <2> HIDE DEF ops, new
  <2> QED
    BY <1>2, <1>3 DEF TypeOK
<1>5. files' \in {files, files \o ops} /\ skills' \in {skills, skills \o new}
  BY DEF Features
<1>6. mcpCalls' \in Nat /\ mcpServers' \subseteq Servers
  BY <1>1 DEF Features, HookEvent, TypeOK
<1> HIDE DEF ops, new
<1> QED
  BY <1>4, <1>5, <1>6 DEF TypeOK

LEMMA CallTypes ==
    ASSUME NEW call \in ToolCall, NEW p \in Nat
    PROVE  Completed(call, p) \in ToolCall /\ Abandoned(call) \in ToolCall
<1>1. call.tool \in ToolUseIDs \cup {NoID} /\ call.opened \in Nat /\ call.closed \in Nat
        /\ call.status \in Statuses
  BY DEF ToolCall
<1>2. Completed(call, p) \in ToolCall
  BY <1>1 DEF Completed, ToolCall, Statuses
<1>3. Abandoned(call) \in ToolCall
  BY <1>1 DEF Abandoned, ToolCall, Statuses
<1> QED
  BY <1>2, <1>3

LEMMA NextType ==
    ASSUME TypeOK, Next
    PROVE  TypeOK'
<1>1. CASE PreToolUse
  <2> DEFINE e == Current
             call == [tool |-> e.tool, opened |-> pos + 1, closed |-> 0, status |-> "pending"]
  <2>1. More /\ Features(e) /\ Record(e, PreReasons(e.tool), Len(toolCalls) + 1)
    BY <1>1 DEF PreToolUse
  <2>2. e \in HookEvent /\ pos + 1 \in Nat /\ Len(toolCalls) + 1 \in Nat
    BY <2>1, CurrentType DEF TypeOK
  <2>3. call \in ToolCall
    BY <2>2 DEF ToolCall, Statuses, HookEvent
  <2>4. toolCalls' = Append(toolCalls, call)
    BY <1>1 DEF PreToolUse
  <2>5. toolCalls' \in Seq(ToolCall)
    <3> HIDE DEF call
    <3> QED  BY <2>3, <2>4 DEF TypeOK
  <2>6. pending' \in [ToolUseIDs -> Nat]
    BY <1>1, <2>2 DEF PreToolUse, TypeOK
  <2>7. PreReasons(e.tool) \in SUBSET Reasons
    BY DEF PreReasons, Reasons
  <2> QED
    BY <2>1, <2>2, <2>5, <2>6, <2>7, RecordType, FeaturesType DEF TypeOK
<1>2. CASE UnidentifiedPost
  <2>1. More /\ Record(Current, {"missing_tool_use_id"}, 0)
    BY <1>2 DEF UnidentifiedPost
  <2>2. {"missing_tool_use_id"} \in SUBSET Reasons
    BY DEF Reasons
  <2> QED
    BY <1>2, <2>1, <2>2, RecordType DEF UnidentifiedPost, TypeOK
<1>3. CASE MatchedPost
  <2> DEFINE index == pending[Current.tool]
  <2>1. More /\ Record(Current, {}, index)
    BY <1>3 DEF MatchedPost
  <2>2. Current.tool \in ToolUseIDs /\ index \in Nat /\ pos + 1 \in Nat
    BY <1>3, <2>1, CurrentType DEF MatchedPost, HookEvent, TypeOK
  <2>3. toolCalls' = [toolCalls EXCEPT ![index] = Completed(toolCalls[index], pos + 1)]
    BY <1>3 DEF MatchedPost
  <2>4. \A c \in 1..Len(toolCalls) : Completed(toolCalls[c], pos + 1) \in ToolCall
    <3>1. \A c \in 1..Len(toolCalls) : toolCalls[c] \in ToolCall
      BY DEF TypeOK
    <3> QED  BY <2>2, <3>1, CallTypes
  <2>5. toolCalls' \in Seq(ToolCall)
    <3>1. toolCalls \in Seq(ToolCall) /\ Len(toolCalls) \in Nat
      BY DEF TypeOK
    <3>2. \A c \in 1..Len(toolCalls) : toolCalls'[c] \in ToolCall
      BY <2>3, <2>4, <3>1
    <3>3. DOMAIN toolCalls = 1..Len(toolCalls)
      BY <3>1
    <3>4. toolCalls' = [c \in DOMAIN toolCalls |->
                          IF c = index THEN Completed(toolCalls[index], pos + 1) ELSE toolCalls[c]]
      BY <2>3, Zenon
    <3>5. toolCalls' = [c \in 1..Len(toolCalls) |-> toolCalls'[c]]
      <4> HIDE DEF index
      <4> QED  BY <3>3, <3>4
    <3> QED  BY <3>1, <3>2, <3>5
  <2>6. pending' \in [ToolUseIDs -> Nat]
    BY <1>3 DEF MatchedPost, TypeOK
  <2>7. {} \in SUBSET Reasons
    OBVIOUS
  <2> QED
    BY <1>3, <2>1, <2>2, <2>5, <2>6, <2>7, RecordType DEF MatchedPost, TypeOK
<1>4. CASE UnmatchedPost
  <2> DEFINE call == [tool |-> Current.tool, opened |-> pos + 1, closed |-> 0,
                      status |-> "unmatched"]
  <2>1. More /\ Record(Current, {"unmatched_post_tool_use"}, Len(toolCalls) + 1)
    BY <1>4 DEF UnmatchedPost
  <2>2. Current \in HookEvent /\ pos + 1 \in Nat /\ Len(toolCalls) + 1 \in Nat
    BY <2>1, CurrentType DEF TypeOK
  <2>3. call \in ToolCall
    BY <2>2 DEF ToolCall, Statuses, HookEvent
  <2>4. toolCalls' = Append(toolCalls, call)
    BY <1>4 DEF UnmatchedPost
  <2>5. toolCalls' \in Seq(ToolCall)
    <3> HIDE DEF call
    <3> QED  BY <2>3, <2>4 DEF TypeOK
  <2>6. {"unmatched_post_tool_use"} \in SUBSET Reasons
    BY DEF Reasons
  <2> QED
    BY <1>4, <2>1, <2>2, <2>5, <2>6, RecordType DEF UnmatchedPost, TypeOK
<1>5. CASE OtherHook
  <2>1. More /\ Record(Current, {}, 0)
    BY <1>5 DEF OtherHook
  <2>2. {} \in SUBSET Reasons
    OBVIOUS
  <2> QED
    BY <1>5, <2>1, <2>2, RecordType DEF OtherHook, TypeOK
<1>6. CASE Summarise
  <2>1. \A c \in 1..Len(toolCalls) : Abandoned(toolCalls[c]) \in ToolCall
    <3>1. \A c \in 1..Len(toolCalls) : toolCalls[c] \in ToolCall
      BY DEF TypeOK
    <3> QED  BY <3>1, CallTypes
  <2>2. toolCalls' \in Seq(ToolCall)
    BY <1>6, <2>1 DEF Summarise, TypeOK
  <2> QED
    BY <1>6, <2>2 DEF Summarise, TypeOK
<1> QED
  BY <1>1, <1>2, <1>3, <1>4, <1>5, <1>6 DEF Next

-----------------------------------------------------------------------------
(* The inductive invariant.  While events are reduced, `pending' holds for *)
(* each id what the reference pairing would: nothing when no call with the *)
(* id is open, else the call of the oldest open PreToolUse.  It is what    *)
(* makes the next PostToolUse close the right call, and the properties of  *)
(* the calls already made are carried along.                               *)

PendingIsReference ==
    \A t \in ToolUseIDs :
        IF pending[t] = 0
        THEN OpenBefore(t, pos + 1) = {}
        ELSE /\ pending[t] \in 1..Len(toolCalls)
             /\ toolCalls[pending[t]].status = "pending"
             /\ toolCalls[pending[t]].tool = t
             /\ Oldest(OpenBefore(t, pos + 1), toolCalls[pending[t]].opened)

IInv ==
    /\ TypeOK
    /\ Len(timeline) = pos
    /\ summary = <<>> => PendingIsReference
    /\ CallsAreWellFormed
    /\ TimelineAndCallsAgree
    /\ PostsCloseOldestOpenCall
    /\ DuplicatesMarked

LEMMA InitInv ==
    ASSUME Init
    PROVE  IInv
<1>1. TypeOK
  BY InitType
<1>2. Len(timeline) = 0 /\ pos = 0 /\ Len(toolCalls) = 0
  BY DEF Init
<1>3. PendingIsReference
  BY <1>1, <1>2 DEF Init, PendingIsReference, OpenBefore
<1> QED
  BY <1>1, <1>2, <1>3 DEF IInv, CallsAreWellFormed, TimelineAndCallsAgree,
     PostsCloseOldestOpenCall, DuplicatesMarked

\* How the open PreToolUse events change with one more event.
LEMMA OpenBeforeStep ==
    ASSUME NEW t, NEW j \in Nat \ {0}
    PROVE  OpenBefore(t, j + 1) = (IF IsPost(j, t) THEN {} ELSE OpenBefore(t, j))
                                      \cup (IF IsPre(j, t) THEN {j} ELSE {})
<1>1. ~(IsPost(j, t) /\ IsPre(j, t))
  BY DEF IsPost, IsPre
<1>2. \A i : i \in OpenBefore(t, j + 1)
            <=> i \in 1..j /\ IsPre(i, t) /\ \A k \in (i + 1)..j : ~IsPost(k, t)
  BY DEF OpenBefore
<1>3. \A i : i \in OpenBefore(t, j)
            <=> i \in 1..(j - 1) /\ IsPre(i, t) /\ \A k \in (i + 1)..(j - 1) : ~IsPost(k, t)
  BY DEF OpenBefore
<1>4. \A i : i \in OpenBefore(t, j + 1)
            <=> (i = j /\ IsPre(j, t)) \/ (i \in OpenBefore(t, j) /\ ~IsPost(j, t))
  <2> TAKE i
  <2>1. CASE i = j
    BY <1>2, <1>3, <2>1
  <2>2. CASE i # j /\ i \in 1..j
    <3>1. i \in 1..(j - 1) /\ (i + 1)..j = ((i + 1)..(j - 1)) \cup {j}
      BY <2>2
    <3> QED
      BY <1>2, <1>3, <2>2, <3>1
  <2>3. CASE i \notin 1..j
    BY <1>2, <1>3, <2>3
  <2> QED
    BY <2>1, <2>2, <2>3
<1> QED
  BY <1>1, <1>4

\* A step that reads one event leaves the slice, and so the reference, as it is.
LEMMA ReferenceUnchanged ==
    ASSUME ordered' = ordered
    PROVE  \A t, j : /\ IsPre(j, t)' = IsPre(j, t)
                     /\ IsPost(j, t)' = IsPost(j, t)
                     /\ OpenBefore(t, j)' = OpenBefore(t, j)
BY DEF IsPre, IsPost, OpenBefore

\* What is true of the events and calls so far stays true of them when a step records an
\* event and, at most, adds a call.
LEMMA CarriedAlong ==
    ASSUME IInv, More, NEW R, NEW c, Record(Current, R, c),
           Len(toolCalls') \in Nat, Len(toolCalls') >= Len(toolCalls),
           \A k \in 1..Len(toolCalls) : toolCalls'[k] = toolCalls[k]
    PROVE  /\ \A k \in 1..Len(toolCalls) : WellFormedCall(k)' /\ LinkedCall(k)'
           /\ \A j \in 1..pos : LinkedEvent(j)' /\ PairedPost(j)' /\ MarkedPre(j)'
<1>1. /\ pos' = pos + 1 /\ ordered' = ordered /\ pos \in Nat /\ Len(toolCalls) \in Nat
      /\ \A j \in 1..pos : timeline'[j] = timeline[j]
  BY RecordEffect DEF IInv, TypeOK
<1>2. \A t, j : /\ IsPre(j, t)' = IsPre(j, t)
                /\ IsPost(j, t)' = IsPost(j, t)
                /\ OpenBefore(t, j)' = OpenBefore(t, j)
  BY <1>1, ReferenceUnchanged
<1>3. ASSUME NEW k \in 1..Len(toolCalls)
      PROVE  WellFormedCall(k)' /\ LinkedCall(k)'
  <2>1. /\ toolCalls[k].opened \in 1..pos
        /\ toolCalls[k].closed # 0 => toolCalls[k].closed \in 1..pos
    BY <1>1 DEF IInv, CallsAreWellFormed, WellFormedCall
  <2>2. WellFormedCall(k)'
    BY <1>1, <1>2 DEF IInv, CallsAreWellFormed, WellFormedCall
  <2>3. LinkedCall(k)'
    BY <1>1, <2>1 DEF IInv, TimelineAndCallsAgree, LinkedCall
  <2> QED
    BY <2>2, <2>3
<1>4. ASSUME NEW j \in 1..pos
      PROVE  LinkedEvent(j)' /\ PairedPost(j)' /\ MarkedPre(j)'
  <2>1. LinkedEvent(j)
    BY DEF IInv, TimelineAndCallsAgree
  <2>2. LinkedEvent(j)'
    BY <1>1, <1>2, <2>1 DEF LinkedEvent
  <2>3. PairedPost(j)'
    BY <1>1, <1>2, <2>1 DEF IInv, LinkedEvent, PostsCloseOldestOpenCall, PairedPost
  <2>4. MarkedPre(j)'
    BY <1>1, <1>2 DEF IInv, DuplicatesMarked, MarkedPre
  <2> QED
    BY <2>2, <2>3, <2>4
<1> QED
  BY <1>3, <1>4

\* The invariant after a step that records an event, from what is to be shown of that event,
\* of the call it may add and of `pending'.
LEMMA RecordKeepsInv ==
    ASSUME IInv, Next, More, NEW R, NEW c, Record(Current, R, c),
           Len(toolCalls') \in Nat, Len(toolCalls') >= Len(toolCalls),
           \A k \in 1..Len(toolCalls) : toolCalls'[k] = toolCalls[k],
           \A k \in Nat : k > Len(toolCalls) /\ k <= Len(toolCalls')
                             => WellFormedCall(k)' /\ LinkedCall(k)',
           NEW n, n = pos + 1, LinkedEvent(n)', PairedPost(n)', MarkedPre(n)',
           PendingIsReference'
    PROVE  IInv'
<1>0. TypeOK /\ summary = <<>> /\ Len(timeline) = pos
  BY DEF IInv, More
<1>7. TypeOK'
  BY <1>0, NextType
<1>1. pos \in Nat /\ Len(toolCalls) \in Nat
  BY <1>0 DEF TypeOK
<1>2. pos' = pos + 1 /\ Len(timeline') = pos' /\ summary' = <<>>
  BY <1>0, RecordEffect
<1>3. \A k \in 1..Len(toolCalls') : WellFormedCall(k)' /\ LinkedCall(k)'
  BY <1>1, CarriedAlong
<1>4. \A j \in 1..pos' : LinkedEvent(j)' /\ PairedPost(j)' /\ MarkedPre(j)'
  BY <1>1, <1>2, CarriedAlong
<1>5. CallsAreWellFormed' /\ TimelineAndCallsAgree'
  BY <1>2, <1>3, <1>4 DEF CallsAreWellFormed, TimelineAndCallsAgree
<1>6. PostsCloseOldestOpenCall' /\ DuplicatesMarked'
  BY <1>4 DEF PostsCloseOldestOpenCall, DuplicatesMarked
<1> QED
  BY <1>7, <1>2, <1>5, <1>6 DEF IInv

\* What the step that reduces event n changes of the reference pairing.
LEMMA OpenNext ==
    ASSUME IInv, More, ordered' = ordered, NEW n, n = pos + 1, pos' = n
    PROVE  /\ n \in Nat \ {0}
           /\ \A t : OpenBefore(t, n + 1)' =
                        (IF IsPost(n, t) THEN {} ELSE OpenBefore(t, n))
                            \cup (IF IsPre(n, t) THEN {n} ELSE {})
           /\ \A t, j : /\ IsPre(j, t)' = IsPre(j, t)
                        /\ IsPost(j, t)' = IsPost(j, t)
                        /\ OpenBefore(t, j)' = OpenBefore(t, j)
<1>1. n \in Nat \ {0}
  BY DEF IInv, TypeOK
<1>2. \A t, j : /\ IsPre(j, t)' = IsPre(j, t)
                /\ IsPost(j, t)' = IsPost(j, t)
                /\ OpenBefore(t, j)' = OpenBefore(t, j)
  BY ReferenceUnchanged
<1>3. \A t : OpenBefore(t, n + 1) =
                (IF IsPost(n, t) THEN {} ELSE OpenBefore(t, n))
                    \cup (IF IsPre(n, t) THEN {n} ELSE {})
  BY <1>1, OpenBeforeStep
<1> QED
  BY <1>1, <1>2, <1>3

\* `pending' at one id, before event n and after it.
LEMMA PendingAt ==
    ASSUME IInv, More, NEW n, n = pos + 1, NEW t \in ToolUseIDs
    PROVE  /\ pending[t] \in Nat
           /\ pending[t] = 0 => OpenBefore(t, n) = {}
           /\ pending[t] # 0 => /\ pending[t] \in 1..Len(toolCalls)
                                /\ toolCalls[pending[t]].status = "pending"
                                /\ toolCalls[pending[t]].tool = t
                                /\ Oldest(OpenBefore(t, n), toolCalls[pending[t]].opened)
                                /\ OpenBefore(t, n) # {}
BY DEF IInv, More, PendingIsReference, Oldest, TypeOK

PendingAfter(t, n) ==
    IF pending[t] = 0
    THEN OpenBefore(t, n + 1) = {}
    ELSE /\ pending[t] \in 1..Len(toolCalls)
         /\ toolCalls[pending[t]].status = "pending"
         /\ toolCalls[pending[t]].tool = t
         /\ Oldest(OpenBefore(t, n + 1), toolCalls[pending[t]].opened)

LEMMA PendingFromEach ==
    ASSUME NEW n, pos' = n, \A t \in ToolUseIDs : PendingAfter(t, n)'
    PROVE  PendingIsReference'
BY DEF PendingAfter, PendingIsReference

LEMMA NoneAfter ==
    ASSUME NEW t, NEW n, pending'[t] = 0, OpenBefore(t, n + 1)' = {}
    PROVE  PendingAfter(t, n)'
BY DEF PendingAfter

LEMMA SomeAfter ==
    ASSUME NEW t, NEW n, NEW p \in 1..Len(toolCalls'), p # 0, pending'[t] = p,
           NEW i, toolCalls'[p].status = "pending", toolCalls'[p].tool = t,
           toolCalls'[p].opened = i, Oldest(OpenBefore(t, n + 1)', i)
    PROVE  PendingAfter(t, n)'
BY DEF PendingAfter, Oldest

LEMMA PreToolUseInv ==
    ASSUME IInv, PreToolUse
    PROVE  IInv'
<1>1. PICK n : n = pos + 1
  OBVIOUS
<1>2. PICK u : u = Current.tool
  OBVIOUS
<1>3. PICK index : index = Len(toolCalls) + 1
  OBVIOUS
<1> DEFINE call == [tool |-> u, opened |-> n, closed |-> 0, status |-> "pending"]
<1>4. More /\ Record(Current, PreReasons(u), index) /\ Next
  BY <1>2, <1>3 DEF PreToolUse, Next
<1>5. /\ pos' = n /\ ordered' = ordered /\ summary' = <<>>
      /\ timeline'[n].call = index
      /\ timeline'[n].reasons = PartialReason(Current) \cup PreReasons(u)
  BY <1>1, <1>4, RecordEffect DEF IInv, More
<1>6. toolCalls' = Append(toolCalls, call) /\ toolCalls \in Seq(ToolCall)
  BY <1>1, <1>2 DEF PreToolUse, IInv, TypeOK
<1>7. /\ Len(toolCalls) \in Nat /\ Len(toolCalls') = index
      /\ \A k \in 1..Len(toolCalls) : toolCalls'[k] = toolCalls[k]
      /\ toolCalls'[index] = call
  <2> HIDE DEF call
  <2> QED  BY <1>3, <1>6
<1>8. /\ \A t : ~IsPost(n, t)
      /\ \A t : IsPre(n, t) <=> t = u
  BY <1>1, <1>2 DEF PreToolUse, IsPost, IsPre, Current
<1>9. /\ n \in Nat \ {0}
      /\ \A t : OpenBefore(t, n + 1)' =
                  OpenBefore(t, n) \cup (IF IsPre(n, t) THEN {n} ELSE {})
      /\ \A t, j : /\ IsPre(j, t)' = IsPre(j, t)
                   /\ IsPost(j, t)' = IsPost(j, t)
                   /\ OpenBefore(t, j)' = OpenBefore(t, j)
  BY <1>1, <1>4, <1>5, <1>8, OpenNext
<1>10. WellFormedCall(index)' /\ LinkedCall(index)'
  BY <1>5, <1>7, <1>9 DEF WellFormedCall, LinkedCall
<1>11. LinkedEvent(n)'
  BY <1>3, <1>5, <1>7, <1>9 DEF LinkedEvent
<1>12. PairedPost(n)'
  BY <1>8, <1>9 DEF PairedPost
<1>13. MarkedPre(n)'
  <2> SUFFICES ASSUME u \in ToolUseIDs
               PROVE  "duplicate_tool_use_id" \in timeline'[n].reasons
                         <=> OpenBefore(u, n) # {}
    BY <1>8, <1>9 DEF MarkedPre
  <2>1. u # NoID
    BY NoIDAssumption
  <2>2. pending[u] # 0 <=> OpenBefore(u, n) # {}
    BY <1>1, <1>4, PendingAt
  <2>3. "duplicate_tool_use_id" \in timeline'[n].reasons <=> pending[u] # 0
    BY <1>5, <2>1 DEF PartialReason, PreReasons
  <2> QED
    BY <2>2, <2>3
<1>14. ASSUME NEW t \in ToolUseIDs
       PROVE  PendingAfter(t, n)'
  <2>1. pending \in [ToolUseIDs -> Nat]
    BY DEF IInv, TypeOK
  <2>2. pending' = IF PreReasons(u) = {} THEN [pending EXCEPT ![u] = index] ELSE pending
    BY <1>2, <1>3 DEF PreToolUse
  <2>3. CASE t # u
    <3>1. pending'[t] = pending[t]
      BY <2>1, <2>2, <2>3
    <3>2. OpenBefore(t, n + 1)' = OpenBefore(t, n)
      BY <1>8, <1>9, <2>3
    <3>3. CASE pending[t] = 0
      BY <1>1, <1>4, <3>1, <3>2, <3>3, PendingAt, NoneAfter
    <3>4. CASE pending[t] # 0
      BY <1>1, <1>3, <1>4, <1>7, <3>1, <3>2, <3>4, PendingAt, SomeAfter
    <3> QED
      BY <3>3, <3>4
  <2>4. CASE t = u /\ pending[t] = 0
    <3>1. PreReasons(u) = {}
      BY <2>4, NoIDAssumption DEF PreReasons
    <3>2. pending'[t] = index
      BY <2>1, <2>2, <2>4, <3>1
    <3>3. OpenBefore(t, n) = {}
      BY <1>1, <1>4, <2>4, PendingAt
    <3>4. OpenBefore(t, n + 1)' = {n}
      BY <1>8, <1>9, <2>4, <3>3
    <3>5. Oldest({n}, n)
      BY <1>9 DEF Oldest
    <3>6. index \in 1..Len(toolCalls') /\ index # 0
      BY <1>3, <1>7
    <3>7. toolCalls'[index].status = "pending" /\ toolCalls'[index].tool = t
            /\ toolCalls'[index].opened = n
      BY <1>7, <2>4
    <3>8. Oldest(OpenBefore(t, n + 1)', n)
      BY <3>4, <3>5
    <3> QED
      BY <3>2, <3>6, <3>7, <3>8, SomeAfter
  <2>5. CASE t = u /\ pending[t] # 0
    <3>1. pending'[t] = pending[t]
      BY <2>2, <2>5, NoIDAssumption DEF PreReasons
    <3>2. OpenBefore(t, n + 1)' = OpenBefore(t, n) \cup {n}
      BY <1>8, <1>9, <2>5
    <3>3. \A i \in OpenBefore(t, n) : i \in Nat /\ i <= n
      BY <1>9 DEF OpenBefore
    <3>4. \A i : Oldest(OpenBefore(t, n), i) => Oldest(OpenBefore(t, n) \cup {n}, i)
      BY <1>9, <3>3 DEF Oldest
    <3>5. /\ pending[t] \in 1..Len(toolCalls)
          /\ toolCalls[pending[t]].status = "pending"
          /\ toolCalls[pending[t]].tool = t
          /\ Oldest(OpenBefore(t, n), toolCalls[pending[t]].opened)
      BY <1>1, <1>4, <2>5, PendingAt
    <3>6. pending[t] \in 1..Len(toolCalls') /\ toolCalls'[pending[t]] = toolCalls[pending[t]]
      BY <1>3, <1>7, <3>5
    <3>7. Oldest(OpenBefore(t, n + 1)', toolCalls'[pending[t]].opened)
      BY <3>2, <3>4, <3>5, <3>6
    <3> HIDE DEF call
    <3> QED
      BY <2>5, <3>1, <3>5, <3>6, <3>7, SomeAfter
  <2> QED
    BY <2>3, <2>4, <2>5
<1>15. PendingIsReference'
  BY <1>5, <1>14, PendingFromEach
<1>16. \A k \in Nat : k > Len(toolCalls) /\ k <= Len(toolCalls')
                         => WellFormedCall(k)' /\ LinkedCall(k)'
  <2>1. \A k \in Nat : k > Len(toolCalls) /\ k <= Len(toolCalls') => k = index
    BY <1>3, <1>7
  <2> QED
    BY <1>10, <2>1
<1> QED
  BY <1>1, <1>3, <1>4, <1>7, <1>11, <1>12, <1>13, <1>15, <1>16, RecordKeepsInv

\* A step that records an event which neither opens nor closes a call.
LEMMA NoCallInv ==
    ASSUME IInv, Next, More, NEW R, Record(Current, R, 0), UNCHANGED <<toolCalls, pending>>,
           NEW n, n = pos + 1, \A t : ~IsPre(n, t), \A t \in ToolUseIDs : ~IsPost(n, t)
    PROVE  IInv'
<1>1. /\ pos' = n /\ ordered' = ordered /\ timeline'[n].call = 0
  BY RecordEffect DEF IInv
<1>2. /\ n \in Nat \ {0}
      /\ \A t : OpenBefore(t, n + 1)' =
                   (IF IsPost(n, t) THEN {} ELSE OpenBefore(t, n))
                       \cup (IF IsPre(n, t) THEN {n} ELSE {})
      /\ \A t, j : /\ IsPre(j, t)' = IsPre(j, t)
                   /\ IsPost(j, t)' = IsPost(j, t)
                   /\ OpenBefore(t, j)' = OpenBefore(t, j)
  BY <1>1, OpenNext
<1>3. LinkedEvent(n)' /\ PairedPost(n)' /\ MarkedPre(n)'
  BY <1>1, <1>2 DEF LinkedEvent, PairedPost, MarkedPre
<1>4. ASSUME NEW t \in ToolUseIDs
      PROVE  PendingAfter(t, n)'
  <2>1. pending'[t] = pending[t] /\ OpenBefore(t, n + 1)' = OpenBefore(t, n)
    BY <1>2
  <2>2. CASE pending[t] = 0
    BY <2>1, <2>2, PendingAt, NoneAfter
  <2>3. CASE pending[t] # 0
    BY <2>1, <2>3, PendingAt, SomeAfter
  <2> QED
    BY <2>2, <2>3
<1>5. PendingIsReference'
  BY <1>1, <1>4, PendingFromEach
<1>6. Len(toolCalls) \in Nat
  BY DEF IInv, TypeOK
<1> QED
  BY <1>3, <1>5, <1>6, RecordKeepsInv

LEMMA UnidentifiedPostInv ==
    ASSUME IInv, UnidentifiedPost
    PROVE  IInv'
<1>1. PICK n : n = pos + 1
  OBVIOUS
<1>2. \A t : ~IsPre(n, t) /\ (IsPost(n, t) <=> t = NoID)
  BY <1>1 DEF UnidentifiedPost, Current, IsPre, IsPost
<1>3. \A t \in ToolUseIDs : ~IsPost(n, t)
  BY <1>2, NoIDAssumption
<1>4. /\ More /\ Next /\ Record(Current, {"missing_tool_use_id"}, 0)
      /\ UNCHANGED <<toolCalls, pending>>
  BY DEF UnidentifiedPost, Next
<1> QED
  BY <1>1, <1>2, <1>3, <1>4, NoCallInv

LEMMA OtherHookInv ==
    ASSUME IInv, OtherHook
    PROVE  IInv'
<1>1. PICK n : n = pos + 1
  OBVIOUS
<1>2. \A t : ~IsPre(n, t) /\ ~IsPost(n, t)
  BY <1>1 DEF OtherHook, Current, IsPre, IsPost
<1>3. More /\ Next /\ Record(Current, {}, 0) /\ UNCHANGED <<toolCalls, pending>>
  BY DEF OtherHook, Next
<1> QED
  BY <1>1, <1>2, <1>3, NoCallInv

LEMMA UnmatchedPostInv ==
    ASSUME IInv, UnmatchedPost
    PROVE  IInv'
<1>1. PICK n : n = pos + 1
  OBVIOUS
<1>2. PICK u : u = Current.tool
  OBVIOUS
<1>3. PICK index : index = Len(toolCalls) + 1
  OBVIOUS
<1> DEFINE call == [tool |-> u, opened |-> n, closed |-> 0, status |-> "unmatched"]
<1>4. /\ More /\ Next /\ Record(Current, {"unmatched_post_tool_use"}, index)
      /\ u # NoID /\ pending[u] = 0 /\ pending' = pending
  BY <1>2, <1>3 DEF UnmatchedPost, Next
<1>5. u \in ToolUseIDs
  BY <1>2, <1>4, CurrentType DEF IInv, HookEvent
<1>6. /\ pos' = n /\ ordered' = ordered
      /\ timeline'[n].call = index
      /\ timeline'[n].reasons = PartialReason(Current) \cup {"unmatched_post_tool_use"}
  BY <1>1, <1>4, RecordEffect DEF IInv
<1>7. toolCalls' = Append(toolCalls, call) /\ toolCalls \in Seq(ToolCall)
  BY <1>1, <1>2 DEF UnmatchedPost, IInv, TypeOK
<1>8. /\ Len(toolCalls) \in Nat /\ Len(toolCalls') = index
      /\ \A k \in 1..Len(toolCalls) : toolCalls'[k] = toolCalls[k]
      /\ toolCalls'[index] = call
  <2> HIDE DEF call
  <2> QED  BY <1>3, <1>7
<1>9. \A t : ~IsPre(n, t) /\ (IsPost(n, t) <=> t = u)
  BY <1>1, <1>2 DEF UnmatchedPost, IsPost, IsPre, Current
<1>10. /\ n \in Nat \ {0}
       /\ \A t : OpenBefore(t, n + 1)' = IF IsPost(n, t) THEN {} ELSE OpenBefore(t, n)
       /\ \A t, j : /\ IsPre(j, t)' = IsPre(j, t)
                    /\ IsPost(j, t)' = IsPost(j, t)
                    /\ OpenBefore(t, j)' = OpenBefore(t, j)
  <2>1. /\ n \in Nat \ {0}
        /\ \A t : OpenBefore(t, n + 1)' =
                     (IF IsPost(n, t) THEN {} ELSE OpenBefore(t, n))
                         \cup (IF IsPre(n, t) THEN {n} ELSE {})
        /\ \A t, j : /\ IsPre(j, t)' = IsPre(j, t)
                     /\ IsPost(j, t)' = IsPost(j, t)
                     /\ OpenBefore(t, j)' = OpenBefore(t, j)
    BY <1>1, <1>4, <1>6, OpenNext
  <2> QED
    BY <1>9, <2>1
<1>11. WellFormedCall(index)' /\ LinkedCall(index)'
  BY <1>6, <1>8, <1>10 DEF WellFormedCall, LinkedCall
<1>12. LinkedEvent(n)'
  BY <1>3, <1>6, <1>8, <1>10 DEF LinkedEvent
<1>13. PairedPost(n)'
  <2>1. OpenBefore(u, n) = {}
    BY <1>1, <1>4, <1>5, PendingAt
  <2> QED
    BY <1>6, <1>8, <1>9, <1>10, <2>1 DEF PairedPost
<1>14. MarkedPre(n)'
  BY <1>9, <1>10 DEF MarkedPre
<1>15. ASSUME NEW t \in ToolUseIDs
       PROVE  PendingAfter(t, n)'
  <2>1. CASE pending[t] = 0
    <3>1. OpenBefore(t, n + 1)' = {}
      BY <1>1, <1>4, <1>10, <2>1, PendingAt
    <3> QED
      BY <1>4, <2>1, <3>1, NoneAfter
  <2>2. CASE pending[t] # 0
    <3>1. OpenBefore(t, n + 1)' = OpenBefore(t, n)
      BY <1>4, <1>9, <1>10, <2>2
    <3>2. pending[t] \in 1..Len(toolCalls) /\ pending[t] \in 1..Len(toolCalls')
      BY <1>1, <1>3, <1>4, <1>8, <2>2, PendingAt
    <3> HIDE DEF call
    <3>3. toolCalls'[pending[t]] = toolCalls[pending[t]]
      BY <1>8, <3>2
    <3> QED
      BY <1>1, <1>4, <2>2, <3>1, <3>2, <3>3, PendingAt, SomeAfter
  <2> QED
    BY <2>1, <2>2
<1>16. PendingIsReference'
  BY <1>6, <1>15, PendingFromEach
<1>17. \A k \in Nat : k > Len(toolCalls) /\ k <= Len(toolCalls')
                         => WellFormedCall(k)' /\ LinkedCall(k)'
  <2>1. \A k \in Nat : k > Len(toolCalls) /\ k <= Len(toolCalls') => k = index
    BY <1>3, <1>8
  <2> QED
    BY <1>11, <2>1
<1>18. Len(toolCalls') \in Nat /\ Len(toolCalls') >= Len(toolCalls)
  BY <1>3, <1>8
<1> HIDE DEF call
<1> QED
  BY <1>1, <1>4, <1>8, <1>12, <1>13, <1>14, <1>16, <1>17, <1>18, RecordKeepsInv

LEMMA MatchedPostInv ==
    ASSUME IInv, MatchedPost
    PROVE  IInv'
<1>1. PICK n : n = pos + 1
  OBVIOUS
<1>2. PICK u : u = Current.tool
  OBVIOUS
<1>3. PICK index : index = pending[u]
  OBVIOUS
<1>4. PICK first : first = toolCalls[index].opened
  OBVIOUS
<1>5. /\ More /\ Next /\ Record(Current, {}, index)
      /\ u # NoID /\ index # 0
  BY <1>2, <1>3 DEF MatchedPost, Next
<1>6. u \in ToolUseIDs /\ TypeOK /\ Len(timeline) = pos
  BY <1>2, <1>5, CurrentType DEF IInv, HookEvent
<1>7. /\ index \in 1..Len(toolCalls)
      /\ toolCalls[index].status = "pending" /\ toolCalls[index].tool = u
      /\ Oldest(OpenBefore(u, n), first)
  BY <1>1, <1>3, <1>4, <1>5, <1>6, PendingAt
<1>8. /\ pos' = n /\ ordered' = ordered /\ summary' = summary /\ Len(timeline') = n
      /\ \A j \in 1..pos : timeline'[j] = timeline[j]
      /\ timeline'[n].call = index
  BY <1>1, <1>5, <1>6, RecordEffect
<1>9. /\ Len(toolCalls) \in Nat /\ Len(toolCalls') = Len(toolCalls)
      /\ \A k \in 1..Len(toolCalls) : k # index => toolCalls'[k] = toolCalls[k]
      /\ toolCalls'[index] = Completed(toolCalls[index], n)
  BY <1>1, <1>2, <1>3, <1>6, <1>7 DEF MatchedPost, TypeOK
<1>10. /\ toolCalls'[index].tool = u /\ toolCalls'[index].opened = first
       /\ toolCalls'[index].closed = n /\ toolCalls'[index].status = "completed"
  BY <1>4, <1>7, <1>9 DEF Completed
<1>11. /\ \A t : ~IsPre(n, t)
       /\ \A t : IsPost(n, t) <=> t = u
  BY <1>1, <1>2 DEF MatchedPost, IsPost, IsPre, Current
<1>12. /\ n \in Nat \ {0} /\ n - 1 = pos
       /\ OpenBefore(u, n + 1)' = {}
       /\ \A t : t # u => OpenBefore(t, n + 1)' = OpenBefore(t, n)
       /\ \A t, j : /\ IsPre(j, t)' = IsPre(j, t)
                    /\ IsPost(j, t)' = IsPost(j, t)
                    /\ OpenBefore(t, j)' = OpenBefore(t, j)
  <2>1. /\ n \in Nat \ {0}
        /\ \A t : OpenBefore(t, n + 1)' =
                     (IF IsPost(n, t) THEN {} ELSE OpenBefore(t, n))
                         \cup (IF IsPre(n, t) THEN {n} ELSE {})
        /\ \A t, j : /\ IsPre(j, t)' = IsPre(j, t)
                     /\ IsPost(j, t)' = IsPost(j, t)
                     /\ OpenBefore(t, j)' = OpenBefore(t, j)
    BY <1>1, <1>5, <1>8, OpenNext
  <2>2. n - 1 = pos
    BY <1>1, <1>6 DEF TypeOK
  <2> QED
    BY <1>11, <2>1, <2>2
\* The call that is closed was opened by an earlier PreToolUse and by nothing else.
<1>13. /\ first \in 1..pos /\ IsPre(first, u) /\ first \in OpenBefore(u, n)
       /\ WellFormedCall(index) /\ LinkedCall(index)
       /\ toolCalls[index].closed = 0
  <2>1. first \in OpenBefore(u, n)
    BY <1>7 DEF Oldest
  <2>2. first \in 1..pos /\ IsPre(first, u)
    BY <1>12, <2>1 DEF OpenBefore
  <2>3. WellFormedCall(index) /\ LinkedCall(index)
    BY <1>7 DEF IInv, CallsAreWellFormed, TimelineAndCallsAgree
  <2>4. toolCalls[index].closed = 0
    BY <1>7, <2>3 DEF WellFormedCall
  <2> QED
    BY <2>1, <2>2, <2>3, <2>4
<1>14. ASSUME NEW k \in 1..Len(toolCalls')
       PROVE  WellFormedCall(k)' /\ LinkedCall(k)'
  <2>1. CASE k = index
    <3>1. WellFormedCall(k)'
      BY <1>5, <1>8, <1>10, <1>11, <1>12, <1>13, <2>1 DEF WellFormedCall
    <3>2. LinkedCall(k)'
      BY <1>4, <1>8, <1>10, <1>13, <2>1 DEF LinkedCall
    <3> QED
      BY <3>1, <3>2
  <2>2. CASE k # index
    <3>1. toolCalls'[k] = toolCalls[k] /\ WellFormedCall(k) /\ LinkedCall(k)
      BY <1>9, <2>2 DEF IInv, CallsAreWellFormed, TimelineAndCallsAgree
    <3>2. /\ toolCalls[k].opened \in 1..pos
          /\ toolCalls[k].closed # 0 => toolCalls[k].closed \in 1..pos
      BY <1>12, <3>1 DEF WellFormedCall
    <3>3. WellFormedCall(k)'
      BY <1>8, <1>12, <3>1 DEF WellFormedCall
    <3>4. LinkedCall(k)'
      BY <1>8, <3>1, <3>2 DEF LinkedCall
    <3> QED
      BY <3>3, <3>4
  <2> QED
    BY <2>1, <2>2
<1>15. ASSUME NEW j \in 1..pos
       PROVE  LinkedEvent(j)' /\ PairedPost(j)' /\ MarkedPre(j)'
  <2>1. LinkedEvent(j) /\ PairedPost(j) /\ MarkedPre(j) /\ timeline'[j] = timeline[j]
    BY <1>8 DEF IInv, TimelineAndCallsAgree, PostsCloseOldestOpenCall, DuplicatesMarked
  <2>2. MarkedPre(j)'
    BY <1>12, <2>1 DEF MarkedPre
  <2>3. CASE timeline[j].call = index
    <3>1. index # 0 /\ j = first
      BY <1>4, <1>5, <1>13, <2>1, <2>3 DEF LinkedEvent
    <3>2. \A t : ~IsPost(j, t)
      BY <1>13, <3>1 DEF IsPre, IsPost
    <3>3. LinkedEvent(j)'
      BY <1>7, <1>9, <1>10, <2>1, <2>3, <3>1 DEF LinkedEvent
    <3>4. PairedPost(j)'
      BY <1>12, <3>2 DEF PairedPost
    <3> QED
      BY <2>2, <3>3, <3>4
  <2>4. CASE timeline[j].call # index
    <3>1. LinkedEvent(j)'
      BY <1>9, <1>12, <2>1, <2>4 DEF LinkedEvent
    <3>2. PairedPost(j)'
      BY <1>9, <1>12, <2>1, <2>4 DEF LinkedEvent, PairedPost
    <3> QED
      BY <2>2, <3>1, <3>2
  <2> QED
    BY <2>3, <2>4
<1>16. LinkedEvent(n)' /\ MarkedPre(n)'
  BY <1>7, <1>8, <1>9, <1>10, <1>11, <1>12 DEF LinkedEvent, MarkedPre
<1>17. PairedPost(n)'
  <2>1. OpenBefore(u, n) # {}
    BY <1>13
  <2> QED
    BY <1>7, <1>8, <1>10, <1>11, <1>12, <2>1 DEF PairedPost, Oldest
<1>18. ASSUME NEW t \in ToolUseIDs
       PROVE  PendingAfter(t, n)'
  <2>1. pending' = [pending EXCEPT ![u] = 0] /\ pending \in [ToolUseIDs -> Nat]
    BY <1>2, <1>6 DEF MatchedPost, TypeOK
  <2>2. CASE t = u
    BY <1>12, <2>1, <2>2, NoneAfter
  <2>3. CASE t # u /\ pending[t] = 0
    BY <1>1, <1>5, <1>12, <2>1, <2>3, PendingAt, NoneAfter
  <2>4. CASE t # u /\ pending[t] # 0
    <3>1. /\ pending[t] \in 1..Len(toolCalls)
          /\ toolCalls[pending[t]].status = "pending"
          /\ toolCalls[pending[t]].tool = t
          /\ Oldest(OpenBefore(t, n), toolCalls[pending[t]].opened)
      BY <1>1, <1>5, <2>4, PendingAt
    <3>2. pending'[t] = pending[t] /\ toolCalls'[pending[t]] = toolCalls[pending[t]]
      BY <1>7, <1>9, <2>1, <2>4, <3>1
    <3>3. pending[t] \in 1..Len(toolCalls') /\ pending[t] # 0
      BY <1>9, <2>4, <3>1
    <3>4. Oldest(OpenBefore(t, n + 1)', toolCalls'[pending[t]].opened)
      BY <1>12, <2>4, <3>1, <3>2
    <3> QED
      BY <3>1, <3>2, <3>3, <3>4, SomeAfter
  <2> QED
    BY <2>2, <2>3, <2>4
<1>19. PendingIsReference'
  BY <1>8, <1>18, PendingFromEach
<1>20. TypeOK'
  BY <1>5, <1>6, NextType
<1>21. summary' = <<>>
  BY <1>5, <1>8 DEF More
<1>22. CallsAreWellFormed'
  BY <1>14, <1>21 DEF CallsAreWellFormed
<1>23. \A j \in 1..pos' : LinkedEvent(j)' /\ PairedPost(j)' /\ MarkedPre(j)'
  BY <1>8, <1>12, <1>15, <1>16, <1>17
<1>24. TimelineAndCallsAgree'
  BY <1>14, <1>23 DEF TimelineAndCallsAgree
<1>25. PostsCloseOldestOpenCall' /\ DuplicatesMarked'
  BY <1>23 DEF PostsCloseOldestOpenCall, DuplicatesMarked
<1> QED
  BY <1>8, <1>19, <1>20, <1>22, <1>24, <1>25 DEF IInv

\* The last step gives up on the calls that are still open; nothing else looks at them again.
LEMMA SummariseInv ==
    ASSUME IInv, Summarise
    PROVE  IInv'
<1>1. TypeOK'
  BY NextType DEF IInv, Next
<1>2. /\ UNCHANGED <<events, ordered, pos, timeline>>
      /\ summary' # <<>>
      /\ Len(timeline) = pos
  BY DEF Summarise, IInv
<1>3. /\ Len(toolCalls') = Len(toolCalls)
      /\ \A k \in 1..Len(toolCalls) : toolCalls'[k] = Abandoned(toolCalls[k])
  BY DEF Summarise, IInv, TypeOK
<1>4. \A k \in 1..Len(toolCalls) :
         /\ toolCalls'[k].tool = toolCalls[k].tool
         /\ toolCalls'[k].opened = toolCalls[k].opened
         /\ toolCalls'[k].closed = toolCalls[k].closed
         /\ toolCalls'[k].status = IF toolCalls[k].status = "pending" THEN "unmatched"
                                   ELSE toolCalls[k].status
  <2>1. \A call : /\ Abandoned(call).tool = call.tool
                  /\ Abandoned(call).opened = call.opened
                  /\ Abandoned(call).closed = call.closed
                  /\ Abandoned(call).status = IF call.status = "pending" THEN "unmatched"
                                              ELSE call.status
    BY DEF Abandoned
  <2> QED
    BY <1>3, <2>1
<1>5. \A t, j : /\ IsPre(j, t)' = IsPre(j, t)
                /\ IsPost(j, t)' = IsPost(j, t)
                /\ OpenBefore(t, j)' = OpenBefore(t, j)
  BY <1>2, ReferenceUnchanged
<1>6. ASSUME NEW k \in 1..Len(toolCalls)
      PROVE  WellFormedCall(k)' /\ LinkedCall(k)' /\ toolCalls'[k].status # "pending"
  <2>1. WellFormedCall(k) /\ LinkedCall(k)
    BY DEF IInv, CallsAreWellFormed, TimelineAndCallsAgree
  <2>2. WellFormedCall(k)'
    BY <1>2, <1>4, <1>5, <2>1 DEF WellFormedCall
  <2>3. LinkedCall(k)'
    BY <1>2, <1>4, <2>1 DEF LinkedCall
  <2> QED
    BY <1>4, <2>2, <2>3
<1>7. ASSUME NEW j \in 1..pos
      PROVE  LinkedEvent(j)' /\ PairedPost(j)' /\ MarkedPre(j)'
  <2>1. LinkedEvent(j) /\ PairedPost(j) /\ MarkedPre(j)
    BY DEF IInv, TimelineAndCallsAgree, PostsCloseOldestOpenCall, DuplicatesMarked
  <2>2. LinkedEvent(j)'
    BY <1>2, <1>3, <1>4, <1>5, <2>1 DEF LinkedEvent
  <2>3. PairedPost(j)'
    BY <1>2, <1>4, <1>5, <2>1 DEF LinkedEvent, PairedPost
  <2>4. MarkedPre(j)'
    BY <1>2, <1>5, <2>1 DEF MarkedPre
  <2> QED
    BY <2>2, <2>3, <2>4
<1>8. CallsAreWellFormed' /\ TimelineAndCallsAgree'
  BY <1>2, <1>3, <1>6, <1>7 DEF CallsAreWellFormed, TimelineAndCallsAgree
<1>9. PostsCloseOldestOpenCall' /\ DuplicatesMarked'
  BY <1>2, <1>7 DEF PostsCloseOldestOpenCall, DuplicatesMarked
<1> QED
  BY <1>1, <1>2, <1>8, <1>9 DEF IInv

LEMMA StepInv ==
    ASSUME IInv, [Next]_vars
    PROVE  IInv'
<1>1. CASE UNCHANGED vars
  <2>1. \A t, j : /\ IsPre(j, t)' = IsPre(j, t)
                  /\ IsPost(j, t)' = IsPost(j, t)
                  /\ OpenBefore(t, j)' = OpenBefore(t, j)
    BY <1>1, ReferenceUnchanged DEF vars
  <2>2. TypeOK'
    BY <1>1 DEF IInv, TypeOK, vars
  <2>3. PendingIsReference' = PendingIsReference
    BY <1>1, <2>1 DEF PendingIsReference, Oldest, vars
  <2>4. CallsAreWellFormed' /\ TimelineAndCallsAgree'
    BY <1>1, <2>1 DEF IInv, CallsAreWellFormed, WellFormedCall, TimelineAndCallsAgree,
       LinkedEvent, LinkedCall, vars
  <2>5. PostsCloseOldestOpenCall' /\ DuplicatesMarked'
    BY <1>1, <2>1 DEF IInv, PostsCloseOldestOpenCall, PairedPost, Oldest,
       DuplicatesMarked, MarkedPre, vars
  <2> QED
    BY <1>1, <2>2, <2>3, <2>4, <2>5 DEF IInv, vars
<1> QED
  BY <1>1, PreToolUseInv, UnidentifiedPostInv, MatchedPostInv, UnmatchedPostInv,
     OtherHookInv, SummariseInv DEF Next

LEMMA Invariance == Spec => []IInv
<1>1. Init => IInv
  BY InitInv
<1>2. IInv /\ [Next]_vars => IInv'
  BY StepInv
<1> QED
  BY <1>1, <1>2, PTL DEF Spec

-----------------------------------------------------------------------------
(* Token usage.  While events are reduced, `cumulative' holds the snapshot *)
(* read last; the summary takes it when every event has been reduced.      *)

\* No event after j and up to n carries a snapshot.
NoneSince(j, n) == \A k \in (j + 1)..n : ~SnapshotAt(k)

TokensAreLatest ==
    /\ NoneSince(0, pos) => cumulative = <<>>
    /\ \A j \in 1..pos : SnapshotAt(j) /\ NoneSince(j, pos)
                             => cumulative = <<ordered[j].event.usage.tokens>>

SnapshotInv ==
    /\ TokensAreLatest
    /\ summary # <<>> => /\ pos = Len(ordered)
                         /\ cumulative # <<>> => summary[1].tokens = cumulative[1]

LEMMA SnapshotInit ==
    ASSUME Init
    PROVE  SnapshotInv
BY DEF Init, SnapshotInv, TokensAreLatest

\* The event a step records becomes the latest snapshot, or leaves the latest one.
LEMMA SnapshotRecord ==
    ASSUME IInv, SnapshotInv, More, NEW R, NEW c, Record(Current, R, c)
    PROVE  SnapshotInv'
<1>1. PICK n : n = pos + 1
  OBVIOUS
<1>2. PICK e : e = Current
  OBVIOUS
<1>3. /\ pos \in Nat /\ n \in Nat /\ n = pos + 1 /\ e = ordered[n].event
      /\ pos' = n /\ ordered' = ordered /\ summary' = summary /\ summary = <<>>
      /\ cumulative' = IF Evidence(e).source = "cumulative" THEN <<Evidence(e).tokens>>
                       ELSE cumulative
  BY <1>1, <1>2 DEF IInv, TypeOK, Record, CountTokens, More, Current
<1>4. \A j : SnapshotAt(j)' = SnapshotAt(j)
  BY <1>3 DEF SnapshotAt
<1>5. \A j, m : NoneSince(j, m)' = NoneSince(j, m)
  BY <1>4 DEF NoneSince
<1>6. Evidence(e).source = "cumulative" <=> SnapshotAt(n)
  BY <1>3 DEF Evidence, SnapshotAt
<1>7. CASE SnapshotAt(n)
  <2>1. cumulative' = <<ordered[n].event.usage.tokens>>
    BY <1>3, <1>6, <1>7 DEF Evidence, SnapshotAt
  <2>2. \A j \in 0..n : NoneSince(j, n) => j = n
    <3> SUFFICES ASSUME NEW j \in 0..n, j # n
                 PROVE  ~NoneSince(j, n)
      OBVIOUS
    <3>1. n \in (j + 1)..n
      BY <1>3
    <3> QED
      BY <1>7, <3>1 DEF NoneSince
  <2> QED
    BY <1>3, <1>4, <1>5, <2>1, <2>2 DEF SnapshotInv, TokensAreLatest
<1>8. CASE ~SnapshotAt(n)
  <2>1. cumulative' = cumulative
    BY <1>3, <1>6, <1>8
  <2>2. \A j \in 0..pos : NoneSince(j, n) => NoneSince(j, pos)
    BY <1>3 DEF NoneSince
  <2>3. \A j \in 1..n : SnapshotAt(j) => j \in 1..pos
    BY <1>3, <1>8
  <2> QED
    BY <1>3, <1>4, <1>5, <2>1, <2>2, <2>3 DEF SnapshotInv, TokensAreLatest
<1> QED
  BY <1>7, <1>8

LEMMA SnapshotStep ==
    ASSUME IInv, SnapshotInv, [Next]_vars
    PROVE  SnapshotInv'
<1>1. ASSUME More, NEW R, NEW c, Record(Current, R, c)
      PROVE  SnapshotInv'
  BY <1>1, SnapshotRecord
<1>2. CASE PreToolUse
  BY <1>1, <1>2 DEF PreToolUse
<1>3. CASE UnidentifiedPost
  BY <1>1, <1>3 DEF UnidentifiedPost
<1>4. CASE MatchedPost
  BY <1>1, <1>4 DEF MatchedPost
<1>5. CASE UnmatchedPost
  BY <1>1, <1>5 DEF UnmatchedPost
<1>6. CASE OtherHook
  BY <1>1, <1>6 DEF OtherHook
<1>7. ASSUME UNCHANGED <<ordered, pos, cumulative>>
      PROVE  TokensAreLatest'
  BY <1>7 DEF SnapshotInv, TokensAreLatest, NoneSince, SnapshotAt
<1>8. CASE Summarise
  <2>1. /\ pos = Len(ordered) /\ UNCHANGED <<ordered, pos, cumulative>>
        /\ summary'[1].tokens = IF cumulative = <<>> THEN direct ELSE cumulative[1]
    BY <1>8 DEF Summarise
  <2> QED
    BY <1>7, <2>1 DEF SnapshotInv
<1>9. CASE UNCHANGED vars
  BY <1>7, <1>9 DEF SnapshotInv, vars
<1> QED
  BY <1>2, <1>3, <1>4, <1>5, <1>6, <1>8, <1>9 DEF Next

-----------------------------------------------------------------------------
(* Order.  Events received in one millisecond that have ids of their own   *)
(* are compared without regard to where the slice has them, so an event    *)
(* has as many before it in any slice of the same events.                  *)

Distinguished(es) ==
    \A i, j \in 1..Len(es) :
        i # j /\ es[i].at = es[j].at => es[i].id # 0 /\ es[j].id # 0 /\ es[i].id # es[j].id

Earlier(a, b) == a.at < b.at \/ (a.at = b.at /\ a.id < b.id)

\* The indexes r put the events in order.
Ascending(es, r) == \A i, j \in 1..Len(es) : i < j => Earlier(es[r[i]], es[r[j]])

EarlierThan(es, k) == {m \in 1..Len(es) : Earlier(es[m], es[k])}

LEMMA EventFields ==
    ASSUME NEW es \in Seq(HookEvent), NEW i \in 1..Len(es)
    PROVE  es[i].at \in Nat /\ es[i].id \in Nat
<1>1. es[i] \in HookEvent
  OBVIOUS
<1> QED
  BY <1>1 DEF HookEvent

\* An injection of the positions into themselves reaches each.
LEMMA Reaches ==
    ASSUME NEW n \in Nat, NEW r \in [1..n -> 1..n], \A i, j \in 1..n : r[i] = r[j] => i = j
    PROVE  \A k \in 1..n : \E i \in 1..n : r[i] = k
<1>1. r \in Injection(1..n, 1..n)
  BY DEF Injection, IsInjective
<1>2. IsFiniteSet(1..n)
  BY FS_Interval
<1>3. r \in Surjection(1..n, 1..n)
  BY <1>1, <1>2, FS_Injection
<1> QED
  BY <1>3 DEF Surjection

LEMMA AscendingInjective ==
    ASSUME NEW es \in Seq(HookEvent), NEW r \in [1..Len(es) -> 1..Len(es)], Ascending(es, r)
    PROVE  \A i, j \in 1..Len(es) : r[i] = r[j] => i = j
<1>1. ASSUME NEW i \in 1..Len(es), NEW j \in 1..Len(es), i < j
      PROVE  r[i] # r[j]
  <2>1. Earlier(es[r[i]], es[r[j]])
    BY <1>1 DEF Ascending
  <2>2. ~Earlier(es[r[i]], es[r[i]])
    BY EventFields DEF Earlier
  <2> QED
    BY <2>1, <2>2
<1> QED
  BY <1>1

LEMMA AscendingOnto ==
    ASSUME NEW es \in Seq(HookEvent), NEW r \in [1..Len(es) -> 1..Len(es)], Ascending(es, r)
    PROVE  \A k \in 1..Len(es) : \E i \in 1..Len(es) : r[i] = k
<1>1. PICK n \in Nat : n = Len(es)
  OBVIOUS
<1>2. r \in [1..n -> 1..n] /\ \A i, j \in 1..n : r[i] = r[j] => i = j
  BY <1>1, AscendingInjective
<1>3. \A k \in 1..n : \E i \in 1..n : r[i] = k
  BY <1>2, Reaches
<1> QED
  BY <1>1, <1>3

\* The event put at place i has i - 1 earlier ones.
LEMMA RankOfPlace ==
    ASSUME NEW es \in Seq(HookEvent), NEW r \in [1..Len(es) -> 1..Len(es)], Ascending(es, r),
           NEW i \in 1..Len(es)
    PROVE  Cardinality(EarlierThan(es, r[i])) = i - 1
<1> DEFINE S == EarlierThan(es, r[i])
           f == [j \in 1..(i - 1) |-> r[j]]
<1>1. \A j \in 1..(i - 1) : j \in 1..Len(es) /\ j < i
  OBVIOUS
<1>2. f \in [1..(i - 1) -> S]
  BY <1>1 DEF Ascending, EarlierThan
<1>3. \A j, k \in 1..Len(es) : r[j] = r[k] => j = k
  BY AscendingInjective
<1>4. \A m \in S : \E j \in 1..(i - 1) : f[j] = m
  <2> TAKE m \in S
  <2>1. m \in 1..Len(es) /\ Earlier(es[m], es[r[i]])
    BY DEF EarlierThan
  <2>2. PICK j \in 1..Len(es) : r[j] = m
    BY <2>1, AscendingOnto
  <2>3. j # i
    BY <2>1, <2>2, EventFields DEF Earlier
  <2>4. ~ (i < j)
    <3> SUFFICES ASSUME i < j PROVE FALSE
      OBVIOUS
    <3>1. Earlier(es[r[i]], es[m])
      BY <2>2 DEF Ascending
    <3>2. es[m].at \in Nat /\ es[m].id \in Nat /\ es[r[i]].at \in Nat /\ es[r[i]].id \in Nat
      BY <2>1, EventFields
    <3> QED
      BY <2>1, <3>1, <3>2 DEF Earlier
  <2>5. j \in 1..(i - 1)
    BY <2>3, <2>4
  <2> QED
    BY <2>2, <2>5
<1>5. f \in Bijection(1..(i - 1), S)
  <2>1. \A j, k \in 1..(i - 1) : f[j] = f[k] => j = k
    BY <1>1, <1>3
  <2> HIDE DEF f, S
  <2> QED
    BY <1>2, <1>4, <2>1 DEF Bijection, Injection, Surjection, IsInjective
<1>6. IsFiniteSet(1..(i - 1)) /\ Cardinality(1..(i - 1)) = i - 1
  BY FS_Interval
<1>7. ExistsBijection(1..(i - 1), S)
  BY <1>5 DEF ExistsBijection
<1> HIDE DEF f, S
<1>8. Cardinality(S) = Cardinality(1..(i - 1))
  BY <1>6, <1>7, FS_Bijection
<1> QED
  BY <1>6, <1>8 DEF S

\* So one arrangement is in order.
LEMMA OneAscending ==
    ASSUME NEW es \in Seq(HookEvent),
           NEW q \in [1..Len(es) -> 1..Len(es)], NEW r \in [1..Len(es) -> 1..Len(es)],
           Ascending(es, q), Ascending(es, r)
    PROVE  q = r
<1>1. ASSUME NEW i \in 1..Len(es)
      PROVE  q[i] = r[i]
  <2>1. PICK j \in 1..Len(es) : r[j] = q[i]
    BY AscendingOnto
  <2>2. Cardinality(EarlierThan(es, q[i])) = i - 1
    BY RankOfPlace
  <2>3. Cardinality(EarlierThan(es, r[j])) = j - 1
    BY RankOfPlace
  <2>4. i = j
    BY <2>1, <2>2, <2>3
  <2> QED
    BY <2>1, <2>4
<1> QED
  BY <1>1

\* Reconstruct's comparison puts distinguished events in ascending order.
ItemOf(es, i) == [event |-> es[i], index |-> i]

LEMMA BeforeIsEarlier ==
    ASSUME NEW es \in Seq(HookEvent), Distinguished(es),
           NEW i \in 1..Len(es), NEW j \in 1..Len(es)
    PROVE  Before(ItemOf(es, i), ItemOf(es, j)) <=> Earlier(es[i], es[j])
<1>1. /\ es[i].at \in Nat /\ es[i].id \in Nat /\ es[j].at \in Nat /\ es[j].id \in Nat
      /\ i \in Nat /\ j \in Nat
  BY EventFields
<1>2. CASE i = j
  BY <1>1, <1>2 DEF Before, ItemOf, Earlier
<1>3. CASE i # j
  <2>1. es[i].at = es[j].at => es[i].id # 0 /\ es[j].id # 0 /\ es[i].id # es[j].id
    BY <1>3 DEF Distinguished
  <2> QED
    BY <1>1, <2>1 DEF Before, ItemOf, Earlier
<1> QED
  BY <1>2, <1>3

Arranged(es, r) == [i \in 1..Len(es) |-> ItemOf(es, r[i])]

LEMMA OrderingsAscend ==
    ASSUME NEW es \in Seq(HookEvent), Distinguished(es)
    PROVE  \A o : o \in Orderings(es) <=>
              \E r \in [1..Len(es) -> 1..Len(es)] : Ascending(es, r) /\ o = Arranged(es, r)
<1> DEFINE ItemAt(i) == [event |-> es[i], index |-> i]
           Sorted(p) == \A i, j \in 1..Len(es) : i < j => Before(ItemAt(p[i]), ItemAt(p[j]))
<1>1. \A r \in [1..Len(es) -> 1..Len(es)] : Sorted(r) <=> Ascending(es, r)
  <2> TAKE r \in [1..Len(es) -> 1..Len(es)]
  <2>1. \A i, j \in 1..Len(es) :
           Before(ItemAt(r[i]), ItemAt(r[j])) <=> Earlier(es[r[i]], es[r[j]])
    BY BeforeIsEarlier DEF ItemOf
  <2> QED
    BY <2>1 DEF Ascending
<1>2. Orderings(es) = {[i \in 1..Len(es) |-> ItemAt(p[i])] :
                          p \in {q \in [1..Len(es) -> 1..Len(es)] : Sorted(q)}}
  BY DEF Orderings
<1>3. \A r : Arranged(es, r) = [i \in 1..Len(es) |-> ItemAt(r[i])]
  BY DEF Arranged, ItemOf
<1> HIDE DEF Sorted, ItemAt
<1> QED
  BY <1>1, <1>2, <1>3

\* The same events in another slice, in which event i is event p[i] of es.
LEMMA ShuffledOrder ==
    ASSUME NEW es \in Seq(HookEvent), Distinguished(es), NEW o \in Orderings(es),
           NEW p \in [1..Len(es) -> 1..Len(es)], \A i, j \in 1..Len(es) : p[i] = p[j] => i = j
    PROVE  {Sequence(x) : x \in Orderings([i \in 1..Len(es) |-> es[p[i]]])} = {Sequence(o)}
<1> DEFINE fs == [i \in 1..Len(es) |-> es[p[i]]]
<1>1. PICK n \in Nat : n = Len(es)
  OBVIOUS
<1>2. fs \in Seq(HookEvent) /\ Len(fs) = n /\ \A i \in 1..n : fs[i] = es[p[i]]
  BY <1>1
<1>3. p \in [1..n -> 1..n] /\ \A i, j \in 1..n : p[i] = p[j] => i = j
  BY <1>1
<1> HIDE DEF fs
<1>4. Distinguished(fs)
  <2> SUFFICES ASSUME NEW i \in 1..n, NEW j \in 1..n, i # j, fs[i].at = fs[j].at
               PROVE  fs[i].id # 0 /\ fs[j].id # 0 /\ fs[i].id # fs[j].id
    BY <1>2 DEF Distinguished
  <2>1. p[i] \in 1..Len(es) /\ p[j] \in 1..Len(es) /\ p[i] # p[j]
    BY <1>1, <1>3
  <2> QED
    BY <1>2, <2>1 DEF Distinguished
<1>5. PICK r \in [1..n -> 1..n] : Ascending(es, r) /\ o = Arranged(es, r)
  BY <1>1, OrderingsAscend
<1>6. Sequence(o) = [i \in 1..n |-> es[r[i]]]
  <2>1. Len(Arranged(es, r)) = n /\ \A i \in 1..n : Arranged(es, r)[i].event = es[r[i]]
    BY <1>1 DEF Arranged, ItemOf
  <2> QED
    BY <1>5, <2>1 DEF Sequence
<1>7. ASSUME NEW q \in [1..n -> 1..n], Ascending(fs, q)
      PROVE  Sequence(Arranged(fs, q)) = Sequence(o)
  <2> DEFINE pq == [i \in 1..n |-> p[q[i]]]
  <2>1. pq \in [1..n -> 1..n] /\ \A i \in 1..n : pq[i] = p[q[i]] /\ fs[q[i]] = es[p[q[i]]]
    BY <1>2, <1>3
  <2> HIDE DEF pq
  <2>2. Ascending(es, pq)
    <3>1. \A i, j \in 1..n : i < j => Earlier(fs[q[i]], fs[q[j]])
      BY <1>2, <1>7 DEF Ascending
    <3>2. \A i \in 1..n : fs[q[i]] = es[pq[i]]
      BY <2>1
    <3> QED
      BY <1>1, <3>1, <3>2 DEF Ascending
  <2>3. pq = r
    BY <1>1, <1>5, <2>1, <2>2, OneAscending
  <2>4. Len(Arranged(fs, q)) = n /\ \A i \in 1..n : Arranged(fs, q)[i].event = es[r[i]]
    <3>1. Arranged(fs, q) = [i \in 1..n |-> ItemOf(fs, q[i])]
      BY <1>2 DEF Arranged
    <3>2. \A i \in 1..n : ItemOf(fs, q[i]).event = es[r[i]]
      BY <2>1, <2>3 DEF ItemOf
    <3> QED
      BY <3>1, <3>2
  <2> QED
    BY <1>6, <2>4 DEF Sequence
<1>8. \E q \in [1..n -> 1..n] : Ascending(fs, q)
  <2> DEFINE q == [i \in 1..n |-> CHOOSE k \in 1..n : p[k] = r[i]]
  <2>1. \A i \in 1..n : \E k \in 1..n : p[k] = r[i]
    <3>1. \A k \in 1..n : \E i \in 1..n : p[i] = k
      BY <1>3, Reaches
    <3> QED
      BY <3>1
  <2>2. q \in [1..n -> 1..n] /\ \A i \in 1..n : p[q[i]] = r[i]
    BY <2>1
  <2> HIDE DEF q
  <2>3. \A i \in 1..n : fs[q[i]] = es[r[i]]
    BY <1>2, <2>2
  <2>4. Ascending(fs, q)
    BY <1>1, <1>2, <1>5, <2>3 DEF Ascending
  <2> QED
    BY <2>2, <2>4
<1>9. \A x : x \in Orderings(fs) <=>
         \E q \in [1..n -> 1..n] : Ascending(fs, q) /\ x = Arranged(fs, q)
  BY <1>2, <1>4, OrderingsAscend
<1>10. {Sequence(x) : x \in Orderings(fs)} = {Sequence(o)}
  <2>1. ASSUME NEW x \in Orderings(fs)
        PROVE  Sequence(x) = Sequence(o)
    <3>1. PICK q \in [1..n -> 1..n] : Ascending(fs, q) /\ x = Arranged(fs, q)
      BY <1>9
    <3> QED
      BY <1>7, <3>1
  <2>2. \E x : x \in Orderings(fs)
    BY <1>8, <1>9
  <2> QED
    BY <2>1, <2>2
<1> QED
  BY <1>10 DEF fs

\* The slice and its order stay what they were when the reduction began.
OrderInv == events \in Seq(HookEvent) /\ ordered \in Orderings(events)

LEMMA OrderStep == OrderInv /\ [Next]_vars => OrderInv'
BY DEF OrderInv, Next, PreToolUse, UnidentifiedPost, MatchedPost, UnmatchedPost, OtherHook,
       Summarise, Record, vars

-----------------------------------------------------------------------------
(* The theorems, for every set of ids and every slice storage may return.  *)

\* The trace is a trace: every list holds records of its type.
THEOREM TypeCorrect == Spec => []TypeOK
<1>1. IInv => TypeOK
  BY DEF IInv
<1> QED
  BY <1>1, Invariance, PTL

\* The map of pending calls of Reconstruct, one entry per id, pairs as the reference does:
\* a PostToolUse closes the oldest PreToolUse with its id that is still open.
THEOREM PairingCorrect == Spec => []PostsCloseOldestOpenCall
<1>1. IInv => PostsCloseOldestOpenCall
  BY DEF IInv
<1> QED
  BY <1>1, Invariance, PTL

\* A completed call has one PreToolUse and one later PostToolUse, and a finished trace has
\* no call that is still pending.
THEOREM CallsCorrect == Spec => []CallsAreWellFormed
<1>1. IInv => CallsAreWellFormed
  BY DEF IInv
<1> QED
  BY <1>1, Invariance, PTL

\* ToolCallIndex of an event and the events of a call agree: no event is in two calls.
THEOREM LinksCorrect == Spec => []TimelineAndCallsAgree
<1>1. IInv => TimelineAndCallsAgree
  BY DEF IInv
<1> QED
  BY <1>1, Invariance, PTL

\* duplicate_tool_use_id marks the PreToolUse events whose id is open, and only those.
THEOREM DuplicatesCorrect == Spec => []DuplicatesMarked
<1>1. IInv => DuplicatesMarked
  BY DEF IInv
<1> QED
  BY <1>1, Invariance, PTL

\* A call leaves the map of pending calls when it is completed, so no later PostToolUse finds
\* it, and the calls abandoned at the end are pending ones.
THEOREM CompletedStand == Spec => CompletedCallsStand
<1> DEFINE Kept == \A c \in 1..Len(toolCalls) :
                      toolCalls[c].status = "completed" => toolCalls'[c] = toolCalls[c]
<1>1. ASSUME IInv, [Next]_vars
      PROVE  Kept
  <2>1. toolCalls \in Seq(ToolCall) /\ Len(toolCalls) \in Nat
    BY <1>1 DEF IInv, TypeOK
  <2>2. CASE PreToolUse
    <3>1. PICK call : toolCalls' = Append(toolCalls, call)
      BY <2>2 DEF PreToolUse
    <3> QED
      BY <2>1, <3>1
  <2>3. CASE MatchedPost
    <3>1. PICK index : index = pending[Current.tool]
      OBVIOUS
    <3>2. /\ More /\ Current.tool # NoID /\ index # 0
          /\ toolCalls' = [toolCalls EXCEPT ![index] = Completed(toolCalls[index], pos + 1)]
      BY <2>3, <3>1 DEF MatchedPost
    <3>3. Current.tool \in ToolUseIDs
      BY <1>1, <3>2, CurrentType DEF IInv, HookEvent
    <3>4. toolCalls[index].status = "pending"
      BY <1>1, <3>1, <3>2, <3>3, PendingAt
    <3> QED
      BY <2>1, <3>2, <3>4
  <2>4. CASE UnmatchedPost
    <3>1. PICK call : toolCalls' = Append(toolCalls, call)
      BY <2>4 DEF UnmatchedPost
    <3> QED
      BY <2>1, <3>1
  <2>5. CASE UnidentifiedPost \/ OtherHook \/ UNCHANGED vars
    BY <2>5 DEF UnidentifiedPost, OtherHook, vars
  <2>6. CASE Summarise
    <3>1. ASSUME NEW c \in 1..Len(toolCalls), toolCalls[c].status = "completed"
          PROVE  toolCalls'[c] = toolCalls[c]
      <4>1. toolCalls'[c] = Abandoned(toolCalls[c]) /\ toolCalls[c] \in ToolCall
        BY <2>1, <2>6 DEF Summarise
      <4>2. \A call \in ToolCall : call.status = "completed" => Abandoned(call) = call
        BY DEF ToolCall, Abandoned
      <4> QED
        BY <3>1, <4>1, <4>2
    <3> QED
      BY <3>1
  <2> QED
    BY <1>1, <2>2, <2>3, <2>4, <2>5, <2>6 DEF Next
<1>2. IInv /\ [Next]_vars => [Kept]_vars
  BY <1>1
<1> QED
  BY <1>2, Invariance, PTL DEF Spec, CompletedCallsStand

\* The summary's token usage is the latest cumulative snapshot of the readable events.
THEOREM SnapshotWins == Spec => []LatestSnapshotWins
<1>1. IInv /\ SnapshotInv => LatestSnapshotWins
  <2> SUFFICES ASSUME IInv, SnapshotInv, summary # <<>>, NEW j \in 1..Len(ordered),
                      SnapshotAt(j), \A k \in (j + 1)..Len(ordered) : ~SnapshotAt(k)
               PROVE  summary[1].tokens = ordered[j].event.usage.tokens
    BY DEF LatestSnapshotWins
  <2>1. cumulative = <<ordered[j].event.usage.tokens>>
    BY DEF SnapshotInv, TokensAreLatest, NoneSince
  <2> QED
    BY <2>1 DEF SnapshotInv
<1>2. Init => SnapshotInv
  BY SnapshotInit
<1>3. IInv /\ SnapshotInv /\ [Next]_vars => SnapshotInv'
  BY SnapshotStep
<1> QED
  BY <1>1, <1>2, <1>3, Invariance, PTL DEF Spec

\* Events with object ids of their own are reduced in one order, however storage returned
\* them: the time they were received, then the id.  Without ids only the slice decides.
THEOREM OrderDetermined == Spec => [](Distinguished(events) => OrderIsDetermined)
<1>1. OrderInv => (Distinguished(events) => OrderIsDetermined)
  <2> SUFFICES ASSUME OrderInv, Distinguished(events), NEW p \in Shuffles
               PROVE  {Sequence(o) : o \in Orderings([i \in DOMAIN events |-> events[p[i]]])}
                          = {Sequence(ordered)}
    BY DEF OrderIsDetermined
  <2>1. PICK es, o : es = events /\ o = ordered
    OBVIOUS
  <2>2. es \in Seq(HookEvent) /\ o \in Orderings(es) /\ Distinguished(es)
    BY <2>1 DEF OrderInv
  <2>3. /\ DOMAIN es = 1..Len(es) /\ p \in [1..Len(es) -> 1..Len(es)]
        /\ \A i, j \in 1..Len(es) : p[i] = p[j] => i = j
    BY <2>1, <2>2 DEF Shuffles
  <2>4. {Sequence(x) : x \in Orderings([i \in 1..Len(es) |-> es[p[i]]])} = {Sequence(o)}
    BY <2>2, <2>3, ShuffledOrder
  <2> QED
    BY <2>1, <2>3, <2>4
<1>2. Init => OrderInv
  BY StoredAssumption DEF Init, OrderInv
<1> QED
  BY <1>1, <1>2, OrderStep, PTL DEF Spec
=============================================================================
