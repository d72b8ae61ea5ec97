-------------------------- MODULE SessionTurnsProofs --------------------------
(***************************************************************************)
(* Turns are stopped once, report their own steps and last message, answer *)
(* their prompts and know the latest metadata, in sessions of any length   *)
(* and whatever OpenCode sends in whatever order.                          *)
(***************************************************************************)
EXTENDS SessionTurns, TLAPS

-----------------------------------------------------------------------------
(* The steps of the turn that event j of history l ends.                   *)

StepsOf(l, j) ==
    {k \in 1..(j - 1) : /\ \A b \in k..(j - 1) : l[b].kind \notin {"started", "finish"}
                        /\ l[k].kind = "step" /\ l[k].tokens}

LEMMA StepsBeforeIsStepsOf ==
    ASSUME NEW j
    PROVE  StepsBefore(j) = StepsOf(log, j)
BY DEF StepsBefore, StepsOf, TurnBefore, Boundary

\* The past does not change, and a new event ends the turn or adds to it.
LEMMA StepsOfAppend ==
    ASSUME NEW l \in Seq(Event), NEW e \in Event
    PROVE  /\ \A j \in 1..(Len(l) + 1) : StepsOf(Append(l, e), j) = StepsOf(l, j)
           /\ e.kind \in {"started", "finish"} => StepsOf(Append(l, e), Len(l) + 2) = {}
           /\ e.kind \notin {"started", "finish"} =>
                 StepsOf(Append(l, e), Len(l) + 2) =
                    StepsOf(l, Len(l) + 1)
                       \cup (IF e.kind = "step" /\ e.tokens THEN {Len(l) + 1} ELSE {})
<1>1. PICK m \in Seq(Event), n \in Nat : m = Append(l, e) /\ n = Len(l)
  <2>1. Append(l, e) \in Seq(Event) /\ Len(l) \in Nat
    OBVIOUS
  <2> QED
    BY <2>1
<1>2. m[n + 1] = e /\ \A b \in 1..n : m[b] = l[b]
  BY <1>1
<1>3. \A j \in 1..(n + 1) : StepsOf(m, j) = StepsOf(l, j)
  <2> SUFFICES ASSUME NEW j \in 1..(n + 1)
               PROVE  StepsOf(m, j) = StepsOf(l, j)
    OBVIOUS
  <2>1. \A k \in 1..(j - 1) : k \in 1..n /\ \A b \in k..(j - 1) : b \in 1..n
    BY <1>1
  <2> QED
    BY <1>2, <2>1 DEF StepsOf
<1>4. n + 2 - 1 = n + 1 /\ n + 1 - 1 = n
  BY <1>1
<1>5. CASE e.kind \in {"started", "finish"}
  <2>1. \A k \in 1..(n + 1) : n + 1 \in k..(n + 1)
    BY <1>1
  <2>2. StepsOf(m, n + 2) = {}
    BY <1>2, <1>4, <1>5, <2>1 DEF StepsOf
  <2> QED
    BY <1>1, <1>3, <1>5, <2>2
<1>6. CASE e.kind \notin {"started", "finish"}
  <2>1. \A k \in 1..n : /\ k..(n + 1) = (k..n) \cup {n + 1}
                        /\ \A b \in k..n : b \in 1..n
    BY <1>1
  <2>2. 1..(n + 1) = (1..n) \cup {n + 1} /\ (n + 1)..(n + 1) = {n + 1} /\ n + 1 \notin 1..n
    BY <1>1
  <2>3. ASSUME NEW k \in 1..n
        PROVE  k \in StepsOf(m, n + 2) <=> k \in StepsOf(l, n + 1)
    BY <1>2, <1>4, <1>6, <2>1, <2>2 DEF StepsOf
  <2>4. n + 1 \in StepsOf(m, n + 2) <=> e.kind = "step" /\ e.tokens
    BY <1>2, <1>4, <1>6, <2>2 DEF StepsOf
  <2>5. StepsOf(m, n + 2) \subseteq 1..(n + 1) /\ StepsOf(l, n + 1) \subseteq 1..n
    BY <1>4 DEF StepsOf
  <2>6. StepsOf(m, n + 2) =
           StepsOf(l, n + 1) \cup (IF e.kind = "step" /\ e.tokens THEN {n + 1} ELSE {})
    BY <2>2, <2>3, <2>4, <2>5
  <2> QED
    BY <1>1, <1>3, <1>6, <2>6
<1> QED
  BY <1>5, <1>6

-----------------------------------------------------------------------------
(* The kinds of step, as far as turns and payloads tell them apart.        *)

Added(p) == posts' = Append(posts, p)

PromptStep ==
    /\ active' = active
    /\ pending' = IF PromptOwn(log'[Now]) THEN Now ELSE pending
    /\ log'[Now].kind = "prompt"
    /\ \E p \in Payload : /\ Added(p)
                          /\ p.hook = "UserPromptSubmit" /\ p.at = Now
                          /\ p.turn = IF PromptOwn(log'[Now]) THEN Now ELSE active.id

OtherStep ==
    /\ UNCHANGED <<active, pending>>
    /\ log'[Now].kind \in {"before", "after", "metadata"}
    /\ \/ posts' = posts
       \/ \E p \in Payload : Added(p) /\ p.hook \in {"PreToolUse", "PostToolUse"}

TurnStep ==
    /\ log'[Now].kind \in {"started", "text", "step"}
    /\ posts' = posts
    /\ \/ /\ log'[Now].kind # "started" /\ active.id # 0
          /\ active'.id = active.id /\ pending' = pending
       \/ /\ log'[Now].kind = "started" \/ active.id = 0
          /\ active'.id = (IF pending # 0 THEN pending ELSE Now) /\ pending' = 0
    /\ active'.steps = (IF log'[Now].kind = "started" THEN {} ELSE active.steps)
                          \cup (IF log'[Now].kind = "step" /\ log'[Now].tokens THEN {Now} ELSE {})

StopStep ==
    /\ log'[Now].kind = "finish"
    /\ active'.id = 0 /\ active'.steps = {}
    /\ \/ active.id # 0 /\ pending' = pending
       \/ active.id = 0 /\ pending # 0 /\ pending' = 0
    /\ \E p \in Payload : /\ Added(p)
                          /\ p.hook = "Stop" /\ p.at = Now /\ p.steps = active.steps
                          /\ p.turn = IF active.id # 0 THEN active.id ELSE pending

IdleStep ==
    /\ log'[Now].kind = "finish"
    /\ active.id = 0 /\ pending = 0
    /\ UNCHANGED <<active, pending, posts>>

\* Without a turn there is no usage.
TurnType == TypeOK /\ (active.id = 0 => active.steps = {})

LEMMA TextType ==
    ASSUME NEW turn \in Turn, NEW e \in Event, e.message # None, Now \in Nat
    PROVE  /\ RecordAssistantText(turn, e) \in Turn
           /\ RecordAssistantText(turn, e).id = turn.id
           /\ RecordAssistantText(turn, e).steps = turn.steps
<1> DEFINE part == [message |-> e.message, ordinal |-> e.ordinal, blank |-> e.blank, at |-> Now]
           parts == {p \in turn.parts : ~(p.message = e.message /\ p.ordinal = e.ordinal)}
                       \cup {part}
           joined == {p \in parts : p.message = e.message}
<1>1. part \in Part
  BY DEF Event, Part
<1>2. turn.parts \subseteq Part /\ turn.last \subseteq Part
  BY DEF Turn
<1> HIDE DEF part
<1>3. parts \subseteq Part /\ joined \subseteq Part
  BY <1>1, <1>2
<1>4. RecordAssistantText(turn, e) =
         [turn EXCEPT !.parts = parts,
                      !.last = IF \E p \in joined : ~p.blank THEN joined ELSE @]
  BY DEF RecordAssistantText, part
<1> HIDE DEF parts, joined
<1> QED
  BY <1>3, <1>4 DEF Turn

LEMMA EnsuredType ==
    ASSUME TurnType, NEW fallback \in Nat
    PROVE  /\ Ensured(fallback) \in Turn
           /\ Ensured(fallback).steps = active.steps
           /\ Ensured(fallback).id =
                 IF active.id # 0 THEN active.id ELSE IF pending # 0 THEN pending ELSE fallback
           /\ EnsuredPending = (IF active.id # 0 THEN pending ELSE 0)
<1>1. \A id \in Nat : /\ CreateTurn(id) \in Turn
                      /\ CreateTurn(id).id = id /\ CreateTurn(id).steps = {}
  BY DEF CreateTurn, Turn
<1>2. active \in Turn /\ pending \in Nat
  BY DEF TurnType, TypeOK
<1> QED
  BY <1>1, <1>2 DEF Ensured, EnsuredPending, TurnType

LEMMA BaseType ==
    ASSUME NEW hook \in {"UserPromptSubmit", "PreToolUse", "PostToolUse", "Stop"}, NEW id \in Nat,
           NEW m \in Metadata, Now \in Nat
    PROVE  /\ Base(hook, id, m) \in Payload
           /\ Base(hook, id, m).hook = hook /\ Base(hook, id, m).turn = id
           /\ Base(hook, id, m).at = Now
BY DEF Base, Payload

LEMMA AppendType ==
    ASSUME TypeOK, NEW p \in Payload, Added(p)
    PROVE  posts' \in Seq(Payload)
BY DEF TypeOK, Added

LEMMA StepEffect ==
    ASSUME TurnType, [Next]_vars
    PROVE  /\ TurnType'
           /\ \/ UNCHANGED vars
              \/ /\ log'[Now] \in Event /\ log' = Append(log, log'[Now])
                 /\ PromptStep \/ OtherStep \/ TurnStep \/ StopStep \/ IdleStep
<1> USE DEF TurnType
<1>1. CASE UNCHANGED vars
  BY <1>1 DEF vars, TypeOK
<1>2. ASSUME NEW e \in Inputs,
             Prompt(e) \/ Tool(e) \/ Selected(e) \/ Started(e) \/ TextEnded(e) \/ StepEnded(e)
                \/ FinishTurn(e)
      PROVE  /\ TurnType'
             /\ log'[Now] \in Event /\ log' = Append(log, log'[Now])
             /\ PromptStep \/ OtherStep \/ TurnStep \/ StopStep \/ IdleStep
  <2>1. e \in Event /\ Now \in Nat /\ Now # 0 /\ meta \in Metadata /\ pending \in Nat
        /\ active \in Turn /\ active.id \in Nat /\ active.steps \subseteq Nat
    BY InputsAssumption DEF TypeOK, Now, Turn
  <2>2. log' = Append(log, e)
    BY <1>2 DEF Prompt, Tool, Selected, Started, TextEnded, StepEnded, FinishTurn, Read
  <2>3. log' \in Seq(Event) /\ log'[Now] = e
    BY <2>1, <2>2 DEF TypeOK, Now
  <2>4. CASE Prompt(e)
    <3>1. PICK p \in Payload : /\ p = Base("UserPromptSubmit",
                                           IF PromptOwn(e) THEN Now ELSE active.id, meta)
                               /\ p.hook = "UserPromptSubmit" /\ p.at = Now
                               /\ p.turn = IF PromptOwn(e) THEN Now ELSE active.id
      BY <2>1, BaseType
    <3>2. /\ Added(p) /\ UNCHANGED <<active, meta>> /\ e.kind = "prompt"
          /\ pending' = IF PromptOwn(e) THEN Now ELSE pending
      BY <2>4, <3>1 DEF Prompt, Added
    <3>3. posts' \in Seq(Payload)
      BY <3>2, AppendType
    <3> QED
      BY <2>1, <2>2, <2>3, <3>1, <3>2, <3>3 DEF TypeOK, PromptStep
  <2>5. CASE Tool(e)
    <3>1. meta' \in Metadata
      <4>1. e.meta \in Metadata
        BY <2>1 DEF Event
      <4> QED
        BY <2>1, <2>5, <4>1 DEF Tool, WithToolAgent, Metadata, Fields
    <3>5. WithOwnAgent(e, meta') \in Metadata
      BY <2>1, <3>1 DEF WithOwnAgent, Event, Metadata, Fields
    <3>2. PICK p \in Payload :
             /\ p = Base(IF e.kind = "before" THEN "PreToolUse" ELSE "PostToolUse",
                         IF active.id # 0 THEN active.id ELSE pending, WithOwnAgent(e, meta'))
             /\ p.hook \in {"PreToolUse", "PostToolUse"}
      BY <2>1, <3>5, BaseType
    <3>3. /\ posts' = posts \/ Added(p)
          /\ UNCHANGED <<active, pending>> /\ e.kind \in {"before", "after"}
      BY <2>5, <3>2 DEF Tool, Added
    <3>4. posts' \in Seq(Payload)
      BY <3>3, AppendType DEF TypeOK
    <3> QED
      BY <2>1, <2>2, <2>3, <3>1, <3>2, <3>3, <3>4 DEF TypeOK, OtherStep
  <2>6. CASE Selected(e)
    <3>1. meta' \in Metadata
      <4>1. e.meta \in Metadata
        BY <2>1 DEF Event
      <4> QED
        BY <2>1, <2>6, <4>1 DEF Selected, Metadata
    <3> QED
      BY <2>1, <2>2, <2>3, <2>6, <3>1 DEF Selected, TypeOK, OtherStep
  <2>7. CASE Started(e)
    <3>1. PICK id \in Nat : id = StartedID /\ id = IF pending # 0 THEN pending ELSE Now
      BY <2>1 DEF StartedID
    <3>2. /\ active' = CreateTurn(id) /\ pending' = 0 /\ UNCHANGED <<meta, posts>>
          /\ e.kind = "started"
      BY <2>7, <3>1 DEF Started
    <3>3. active' \in Turn /\ active'.id = id /\ active'.steps = {}
      BY <3>2 DEF CreateTurn, Turn
    <3> QED
      BY <2>1, <2>2, <2>3, <3>1, <3>2, <3>3 DEF TypeOK, TurnStep
  <2>8. CASE TextEnded(e) \/ StepEnded(e)
    <3>1. PICK turn \in Turn :
             /\ turn = Ensured(Now) /\ turn.steps = active.steps
             /\ turn.id = IF active.id # 0 THEN active.id ELSE IF pending # 0 THEN pending ELSE Now
      BY <2>1, EnsuredType
    <3>2. pending' = (IF active.id # 0 THEN pending ELSE 0) /\ UNCHANGED <<meta, posts>>
      BY <2>1, <2>8, EnsuredType DEF TextEnded, StepEnded
    <3>3. /\ active' \in Turn /\ active'.id = turn.id
          /\ active'.steps = turn.steps \cup (IF e.kind = "step" /\ e.tokens THEN {Now} ELSE {})
      <4>1. CASE TextEnded(e)
        <5>1. e.kind = "text"
              /\ active' = IF e.message # None THEN RecordAssistantText(turn, e) ELSE turn
          BY <3>1, <4>1 DEF TextEnded
        <5> QED
          BY <2>1, <5>1, TextType
      <4>2. CASE StepEnded(e)
        <5>1. e.kind = "step" /\ active' = AddUsage(turn, e)
          BY <3>1, <4>2 DEF StepEnded
        <5> QED
          BY <2>1, <5>1 DEF AddUsage, Turn
      <4> QED
        BY <2>8, <4>1, <4>2
    <3>4. e.kind \in {"text", "step"}
      BY <2>8 DEF TextEnded, StepEnded
    <3>5. active'.id # 0
      BY <2>1, <3>1, <3>3
    <3>6. TurnType'
      BY <2>1, <2>3, <3>2, <3>3, <3>5 DEF TypeOK
    <3>7. TurnStep
      BY <2>3, <3>1, <3>2, <3>3, <3>4 DEF TurnStep
    <3> QED
      BY <2>1, <2>2, <2>3, <3>6, <3>7
  <2>9. CASE FinishTurn(e)
    <3>1. PICK turn \in Turn :
             /\ turn = Ensured(0) /\ turn.steps = active.steps
             /\ turn.id = IF active.id # 0 THEN active.id ELSE pending
      BY <2>1, EnsuredType
    <3>2. e.kind = "finish" /\ meta' = meta
      BY <2>9 DEF FinishTurn
    <3>3. CASE turn.id # 0
      <4>1. PICK b \in Payload : /\ b = Base("Stop", turn.id, meta)
                                 /\ b.hook = "Stop" /\ b.at = Now /\ b.turn = turn.id
        BY <2>1, BaseType DEF Turn
      <4>2. PICK p : p = [b EXCEPT !.steps = turn.steps, !.last = turn.last]
        OBVIOUS
      <4>3. p \in Payload /\ p.hook = "Stop" /\ p.at = Now /\ p.turn = turn.id
            /\ p.steps = turn.steps
        BY <4>1, <4>2 DEF Payload, Turn
      <4>4. Added(p) /\ active' = CreateTurn(0)
            /\ pending' = (IF active.id # 0 THEN pending ELSE 0)
        BY <2>1, <2>9, <3>1, <3>3, <4>1, <4>2, EnsuredType
           DEF FinishTurn, Added, AfterStop, PendingAfterStop
      <4>5. active' \in Turn /\ active'.id = 0 /\ active'.steps = {}
        BY <4>4 DEF CreateTurn, Turn
      <4>6. posts' \in Seq(Payload)
        BY <4>3, <4>4, AppendType
      <4>7. TurnType'
        BY <2>1, <2>3, <3>2, <4>4, <4>5, <4>6 DEF TypeOK
      <4>8. StopStep
        BY <2>3, <3>1, <3>2, <3>3, <4>3, <4>4, <4>5 DEF StopStep
      <4> QED
        BY <2>1, <2>2, <2>3, <4>7, <4>8
    <3>4. CASE turn.id = 0
      <4>1. active.id = 0 /\ pending = 0
        BY <3>1, <3>4
      <4>2. UNCHANGED <<active, pending, posts>>
        BY <2>9, <3>1, <3>4 DEF FinishTurn
      <4> QED
        BY <2>1, <2>2, <2>3, <3>2, <4>1, <4>2 DEF TypeOK, IdleStep
    <3> QED
      BY <3>3, <3>4
  <2> QED
    BY <1>2, <2>4, <2>5, <2>6, <2>7, <2>8, <2>9
<1> QED
  BY <1>1, <1>2 DEF Next

\* A history with one more entry: the old ones, and the new one at the end.
LEMMA AddedEffect ==
    ASSUME TypeOK, NEW p \in Payload, Added(p)
    PROVE  /\ Len(posts) \in Nat /\ Len(posts') = Len(posts) + 1
           /\ posts'[Len(posts) + 1] = p
           /\ \A i \in 1..Len(posts) : posts'[i] = posts[i]
BY DEF TypeOK, Added

LEMMA LogEffect ==
    ASSUME TypeOK, NEW e \in Event, log' = Append(log, e)
    PROVE  /\ Len(log) \in Nat /\ Len(log') = Len(log) + 1 /\ Now = Len(log) + 1
           /\ log'[Len(log) + 1] = e
           /\ \A k \in 1..Len(log) : log'[k] = log[k]
BY DEF TypeOK, Now

-----------------------------------------------------------------------------
(* A turn's id is used up when the turn is stopped.                        *)

Identities ==
    /\ active.id \in 0..Len(log)
    /\ pending \in 0..Len(log)
    /\ pending # 0 => pending # active.id
    /\ \A i \in 1..Len(posts) :
          posts[i].hook = "Stop" => /\ posts[i].turn \in 1..Len(log)
                                    /\ posts[i].turn # active.id
                                    /\ posts[i].turn # pending
    /\ OneStopPerTurn

LEMMA IdentitiesNext ==
    ASSUME TurnType, Identities, [Next]_vars
    PROVE  Identities'
<1>1. CASE UNCHANGED vars
  BY <1>1 DEF vars, Identities, OneStopPerTurn, Stops
<1>2. CASE /\ log'[Now] \in Event /\ log' = Append(log, log'[Now])
           /\ PromptStep \/ OtherStep \/ TurnStep \/ StopStep \/ IdleStep
  <2>1. PICK n \in Nat : n = Len(log)
    BY DEF TurnType, TypeOK
  <2>2. Len(log') = n + 1 /\ Now = n + 1
    BY <1>2, <2>1, LogEffect DEF TurnType
  <2>3. CASE \A i \in 1..Len(posts') : posts'[i].hook = "Stop" =>
                i \in 1..Len(posts) /\ posts'[i] = posts[i]
    <3>1. OneStopPerTurn'
      BY <2>3 DEF Identities, OneStopPerTurn, Stops
    <3>2. CASE PromptStep
      BY <2>1, <2>2, <2>3, <3>1, <3>2 DEF PromptStep, Identities
    <3>3. CASE OtherStep \/ IdleStep
      BY <2>1, <2>2, <2>3, <3>1, <3>3 DEF OtherStep, IdleStep, Identities
    <3>4. CASE TurnStep
      BY <2>1, <2>2, <2>3, <3>1, <3>4 DEF TurnStep, Identities
    <3>5. CASE StopStep
      <4>1. PICK p \in Payload : Added(p) /\ p.hook = "Stop"
        BY <3>5 DEF StopStep
      <4>2. Len(posts) \in Nat /\ Len(posts') = Len(posts) + 1 /\ posts'[Len(posts) + 1] = p
        BY <4>1, AddedEffect DEF TurnType
      <4>3. Len(posts) + 1 \in 1..Len(posts') /\ Len(posts) + 1 \notin 1..Len(posts)
        BY <4>2
      <4> QED
        BY <2>3, <4>1, <4>2, <4>3
    <3> QED
      BY <1>2, <3>2, <3>3, <3>4, <3>5
  <2>4. ASSUME NEW p \in Payload, Added(p), p.hook # "Stop"
        PROVE  \A i \in 1..Len(posts') : posts'[i].hook = "Stop" =>
                  i \in 1..Len(posts) /\ posts'[i] = posts[i]
    BY <2>4, AddedEffect DEF TurnType
  <2>5. CASE PromptStep \/ OtherStep \/ TurnStep \/ IdleStep
    BY <2>3, <2>4, <2>5 DEF PromptStep, OtherStep, TurnStep, IdleStep
  <2>6. CASE StopStep
    <3>1. PICK p \in Payload : /\ Added(p) /\ p.hook = "Stop"
                               /\ p.turn = IF active.id # 0 THEN active.id ELSE pending
      BY <2>6 DEF StopStep
    <3>2. /\ Len(posts) \in Nat /\ Len(posts') = Len(posts) + 1 /\ posts'[Len(posts) + 1] = p
          /\ \A i \in 1..Len(posts) : posts'[i] = posts[i]
      BY <3>1, AddedEffect DEF TurnType
    <3>3. /\ p.turn \in 1..n /\ p.turn # active'.id /\ p.turn # pending'
          /\ pending' \in {0, pending} /\ active'.id = 0
      BY <2>1, <2>6, <3>1 DEF StopStep, Identities
    <3>4. ASSUME NEW i \in 1..Len(posts), posts[i].hook = "Stop"
          PROVE  /\ posts[i].turn # p.turn /\ posts[i].turn \in 1..n
                 /\ posts[i].turn # active'.id /\ posts[i].turn # pending'
      BY <2>1, <3>1, <3>3, <3>4 DEF Identities
    <3>5. ASSUME NEW i \in 1..Len(posts'), posts'[i].hook = "Stop"
          PROVE  /\ posts'[i].turn \in 1..Len(log')
                 /\ posts'[i].turn # active'.id /\ posts'[i].turn # pending'
      <4>1. CASE i = Len(posts) + 1
        BY <2>2, <3>2, <3>3, <4>1
      <4>2. CASE i \in 1..Len(posts)
        BY <2>2, <3>2, <3>4, <3>5, <4>2
      <4> QED
        BY <3>2, <4>1, <4>2
    <3>6. ASSUME NEW i \in 1..Len(posts'), NEW j \in 1..Len(posts'),
                 posts'[i].hook = "Stop", posts'[j].hook = "Stop", posts'[i].turn = posts'[j].turn
          PROVE  i = j
      <4>1. CASE i \in 1..Len(posts) /\ j \in 1..Len(posts)
        BY <3>2, <3>6, <4>1 DEF Identities, OneStopPerTurn, Stops
      <4>2. CASE i \in 1..Len(posts) /\ j = Len(posts) + 1
        BY <3>2, <3>4, <3>6, <4>2
      <4>3. CASE i = Len(posts) + 1 /\ j \in 1..Len(posts)
        BY <3>2, <3>4, <3>6, <4>3
      <4> QED
        BY <3>2, <4>1, <4>2, <4>3
    <3>7. OneStopPerTurn'
      BY <3>6 DEF OneStopPerTurn, Stops
    <3>8. active'.id \in 0..Len(log') /\ pending' \in 0..Len(log')
          /\ (pending' # 0 => pending' # active'.id)
      BY <2>1, <2>2, <3>3 DEF Identities
    <3> QED
      BY <3>5, <3>7, <3>8 DEF Identities
  <2> QED
    BY <1>2, <2>5, <2>6
<1> QED
  BY <1>1, <1>2, StepEffect

-----------------------------------------------------------------------------
(* A turn or a waiting prompt named after a message answers that message.  *)

Asked(t, ps, n) ==
    \E j \in 1..n : ps[j].hook = "UserPromptSubmit" /\ ps[j].at = t /\ ps[j].turn = t

Answers ==
    /\ active.id # 0 /\ log[active.id].kind = "prompt" => Asked(active.id, posts, Len(posts))
    /\ pending # 0 => Asked(pending, posts, Len(posts))
    /\ StopsAnswerPrompts

LEMMA AnswersNext ==
    ASSUME TurnType, Identities, Answers, [Next]_vars
    PROVE  Answers'
<1>1. CASE UNCHANGED vars
  BY <1>1 DEF vars, Answers, StopsAnswerPrompts, Stops
<1>2. CASE /\ log'[Now] \in Event /\ log' = Append(log, log'[Now])
           /\ PromptStep \/ OtherStep \/ TurnStep \/ StopStep \/ IdleStep
  <2>1. PICK n \in Nat, m \in Nat : n = Len(log) /\ m = Len(posts)
    BY DEF TurnType, TypeOK
  <2>2. Len(log') = n + 1 /\ Now = n + 1 /\ \A k \in 1..n : log'[k] = log[k]
    BY <1>2, <2>1, LogEffect DEF TurnType
  <2>3. /\ active.id \in 0..n /\ pending \in 0..n
        /\ \A i \in 1..m : posts[i].hook = "Stop" =>
              /\ posts[i].turn \in 1..n /\ posts[i].turn # active.id
              /\ Asked(posts[i].turn, posts, i - 1) \/ log[posts[i].turn].kind # "prompt"
    <3>1. /\ active.id \in 0..n /\ pending \in 0..n
          /\ \A i \in 1..m : posts[i].hook = "Stop" =>
                posts[i].turn \in 1..n /\ posts[i].turn # active.id
      BY <2>1 DEF Identities
    <3> QED
      BY <2>1, <3>1 DEF Answers, StopsAnswerPrompts, Stops, Asked
  <2>4. CASE posts' = posts
    <3>1. StopsAnswerPrompts'
      <4>1. \A i \in Stops : log'[posts[i].turn] = log[posts[i].turn]
        BY <2>1, <2>2, <2>3 DEF Stops
      <4> QED
        BY <2>4, <4>1 DEF Answers, StopsAnswerPrompts, Stops
    <3>2. CASE OtherStep \/ IdleStep
      BY <2>1, <2>2, <2>3, <2>4, <3>1, <3>2 DEF OtherStep, IdleStep, Answers
    <3>3. CASE TurnStep
      BY <2>1, <2>2, <2>3, <2>4, <3>1, <3>3 DEF TurnStep, Answers
    <3>4. ASSUME NEW p \in Payload, Added(p)
          PROVE  FALSE
      BY <2>1, <2>4, <3>4, AddedEffect DEF TurnType
    <3> QED
      BY <1>2, <3>2, <3>3, <3>4 DEF PromptStep, StopStep
  <2>5. ASSUME NEW p \in Payload, Added(p), UNCHANGED <<active, pending>>,
               p.hook \in {"PreToolUse", "PostToolUse"}
        PROVE  Answers'
    <3>1. /\ Len(posts') = m + 1 /\ posts'[m + 1] = p
          /\ \A i \in 1..m : posts'[i] = posts[i]
      BY <2>1, <2>5, AddedEffect DEF TurnType
    <3>2. \A t, k : k <= m /\ k \in Nat /\ Asked(t, posts, k) => Asked(t, posts', k)
      BY <3>1 DEF Asked
    <3>3. \A t : Asked(t, posts, m) => Asked(t, posts', m + 1)
      BY <2>1, <3>1 DEF Asked
    <3>4. ASSUME NEW i \in 1..(m + 1), posts'[i].hook = "Stop"
          PROVE  /\ log'[posts'[i].turn].kind = "prompt" => Asked(posts'[i].turn, posts', i - 1)
                 /\ \A j \in (i + 1)..(m + 1) :
                       posts'[j].hook = "UserPromptSubmit" => posts'[j].turn # posts'[i].turn
      <4>1. i \in 1..m /\ posts'[i] = posts[i] /\ i - 1 \in Nat /\ i - 1 <= m
        BY <2>5, <3>1, <3>4
      <4>2. log'[posts'[i].turn] = log[posts[i].turn]
        BY <2>2, <2>3, <3>4, <4>1
      <4>3. \A j \in (i + 1)..m :
               posts[j].hook = "UserPromptSubmit" => posts[j].turn # posts[i].turn
        BY <2>1, <3>4, <4>1 DEF Answers, StopsAnswerPrompts, Stops
      <4> QED
        BY <2>3, <2>5, <3>1, <3>2, <3>4, <4>1, <4>2, <4>3
    <3>5. StopsAnswerPrompts'
      BY <3>1, <3>4 DEF StopsAnswerPrompts, Stops, Asked
    <3> QED
      BY <2>1, <2>2, <2>3, <2>5, <3>1, <3>3, <3>5 DEF Answers
  <2>6. CASE PromptStep
    <3>1. PICK own \in BOOLEAN, p \in Payload :
             /\ Added(p)
             /\ p.hook = "UserPromptSubmit" /\ p.at = n + 1
             /\ p.turn = IF own THEN n + 1 ELSE active.id
             /\ pending' = IF own THEN n + 1 ELSE pending
      BY <2>2, <2>6 DEF PromptStep, PromptOwn
    <3>2. /\ Len(posts') = m + 1 /\ posts'[m + 1] = p
          /\ \A i \in 1..m : posts'[i] = posts[i]
      BY <2>1, <3>1, AddedEffect DEF TurnType
    <3>3. \A t, k : k <= m /\ k \in Nat /\ Asked(t, posts, k) => Asked(t, posts', k)
      BY <3>2 DEF Asked
    <3>4. \A t : Asked(t, posts, m) => Asked(t, posts', m + 1)
      BY <2>1, <3>2 DEF Asked
    <3>5. own => Asked(n + 1, posts', m + 1)
      <4>1. m + 1 \in 1..(m + 1)
        OBVIOUS
      <4> QED
        BY <3>1, <3>2, <4>1 DEF Asked
    <3>6. ASSUME NEW i \in 1..(m + 1), posts'[i].hook = "Stop"
          PROVE  /\ log'[posts'[i].turn].kind = "prompt" => Asked(posts'[i].turn, posts', i - 1)
                 /\ \A j \in (i + 1)..(m + 1) :
                       posts'[j].hook = "UserPromptSubmit" => posts'[j].turn # posts'[i].turn
      <4>1. i \in 1..m /\ posts'[i] = posts[i] /\ i - 1 \in Nat /\ i - 1 <= m
        BY <3>1, <3>2, <3>6
      <4>2. /\ log'[posts'[i].turn] = log[posts[i].turn]
            /\ posts[i].turn # n + 1 /\ posts[i].turn # active.id
        BY <2>2, <2>3, <3>6, <4>1
      <4>3. \A j \in (i + 1)..m :
               posts[j].hook = "UserPromptSubmit" => posts[j].turn # posts[i].turn
        BY <2>1, <3>6, <4>1 DEF Answers, StopsAnswerPrompts, Stops
      <4>4. p.turn # posts[i].turn
        BY <3>1, <4>2
      <4>5. \A j \in (i + 1)..(m + 1) : j = m + 1 \/ (j \in (i + 1)..m /\ j \in 1..m)
        BY <4>1
      <4> QED
        BY <2>3, <3>2, <3>3, <3>6, <4>1, <4>2, <4>3, <4>4, <4>5
    <3>7. StopsAnswerPrompts'
      BY <3>2, <3>6 DEF StopsAnswerPrompts, Stops, Asked
    <3>8. active' = active
      BY <2>6 DEF PromptStep
    <3>9. active'.id # 0 /\ log'[active'.id].kind = "prompt" =>
             Asked(active'.id, posts', m + 1)
      BY <2>1, <2>2, <2>3, <3>4, <3>8 DEF Answers
    <3>10. pending' # 0 => Asked(pending', posts', m + 1)
      BY <2>1, <3>1, <3>4, <3>5 DEF Answers
    <3> QED
      BY <3>2, <3>7, <3>9, <3>10 DEF Answers
  <2>7. CASE StopStep
    <3>1. PICK p \in Payload : /\ Added(p) /\ p.hook = "Stop"
                               /\ p.turn = IF active.id # 0 THEN active.id ELSE pending
      BY <2>7 DEF StopStep
    <3>2. /\ Len(posts') = m + 1 /\ posts'[m + 1] = p
          /\ \A i \in 1..m : posts'[i] = posts[i]
      BY <2>1, <3>1, AddedEffect DEF TurnType
    <3>3. \A t, k : k <= m /\ k \in Nat /\ Asked(t, posts, k) => Asked(t, posts', k)
      BY <3>2 DEF Asked
    <3>4. \A t : Asked(t, posts, m) => Asked(t, posts', m + 1)
      BY <2>1, <3>2 DEF Asked
    <3>5. /\ p.turn \in 1..n
          /\ log[p.turn].kind = "prompt" => Asked(p.turn, posts, m)
      BY <2>1, <2>3, <2>7, <3>1 DEF Answers, StopStep
    <3>6. ASSUME NEW i \in 1..(m + 1), posts'[i].hook = "Stop"
          PROVE  /\ log'[posts'[i].turn].kind = "prompt" => Asked(posts'[i].turn, posts', i - 1)
                 /\ \A j \in (i + 1)..(m + 1) :
                       posts'[j].hook = "UserPromptSubmit" => posts'[j].turn # posts'[i].turn
      <4>1. CASE i \in 1..m
        <5>1. posts'[i] = posts[i] /\ i - 1 \in Nat /\ i - 1 <= m
          BY <3>2, <4>1
        <5>2. log'[posts'[i].turn] = log[posts[i].turn]
          BY <2>2, <2>3, <3>6, <4>1, <5>1
        <5>3. \A j \in (i + 1)..m :
                 posts[j].hook = "UserPromptSubmit" => posts[j].turn # posts[i].turn
          BY <2>1, <3>6, <4>1, <5>1 DEF Answers, StopsAnswerPrompts, Stops
        <5>4. \A j \in (i + 1)..(m + 1) : j = m + 1 \/ (j \in (i + 1)..m /\ j \in 1..m)
          BY <4>1
        <5> QED
          BY <2>3, <3>1, <3>2, <3>3, <3>6, <4>1, <5>1, <5>2, <5>3, <5>4
      <4>2. CASE i = m + 1
        <5>1. (i + 1)..(m + 1) = {} /\ i - 1 = m
          BY <4>2
        <5>2. log'[p.turn] = log[p.turn]
          BY <2>2, <3>5
        <5> QED
          BY <3>2, <3>3, <3>5, <4>2, <5>1, <5>2
      <4> QED
        BY <4>1, <4>2
    <3>7. StopsAnswerPrompts'
      BY <3>2, <3>6 DEF StopsAnswerPrompts, Stops, Asked
    <3>8. active'.id = 0 /\ pending' \in {0, pending}
      BY <2>7 DEF StopStep
    <3> QED
      BY <2>1, <3>2, <3>4, <3>7, <3>8 DEF Answers
  <2> QED
    BY <1>2, <2>4, <2>5, <2>6, <2>7 DEF OtherStep, TurnStep, IdleStep
<1> QED
  BY <1>1, <1>2, StepEffect

-----------------------------------------------------------------------------
(* The usage of the active turn is that of the steps since the last start  *)
(* or end of an execution.                                                 *)

Counted ==
    /\ active.steps = StepsOf(log, Len(log) + 1)
    /\ \A i \in 1..Len(posts) :
          posts[i].hook = "Stop" => /\ posts[i].at \in 1..Len(log)
                                    /\ posts[i].steps = StepsOf(log, posts[i].at)
    /\ \A j \in 1..Len(log) :
          log[j].kind = "finish" /\ StepsOf(log, j) # {} =>
             \E i \in 1..Len(posts) : posts[i].hook = "Stop" /\ posts[i].at = j

LEMMA CountedNext ==
    ASSUME TurnType, Counted, [Next]_vars
    PROVE  Counted'
<1>1. CASE UNCHANGED vars
  BY <1>1 DEF vars, Counted
<1>2. CASE /\ log'[Now] \in Event /\ log' = Append(log, log'[Now])
           /\ PromptStep \/ OtherStep \/ TurnStep \/ StopStep \/ IdleStep
  <2>1. PICK n \in Nat, m \in Nat, e \in Event : n = Len(log) /\ m = Len(posts) /\ e = log'[Now]
    BY <1>2 DEF TurnType, TypeOK
  <2>2. /\ Len(log') = n + 1 /\ Now = n + 1 /\ log'[n + 1] = e
        /\ \A k \in 1..n : log'[k] = log[k]
    BY <1>2, <2>1, LogEffect DEF TurnType
  <2>3. /\ \A j \in 1..(n + 1) : StepsOf(log', j) = StepsOf(log, j)
        /\ e.kind \in {"started", "finish"} => StepsOf(log', n + 2) = {}
        /\ e.kind \notin {"started", "finish"} =>
              StepsOf(log', n + 2) = active.steps
                                     \cup (IF e.kind = "step" /\ e.tokens THEN {n + 1} ELSE {})
    <3>1. log \in Seq(Event) /\ log' = Append(log, e)
      BY <1>2, <2>1 DEF TurnType, TypeOK
    <3>2. active.steps = StepsOf(log, n + 1)
      BY <2>1 DEF Counted
    <3>3. /\ \A j \in 1..(Len(log) + 1) : StepsOf(Append(log, e), j) = StepsOf(log, j)
          /\ e.kind \in {"started", "finish"} => StepsOf(Append(log, e), Len(log) + 2) = {}
          /\ e.kind \notin {"started", "finish"} =>
                StepsOf(Append(log, e), Len(log) + 2) =
                   StepsOf(log, Len(log) + 1)
                      \cup (IF e.kind = "step" /\ e.tokens THEN {Len(log) + 1} ELSE {})
      BY <3>1, StepsOfAppend
    <3> QED
      BY <2>1, <3>1, <3>2, <3>3
  <2>4. active'.steps = StepsOf(log', Len(log') + 1)
    <3>1. Len(log') + 1 = n + 2
      BY <2>2
    <3>2. active'.steps = StepsOf(log', n + 2)
      <4>1. CASE PromptStep \/ OtherStep
        BY <2>1, <2>2, <2>3, <4>1 DEF PromptStep, OtherStep
      <4>2. CASE TurnStep
        BY <2>1, <2>2, <2>3, <4>2 DEF TurnStep
      <4>3. CASE StopStep
        BY <2>1, <2>2, <2>3, <4>3 DEF StopStep
      <4>4. CASE IdleStep
        BY <2>1, <2>2, <2>3, <4>4 DEF IdleStep, TurnType
      <4> QED
        BY <1>2, <4>1, <4>2, <4>3, <4>4
    <3> QED
      BY <3>1, <3>2
  <2>5. \/ posts' = posts
        \/ \E p \in Payload :
              /\ Added(p)
              /\ p.hook = "Stop" => /\ p.at = n + 1 /\ p.steps = StepsOf(log, n + 1)
    BY <1>2, <2>1, <2>2 DEF PromptStep, OtherStep, TurnStep, StopStep, IdleStep, Counted
  <2>6. \A i \in 1..m : posts[i].hook = "Stop" =>
           posts[i].at \in 1..n /\ posts[i].steps = StepsOf(log', posts[i].at)
    BY <2>1, <2>3 DEF Counted
  <2>7. \A i \in 1..Len(posts') : posts'[i].hook = "Stop" =>
           posts'[i].at \in 1..(n + 1) /\ posts'[i].steps = StepsOf(log', posts'[i].at)
    <3>1. CASE posts' = posts
      BY <2>1, <2>6, <3>1
    <3>2. ASSUME NEW p \in Payload, Added(p),
                 p.hook = "Stop" => p.at = n + 1 /\ p.steps = StepsOf(log, n + 1)
          PROVE  \A i \in 1..Len(posts') : posts'[i].hook = "Stop" =>
                    posts'[i].at \in 1..(n + 1) /\ posts'[i].steps = StepsOf(log', posts'[i].at)
      <4>1. /\ Len(posts') = m + 1 /\ posts'[m + 1] = p
            /\ \A i \in 1..m : posts'[i] = posts[i]
        BY <2>1, <3>2, AddedEffect DEF TurnType
      <4> QED
        BY <2>3, <2>6, <3>2, <4>1
    <3> QED
      BY <2>5, <3>1, <3>2
  <2>8. \A i \in 1..m : i \in 1..Len(posts') /\ posts'[i] = posts[i]
    <3>1. ASSUME NEW p \in Payload, Added(p)
          PROVE  \A i \in 1..m : i \in 1..Len(posts') /\ posts'[i] = posts[i]
      BY <2>1, <3>1, AddedEffect DEF TurnType
    <3> QED
      BY <2>1, <2>5, <3>1
  <2>9. ASSUME NEW j \in 1..(n + 1), log'[j].kind = "finish", StepsOf(log', j) # {}
        PROVE  \E i \in 1..Len(posts') : posts'[i].hook = "Stop" /\ posts'[i].at = j
    <3>1. CASE j \in 1..n
      <4>1. PICK i \in 1..m : posts[i].hook = "Stop" /\ posts[i].at = j
        BY <2>1, <2>2, <2>3, <2>9, <3>1 DEF Counted
      <4> QED
        BY <2>8, <4>1
    <3>2. CASE j = n + 1
      <4>1. active.steps # {} /\ e.kind = "finish"
        BY <2>1, <2>2, <2>3, <2>9, <3>2 DEF Counted
      <4>2. StopStep
        BY <1>2, <2>1, <4>1 DEF PromptStep, OtherStep, TurnStep, IdleStep, TurnType
      <4>3. PICK p \in Payload : Added(p) /\ p.hook = "Stop" /\ p.at = n + 1
        BY <2>2, <4>2 DEF StopStep
      <4>4. Len(posts') = m + 1 /\ posts'[m + 1] = p
        BY <2>1, <4>3, AddedEffect DEF TurnType
      <4>5. m + 1 \in 1..Len(posts')
        BY <4>4
      <4> QED
        BY <3>2, <4>3, <4>4, <4>5
    <3> QED
      BY <3>1, <3>2
  <2> QED
    BY <2>2, <2>4, <2>7, <2>9 DEF Counted
<1> QED
  BY <1>1, <1>2, StepEffect

-----------------------------------------------------------------------------
(* Of each detail the session has the value last selected, or the agent    *)
(* the first tool call named, as far as event j of history l.              *)

Chosen(l, j, f) == {k \in 1..j : l[k].meta[f] # None /\ l[k].kind = "metadata"}
Named(l, j, f) ==
    {k \in 1..j : l[k].meta[f] # None /\ l[k].kind \in {"before", "after"} /\ f = "agent"}

Shows(l, j, f, v) ==
    \/ \E k \in Chosen(l, j, f) : (\A i \in Chosen(l, j, f) : i <= k) /\ v = l[k].meta[f]
    \/ /\ Chosen(l, j, f) = {}
       /\ \E k \in Named(l, j, f) : (\A i \in Named(l, j, f) : k <= i) /\ v = l[k].meta[f]
    \/ Chosen(l, j, f) = {} /\ Named(l, j, f) = {} /\ v = None

\* What event e makes of a detail that had value v.
Revised(e, f, v) ==
    CASE e.kind = "metadata" /\ e.meta[f] # None -> e.meta[f]
      [] e.kind \in {"before", "after"} /\ f = "agent" /\ v = None -> e.meta[f]
      [] OTHER -> v

LEMMA ShowsAppend ==
    ASSUME NEW l \in Seq(Event), NEW e \in Event, NEW f \in Fields
    PROVE  /\ \A j \in 1..Len(l) : \A v : Shows(l, j, f, v) => Shows(Append(l, e), j, f, v)
           /\ \A v : Shows(l, Len(l), f, v) =>
                 Shows(Append(l, e), Len(l) + 1, f, Revised(e, f, v))
<1>1. PICK m \in Seq(Event), n \in Nat : m = Append(l, e) /\ n = Len(l)
  <2>1. Append(l, e) \in Seq(Event) /\ Len(l) \in Nat
    OBVIOUS
  <2> QED
    BY <2>1
<1>2. m[n + 1] = e /\ \A b \in 1..n : m[b] = l[b]
  BY <1>1
<1>3. \A j \in 1..n : Chosen(m, j, f) = Chosen(l, j, f) /\ Named(m, j, f) = Named(l, j, f)
  <2>1. \A j \in 1..n : \A k \in 1..j : k \in 1..n
    OBVIOUS
  <2> QED
    BY <1>2, <2>1 DEF Chosen, Named
<1>4. \A j \in 1..n : \A v : Shows(l, j, f, v) => Shows(m, j, f, v)
  <2>1. \A j \in 1..n : \A k \in Chosen(l, j, f) \cup Named(l, j, f) : k \in 1..n
    BY DEF Chosen, Named
  <2> QED
    BY <1>2, <1>3, <2>1 DEF Shows
<1>5. 1..(n + 1) = (1..n) \cup {n + 1} /\ n + 1 \notin 1..n
  OBVIOUS
<1>6. Chosen(m, n + 1, f) =
         Chosen(l, n, f) \cup (IF e.kind = "metadata" /\ e.meta[f] # None THEN {n + 1} ELSE {})
  BY <1>2, <1>5 DEF Chosen
<1>7. Named(m, n + 1, f) =
         Named(l, n, f) \cup (IF e.kind \in {"before", "after"} /\ f = "agent" /\ e.meta[f] # None
                              THEN {n + 1} ELSE {})
  BY <1>2, <1>5 DEF Named
<1>8. Chosen(l, n, f) \subseteq 1..n /\ Named(l, n, f) \subseteq 1..n
  BY DEF Chosen, Named
<1>9. \A k \in Chosen(l, n, f) \cup Named(l, n, f) : l[k].meta[f] # None
  BY DEF Chosen, Named
<1>10. ASSUME NEW v, Shows(l, n, f, v)
       PROVE  Shows(m, n + 1, f, Revised(e, f, v))
  <2>1. CASE e.kind = "metadata" /\ e.meta[f] # None
    <3>1. n + 1 \in Chosen(m, n + 1, f) /\ \A i \in Chosen(m, n + 1, f) : i <= n + 1
      BY <1>6, <1>8, <2>1
    <3>2. Revised(e, f, v) = m[n + 1].meta[f]
      BY <1>2, <2>1 DEF Revised
    <3> QED
      BY <3>1, <3>2 DEF Shows
  <2>2. CASE ~(e.kind = "metadata" /\ e.meta[f] # None)
    <3>1. Chosen(m, n + 1, f) = Chosen(l, n, f)
      BY <1>6, <2>2
    <3>2. CASE Chosen(l, n, f) # {}
      <4>1. PICK k \in Chosen(l, n, f) : (\A i \in Chosen(l, n, f) : i <= k) /\ v = l[k].meta[f]
        BY <1>10, <3>2 DEF Shows
      <4>2. v # None /\ m[k] = l[k]
        BY <1>2, <1>8, <1>9, <4>1
      <4>3. Revised(e, f, v) = v
        BY <2>2, <4>2 DEF Revised
      <4> QED
        BY <3>1, <4>1, <4>2, <4>3 DEF Shows
    <3>3. CASE Chosen(l, n, f) = {} /\ Named(l, n, f) # {}
      <4>1. PICK k \in Named(l, n, f) : (\A i \in Named(l, n, f) : k <= i) /\ v = l[k].meta[f]
        BY <1>10, <3>3 DEF Shows
      <4>2. v # None /\ m[k] = l[k]
        BY <1>2, <1>8, <1>9, <4>1
      <4>3. Revised(e, f, v) = v
        BY <2>2, <4>2 DEF Revised
      <4>4. k \in Named(m, n + 1, f) /\ \A i \in Named(m, n + 1, f) : k <= i
        BY <1>7, <1>8, <4>1
      <4> QED
        BY <3>1, <3>3, <4>1, <4>2, <4>3, <4>4 DEF Shows
    <3>4. CASE Chosen(l, n, f) = {} /\ Named(l, n, f) = {}
      <4>1. v = None
        BY <1>10, <3>4 DEF Shows
      <4>2. CASE e.kind \in {"before", "after"} /\ f = "agent" /\ e.meta[f] # None
        <5>1. Named(m, n + 1, f) = {n + 1} /\ n + 1 <= n + 1
          BY <1>7, <3>4, <4>2
        <5>2. Revised(e, f, v) = m[n + 1].meta[f]
          BY <1>2, <2>2, <4>1, <4>2 DEF Revised
        <5> QED
          BY <3>1, <3>4, <5>1, <5>2 DEF Shows
      <4>3. CASE ~(e.kind \in {"before", "after"} /\ f = "agent" /\ e.meta[f] # None)
        <5>1. Named(m, n + 1, f) = {}
          BY <1>7, <3>4, <4>3
        <5>2. Revised(e, f, v) = None
          BY <2>2, <4>1, <4>3 DEF Revised
        <5> QED
          BY <3>1, <3>4, <5>1, <5>2 DEF Shows
      <4> QED
        BY <4>2, <4>3
    <3> QED
      BY <3>2, <3>3, <3>4
  <2> QED
    BY <2>1, <2>2
<1> QED
  BY <1>1, <1>4, <1>10

\* What the payload of event e has of detail f when the session has v: a tool call's agent
\* is the one its hook names.
Own(e, f, v) ==
    IF e.kind \in {"before", "after"} /\ f = "agent" /\ e.meta[f] # None THEN e.meta[f] ELSE v

\* The payload of event j of history l has v of detail f.
Pays(l, j, f, v) == IF j \in Named(l, j, f) THEN v = l[j].meta[f] ELSE Shows(l, j, f, v)

LEMMA PaysAppend ==
    ASSUME NEW l \in Seq(Event), NEW e \in Event, NEW f \in Fields
    PROVE  /\ \A j \in 1..Len(l) : \A v : Pays(l, j, f, v) => Pays(Append(l, e), j, f, v)
           /\ \A v : Shows(Append(l, e), Len(l) + 1, f, v) =>
                 Pays(Append(l, e), Len(l) + 1, f, Own(e, f, v))
<1>1. PICK m \in Seq(Event), n \in Nat : m = Append(l, e) /\ n = Len(l)
  <2>1. Append(l, e) \in Seq(Event) /\ Len(l) \in Nat
    OBVIOUS
  <2> QED
    BY <2>1
<1>2. m[n + 1] = e /\ \A b \in 1..n : m[b] = l[b]
  BY <1>1
<1>3. \A j \in 1..n : \A v : Shows(l, j, f, v) => Shows(m, j, f, v)
  BY <1>1, ShowsAppend
<1>4. \A j \in 1..n : (j \in Named(m, j, f)) <=> (j \in Named(l, j, f))
  BY <1>2 DEF Named
<1>5. \A j \in 1..n : \A v : Pays(l, j, f, v) => Pays(m, j, f, v)
  BY <1>2, <1>3, <1>4 DEF Pays
<1>6. n + 1 \in Named(m, n + 1, f) <=>
         e.kind \in {"before", "after"} /\ f = "agent" /\ e.meta[f] # None
  BY <1>2 DEF Named
<1>7. \A v : Shows(m, n + 1, f, v) => Pays(m, n + 1, f, Own(e, f, v))
  BY <1>2, <1>6 DEF Pays, Own
<1> QED
  BY <1>1, <1>5, <1>7

Known ==
    /\ \A f \in Fields : Shows(log, Len(log), f, meta[f])
    /\ \A i \in 1..Len(posts) : /\ posts[i].at \in 1..Len(log)
                                 /\ \A f \in Fields : Pays(log, posts[i].at, f, posts[i].meta[f])

\* Every event revises the details by what it tells, before its payload shows them; the
\* payload of a tool call puts the agent of its own hook over the session's.
LEMMA MetaEffect ==
    ASSUME TypeOK, Next
    PROVE  \E e \in Event :
              /\ log' = Append(log, e)
              /\ \A f \in Fields : meta'[f] = Revised(e, f, meta[f])
              /\ \/ posts' = posts
                 \/ \E p \in Payload : /\ Added(p) /\ p.at = Now
                                         /\ \A f \in Fields : p.meta[f] = Own(e, f, meta'[f])
<1>1. PICK e \in Inputs : \/ Prompt(e) \/ Tool(e) \/ Selected(e) \/ Started(e)
                          \/ TextEnded(e) \/ StepEnded(e) \/ FinishTurn(e)
  BY DEF Next
<1>2. /\ e \in Event /\ e.meta \in Metadata /\ meta \in Metadata
      /\ Now \in Nat /\ active.id \in Nat /\ pending \in Nat
  BY InputsAssumption DEF TypeOK, Event, Now, Turn
<1>3. log' = Append(log, e)
  BY <1>1 DEF Prompt, Tool, Selected, Started, TextEnded, StepEnded, FinishTurn, Read
<1>4. ASSUME NEW hook \in {"UserPromptSubmit", "PreToolUse", "PostToolUse", "Stop"},
             NEW id \in Nat, NEW m \in Metadata
      PROVE  /\ Base(hook, id, m) \in Payload
             /\ Base(hook, id, m).at = Now /\ Base(hook, id, m).meta = m
  BY <1>2 DEF Base, Payload
<1>5. CASE Prompt(e)
  <2>1. e.kind = "prompt" /\ meta' = meta
    BY <1>5 DEF Prompt
  <2>2. \A f \in Fields : meta'[f] = Revised(e, f, meta[f])
    BY <2>1 DEF Revised
  <2>3. PICK id \in Nat : id = IF PromptOwn(e) THEN Now ELSE active.id
    BY <1>2
  <2>4. Added(Base("UserPromptSubmit", id, meta))
    BY <1>5, <2>3 DEF Prompt, Added
  <2>5. \A f \in Fields : meta[f] = Own(e, f, meta'[f])
    BY <2>1 DEF Own
  <2> QED
    BY <1>2, <1>3, <1>4, <2>1, <2>2, <2>4, <2>5
<1>6. CASE Tool(e)
  <2>1. e.kind \in {"before", "after"} /\ meta' = WithToolAgent(e)
    BY <1>6 DEF Tool
  <2>2. \A f \in Fields : meta'[f] = Revised(e, f, meta[f])
    BY <1>2, <2>1 DEF Revised, WithToolAgent, Metadata, Fields
  <2>3. meta' \in Metadata
    BY <1>2, <2>1 DEF WithToolAgent, Metadata, Fields
  <2>4. PICK own \in Metadata : own = WithOwnAgent(e, meta')
    BY <1>2, <2>3 DEF WithOwnAgent, Metadata, Fields
  <2>5. \A f \in Fields : own[f] = Own(e, f, meta'[f])
    BY <1>2, <2>1, <2>3, <2>4 DEF WithOwnAgent, Own, Metadata, Fields
  <2>6. PICK hook \in {"PreToolUse", "PostToolUse"}, id \in Nat :
           /\ hook = (IF e.kind = "before" THEN "PreToolUse" ELSE "PostToolUse")
           /\ id = (IF active.id # 0 THEN active.id ELSE pending)
    BY <1>2
  <2>7. posts' = posts \/ Added(Base(hook, id, own))
    BY <1>6, <2>6, <2>4 DEF Tool, Added
  <2> QED
    BY <1>2, <1>3, <1>4, <2>2, <2>7, <2>5
<1>7. CASE Selected(e)
  <2>1. \A f \in Fields : meta'[f] = Revised(e, f, meta[f])
    BY <1>2, <1>7 DEF Selected, Revised, Metadata
  <2> QED
    BY <1>2, <1>3, <1>7, <2>1 DEF Selected
<1>8. CASE Started(e) \/ TextEnded(e) \/ StepEnded(e)
  <2>1. e.kind \notin {"metadata", "before", "after"} /\ UNCHANGED <<meta, posts>>
    BY <1>8 DEF Started, TextEnded, StepEnded
  <2>2. \A f \in Fields : meta'[f] = Revised(e, f, meta[f])
    BY <2>1 DEF Revised
  <2> QED
    BY <1>2, <1>3, <2>1, <2>2
<1>9. CASE FinishTurn(e)
  <2>1. e.kind = "finish" /\ meta' = meta
    BY <1>9 DEF FinishTurn
  <2>2. \A f \in Fields : meta'[f] = Revised(e, f, meta[f])
    BY <2>1 DEF Revised
  <2>3. posts' = posts \/ \E p \in Payload : Added(p) /\ p.at = Now /\ p.meta = meta'
    <3>1. PICK turn \in Turn : turn = Ensured(0)
      BY <1>2 DEF Ensured, CreateTurn, Turn, TypeOK
    <3>2. CASE turn.id = 0
      BY <1>9, <3>1, <3>2 DEF FinishTurn
    <3>3. CASE turn.id # 0
      <4>1. PICK b \in Payload : b = Base("Stop", turn.id, meta) /\ b.at = Now /\ b.meta = meta
        BY <1>2, <1>4, <3>1 DEF Turn
      <4>2. PICK p : p = [b EXCEPT !.steps = turn.steps, !.last = turn.last]
        OBVIOUS
      <4>3. p \in Payload /\ p.at = Now /\ p.meta = meta
        BY <4>1, <4>2 DEF Payload, Turn
      <4>4. Added(p)
        BY <1>9, <3>1, <3>3, <4>1, <4>2 DEF FinishTurn, Added
      <4> QED
        BY <2>1, <4>3, <4>4
    <3> QED
      BY <3>2, <3>3
  <2>4. \A f \in Fields : meta'[f] = Own(e, f, meta'[f])
    BY <2>1 DEF Own
  <2> QED
    BY <1>2, <1>3, <2>2, <2>3, <2>4
<1> QED
  BY <1>1, <1>5, <1>6, <1>7, <1>8, <1>9

LEMMA KnownNext ==
    ASSUME TurnType, Known, [Next]_vars
    PROVE  Known'
<1>1. CASE UNCHANGED vars
  BY <1>1 DEF vars, Known
<1>2. CASE Next
  <2>1. TypeOK /\ log \in Seq(Event)
    BY DEF TurnType, TypeOK
  <2>2. PICK e \in Event :
           /\ log' = Append(log, e)
           /\ \A f \in Fields : meta'[f] = Revised(e, f, meta[f])
           /\ \/ posts' = posts
              \/ \E p \in Payload : /\ Added(p) /\ p.at = Now
                                      /\ \A f \in Fields : p.meta[f] = Own(e, f, meta'[f])
    BY <1>2, <2>1, MetaEffect
  <2>3. PICK n \in Nat, m \in Nat : n = Len(log) /\ m = Len(posts)
    BY DEF TurnType, TypeOK
  <2>4. Len(log') = n + 1 /\ Now = n + 1
    BY <2>1, <2>2, <2>3, LogEffect
  <2>5. \A f \in Fields : Shows(log', n + 1, f, meta'[f])
    BY <2>1, <2>2, <2>3, ShowsAppend DEF Known
  <2>6. \A i \in 1..m : /\ posts[i].at \in 1..n
                        /\ \A f \in Fields : Pays(log', posts[i].at, f, posts[i].meta[f])
    BY <2>1, <2>2, <2>3, PaysAppend DEF Known
  <2>7. \A i \in 1..Len(posts') :
           /\ posts'[i].at \in 1..(n + 1)
           /\ \A f \in Fields : Pays(log', posts'[i].at, f, posts'[i].meta[f])
    <3>1. CASE posts' = posts
      BY <2>3, <2>6, <3>1
    <3>2. CASE posts' # posts
      <4>1. PICK p \in Payload : /\ Added(p) /\ p.at = n + 1
                                 /\ \A f \in Fields : p.meta[f] = Own(e, f, meta'[f])
        BY <2>2, <2>4, <3>2
      <4>2. /\ Len(posts') = m + 1 /\ posts'[m + 1] = p
            /\ \A i \in 1..m : posts'[i] = posts[i]
        BY <2>1, <2>3, <4>1, AddedEffect
      <4>3. \A f \in Fields : Pays(log', n + 1, f, p.meta[f])
        BY <2>1, <2>2, <2>3, <2>5, <4>1, PaysAppend
      <4> QED
        BY <2>6, <4>1, <4>2, <4>3
    <3> QED
      BY <3>1, <3>2
  <2> QED
    BY <2>4, <2>5, <2>7 DEF Known
<1> QED
  BY <1>1, <1>2

-----------------------------------------------------------------------------
(* The last assistant message of the turn that event j of history l ends.  *)

TurnOf(l, j) == {k \in 1..(j - 1) : \A b \in k..(j - 1) : l[b].kind \notin {"started", "finish"}}

\* The texts of the turn that name a message, and those of them still current.
TextsOf(l, j) == {k \in TurnOf(l, j) : l[k].kind = "text" /\ l[k].message # None}
Current(l, j) ==
    {i \in TextsOf(l, j) : \A x \in TextsOf(l, j) :
        x > i => ~(l[x].message = l[i].message /\ l[x].ordinal = l[i].ordinal)}

\* The message of text k as it was when k came, and the texts that left it not blank.
Version(l, j, k) ==
    LET texts == {i \in TextsOf(l, j) : i <= k /\ l[i].message = l[k].message}
    IN  {i \in texts : \A x \in texts : x > i => l[x].ordinal # l[i].ordinal}
Spoken(l, j) == {k \in TextsOf(l, j) : \E i \in Version(l, j, k) : ~l[i].blank}

\* The last message is S, a set of positions.
Says(l, j, S) ==
    \/ Spoken(l, j) = {} /\ S = {}
    \/ \E k \in Spoken(l, j) : (\A x \in Spoken(l, j) : x <= k) /\ S = Version(l, j, k)

At(parts) == {p.at : p \in parts}
PartOf(l, i) ==
    [message |-> l[i].message, ordinal |-> l[i].ordinal, blank |-> l[i].blank, at |-> i]

\* The past does not change.
LEMMA TextsPast ==
    ASSUME NEW l \in Seq(Event), NEW e \in Event, NEW j \in 1..(Len(l) + 1)
    PROVE  /\ TextsOf(Append(l, e), j) = TextsOf(l, j)
           /\ \A k \in TextsOf(l, j) : Version(Append(l, e), j, k) = Version(l, j, k)
           /\ Spoken(Append(l, e), j) = Spoken(l, j)
           /\ \A S : Says(l, j, S) => Says(Append(l, e), j, S)
<1>1. PICK m \in Seq(Event), n \in Nat : m = Append(l, e) /\ n = Len(l)
  <2>1. Append(l, e) \in Seq(Event) /\ Len(l) \in Nat
    OBVIOUS
  <2> QED
    BY <2>1
<1>2. \A b \in 1..n : m[b] = l[b]
  BY <1>1
<1>3. \A k \in 1..(j - 1) : k \in 1..n /\ \A b \in k..(j - 1) : b \in 1..n
  BY <1>1
<1>4. TurnOf(m, j) = TurnOf(l, j)
  BY <1>2, <1>3 DEF TurnOf
<1>5. TextsOf(m, j) = TextsOf(l, j) /\ \A k \in TextsOf(l, j) : m[k] = l[k]
  BY <1>2, <1>3, <1>4 DEF TextsOf, TurnOf
<1>6. \A k \in TextsOf(l, j) : Version(m, j, k) = Version(l, j, k)
  BY <1>5 DEF Version
<1>7. \A k \in TextsOf(l, j) : Version(l, j, k) \subseteq TextsOf(l, j)
  BY DEF Version
<1>8. Spoken(m, j) = Spoken(l, j)
  BY <1>5, <1>6, <1>7 DEF Spoken
<1>9. \A S : Says(l, j, S) => Says(m, j, S)
  BY <1>6, <1>8 DEF Says, Spoken
<1> QED
  BY <1>1, <1>5, <1>6, <1>8, <1>9

\* A new event begins a turn, is a text, or neither.
LEMMA TextsAppend ==
    ASSUME NEW l \in Seq(Event), NEW e \in Event
    PROVE  LET m == Append(l, e)
               n == Len(l)
           IN  TextsOf(m, n + 2) =
                  IF e.kind \in {"started", "finish"} THEN {}
                  ELSE IF e.kind = "text" /\ e.message # None THEN TextsOf(l, n + 1) \cup {n + 1}
                  ELSE TextsOf(l, n + 1)
<1>1. PICK m \in Seq(Event), n \in Nat : m = Append(l, e) /\ n = Len(l)
  <2>1. Append(l, e) \in Seq(Event) /\ Len(l) \in Nat
    OBVIOUS
  <2> QED
    BY <2>1
<1>2. m[n + 1] = e /\ \A b \in 1..n : m[b] = l[b]
  BY <1>1
<1>3. n + 2 - 1 = n + 1 /\ n + 1 - 1 = n
  OBVIOUS
<1>4. CASE e.kind \in {"started", "finish"}
  <2>1. \A k \in 1..(n + 1) : n + 1 \in k..(n + 1)
    OBVIOUS
  <2>2. TurnOf(m, n + 2) = {}
    BY <1>2, <1>3, <1>4, <2>1 DEF TurnOf
  <2> QED
    BY <1>1, <1>4, <2>2 DEF TextsOf
<1>5. CASE e.kind \notin {"started", "finish"}
  <2>1. \A k \in 1..n : k..(n + 1) = (k..n) \cup {n + 1} /\ \A b \in k..n : b \in 1..n
    OBVIOUS
  <2>2. 1..(n + 1) = (1..n) \cup {n + 1} /\ (n + 1)..(n + 1) = {n + 1} /\ n + 1 \notin 1..n
    OBVIOUS
  <2>3. ASSUME NEW k \in 1..n
        PROVE  k \in TurnOf(m, n + 2) <=> k \in TurnOf(l, n + 1)
    BY <1>2, <1>3, <1>5, <2>1, <2>2 DEF TurnOf
  <2>4. n + 1 \in TurnOf(m, n + 2)
    BY <1>2, <1>3, <1>5, <2>2 DEF TurnOf
  <2>5. TurnOf(m, n + 2) \subseteq 1..(n + 1) /\ TurnOf(l, n + 1) \subseteq 1..n
    BY <1>3 DEF TurnOf
  <2>6. TurnOf(m, n + 2) = TurnOf(l, n + 1) \cup {n + 1}
    BY <2>2, <2>3, <2>4, <2>5
  <2>7. TextsOf(m, n + 2) =
           IF e.kind = "text" /\ e.message # None THEN TextsOf(l, n + 1) \cup {n + 1}
           ELSE TextsOf(l, n + 1)
    BY <1>2, <2>5, <2>6 DEF TextsOf
  <2> QED
    BY <1>1, <1>5, <2>7
<1> QED
  BY <1>4, <1>5

\* What the latest turn's parts and last message are, in terms of the history.
Holds(l, parts, last) ==
    /\ parts = {PartOf(l, i) : i \in Current(l, Len(l) + 1)}
    /\ Says(l, Len(l) + 1, At(last))

\* A boundary leaves nothing of the turn, an event that is no text changes nothing.
LEMMA HoldsOther ==
    ASSUME NEW l \in Seq(Event), NEW e \in Event, ~(e.kind = "text" /\ e.message # None),
           NEW parts, NEW last, Holds(l, parts, last)
    PROVE  IF e.kind \in {"started", "finish"} THEN Holds(Append(l, e), {}, {})
           ELSE Holds(Append(l, e), parts, last)
<1>1. PICK m \in Seq(Event), n \in Nat : m = Append(l, e) /\ n = Len(l)
  <2>1. Append(l, e) \in Seq(Event) /\ Len(l) \in Nat
    OBVIOUS
  <2> QED
    BY <2>1
<1>2. Len(m) + 1 = n + 2 /\ \A b \in 1..n : m[b] = l[b]
  BY <1>1
<1>3. CASE e.kind \in {"started", "finish"}
  <2>1. TextsOf(m, n + 2) = {}
    BY <1>1, <1>3, TextsAppend
  <2>2. Current(m, n + 2) = {} /\ Spoken(m, n + 2) = {}
    BY <2>1 DEF Current, Spoken
  <2> QED
    BY <1>1, <1>2, <1>3, <2>2 DEF Holds, Says, At
<1>4. CASE e.kind \notin {"started", "finish"}
  <2>1. TextsOf(m, n + 2) = TextsOf(l, n + 1)
    BY <1>1, <1>4, TextsAppend
  <2>2. \A k \in TextsOf(l, n + 1) : k \in 1..n /\ m[k] = l[k]
    BY <1>2 DEF TextsOf, TurnOf
  <2>3. Current(m, n + 2) = Current(l, n + 1)
    BY <2>1, <2>2 DEF Current
  <2>4. \A k \in TextsOf(l, n + 1) : /\ Version(m, n + 2, k) = Version(l, n + 1, k)
                                    /\ Version(l, n + 1, k) \subseteq TextsOf(l, n + 1)
    BY <2>1, <2>2 DEF Version
  <2>5. Spoken(m, n + 2) = Spoken(l, n + 1)
    BY <2>1, <2>2, <2>4 DEF Spoken
  <2>6. Says(m, n + 2, At(last))
    <3>1. Says(l, n + 1, At(last))
      BY <1>1 DEF Holds
    <3> QED
      BY <2>4, <2>5, <3>1 DEF Says, Spoken
  <2>7. \A i \in Current(l, n + 1) : PartOf(m, i) = PartOf(l, i)
    BY <2>2 DEF PartOf, Current
  <2>8. parts = {PartOf(m, i) : i \in Current(m, n + 2)}
    BY <1>1, <2>3, <2>7 DEF Holds
  <2> QED
    BY <1>1, <1>2, <1>4, <2>6, <2>8 DEF Holds
<1> QED
  BY <1>3, <1>4

\* recordAssistantText: the text replaces the part with its ordinal, and its message is the
\* last one unless it is blank.
LEMMA HoldsText ==
    ASSUME NEW l \in Seq(Event), NEW e \in Event, e.kind = "text", e.message # None,
           NEW parts, NEW last, Holds(l, parts, last),
           NEW part, part = [message |-> e.message, ordinal |-> e.ordinal, blank |-> e.blank,
                             at |-> Len(l) + 1],
           NEW next, next = {p \in parts : ~(p.message = e.message /\ p.ordinal = e.ordinal)}
                               \cup {part},
           NEW joined, joined = {p \in next : p.message = e.message},
           NEW said, said = IF \E p \in joined : ~p.blank THEN joined ELSE last
    PROVE  Holds(Append(l, e), next, said)
<1>1. PICK m \in Seq(Event), n \in Nat : m = Append(l, e) /\ n = Len(l)
  <2>1. Append(l, e) \in Seq(Event) /\ Len(l) \in Nat
    OBVIOUS
  <2> QED
    BY <2>1
<1>2. /\ Len(m) + 1 = n + 2 /\ m[n + 1] = e /\ \A b \in 1..n : m[b] = l[b]
      /\ n + 1 \notin 1..n /\ \A i \in 1..n : i < n + 1 /\ ~(i > n + 1) /\ i <= n + 1
  BY <1>1
<1>3. TextsOf(m, n + 2) = TextsOf(l, n + 1) \cup {n + 1}
  BY <1>1, TextsAppend
<1>4. TextsOf(l, n + 1) \subseteq 1..n /\ \A k \in TextsOf(l, n + 1) : m[k] = l[k] /\ k # n + 1
  BY <1>2 DEF TextsOf, TurnOf
<1>5. \A i \in TextsOf(l, n + 1) : n + 1 > i /\ ~(i > n + 1) /\ i <= n + 1
  BY <1>2, <1>4
<1>6. ~(n + 1 > n + 1) /\ n + 1 <= n + 1
  OBVIOUS
<1>7. Current(m, n + 2) =
         {i \in Current(l, n + 1) : ~(l[i].message = e.message /\ l[i].ordinal = e.ordinal)}
            \cup {n + 1}
  <2>1. ASSUME NEW i \in TextsOf(l, n + 1)
        PROVE  i \in Current(m, n + 2) <=>
                  /\ i \in Current(l, n + 1)
                  /\ ~(l[i].message = e.message /\ l[i].ordinal = e.ordinal)
    <3>1. i \in TextsOf(m, n + 2) /\ m[i] = l[i] /\ n + 1 > i
      BY <1>3, <1>4, <1>5
    <3>2. i \in Current(m, n + 2) <=>
             /\ \A x \in TextsOf(l, n + 1) :
                   x > i => ~(l[x].message = l[i].message /\ l[x].ordinal = l[i].ordinal)
             /\ ~(e.message = l[i].message /\ e.ordinal = l[i].ordinal)
      BY <1>2, <1>3, <1>4, <3>1 DEF Current
    <3> QED
      BY <3>2 DEF Current
  <2>2. n + 1 \in Current(m, n + 2)
    BY <1>3, <1>5, <1>6 DEF Current
  <2> QED
    BY <1>3, <2>1, <2>2 DEF Current
<1>8. \A i \in Current(l, n + 1) : PartOf(m, i) = PartOf(l, i)
  BY <1>4 DEF PartOf, Current
<1>9. part = PartOf(m, n + 1)
  BY <1>1, <1>2 DEF PartOf
<1>10. \A i : /\ PartOf(l, i).message = l[i].message /\ PartOf(l, i).ordinal = l[i].ordinal
              /\ PartOf(l, i).at = i /\ PartOf(l, i).blank = l[i].blank
  BY DEF PartOf
<1>11. parts = {PartOf(l, i) : i \in Current(l, n + 1)}
  BY <1>1 DEF Holds
<1>12. next = {PartOf(m, i) : i \in Current(m, n + 2)}
  <2>1. ASSUME NEW q
        PROVE  q \in next <=> \E i \in Current(m, n + 2) : q = PartOf(m, i)
    <3>1. q \in next <=>
             \/ \E i \in Current(l, n + 1) :
                   /\ q = PartOf(l, i)
                   /\ ~(l[i].message = e.message /\ l[i].ordinal = e.ordinal)
             \/ q = part
      BY <1>10, <1>11
    <3> QED
      BY <1>7, <1>8, <1>9, <3>1
  <2> QED
    BY <2>1
<1>13. \A i : /\ PartOf(m, i).message = m[i].message /\ PartOf(m, i).at = i
              /\ PartOf(m, i).blank = m[i].blank
  BY DEF PartOf
<1>14. Version(m, n + 2, n + 1) = {i \in Current(m, n + 2) : m[i].message = e.message}
  <2>1. \A i \in TextsOf(m, n + 2) : i <= n + 1
    BY <1>3, <1>5, <1>6
  <2> QED
    BY <1>2, <2>1 DEF Version, Current
<1>15. joined = {PartOf(m, i) : i \in Version(m, n + 2, n + 1)}
  <2>1. ASSUME NEW q
        PROVE  q \in joined <=> \E i \in Version(m, n + 2, n + 1) : q = PartOf(m, i)
    BY <1>12, <1>13, <1>14
  <2> QED
    BY <2>1
<1>16. /\ At(joined) = Version(m, n + 2, n + 1)
       /\ (\E p \in joined : ~p.blank) <=> \E i \in Version(m, n + 2, n + 1) : ~m[i].blank
  <2>1. At(joined) = Version(m, n + 2, n + 1)
    BY <1>13, <1>15 DEF At
  <2>2. ASSUME NEW p \in joined, ~p.blank
        PROVE  \E i \in Version(m, n + 2, n + 1) : ~m[i].blank
    <3>1. PICK i \in Version(m, n + 2, n + 1) : p = PartOf(m, i)
      BY <1>15
    <3> QED
      BY <1>13, <2>2, <3>1
  <2>3. ASSUME NEW i \in Version(m, n + 2, n + 1), ~m[i].blank
        PROVE  \E p \in joined : ~p.blank
    <3>1. PartOf(m, i) \in joined
      BY <1>15
    <3> QED
      BY <1>13, <2>3, <3>1
  <2> QED
    BY <2>1, <2>2, <2>3
<1>17. \A k \in TextsOf(l, n + 1) : /\ Version(m, n + 2, k) = Version(l, n + 1, k)
                                   /\ Version(l, n + 1, k) \subseteq TextsOf(l, n + 1)
  <2> SUFFICES ASSUME NEW k \in TextsOf(l, n + 1)
               PROVE  /\ Version(m, n + 2, k) = Version(l, n + 1, k)
                      /\ Version(l, n + 1, k) \subseteq TextsOf(l, n + 1)
    OBVIOUS
  <2>1. ~(n + 1 <= k)
    BY <1>4
  <2>2. {i \in TextsOf(m, n + 2) : i <= k /\ m[i].message = m[k].message} =
        {i \in TextsOf(l, n + 1) : i <= k /\ l[i].message = l[k].message}
    BY <1>3, <1>4, <2>1
  <2> QED
    BY <1>4, <2>2 DEF Version
<1>18. Spoken(m, n + 2) =
          Spoken(l, n + 1)
             \cup (IF \E i \in Version(m, n + 2, n + 1) : ~m[i].blank THEN {n + 1} ELSE {})
  <2>1. ASSUME NEW k \in TextsOf(l, n + 1)
        PROVE  k \in Spoken(m, n + 2) <=> k \in Spoken(l, n + 1)
    BY <1>3, <1>4, <1>17 DEF Spoken
  <2> QED
    BY <1>3, <1>4, <2>1 DEF Spoken
<1>19. \A k \in Spoken(l, n + 1) : k \in TextsOf(l, n + 1) /\ k <= n + 1
  BY <1>5 DEF Spoken
<1>20. Says(l, n + 1, At(last))
  BY <1>1 DEF Holds
<1>21. CASE \E p \in joined : ~p.blank
  <2>1. Says(m, n + 2, At(joined))
    BY <1>6, <1>16, <1>18, <1>19, <1>21 DEF Says
  <2> QED
    BY <1>1, <1>2, <1>12, <1>21, <2>1 DEF Holds
<1>22. CASE ~\E p \in joined : ~p.blank
  <2>1. Says(m, n + 2, At(last))
    BY <1>16, <1>17, <1>18, <1>19, <1>20, <1>22 DEF Says
  <2> QED
    BY <1>1, <1>2, <1>12, <1>22, <2>1 DEF Holds
<1> QED
  BY <1>21, <1>22

\* With no turn nothing is remembered; a Stop has the last message of its turn.
Spoke ==
    /\ active.id = 0 => active = CreateTurn(0)
    /\ Holds(log, active.parts, active.last)
    /\ \A i \in 1..Len(posts) :
          posts[i].hook = "Stop" => /\ posts[i].at \in 1..Len(log)
                                    /\ Says(log, posts[i].at, At(posts[i].last))

StopsWith(p) == p.hook = "Stop" => p.at = Now /\ p.last = active.last

LEMMA SpokeEffect ==
    ASSUME TurnType, Spoke, Next
    PROVE  \E e \in Event :
              /\ log' = Append(log, e)
              /\ active'.id = 0 => active' = CreateTurn(0)
              /\ Holds(log', active'.parts, active'.last)
              /\ \/ posts' = posts
                 \/ \E p \in Payload : Added(p) /\ StopsWith(p)
<1> USE DEF TurnType, StopsWith
<1>1. PICK e \in Inputs : \/ Prompt(e) \/ Tool(e) \/ Selected(e) \/ Started(e)
                          \/ TextEnded(e) \/ StepEnded(e) \/ FinishTurn(e)
  BY DEF Next
<1>2. /\ e \in Event /\ meta \in Metadata /\ log \in Seq(Event)
      /\ Now = Len(log) + 1 /\ Now \in Nat /\ Now # 0
      /\ active \in Turn /\ active.id \in Nat /\ pending \in Nat
  BY InputsAssumption DEF TypeOK, Event, Now, Turn
<1>3. log' = Append(log, e)
  BY <1>1 DEF Prompt, Tool, Selected, Started, TextEnded, StepEnded, FinishTurn, Read
<1>4. \A id : /\ CreateTurn(id).parts = {} /\ CreateTurn(id).last = {}
              /\ CreateTurn(id).id = id
  BY DEF CreateTurn
<1>5. ASSUME NEW fallback \in Nat
      PROVE  /\ Ensured(fallback) \in Turn
             /\ Ensured(fallback).parts = active.parts /\ Ensured(fallback).last = active.last
             /\ Ensured(fallback).id =
                   IF active.id # 0 THEN active.id ELSE IF pending # 0 THEN pending ELSE fallback
  <2>1. active.id = 0 => active.parts = {} /\ active.last = {}
    BY <1>4 DEF Spoke
  <2>2. Ensured(fallback) \in Turn
    BY EnsuredType
  <2> QED
    BY <1>4, <2>1, <2>2 DEF Ensured
<1>6. IF e.kind = "text" /\ e.message # None THEN TRUE
      ELSE IF e.kind \in {"started", "finish"} THEN Holds(log', {}, {})
      ELSE Holds(log', active.parts, active.last)
  BY <1>2, <1>3, HoldsOther DEF Spoke
<1>7. CASE Prompt(e) \/ Tool(e) \/ Selected(e)
  <2>1. active' = active /\ e.kind \in {"prompt", "before", "after", "metadata"}
    BY <1>7 DEF Prompt, Tool, Selected
  <2>2. posts' = posts \/ \E p \in Payload : Added(p) /\ p.hook # "Stop"
    <3>1. CASE Prompt(e) \/ Selected(e)
      BY <1>2, <3>1, BaseType DEF Prompt, Selected, Added
    <3>2. CASE Tool(e)
      <4>1. e.meta \in Metadata
        BY <1>2 DEF Event
      <4>2. meta' \in Metadata
        BY <1>2, <3>2, <4>1 DEF Tool, WithToolAgent, Metadata, Fields
      <4>6. PICK own \in Metadata : own = WithOwnAgent(e, meta')
        BY <4>1, <4>2 DEF WithOwnAgent, Metadata, Fields
      <4>3. PICK hook \in {"PreToolUse", "PostToolUse"}, id \in Nat :
               /\ hook = (IF e.kind = "before" THEN "PreToolUse" ELSE "PostToolUse")
               /\ id = (IF active.id # 0 THEN active.id ELSE pending)
        BY <1>2
      <4>4. posts' = posts \/ Added(Base(hook, id, own))
        BY <3>2, <4>3, <4>6 DEF Tool, Added
      <4>5. Base(hook, id, own) \in Payload /\ Base(hook, id, own).hook # "Stop"
        BY <1>2, <4>3, <4>6, BaseType
      <4> QED
        BY <4>4, <4>5
    <3> QED
      BY <1>7, <3>1, <3>2
  <2> QED
    BY <1>2, <1>3, <1>6, <2>1, <2>2 DEF Spoke
<1>8. CASE Started(e)
  <2>1. active' = CreateTurn(StartedID) /\ e.kind = "started" /\ posts' = posts
    BY <1>8 DEF Started
  <2>2. StartedID # 0
    BY <1>2 DEF StartedID
  <2> QED
    BY <1>2, <1>3, <1>4, <1>6, <2>1, <2>2
<1>9. CASE TextEnded(e) /\ e.message # None
  <2>1. PICK turn \in Turn : /\ turn = Ensured(Now) /\ turn.id # 0
                             /\ turn.parts = active.parts /\ turn.last = active.last
    BY <1>2, <1>5
  <2>2. active' = RecordAssistantText(turn, e) /\ e.kind = "text" /\ posts' = posts
    BY <1>9, <2>1 DEF TextEnded
  <2>3. active'.id # 0
    BY <1>2, <1>9, <2>1, <2>2, TextType
  <2>4. PICK part, next, joined :
           /\ part = [message |-> e.message, ordinal |-> e.ordinal, blank |-> e.blank, at |-> Now]
           /\ next = {p \in turn.parts : ~(p.message = e.message /\ p.ordinal = e.ordinal)}
                        \cup {part}
           /\ joined = {p \in next : p.message = e.message}
    OBVIOUS
  <2>5. active' = [turn EXCEPT !.parts = next,
                               !.last = IF \E p \in joined : ~p.blank THEN joined ELSE @]
    BY <2>2, <2>4 DEF RecordAssistantText
  <2>6. /\ active'.parts = next
        /\ active'.last = IF \E p \in joined : ~p.blank THEN joined ELSE turn.last
    BY <2>1, <2>5 DEF Turn
  <2>7. Holds(log', next, IF \E p \in joined : ~p.blank THEN joined ELSE turn.last)
    <3>1. part = [message |-> e.message, ordinal |-> e.ordinal, blank |-> e.blank,
                  at |-> Len(log) + 1]
      BY <1>2, <2>4
    <3>2. Holds(log, turn.parts, turn.last)
      BY <2>1 DEF Spoke
    <3>3. next = {p \in turn.parts : ~(p.message = e.message /\ p.ordinal = e.ordinal)}
                    \cup {part}
      BY <2>4
    <3>4. joined = {p \in next : p.message = e.message}
      BY <2>4
    <3>5. e.kind = "text" /\ e.message # None /\ e \in Event /\ log \in Seq(Event)
      BY <1>2, <1>9, <2>2
    <3>6. PICK said : said = IF \E p \in joined : ~p.blank THEN joined ELSE turn.last
      OBVIOUS
    <3>7. Holds(Append(log, e), next, said)
      BY <3>1, <3>2, <3>3, <3>4, <3>5, <3>6, HoldsText
    <3> QED
      BY <1>3, <3>6, <3>7
  <2> QED
    BY <1>2, <1>3, <2>2, <2>3, <2>6, <2>7
<1>10. CASE (TextEnded(e) /\ e.message = None) \/ StepEnded(e)
  <2>1. PICK turn \in Turn : /\ turn = Ensured(Now) /\ turn.id # 0
                             /\ turn.parts = active.parts /\ turn.last = active.last
    BY <1>2, <1>5
  <2>2. /\ active' = turn \/ active' = AddUsage(turn, e)
        /\ e.kind = "step" \/ (e.kind = "text" /\ e.message = None)
        /\ posts' = posts
    BY <1>10, <2>1 DEF TextEnded, StepEnded
  <2>3. active'.id # 0 /\ active'.parts = active.parts /\ active'.last = active.last
    BY <2>1, <2>2 DEF AddUsage, Turn
  <2> QED
    BY <1>2, <1>3, <1>6, <2>2, <2>3
<1>11. CASE FinishTurn(e)
  <2>1. e.kind = "finish"
    BY <1>11 DEF FinishTurn
  <2>2. PICK turn \in Turn : /\ turn = Ensured(0) /\ turn.last = active.last
                             /\ active.id # 0 => turn.id # 0
    BY <1>2, <1>5
  <2>3. CASE turn.id = 0
    <3>1. active' = active /\ posts' = posts /\ active = CreateTurn(0)
      BY <1>11, <2>2, <2>3 DEF FinishTurn, Spoke
    <3>2. active'.parts = {} /\ active'.last = {}
      BY <1>4, <3>1
    <3> QED
      BY <1>2, <1>3, <1>6, <2>1, <3>1, <3>2
  <2>4. CASE turn.id # 0
    <3>1. PICK b \in Payload : /\ b = Base("Stop", turn.id, meta)
                               /\ b.hook = "Stop" /\ b.at = Now
      BY <1>2, BaseType DEF Turn
    <3>2. PICK p : p = [b EXCEPT !.steps = turn.steps, !.last = turn.last]
      OBVIOUS
    <3>3. p \in Payload /\ p.at = Now /\ p.last = active.last
      BY <2>2, <3>1, <3>2 DEF Payload, Turn
    <3>4. Added(p) /\ active' = CreateTurn(0)
      BY <1>11, <2>2, <2>4, <3>1, <3>2 DEF FinishTurn, Added, AfterStop
    <3> QED
      BY <1>2, <1>3, <1>4, <1>6, <2>1, <3>3, <3>4
  <2> QED
    BY <2>3, <2>4
<1> QED
  BY <1>1, <1>7, <1>8, <1>9, <1>10, <1>11

LEMMA SpokeNext ==
    ASSUME TurnType, Spoke, [Next]_vars
    PROVE  Spoke'
<1>1. CASE UNCHANGED vars
  BY <1>1 DEF vars, Spoke
<1>2. CASE Next
  <2>1. TypeOK /\ log \in Seq(Event)
    BY DEF TurnType, TypeOK
  <2>2. PICK e \in Event :
           /\ log' = Append(log, e)
           /\ active'.id = 0 => active' = CreateTurn(0)
           /\ Holds(log', active'.parts, active'.last)
           /\ \/ posts' = posts
              \/ \E p \in Payload : Added(p) /\ StopsWith(p)
    BY <1>2, <2>1, SpokeEffect
  <2>3. PICK n \in Nat, m \in Nat : n = Len(log) /\ m = Len(posts)
    BY DEF TurnType, TypeOK
  <2>4. Len(log') = n + 1 /\ Now = n + 1
    BY <2>1, <2>2, <2>3, LogEffect
  <2>5. \A j \in 1..(n + 1) : \A S : Says(log, j, S) => Says(log', j, S)
    BY <2>1, <2>2, <2>3, TextsPast
  <2>6. Says(log', n + 1, At(active.last))
    BY <2>3, <2>5 DEF Spoke, Holds
  <2>7. \A i \in 1..m : posts[i].hook = "Stop" =>
           posts[i].at \in 1..n /\ Says(log', posts[i].at, At(posts[i].last))
    BY <2>3, <2>5 DEF Spoke
  <2>8. \A i \in 1..Len(posts') : posts'[i].hook = "Stop" =>
           /\ posts'[i].at \in 1..(n + 1)
           /\ Says(log', posts'[i].at, At(posts'[i].last))
    <3>1. CASE posts' = posts
      BY <2>3, <2>7, <3>1
    <3>2. CASE posts' # posts
      <4>1. PICK p \in Payload : Added(p) /\ StopsWith(p)
        BY <2>2, <3>2
      <4>2. /\ Len(posts') = m + 1 /\ posts'[m + 1] = p
            /\ \A i \in 1..m : posts'[i] = posts[i]
        BY <2>1, <2>3, <4>1, AddedEffect
      <4> QED
        BY <2>4, <2>6, <2>7, <4>1, <4>2 DEF StopsWith
    <3> QED
      BY <3>1, <3>2
  <2> QED
    BY <2>2, <2>4, <2>8 DEF Spoke
<1> QED
  BY <1>1, <1>2

-----------------------------------------------------------------------------
TurnInv ==
    /\ TurnType
    /\ Identities
    /\ Answers
    /\ Counted
    /\ Known
    /\ Spoke

LEMMA TurnInit ==
    ASSUME Init
    PROVE  TurnInv
<1>1. active.id = 0 /\ active.steps = {} /\ pending = 0
      /\ Len(log) = 0 /\ Len(posts) = 0
  BY DEF Init, CreateTurn
<1>2. TypeOK
  <2>1. \A S : <<>> \in Seq(S)
    OBVIOUS
  <2> QED
    BY <2>1 DEF Init, TypeOK, CreateTurn, Turn, Metadata
<1>3. Identities
  BY <1>1 DEF Identities, OneStopPerTurn, Stops
<1>4. Answers
  BY <1>1 DEF Answers, StopsAnswerPrompts, Stops
<1>5. Counted
  <2>1. StepsOf(log, 1) = {}
    BY DEF StepsOf
  <2> QED
    BY <1>1, <2>1 DEF Counted
<1>6. Known
  <2>1. \A f \in Fields : Chosen(log, 0, f) = {} /\ Named(log, 0, f) = {} /\ meta[f] = None
    BY DEF Chosen, Named, Init
  <2> QED
    BY <1>1, <2>1 DEF Known, Shows
<1>7. Spoke
  <2>1. TextsOf(log, 1) = {}
    BY DEF TextsOf, TurnOf
  <2>2. active = CreateTurn(0) /\ active.parts = {} /\ active.last = {}
    BY DEF Init, CreateTurn
  <2> QED
    BY <1>1, <2>1, <2>2 DEF Spoke, Holds, Says, Spoken, Current, At
<1> QED
  BY <1>1, <1>2, <1>3, <1>4, <1>5, <1>6, <1>7 DEF TurnInv, TurnType

LEMMA TurnHolds == Spec => []TurnInv
<1>1. Init => TurnInv
  BY TurnInit
<1>2. TurnInv /\ [Next]_vars => TurnInv'
  <2> SUFFICES ASSUME TurnInv, [Next]_vars
               PROVE  TurnInv'
    OBVIOUS
  <2>1. TurnType /\ Identities /\ Answers /\ Counted /\ Known /\ Spoke
    BY DEF TurnInv
  <2>2. TurnType' /\ Identities' /\ Answers' /\ Counted' /\ Known' /\ Spoke'
    BY <2>1, StepEffect, IdentitiesNext, AnswersNext, CountedNext, KnownNext, SpokeNext
  <2> QED
    BY <2>2 DEF TurnInv
<1> QED
  BY <1>1, <1>2, PTL DEF Spec

(* The accumulator's state and its payloads keep their types.              *)
THEOREM TurnTypeCorrect == Spec => []TypeOK
<1>1. TurnInv => TypeOK
  BY DEF TurnInv, TurnType
<1> QED
  BY <1>1, TurnHolds, PTL

(* finishTurn posts at most one Stop for a turn: a turn takes its id from  *)
(* the waiting prompt, which it uses up, or from the event that opens it.  *)
THEOREM StoppedOnce == Spec => []OneStopPerTurn
<1>1. TurnInv => OneStopPerTurn
  BY DEF TurnInv, Identities
<1> QED
  BY <1>1, TurnHolds, PTL

(* A Stop reports the usage of the steps since the last start or end, and  *)
(* when there were any the end has its Stop.                               *)
THEOREM StepsReported == Spec => []StopsReportSteps
<1>1. TurnInv => StopsReportSteps
  <2> SUFFICES ASSUME TurnInv
               PROVE  StopsReportSteps
    OBVIOUS
  <2> QED
    BY StepsBeforeIsStepsOf DEF TurnInv, Counted, StopsReportSteps, Stops
<1> QED
  BY <1>1, TurnHolds, PTL

(* The Stop of a prompt's turn follows the prompt, and no prompt joins a   *)
(* turn that was stopped.                                                  *)
THEOREM PromptsAnswered == Spec => []StopsAnswerPrompts
<1>1. TurnInv => StopsAnswerPrompts
  BY DEF TurnInv, Answers
<1> QED
  BY <1>1, TurnHolds, PTL

(* A prompt that waits for a turn gets one, unless a later prompt waits in *)
(* its place.                                                              *)
THEOREM PendingKept == Spec => PendingOpensTurn
<1>1. TurnInv /\ [Next]_vars
         => [pending # 0 /\ pending' = 0 =>
                \/ active'.id = pending
                \/ /\ Len(posts') = Len(posts) + 1
                   /\ posts'[Len(posts')].hook = "Stop"
                   /\ posts'[Len(posts')].turn = pending]_vars
  <2> SUFFICES ASSUME TurnInv, [Next]_vars, pending # 0, pending' = 0
               PROVE  \/ active'.id = pending
                      \/ /\ Len(posts') = Len(posts) + 1
                         /\ posts'[Len(posts')].hook = "Stop"
                         /\ posts'[Len(posts')].turn = pending
    OBVIOUS
  <2>1. TurnType /\ Len(log) \in Nat
    BY DEF TurnInv, TurnType, TypeOK
  <2>2. CASE TurnStep
    BY <2>2 DEF TurnStep
  <2>3. CASE StopStep
    <3>1. PICK p \in Payload : Added(p) /\ p.hook = "Stop" /\ p.turn = pending
      BY <2>3 DEF StopStep
    <3> QED
      BY <2>1, <3>1, AddedEffect DEF TurnType
  <2>4. CASE PromptStep
    BY <2>1, <2>4 DEF PromptStep, Now
  <2> QED
    BY <2>1, <2>2, <2>3, <2>4, StepEffect DEF vars, OtherStep, IdleStep
<1> QED
  BY <1>1, TurnHolds, PTL DEF Spec, PendingOpensTurn

(* Whatever order selections and tool calls come in, a payload shows of    *)
(* each detail the value last selected, or else the agent of the first     *)
(* tool call to name one; a tool call that names an agent has that agent   *)
(* on its own payload and, once one is selected, on no other: Shows is     *)
(* kept by every event, and what basePayload reads is Pays.                *)
THEOREM MetadataLatest == Spec => []MetadataIsLatest
<1>1. ASSUME Known
      PROVE  MetadataIsLatest
  <2> SUFFICES ASSUME NEW i \in 1..Len(posts), NEW f \in Fields
               PROVE  LET told == {k \in 1..posts[i].at : log[k].meta[f] # None}
                          chosen == {k \in told : log[k].kind = "metadata"}
                          first == {k \in told : log[k].kind \in {"before", "after"} /\ f = "agent"}
                      IN  posts[i].meta[f] =
                            IF posts[i].at \in first THEN log[posts[i].at].meta[f]
                            ELSE IF chosen # {}
                            THEN log[CHOOSE k \in chosen : \A l \in chosen : l <= k].meta[f]
                            ELSE IF first # {}
                            THEN log[CHOOSE k \in first : \A l \in first : k <= l].meta[f]
                            ELSE None
    BY DEF MetadataIsLatest
  <2> DEFINE told == {k \in 1..posts[i].at : log[k].meta[f] # None}
             chosen == {k \in told : log[k].kind = "metadata"}
             first == {k \in told : log[k].kind \in {"before", "after"} /\ f = "agent"}
  <2>1. chosen = Chosen(log, posts[i].at, f) /\ first = Named(log, posts[i].at, f)
    BY DEF Chosen, Named
  <2>2. Pays(log, posts[i].at, f, posts[i].meta[f])
    BY <1>1 DEF Known
  <2>3. chosen \subseteq Nat /\ first \subseteq Nat
    OBVIOUS
  <2>4. \A x, y \in Nat : x <= y /\ y <= x => x = y
    OBVIOUS
  <2>5. CASE posts[i].at \in first
    <3>1. posts[i].meta[f] = log[posts[i].at].meta[f]
      BY <2>1, <2>2, <2>5 DEF Pays
    <3> QED
      BY <2>5, <3>1
  <2>6. posts[i].at \notin first => Shows(log, posts[i].at, f, posts[i].meta[f])
    BY <2>1, <2>2 DEF Pays
  <2>7. CASE posts[i].at \notin first /\ chosen # {}
    <3>1. PICK k \in chosen : (\A l \in chosen : l <= k) /\ posts[i].meta[f] = log[k].meta[f]
      BY <2>1, <2>6, <2>7 DEF Shows
    <3> HIDE DEF chosen
    <3>2. k = CHOOSE x \in chosen : \A l \in chosen : l <= x
      BY <2>3, <2>4, <3>1
    <3> QED
      BY <2>7, <3>1, <3>2 DEF chosen
  <2>8. CASE posts[i].at \notin first /\ chosen = {} /\ first # {}
    <3>1. PICK k \in first : (\A l \in first : k <= l) /\ posts[i].meta[f] = log[k].meta[f]
      BY <2>1, <2>6, <2>8 DEF Shows
    <3> HIDE DEF first
    <3>2. k = CHOOSE x \in first : \A l \in first : x <= l
      BY <2>3, <2>4, <3>1
    <3> QED
      BY <2>8, <3>1, <3>2 DEF first
  <2>9. CASE posts[i].at \notin first /\ chosen = {} /\ first = {}
    <3>1. posts[i].meta[f] = None
      BY <2>1, <2>6, <2>9 DEF Shows
    <3> QED
      BY <2>9, <3>1
  <2> QED
    BY <2>5, <2>7, <2>8, <2>9
<1>2. TurnInv => Known
  BY DEF TurnInv
<1> QED
  BY <1>1, <1>2, TurnHolds, PTL

(* A Stop's last_assistant_message is the message last added to that was   *)
(* not blank then, with the latest text of each of its parts, in whatever  *)
(* order recordAssistantText was given them.                               *)
THEOREM LastMessageLatest == Spec => []LastMessageIsLatest
<1>1. ASSUME Spoke
      PROVE  LastMessageIsLatest
  <2> SUFFICES ASSUME NEW i \in Stops
               PROVE  LET j == posts[i].at IN
                      {p.at : p \in posts[i].last} =
                         UNION {TextsUpTo(j, k) :
                                   k \in {k \in Speaking(j) : \A l \in Speaking(j) : l <= k}}
    BY DEF LastMessageIsLatest
  <2>1. PICK j, S : j = posts[i].at /\ S = {p.at : p \in posts[i].last}
    OBVIOUS
  <2>2. Says(log, j, S)
    BY <1>1, <2>1 DEF Spoke, Stops, At
  <2>3. TurnBefore(j) = TurnOf(log, j)
    BY DEF TurnBefore, TurnOf, Boundary
  <2>4. \A k \in TextsOf(log, j) : TextsUpTo(j, k) = Version(log, j, k)
    BY <2>3 DEF TextsUpTo, Version, TextsOf
  <2>5. Speaking(j) = Spoken(log, j)
    BY <2>3, <2>4 DEF Speaking, Spoken, TextsOf
  <2>6. Spoken(log, j) \subseteq TextsOf(log, j) /\ Spoken(log, j) \subseteq Nat
    BY DEF Spoken, TextsOf, TurnOf
  <2>7. CASE Spoken(log, j) = {}
    BY <2>1, <2>2, <2>5, <2>7 DEF Says
  <2>8. CASE Spoken(log, j) # {}
    <3>1. PICK k \in Spoken(log, j) : /\ \A x \in Spoken(log, j) : x <= k
                                      /\ S = Version(log, j, k)
      BY <2>2, <2>8 DEF Says
    <3>2. {x \in Spoken(log, j) : \A l \in Spoken(log, j) : l <= x} = {k}
      BY <2>6, <3>1
    <3> QED
      BY <2>1, <2>4, <2>5, <2>6, <3>1, <3>2
  <2> QED
    BY <2>7, <2>8
<1>2. TurnInv => Spoke
  BY DEF TurnInv
<1> QED
  BY <1>1, <1>2, TurnHolds, PTL
=============================================================================
