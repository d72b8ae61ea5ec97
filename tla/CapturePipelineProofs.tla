------------------------ MODULE CapturePipelineProofs ------------------------
(***************************************************************************)
(* The safety of the capture pipeline for every number of sessions and     *)
(* tasks and every size of the queue and of the sessions map: first what   *)
(* the control of run() and close() makes true, then how what is posted is *)
(* related to what was captured (the order of the payloads, the            *)
(* SessionStart of every session, and that only sessions of the project    *)
(* are posted), and that the pipeline implements SerialDelivery.           *)
(***************************************************************************)
EXTENDS CapturePipelineRefinement, TLAPS

-----------------------------------------------------------------------------
(* Control: where run() is suspended determines whether a task is in       *)
(* progress and whether anything may be waiting; close()'s flags follow    *)
(* where close() is suspended.                                             *)

Resting == {"idle", "loop", "returned"}

Control ==
    /\ current = NoTask <=> pc \in Resting
    /\ NoTaskStranded
    /\ QueueBound
    /\ accepting <=> closing = "open"
    /\ closed <=> closing \in {"grace", "done"}
    /\ closed => queue = <<>>

ControlInv == TypeOK /\ Control

\* What shifting the head of q does: the task is dropped, or waits for a lookup, or has
\* passed the scope, which accepts a session only if it was accepted or the event is inside.
LEMMA ShiftEffect ==
    ASSUME TypeOK, NEW q \in Seq(Task), q # <<>>, Shift(q)
    PROVE  /\ Head(q) \in Task
           /\ queue' = Tail(q)
           /\ tracked' \subseteq Sessions
           /\ scope' \in [Sessions -> {"unresolved", "accepted", "rejected"}]
           /\ \/ pc' = "loop" /\ current' = NoTask
              \/ pc' = "lookup" /\ current' = Head(q)
              \/ /\ pc' = "scoped" /\ current' = Head(q)
                 /\ scope'[Head(q).session] = "accepted" /\ Head(q).dir # "outside"
           /\ \A s \in Sessions :
                 scope'[s] = "accepted" =>
                    scope[s] = "accepted" \/ (s = Head(q).session /\ Head(q).dir = "inside")
<1> DEFINE t == Head(q)
<1>1. t \in Task
  OBVIOUS
<1>2. t.session \in Sessions /\ t.dir \in Dirs
  BY <1>1 DEF Task
<1> HIDE DEF t
<1>3. queue' = Tail(q)
  BY DEF Shift
<1>4. CASE Refuse(t)
  BY <1>1, <1>3, <1>4 DEF Refuse, TypeOK, t
<1>5. CASE Admit(t)
  <2>1. PICK verdict : verdict = KnownScope(t)
    OBVIOUS
  <2>2. /\ verdict \in {"unresolved", "accepted", "rejected"}
        /\ verdict = "accepted" => scope[t.session] = "accepted" \/ t.dir = "inside"
    BY <1>2, <2>1 DEF KnownScope, TypeOK
  <2>3. tracked' = tracked \cup {t.session} /\ scope' = [scope EXCEPT ![t.session] = verdict]
    BY <1>5, <2>1 DEF Admit
  <2>4. scope'[t.session] = verdict /\ \A s \in Sessions : s # t.session => scope'[s] = scope[s]
    BY <1>2, <2>3 DEF TypeOK
  <2>5. \/ pc' = "loop" /\ current' = NoTask
        \/ pc' = "lookup" /\ current' = t
        \/ pc' = "scoped" /\ current' = t /\ verdict = "accepted" /\ t.dir # "outside"
    BY <1>5, <2>1 DEF Admit, Settle, Passes
  <2> QED
    BY <1>1, <1>2, <1>3, <2>2, <2>3, <2>4, <2>5 DEF TypeOK, t
<1> QED
  BY <1>4, <1>5 DEF Shift, t

LEMMA ControlInit ==
    ASSUME Init
    PROVE  ControlInv
<1>1. \A S : <<>> \in Seq(S)
  OBVIOUS
<1>2. TypeOK
  BY <1>1 DEF Init, TypeOK
<1>3. QueueBound
  BY BoundAssumption DEF Init, QueueBound, Busy, Processing
<1>4. Control
  BY <1>3 DEF Init, Control, Resting, NoTaskStranded, Processing
<1> QED
  BY <1>2, <1>4 DEF ControlInv

\* Shifting keeps the control invariant, whatever was waiting before.
LEMMA ShiftControl ==
    ASSUME ControlInv, NEW q \in Seq(Task), q # <<>>, Shift(q), Len(q) <= MaxQueue, ~closed,
           UNCHANGED <<started, accepting, closed, closing, aborted, home, posts>>,
           settled' \in BOOLEAN, captured' \in Seq(Task)
    PROVE  ControlInv'
<1>1. /\ Head(q) \in Task /\ queue' = Tail(q)
      /\ tracked' \subseteq Sessions
      /\ scope' \in [Sessions -> {"unresolved", "accepted", "rejected"}]
      /\ \/ pc' = "loop" /\ current' = NoTask
         \/ pc' \in {"lookup", "scoped"} /\ current' = Head(q)
  BY ShiftEffect DEF ControlInv
<1>2. queue' \in Seq(Task) /\ Len(queue') = Len(q) - 1 /\ Len(q) \in Nat
  BY <1>1
<1>3. TypeOK'
  BY <1>1, <1>2 DEF ControlInv, TypeOK
<1>4. Control'
  BY <1>1, <1>2, NoTaskAssumption, BoundAssumption DEF ControlInv, Control, Resting,
     NoTaskStranded, Processing, QueueBound, Busy
<1> QED
  BY <1>3, <1>4 DEF ControlInv

LEMMA DeliverType ==
    ASSUME TypeOK, current \in Task, NEW kind \in {"SessionStart", "event"}, Deliver(kind)
    PROVE  posts' \in Seq(Post) /\ aborted' \in BOOLEAN
<1> DEFINE post == [id |-> current.id, session |-> current.session, dir |-> current.dir,
                    kind |-> kind]
<1>1. post \in Post
  BY DEF Task, Post
<1>2. posts' = Append(posts, post) /\ posts \in Seq(Post)
  BY DEF Deliver, TypeOK
<1> HIDE DEF post
<1>3. posts' \in Seq(Post)
  BY <1>1, <1>2
<1>4. aborted' \in BOOLEAN
  BY DEF Deliver
<1> QED
  BY <1>3, <1>4

\* What apply() and the delivery of its payload may change.
LEMMA ApplyEffect ==
    ASSUME TypeOK, current \in Task, Apply
    PROVE  /\ \/ pc' = "loop" /\ current' = NoTask
              \/ pc' = "event" /\ current' = current
           /\ posts' \in Seq(Post) /\ aborted' \in BOOLEAN
<1>1. CASE Deliver("event") /\ pc' = "event" /\ current' = current
  BY <1>1, DeliverType
<1>2. CASE pc' = "loop" /\ current' = NoTask /\ UNCHANGED <<posts, aborted>>
  BY <1>2 DEF TypeOK
<1> QED
  BY <1>1, <1>2 DEF Apply

LEMMA ControlNext ==
    ASSUME ControlInv, [Next]_vars
    PROVE  ControlInv'
<1> USE DEF ControlInv
<1>1. Len(queue) \in Nat /\ Len(captured) \in Nat /\ Busy \in {0, 1}
  BY DEF TypeOK, Busy
<1>2. ASSUME NEW s \in Sessions, NEW d \in Dirs, NEW a \in BOOLEAN, Capture(s, d, a)
      PROVE  ControlInv'
  <2> DEFINE t == [id |-> Len(captured) + 1, session |-> s, dir |-> d, activity |-> a]
  <2>1. t \in Task
    BY <1>1 DEF Task
  <2>2. /\ captured' = Append(captured, t) /\ ~closed /\ ~Full
        /\ IF Processing
           THEN queue' = Append(queue, t) /\ UNCHANGED <<current, pc, tracked, scope>>
           ELSE Shift(Append(queue, t))
        /\ UNCHANGED <<started, accepting, closed, closing, settled, aborted, home, posts>>
    BY <1>2 DEF Capture, closeVars
  <2> HIDE DEF t
  <2>3. captured' \in Seq(Task)
    BY <2>1, <2>2 DEF TypeOK
  <2>4. Append(queue, t) \in Seq(Task) /\ Len(Append(queue, t)) = Len(queue) + 1
    BY <2>1 DEF TypeOK
  <2>5. CASE Processing
    <3>1. TypeOK'
      BY <2>2, <2>3, <2>4, <2>5 DEF TypeOK
    <3>2. Len(queue) + 1 + 1 <= MaxQueue
      BY <1>1, <2>2, <2>5, BoundAssumption DEF Full, Busy
    <3>3. QueueBound'
      BY <1>1, <2>2, <2>4, <2>5, <3>2 DEF QueueBound, Busy, Processing
    <3> QED
      BY <2>2, <2>5, <3>1, <3>3 DEF Control, NoTaskStranded, Processing
  <2>6. CASE ~Processing
    <3>1. queue = <<>> /\ Len(Append(queue, t)) = 1
      BY <2>4, <2>6 DEF Control, NoTaskStranded
    <3>2. Append(queue, t) # <<>> /\ Len(Append(queue, t)) <= MaxQueue
      BY <3>1, BoundAssumption
    <3>3. settled' \in BOOLEAN
      BY <2>2 DEF TypeOK
    <3> QED
      BY <2>2, <2>3, <2>4, <2>6, <3>2, <3>3, ShiftControl
  <2> QED
    BY <2>5, <2>6
<1>3. CASE LookupDone
  <2>1. PICK info \in {home[current.session], "none"} :
           /\ scope' = [scope EXCEPT ![current.session] = LookupScope(current, info)]
           /\ Settle(current, LookupScope(current, info))
    BY <1>3 DEF LookupDone
  <2>2. pc = "lookup" /\ current \in Task
    BY <1>3 DEF LookupDone, Control, Resting, TypeOK
  <2>3. scope' \in [Sessions -> {"unresolved", "accepted", "rejected"}]
    BY <2>1, <2>2 DEF TypeOK, Task, LookupScope
  <2>4. \/ pc' = "scoped" /\ current' = current
        \/ pc' = "loop" /\ current' = NoTask
    BY <2>1 DEF Settle
  <2>5. UNCHANGED <<queue, tracked, started, accepting, closed, closing, settled, aborted,
                    home, captured, posts>>
    BY <1>3 DEF LookupDone, closeVars
  <2>6. TypeOK'
    BY <2>2, <2>3, <2>4, <2>5 DEF TypeOK
  <2> QED
    BY <2>2, <2>4, <2>5, <2>6, NoTaskAssumption DEF Control, Resting, NoTaskStranded,
       Processing, QueueBound, Busy
<1>4. CASE Resume \/ StartDone
  <2>1. pc \in {"scoped", "start"} /\ current \in Task
    BY <1>4 DEF Resume, StartDone, Control, Resting, TypeOK
  <2>2. UNCHANGED <<queue, tracked, scope, accepting, closed, closing, settled, home, captured>>
    BY <1>4 DEF Resume, StartDone, sessionVars, closeVars
  <2>3. /\ \/ pc' = "loop" /\ current' = NoTask
           \/ pc' \in {"start", "event"} /\ current' = current
        /\ posts' \in Seq(Post) /\ aborted' \in BOOLEAN
        /\ started' \in [Sessions -> BOOLEAN]
    <3>1. CASE StartSession
      BY <2>1, <3>1, DeliverType DEF StartSession, TypeOK
    <3>2. CASE Apply /\ UNCHANGED started
      BY <2>1, <3>2, ApplyEffect DEF TypeOK
    <3> QED
      BY <1>4, <3>1, <3>2 DEF Resume, StartDone, sessionVars
  <2>4. TypeOK'
    BY <2>1, <2>2, <2>3 DEF TypeOK
  <2> QED
    BY <2>1, <2>2, <2>3, <2>4, NoTaskAssumption DEF Control, Resting, NoTaskStranded,
       Processing, QueueBound, Busy
<1>5. CASE EventDone
  <2>1. TypeOK'
    BY <1>5 DEF EventDone, sessionVars, closeVars, TypeOK
  <2> QED
    BY <1>5, <2>1 DEF EventDone, sessionVars, closeVars, Control, Resting, NoTaskStranded,
       Processing, QueueBound, Busy
<1>6. CASE (Loop \/ Finally) /\ Work
  <2>1. /\ Shift(queue) /\ queue # <<>> /\ ~closed
        /\ UNCHANGED <<started, accepting, closed, closing, aborted, home, captured, posts>>
        /\ settled' \in BOOLEAN
    BY <1>6 DEF Loop, Finally, Work, closeVars, TypeOK
  <2>2. queue \in Seq(Task) /\ captured' \in Seq(Task) /\ Len(queue) <= MaxQueue
    BY <1>1, <2>1, BoundAssumption DEF TypeOK, Control, QueueBound
  <2> QED
    BY <2>1, <2>2, ShiftControl
<1>7. CASE (Loop \/ Finally) /\ ~Work
  <2>1. /\ UNCHANGED <<queue, current, tracked, scope, started, accepting, closed, closing,
                       aborted, home, captured, posts>>
        /\ settled' \in BOOLEAN
        /\ pc \in Resting \ {"idle"} /\ pc' \in Resting /\ queue = <<>>
    BY <1>7 DEF Loop, Finally, Work, closeVars, TypeOK, Control, Resting
  <2>2. TypeOK'
    BY <2>1 DEF TypeOK, Resting
  <2>3. QueueBound'
    BY <1>1, <2>1, BoundAssumption DEF QueueBound, Busy, Processing
  <2> QED
    BY <2>1, <2>2, <2>3 DEF Control, Resting, NoTaskStranded, Processing
<1>8. CASE Close
  <2>1. /\ UNCHANGED <<current, pc, tracked, scope, started, home, captured, posts>>
        /\ queue' = queue \/ queue' = <<>>
        /\ accepting' \in BOOLEAN /\ closed' \in BOOLEAN /\ settled' \in BOOLEAN
        /\ aborted' \in BOOLEAN /\ closing' \in {"open", "waiting", "grace", "done"}
    BY <1>8 DEF Close, CloseBegin, CloseResume, CloseTimeout, GraceEnd, Shut, sessionVars, TypeOK
  <2>2. TypeOK'
    <3>1. queue' \in Seq(Task)
      <4>1. queue \in Seq(Task) /\ <<>> \in Seq(Task)
        BY DEF TypeOK
      <4> QED
        BY <2>1, <4>1
    <3> QED
      BY <2>1, <3>1 DEF TypeOK
  <2>3. /\ accepting' <=> closing' = "open"
        /\ closed' <=> closing' \in {"grace", "done"}
        /\ closed' => queue' = <<>>
    BY <1>8 DEF Close, CloseBegin, CloseResume, CloseTimeout, GraceEnd, Shut, Control,
       NoTaskStranded, Processing
  <2>4. Len(queue') <= Len(queue) /\ Len(queue') \in Nat
    BY <1>1, <2>1
  <2>5. QueueBound'
    BY <1>1, <2>1, <2>4, BoundAssumption DEF Control, QueueBound, Busy, Processing
  <2> QED
    BY <2>1, <2>2, <2>3, <2>5 DEF Control, NoTaskStranded, Processing
<1>9. CASE UNCHANGED vars
  BY <1>9 DEF vars, TypeOK, Control, NoTaskStranded, Processing, QueueBound, Busy
<1> QED
  BY <1>2, <1>3, <1>4, <1>5, <1>6, <1>7, <1>8, <1>9 DEF Next, Close

LEMMA ControlHolds == Spec => []ControlInv
  BY ControlInit, ControlNext, PTL DEF Spec

(* The sessions, scopes, queue, flags and histories keep their types: in   *)
(* particular a task in progress is a captured task, and every payload has *)
(* an id, a session, a directory and a kind.                               *)
THEOREM PipelineTypeCorrect == Spec => []TypeOK
<1>1. ControlInv => TypeOK
  BY DEF ControlInv
<1> QED
  BY <1>1, ControlHolds, PTL

(* capture() tests the length of the queue plus the task in progress; the  *)
(* bound MAX_QUEUE_SIZE holds although a run that has returned still       *)
(* counts until its finally callback has run.                              *)
THEOREM QueueBounded == Spec => []QueueBound
<1>1. ControlInv => QueueBound
  BY DEF ControlInv, Control
<1> QED
  BY <1>1, ControlHolds, PTL

(* No lost wake-up in drain(): whenever no run is in progress the queue is *)
(* empty, so no task depends on a later capture to be taken.               *)
THEOREM NothingStranded == Spec => []NoTaskStranded
<1>1. ControlInv => NoTaskStranded
  BY DEF ControlInv, Control
<1> QED
  BY <1>1, ControlHolds, PTL

(* Once close() has given up waiting, run() begins no further task.        *)
THEOREM NothingAfterGivingUp == Spec => NoTaskAfterGivingUp
<1>1. ControlInv /\ [Next]_vars
         => [(closing \in {"grace", "done"}) => (current' \in {current, NoTask})]_vars
  <2> SUFFICES ASSUME ControlInv, [Next]_vars, closing \in {"grace", "done"}
               PROVE  current' \in {current, NoTask}
    OBVIOUS
  <2>1. closed /\ ~Work /\ ~accepting
    BY DEF ControlInv, Control, Work
  <2>2. CASE UNCHANGED vars
    BY <2>2 DEF vars
  <2>3. CASE \E s \in Sessions, d \in Dirs, a \in BOOLEAN : Capture(s, d, a)
    BY <2>1, <2>3 DEF Capture
  <2>4. CASE LookupDone
    BY <2>4 DEF LookupDone, Settle
  <2>5. CASE Resume \/ StartDone
    BY <2>5 DEF Resume, StartDone, StartSession, Apply
  <2>6. CASE EventDone
    BY <2>6 DEF EventDone
  <2>7. CASE Loop \/ Finally
    BY <2>1, <2>7 DEF Loop, Finally
  <2>8. CASE Close
    BY <2>8 DEF Close, CloseBegin, CloseResume, CloseTimeout, GraceEnd
  <2> QED
    BY <2>2, <2>3, <2>4, <2>5, <2>6, <2>7, <2>8 DEF Next, Close
<1> QED
  BY <1>1, ControlHolds, PTL DEF Spec, NoTaskAfterGivingUp

-----------------------------------------------------------------------------
(* Tasks are numbered in the order of capture, and the queue is the tail   *)
(* of what was captured.                                                   *)

Numbered(c) == \A k \in 1..Len(c) : c[k].id = k

Suffix(q, c) ==
    /\ Len(q) <= Len(c)
    /\ \A i \in 1..Len(q) : q[i] = c[Len(c) - Len(q) + i]

History ==
    /\ Numbered(captured)
    /\ Suffix(queue, captured)
    /\ current # NoTask => /\ current.id \in 1..(Len(captured) - Len(queue))
                           /\ captured[current.id] = current

\* The number of the last task run() has taken.
Last == IF current = NoTask THEN Len(captured) - Len(queue) ELSE current.id

(* q and captured' are the queue and the history once a step has captured  *)
(* one task or none.                                                       *)
Grow(q) ==
    \/ captured' = captured /\ q = queue
    \/ \E t \in Task : /\ t.id = Len(captured) + 1
                       /\ captured' = Append(captured, t)
                       /\ q = Append(queue, t)

LEMMA TailSuffix ==
    ASSUME NEW S, NEW q \in Seq(S), NEW c \in Seq(S), q # <<>>, Suffix(q, c)
    PROVE  /\ Suffix(Tail(q), c)
           /\ Len(Tail(q)) = Len(q) - 1
           /\ Len(c) - Len(q) + 1 \in 1..Len(c)
           /\ Head(q) = c[Len(c) - Len(q) + 1]
<1>1. Len(q) \in Nat /\ Len(q) >= 1 /\ Len(c) \in Nat /\ Len(q) <= Len(c)
  BY DEF Suffix
<1>2. Head(q) = q[1] /\ Len(Tail(q)) = Len(q) - 1
  BY <1>1
<1>3. \A i \in 1..(Len(q) - 1) : Tail(q)[i] = q[i + 1]
  BY <1>1
<1>4. \A i \in 1..(Len(q) - 1) : Tail(q)[i] = c[Len(c) - (Len(q) - 1) + i]
  <2> TAKE i \in 1..(Len(q) - 1)
  <2>1. i + 1 \in 1..Len(q) /\ Len(c) - Len(q) + (i + 1) = Len(c) - (Len(q) - 1) + i
    BY <1>1
  <2>2. q[i + 1] = c[Len(c) - Len(q) + (i + 1)]
    BY <2>1 DEF Suffix
  <2> QED
    BY <1>3, <2>1, <2>2
<1>5. Suffix(Tail(q), c)
  BY <1>1, <1>2, <1>4 DEF Suffix
<1>6. Head(q) = c[Len(c) - Len(q) + 1]
  BY <1>1, <1>2 DEF Suffix
<1> QED
  BY <1>1, <1>2, <1>5, <1>6

LEMMA AppendSuffix ==
    ASSUME NEW S, NEW q \in Seq(S), NEW c \in Seq(S), NEW t \in S, Suffix(q, c)
    PROVE  Suffix(Append(q, t), Append(c, t))
<1>1. /\ Len(q) \in Nat /\ Len(c) \in Nat /\ Len(q) <= Len(c)
      /\ Len(Append(q, t)) = Len(q) + 1 /\ Len(Append(c, t)) = Len(c) + 1
  BY DEF Suffix
<1>2. ASSUME NEW i \in 1..(Len(q) + 1)
      PROVE  Append(q, t)[i] = Append(c, t)[Len(c) - Len(q) + i]
  <2>1. CASE i = Len(q) + 1
    BY <1>1, <2>1
  <2>2. CASE i \in 1..Len(q)
    <3>1. Len(c) - Len(q) + i \in 1..Len(c)
      BY <1>1, <2>2
    <3>2. Append(q, t)[i] = q[i] /\ Append(c, t)[Len(c) - Len(q) + i] = c[Len(c) - Len(q) + i]
      BY <2>2, <3>1
    <3> QED
      BY <2>2, <3>2 DEF Suffix
  <2> QED
    BY <1>1, <2>1, <2>2
<1>3. Len(c) + 1 - (Len(q) + 1) = Len(c) - Len(q)
  BY <1>1
<1> DEFINE q2 == Append(q, t)  c2 == Append(c, t)
<1>4. Len(q2) = Len(q) + 1 /\ Len(c2) = Len(c) + 1
  BY <1>1
<1>5. \A i \in 1..(Len(q) + 1) : q2[i] = c2[Len(c) - Len(q) + i]
  BY <1>2
<1> HIDE DEF q2, c2
<1>6. Suffix(q2, c2)
  BY <1>1, <1>3, <1>4, <1>5 DEF Suffix
<1> QED
  BY <1>6 DEF q2, c2

LEMMA GrowEffect ==
    ASSUME TypeOK, History, NEW q, Grow(q)
    PROVE  /\ q \in Seq(Task) /\ captured' \in Seq(Task)
           /\ Numbered(captured') /\ Suffix(q, captured')
           /\ Len(captured') - Len(q) = Len(captured) - Len(queue)
           /\ Len(captured) <= Len(captured')
           /\ \A k \in 1..Len(captured) : captured'[k] = captured[k]
<1>1. captured \in Seq(Task) /\ queue \in Seq(Task)
  BY DEF TypeOK
<1>2. Numbered(captured) /\ Suffix(queue, captured)
  BY DEF History
<1>3. CASE captured' = captured /\ q = queue
  <2>1. Len(captured') = Len(captured) /\ Len(q) = Len(queue)
    BY <1>3
  <2> QED
    BY <1>1, <1>2, <1>3, <2>1
<1>4. ASSUME NEW t \in Task, t.id = Len(captured) + 1, captured' = Append(captured, t),
             q = Append(queue, t)
      PROVE  /\ q \in Seq(Task) /\ captured' \in Seq(Task)
             /\ Numbered(captured') /\ Suffix(q, captured')
             /\ Len(captured') - Len(q) = Len(captured) - Len(queue)
             /\ Len(captured) <= Len(captured')
             /\ \A k \in 1..Len(captured) : captured'[k] = captured[k]
  <2>1. /\ q \in Seq(Task) /\ captured' \in Seq(Task)
        /\ Len(captured') = Len(captured) + 1 /\ Len(q) = Len(queue) + 1
        /\ Len(captured) \in Nat /\ Len(queue) \in Nat
    BY <1>1, <1>4
  <2>2. \A k \in 1..Len(captured) : captured'[k] = captured[k]
    BY <1>1, <1>4
  <2>3. captured'[Len(captured) + 1] = t
    BY <1>1, <1>4
  <2>4. Numbered(captured')
    BY <1>2, <1>4, <2>1, <2>2, <2>3 DEF Numbered
  <2>5. Suffix(q, captured')
    BY <1>1, <1>2, <1>4, AppendSuffix
  <2> QED
    BY <2>1, <2>2, <2>4, <2>5
<1> QED
  BY <1>3, <1>4 DEF Grow

-----------------------------------------------------------------------------
(* The steps, as far as the histories can tell them apart.                 *)

\* A task is captured and waits, or nothing is.
Wait ==
    /\ \E q : Grow(q) /\ queue' = q
    /\ UNCHANGED <<current, pc, scope, started, home, posts>>

\* run() takes the next task.
Take ==
    /\ current = NoTask
    /\ \E q : Grow(q) /\ q # <<>> /\ Shift(q)
    /\ UNCHANGED <<started, home, posts>>

\* processTask posts the SessionStart or the task's payload.
Payload(kind) ==
    /\ pc \in {"scoped", "start"}
    /\ current \in Task
    /\ Deliver(kind)
    /\ IF kind = "SessionStart"
       THEN /\ pc = "scoped" /\ pc' = "start"
            /\ ~started[current.session]
            /\ started' = [started EXCEPT ![current.session] = TRUE]
       ELSE /\ pc = "scoped" => started[current.session]
            /\ pc' = "event"
            /\ UNCHANGED started
    /\ UNCHANGED <<queue, current, scope, home, captured>>

\* The task in progress is finished or dropped, the queue may be emptied.
Release ==
    /\ queue' \in {queue, <<>>}
    /\ \/ UNCHANGED <<current, pc>>
       \/ current' = NoTask /\ pc' \in Resting
    /\ UNCHANGED <<scope, started, home, captured, posts>>

LEMMA StepEffect ==
    ASSUME ControlInv, [Next]_vars
    PROVE  \/ Wait
           \/ Take
           \/ LookupDone
           \/ Payload("SessionStart")
           \/ Payload("event")
           \/ Release
<1>1. ASSUME NEW s \in Sessions, NEW d \in Dirs, NEW a \in BOOLEAN, Capture(s, d, a)
      PROVE  Wait \/ Take
  <2> DEFINE t == [id |-> Len(captured) + 1, session |-> s, dir |-> d, activity |-> a]
  <2>1. t \in Task /\ t.id = Len(captured) + 1
    <3>1. Len(captured) \in Nat
      BY DEF ControlInv, TypeOK
    <3> QED
      BY <3>1 DEF Task
  <2>2. /\ captured' = Append(captured, t)
        /\ IF Processing
           THEN queue' = Append(queue, t) /\ UNCHANGED <<current, pc, tracked, scope>>
           ELSE Shift(Append(queue, t))
        /\ UNCHANGED <<started, home, posts>>
    BY <1>1 DEF Capture
  <2> HIDE DEF t
  <2>3. Grow(Append(queue, t))
    BY <2>1, <2>2 DEF Grow
  <2>4. CASE Processing
    BY <2>2, <2>3, <2>4 DEF Wait
  <2>5. CASE ~Processing
    <3>1. current = NoTask /\ queue \in Seq(Task)
      BY <2>5 DEF ControlInv, Control, Processing, Resting, TypeOK
    <3>2. Append(queue, t) # <<>>
      BY <2>1, <3>1
    <3> QED
      BY <2>2, <2>3, <2>5, <3>1, <3>2 DEF Take
  <2> QED
    BY <2>4, <2>5
<1>2. CASE Resume \/ StartDone
  <2>1. pc \in {"scoped", "start"} /\ current \in Task
    BY <1>2 DEF Resume, StartDone, ControlInv, Control, Resting, TypeOK
  <2>2. UNCHANGED <<queue, scope, home, captured>>
    BY <1>2 DEF Resume, StartDone, sessionVars
  <2>3. CASE Resume /\ StartSession
    BY <2>1, <2>2, <2>3 DEF Resume, StartSession, Payload
  <2>4. CASE /\ Apply /\ UNCHANGED started
             /\ pc = "scoped" => ~(current.activity /\ ~started[current.session])
    <3>1. CASE current.activity /\ pc' = "event" /\ Deliver("event") /\ UNCHANGED current
      BY <2>1, <2>2, <2>4, <3>1 DEF Payload
    <3>2. CASE pc' = "loop" /\ current' = NoTask /\ UNCHANGED <<posts, aborted>>
      BY <2>2, <2>4, <3>2 DEF Release, Resting
    <3> QED
      BY <2>4, <3>1, <3>2 DEF Apply
  <2> QED
    BY <1>2, <2>3, <2>4 DEF Resume, StartDone, sessionVars
<1>3. CASE EventDone
  BY <1>3 DEF EventDone, sessionVars, Release, Resting
<1>4. CASE (Loop \/ Finally) /\ Work
  <2>1. Shift(queue) /\ queue # <<>> /\ UNCHANGED <<started, home, posts, captured>>
    BY <1>4 DEF Loop, Finally, Work
  <2>2. current = NoTask
    BY <1>4 DEF Loop, Finally, ControlInv, Control, Resting
  <2>3. Grow(queue)
    BY <2>1 DEF Grow
  <2> QED
    BY <2>1, <2>2, <2>3 DEF Take
<1>5. CASE (Loop \/ Finally) /\ ~Work
  <2>1. current = NoTask
    BY <1>5 DEF Loop, Finally, ControlInv, Control, Resting
  <2> QED
    BY <1>5, <2>1 DEF Loop, Finally, Release, Resting
<1>6. CASE Close
  BY <1>6 DEF Close, CloseBegin, CloseResume, CloseTimeout, GraceEnd, Shut, sessionVars, Release
<1>7. CASE UNCHANGED vars
  BY <1>7 DEF vars, Release
<1> QED
  BY <1>1, <1>2, <1>3, <1>4, <1>5, <1>6, <1>7 DEF Next, Close

-----------------------------------------------------------------------------
LEMMA HistoryNext ==
    ASSUME ControlInv, History, [Next]_vars
    PROVE  History'
<1>1. /\ captured \in Seq(Task) /\ queue \in Seq(Task)
      /\ Len(captured) \in Nat /\ Len(queue) \in Nat /\ Len(queue) <= Len(captured)
  BY DEF ControlInv, TypeOK, History, Suffix
<1>2. CASE Wait
  <2>1. PICK q : Grow(q) /\ queue' = q
    BY <1>2 DEF Wait
  <2>2. /\ Numbered(captured') /\ Suffix(queue', captured')
        /\ Len(captured') - Len(queue') = Len(captured) - Len(queue)
        /\ \A k \in 1..Len(captured) : captured'[k] = captured[k]
    BY <2>1, GrowEffect DEF ControlInv
  <2>3. ASSUME current' # NoTask
        PROVE  current'.id \in 1..(Len(captured') - Len(queue')) /\ captured'[current'.id] = current'
    <3>1. current' = current
      BY <1>2 DEF Wait
    <3>2. current.id \in 1..(Len(captured) - Len(queue)) /\ captured[current.id] = current
      BY <2>3, <3>1 DEF History
    <3>3. current.id \in 1..Len(captured)
      BY <1>1, <3>2
    <3> QED
      BY <2>2, <3>1, <3>2, <3>3
  <2> QED
    BY <2>2, <2>3 DEF History
<1>3. CASE Take
  <2>1. PICK q : Grow(q) /\ q # <<>> /\ Shift(q)
    BY <1>3 DEF Take
  <2>2. /\ q \in Seq(Task) /\ captured' \in Seq(Task)
        /\ Numbered(captured') /\ Suffix(q, captured')
    BY <2>1, GrowEffect DEF ControlInv
  <2>3. queue' = Tail(q) /\ current' \in {NoTask, Head(q)}
    BY <2>1, <2>2, ShiftEffect DEF ControlInv
  <2>4. /\ Suffix(queue', captured')
        /\ Len(queue') = Len(q) - 1
        /\ Len(captured') - Len(q) + 1 \in 1..Len(captured')
        /\ Head(q) = captured'[Len(captured') - Len(q) + 1]
    BY <2>1, <2>2, <2>3, TailSuffix
  <2>5. Head(q).id = Len(captured') - Len(q) + 1
    BY <2>2, <2>4 DEF Numbered
  <2>6. Len(q) \in Nat /\ Len(captured') \in Nat
    BY <2>2
  <2>7. Len(captured') - Len(q) + 1 = Len(captured') - Len(queue')
    BY <2>4, <2>6
  <2>8. Head(q).id \in 1..(Len(captured') - Len(queue')) /\ captured'[Head(q).id] = Head(q)
    BY <2>4, <2>5, <2>6, <2>7
  <2> QED
    BY <2>2, <2>3, <2>4, <2>8 DEF History
<1>4. CASE UNCHANGED <<queue, captured>> /\ current' \in {current, NoTask}
  BY <1>4 DEF History
<1>5. CASE Release
  <2>1. captured' = captured /\ current' \in {current, NoTask} /\ queue' \in {queue, <<>>}
    BY <1>5 DEF Release
  <2>2. CASE queue' = queue
    BY <1>4, <2>1, <2>2
  <2>3. CASE queue' = <<>>
    <3>1. Len(queue') = 0
      BY <2>3
    <3>2. Suffix(queue', captured')
      BY <1>1, <2>1, <3>1 DEF Suffix
    <3>3. ASSUME current' # NoTask
          PROVE  current'.id \in 1..(Len(captured') - Len(queue'))
                 /\ captured'[current'.id] = current'
      BY <1>1, <2>1, <3>1, <3>3 DEF History
    <3> QED
      BY <2>1, <3>2, <3>3 DEF History
  <2> QED
    BY <2>1, <2>2, <2>3
<1>6. CASE LookupDone
  BY <1>4, <1>6 DEF LookupDone, Settle
<1>7. CASE Payload("SessionStart") \/ Payload("event")
  BY <1>4, <1>7 DEF Payload
<1> QED
  BY <1>2, <1>3, <1>5, <1>6, <1>7, StepEffect

\* Taking a task advances Last by one, to the number of that task.
LEMMA TakeEffect ==
    ASSUME ControlInv, History, Take
    PROVE  \E t \in Task :
              /\ t.id = Last + 1 /\ Last' = Last + 1
              /\ Last + 1 \in 1..Len(captured') /\ captured'[Last + 1] = t
              /\ \A k \in 1..Len(captured) : captured'[k] = captured[k]
              /\ \/ pc' = "loop" /\ current' = NoTask
                 \/ pc' = "lookup" /\ current' = t
                 \/ /\ pc' = "scoped" /\ current' = t
                    /\ scope'[t.session] = "accepted" /\ t.dir # "outside"
              /\ \A s \in Sessions :
                    scope'[s] = "accepted" =>
                       scope[s] = "accepted" \/ (s = t.session /\ t.dir = "inside")
<1>1. PICK q : Grow(q) /\ q # <<>> /\ Shift(q)
  BY DEF Take
<1>2. /\ q \in Seq(Task) /\ captured' \in Seq(Task)
      /\ Numbered(captured') /\ Suffix(q, captured')
      /\ Len(captured') - Len(q) = Len(captured) - Len(queue)
      /\ \A k \in 1..Len(captured) : captured'[k] = captured[k]
  BY <1>1, GrowEffect DEF ControlInv
<1>3. PICK t \in Task : t = Head(q)
  BY <1>1, <1>2, ShiftEffect DEF ControlInv
<1>4. /\ queue' = Tail(q)
      /\ \/ pc' = "loop" /\ current' = NoTask
         \/ pc' = "lookup" /\ current' = t
         \/ /\ pc' = "scoped" /\ current' = t
            /\ scope'[t.session] = "accepted" /\ t.dir # "outside"
      /\ \A s \in Sessions :
            scope'[s] = "accepted" =>
               scope[s] = "accepted" \/ (s = t.session /\ t.dir = "inside")
  BY <1>1, <1>2, <1>3, ShiftEffect DEF ControlInv
<1>5. /\ Len(queue') = Len(q) - 1
      /\ Len(captured') - Len(q) + 1 \in 1..Len(captured')
      /\ t = captured'[Len(captured') - Len(q) + 1]
  BY <1>1, <1>2, <1>3, <1>4, TailSuffix
<1>6. Last = Len(captured') - Len(q)
  BY <1>2 DEF Take, Last
<1>7. t.id = Last + 1
  BY <1>2, <1>5, <1>6 DEF Numbered
<1>8. Last' = Last + 1
  <2>1. Len(q) \in Nat /\ Len(captured') \in Nat
    BY <1>2
  <2>2. Len(captured') - Len(queue') = Last + 1
    BY <1>5, <1>6, <2>1
  <2> QED
    BY <1>4, <1>7, <2>2 DEF Last
<1> QED
  BY <1>2, <1>4, <1>5, <1>6, <1>7, <1>8

\* Every other step keeps the task in progress or is done with it.
LEMMA LastEffect ==
    ASSUME ControlInv, History, [Next]_vars, ~Take
    PROVE  /\ Last \in Nat /\ Last' \in Nat /\ Last <= Last' /\ Last <= Len(captured)
           /\ Len(captured) \in Nat /\ Len(captured') \in Nat /\ Len(captured) <= Len(captured')
           /\ \A k \in 1..Len(captured) : captured'[k] = captured[k]
           /\ current' \in {current, NoTask}
<1>1. /\ Len(captured) \in Nat /\ Len(queue) \in Nat /\ Len(queue) <= Len(captured)
      /\ current # NoTask => current.id \in 1..(Len(captured) - Len(queue))
  BY DEF ControlInv, TypeOK, History, Suffix
<1>2. /\ Len(captured') \in Nat /\ Len(queue') \in Nat /\ Len(queue') <= Len(captured')
      /\ current' # NoTask => current'.id \in 1..(Len(captured') - Len(queue'))
  <2>1. ControlInv' /\ History'
    BY HistoryNext, ControlNext
  <2>2. captured' \in Seq(Task) /\ queue' \in Seq(Task)
    BY <2>1 DEF ControlInv, TypeOK
  <2>3. Suffix(queue', captured')
    BY <2>1 DEF History
  <2>4. current' # NoTask => current'.id \in 1..(Len(captured') - Len(queue'))
    BY <2>1 DEF History
  <2> QED
    BY <2>2, <2>3, <2>4 DEF Suffix
<1>3. /\ Len(captured) <= Len(captured')
      /\ Len(captured) - Len(queue) <= Len(captured') - Len(queue')
      /\ \A k \in 1..Len(captured) : captured'[k] = captured[k]
      /\ current' \in {current, NoTask}
  <2>1. CASE Wait
    <3>1. PICK q : Grow(q) /\ queue' = q
      BY <2>1 DEF Wait
    <3> QED
      BY <1>1, <1>2, <2>1, <3>1, GrowEffect DEF ControlInv, Wait
  <2>2. CASE Release
    <3>1. captured' = captured /\ current' \in {current, NoTask} /\ queue' \in {queue, <<>>}
      BY <2>2 DEF Release
    <3>2. Len(queue') <= Len(queue)
      BY <1>1, <3>1
    <3> QED
      BY <1>1, <1>2, <3>1, <3>2
  <2>3. CASE LookupDone
    BY <1>1, <2>3 DEF LookupDone, Settle
  <2>4. CASE Payload("SessionStart") \/ Payload("event")
    BY <1>1, <2>4 DEF Payload
  <2> QED
    BY <2>1, <2>2, <2>3, <2>4, StepEffect
<1> QED
  BY <1>1, <1>2, <1>3 DEF Last

-----------------------------------------------------------------------------
(* Order: what was posted belongs to tasks already taken, and what has     *)
(* been posted for the task in progress follows from where run() is.       *)

Order ==
    /\ \A i \in 1..Len(posts) : posts[i].id \in 1..Last
    /\ current # NoTask =>
          \A i \in 1..Len(posts) :
             posts[i].id = current.id =>
                pc = "event" \/ (pc = "start" /\ posts[i].kind = "SessionStart")
    /\ InCaptureOrder

\* The history of payloads after a delivery: the old ones, and one of the task in progress.
LEMMA PayloadEffect ==
    ASSUME ControlInv, NEW kind \in {"SessionStart", "event"}, Payload(kind)
    PROVE  /\ Len(posts) \in Nat /\ Len(posts') = Len(posts) + 1
           /\ \A i \in 1..Len(posts) : posts'[i] = posts[i]
           /\ posts'[Len(posts) + 1].id = current.id
           /\ posts'[Len(posts) + 1].session = current.session
           /\ posts'[Len(posts) + 1].dir = current.dir
           /\ posts'[Len(posts) + 1].kind = kind
           /\ current \in Task /\ current # NoTask /\ current' = current
<1> DEFINE post == [id |-> current.id, session |-> current.session, dir |-> current.dir,
                    kind |-> kind]
<1>1. posts' = Append(posts, post) /\ posts \in Seq(Post)
  BY DEF Payload, Deliver, ControlInv, TypeOK
<1>2. /\ post.id = current.id /\ post.session = current.session
      /\ post.dir = current.dir /\ post.kind = kind
  OBVIOUS
<1> HIDE DEF post
<1>3. Len(posts) \in Nat /\ Len(posts') = Len(posts) + 1
  BY <1>1
<1>4. posts'[Len(posts) + 1] = post /\ \A i \in 1..Len(posts) : posts'[i] = posts[i]
  BY <1>1
<1>5. current \in Task /\ current # NoTask /\ current' = current
  BY NoTaskAssumption DEF Payload
<1> QED
  BY <1>2, <1>3, <1>4, <1>5

LEMMA OrderNext ==
    ASSUME ControlInv, History, Order, [Next]_vars
    PROVE  Order'
<1>1. Len(posts) \in Nat
  BY DEF ControlInv, TypeOK
<1>2. CASE Take
  <2>1. PICK t \in Task :
           /\ t.id = Last + 1 /\ Last' = Last + 1
           /\ current' \in {NoTask, t}
    BY <1>2, TakeEffect
  <2>2. posts' = posts /\ Last \in Nat
    <3>1. /\ Len(captured) \in Nat /\ Len(queue) \in Nat /\ Len(queue) <= Len(captured)
          /\ current = NoTask
      BY <1>2 DEF ControlInv, TypeOK, History, Suffix, Take
    <3> QED
      BY <1>2, <3>1 DEF Take, Last
  <2>3. \A i \in 1..Len(posts') : posts'[i].id \in 1..Last' /\ posts'[i].id # t.id
    BY <2>1, <2>2 DEF Order
  <2>4. InCaptureOrder'
    BY <2>2 DEF Order, InCaptureOrder
  <2> QED
    BY <2>1, <2>3, <2>4 DEF Order
<1>3. CASE ~Take
  <2>1. Last \in Nat /\ Last' \in Nat /\ Last <= Last' /\ current' \in {current, NoTask}
    BY <1>3, LastEffect
  <2>2. ASSUME NEW kind \in {"SessionStart", "event"}, Payload(kind)
        PROVE  Order'
    <3>1. /\ Len(posts') = Len(posts) + 1
          /\ \A i \in 1..Len(posts) : posts'[i] = posts[i]
          /\ posts'[Len(posts) + 1].id = current.id
          /\ posts'[Len(posts) + 1].kind = kind
          /\ current # NoTask /\ current' = current
      BY <2>2, PayloadEffect
    <3>2. Last = current.id /\ Last' = current.id
      BY <3>1 DEF Last
    <3>3. current.id \in 1..current.id
      BY <3>1 DEF ControlInv, TypeOK, History
    <3>4. \A i \in 1..Len(posts') : posts'[i].id \in 1..Last'
      BY <1>1, <3>1, <3>2, <3>3 DEF Order
    <3>5. \A i \in 1..Len(posts) :
             posts[i].id = current.id => kind = "event" /\ posts[i].kind = "SessionStart"
      BY <2>2, <3>1 DEF Order, Payload
    <3>6. \/ pc' = "event"
          \/ pc' = "start" /\ kind = "SessionStart"
      BY <2>2 DEF Payload
    <3>7. ASSUME NEW i \in 1..Len(posts'), posts'[i].id = current'.id
          PROVE  pc' = "event" \/ (pc' = "start" /\ posts'[i].kind = "SessionStart")
      BY <1>1, <3>1, <3>5, <3>6, <3>7
    <3>8. ASSUME NEW i \in 1..Len(posts'), NEW j \in 1..Len(posts'), i < j
          PROVE  \/ posts'[i].id < posts'[j].id
                 \/ /\ posts'[i].id = posts'[j].id
                    /\ posts'[i].kind = "SessionStart"
                    /\ posts'[j].kind = "event"
      <4>1. i \in 1..Len(posts) /\ posts'[i] = posts[i]
        BY <1>1, <3>1, <3>8
      <4>2. CASE j \in 1..Len(posts)
        BY <3>1, <3>8, <4>1, <4>2 DEF Order, InCaptureOrder
      <4>3. CASE j = Len(posts) + 1
        <5>1. posts[i].id \in 1..current.id
          BY <3>2, <4>1 DEF Order
        <5>2. posts'[j].id = current.id /\ posts'[j].kind = kind
          BY <3>1, <4>3
        <5>3. posts[i].id < current.id \/ posts[i].id = current.id
          BY <3>3, <5>1
        <5> QED
          BY <3>5, <4>1, <5>2, <5>3
      <4> QED
        BY <1>1, <3>1, <4>2, <4>3
    <3> QED
      BY <3>4, <3>7, <3>8 DEF Order, InCaptureOrder
  <2>3. CASE /\ posts' = posts
             /\ \/ current' = NoTask
                \/ UNCHANGED current /\ (UNCHANGED pc \/ pc = "lookup")
    <3>1. \A i \in 1..Len(posts') : posts'[i].id \in 1..Last'
      BY <2>1, <2>3 DEF Order
    <3>2. InCaptureOrder'
      BY <2>3 DEF Order, InCaptureOrder
    <3> QED
      BY <2>3, <3>1, <3>2 DEF Order
  <2>4. CASE Wait
    BY <2>3, <2>4 DEF Wait
  <2>5. CASE Release
    BY <2>3, <2>5 DEF Release
  <2>6. CASE LookupDone
    BY <2>3, <2>6 DEF LookupDone, Settle
  <2> QED
    BY <1>3, <2>2, <2>4, <2>5, <2>6, StepEffect
<1> QED
  BY <1>2, <1>3

-----------------------------------------------------------------------------
(* Starts: the flag `started' says that the SessionStart has been posted.  *)

Starts ==
    /\ \A s \in Sessions :
          started[s] <=> \E i \in 1..Len(posts) : /\ posts[i].session = s
                                                  /\ posts[i].kind = "SessionStart"
    /\ pc \in {"start", "event"} => started[current.session]
    /\ SessionStartFirst

LEMMA StartsNext ==
    ASSUME ControlInv, History, Starts, [Next]_vars
    PROVE  Starts'
<1>1. CASE posts' = posts /\ started' = started
           /\ (pc' \in {"start", "event"} => UNCHANGED <<pc, current>>)
  <2>1. SessionStartFirst'
    BY <1>1 DEF Starts, SessionStartFirst
  <2> QED
    BY <1>1, <2>1 DEF Starts
<1>2. CASE Take
  <2>1. pc' \notin {"start", "event"}
    BY <1>2, TakeEffect
  <2> QED
    BY <1>1, <1>2, <2>1 DEF Take
<1>3. CASE Wait
  BY <1>1, <1>3 DEF Wait
<1>4. CASE Release
  BY <1>1, <1>4 DEF Release, Resting
<1>5. CASE LookupDone
  BY <1>1, <1>5 DEF LookupDone, Settle
<1>6. ASSUME NEW kind \in {"SessionStart", "event"}, Payload(kind)
      PROVE  Starts'
  <2>1. /\ Len(posts) \in Nat /\ Len(posts') = Len(posts) + 1
        /\ \A i \in 1..Len(posts) : posts'[i] = posts[i]
        /\ posts'[Len(posts) + 1].session = current.session
        /\ posts'[Len(posts) + 1].kind = kind
        /\ current' = current
    BY <1>6, PayloadEffect
  <2>2. current.session \in Sessions /\ started \in [Sessions -> BOOLEAN]
    BY <1>6, PayloadEffect DEF Task, ControlInv, TypeOK
  <2>3. pc' \in {"start", "event"} /\ started'[current.session]
    BY <1>6, <2>2 DEF Payload, Starts
  <2>4. CASE kind = "SessionStart"
    <3>1. /\ ~started[current.session]
          /\ started' = [started EXCEPT ![current.session] = TRUE]
      BY <1>6, <2>4 DEF Payload
    <3>2. ASSUME NEW s \in Sessions
          PROVE  started'[s] <=> \E i \in 1..Len(posts') : /\ posts'[i].session = s
                                                           /\ posts'[i].kind = "SessionStart"
      <4>1. CASE s = current.session
        <5>1. Len(posts) + 1 \in 1..Len(posts')
          BY <2>1
        <5> QED
          BY <2>1, <2>3, <2>4, <4>1, <5>1
      <4>2. CASE s # current.session
        BY <2>1, <2>2, <3>1, <4>2 DEF Starts
      <4> QED
        BY <4>1, <4>2
    <3>3. \A i \in 1..Len(posts) : posts[i].session # current.session
      <4> SUFFICES ASSUME NEW i \in 1..Len(posts), posts[i].session = current.session
                   PROVE  FALSE
        OBVIOUS
      <4>1. PICK j \in 1..Len(posts) : /\ posts[j].session = current.session
                                       /\ posts[j].kind = "SessionStart"
        BY <2>1 DEF Starts, SessionStartFirst
      <4> QED
        BY <2>2, <3>1, <4>1 DEF Starts
    <3>4. ASSUME NEW i \in 1..Len(posts')
          PROVE  IF posts'[i].kind = "SessionStart"
                 THEN \A j \in 1..(i - 1) : posts'[j].session # posts'[i].session
                 ELSE \E j \in 1..(i - 1) : /\ posts'[j].session = posts'[i].session
                                            /\ posts'[j].kind = "SessionStart"
      <4>1. \A j \in 1..(i - 1) : j \in 1..Len(posts) /\ posts'[j] = posts[j]
        BY <2>1
      <4>2. CASE i = Len(posts) + 1
        BY <2>1, <2>4, <3>3, <4>1, <4>2
      <4>3. CASE i \in 1..Len(posts)
        BY <2>1, <4>1, <4>3 DEF Starts, SessionStartFirst
      <4> QED
        BY <2>1, <4>2, <4>3
    <3>5. SessionStartFirst'
      BY <3>4 DEF SessionStartFirst
    <3> QED
      BY <2>1, <2>3, <3>2, <3>5 DEF Starts
  <2>5. CASE kind = "event"
    <3>1. started' = started /\ started[current.session]
      BY <1>6, <2>3, <2>5 DEF Payload
    <3>2. ASSUME NEW s \in Sessions
          PROVE  started'[s] <=> \E i \in 1..Len(posts') : /\ posts'[i].session = s
                                                           /\ posts'[i].kind = "SessionStart"
      <4>1. \A i \in 1..Len(posts') : posts'[i].kind = "SessionStart" => i \in 1..Len(posts)
        BY <2>1, <2>5
      <4>2. \A i \in 1..Len(posts) : i \in 1..Len(posts')
        BY <2>1
      <4> QED
        BY <2>1, <3>1, <4>1, <4>2 DEF Starts
    <3>3. PICK k \in 1..Len(posts) : /\ posts[k].session = current.session
                                     /\ posts[k].kind = "SessionStart"
      BY <2>2, <3>1 DEF Starts
    <3>4. ASSUME NEW i \in 1..Len(posts')
          PROVE  IF posts'[i].kind = "SessionStart"
                 THEN \A j \in 1..(i - 1) : posts'[j].session # posts'[i].session
                 ELSE \E j \in 1..(i - 1) : /\ posts'[j].session = posts'[i].session
                                            /\ posts'[j].kind = "SessionStart"
      <4>1. \A j \in 1..(i - 1) : j \in 1..Len(posts) /\ posts'[j] = posts[j]
        BY <2>1
      <4>2. CASE i = Len(posts) + 1
        <5>1. k \in 1..(i - 1)
          BY <2>1, <4>2
        <5> QED
          BY <2>1, <2>5, <3>3, <4>1, <4>2, <5>1
      <4>3. CASE i \in 1..Len(posts)
        BY <2>1, <4>1, <4>3 DEF Starts, SessionStartFirst
      <4> QED
        BY <2>1, <4>2, <4>3
    <3>5. SessionStartFirst'
      BY <3>4 DEF SessionStartFirst
    <3> QED
      BY <2>1, <2>3, <3>2, <3>5 DEF Starts
  <2> QED
    BY <2>4, <2>5
<1> QED
  BY <1>2, <1>3, <1>4, <1>5, <1>6, StepEffect

-----------------------------------------------------------------------------
(* Scopes: a session is accepted only on evidence, and nothing is begun    *)
(* for a task whose session is not accepted or which is outside itself.    *)

Evidence(h, c, s, n) ==
    \/ h[s] = "inside"
    \/ \E k \in 1..n : c[k].session = s /\ c[k].dir = "inside"

Scopes ==
    /\ \A s \in Sessions : scope[s] = "accepted" => Evidence(home, captured, s, Last)
    /\ pc \in {"scoped", "start", "event"} =>
          scope[current.session] = "accepted" /\ current.dir # "outside"
    /\ \A i \in 1..Len(posts) :
          /\ posts[i].dir # "outside"
          /\ Evidence(home, captured, posts[i].session, posts[i].id)

LEMMA LastBound ==
    ASSUME ControlInv, History
    PROVE  Last \in Nat /\ Last <= Len(captured) /\ Len(captured) \in Nat
<1>1. /\ Len(captured) \in Nat /\ Len(queue) \in Nat /\ Len(queue) <= Len(captured)
      /\ current # NoTask => current.id \in 1..(Len(captured) - Len(queue))
  BY DEF ControlInv, TypeOK, History, Suffix
<1> QED
  BY <1>1 DEF Last

\* Evidence outlives every step, whoever captures or takes tasks meanwhile.
LEMMA EvidenceLasts ==
    ASSUME ControlInv, History, [Next]_vars, NEW s, NEW m \in Nat, NEW n \in Nat,
           m <= n, m <= Len(captured), Evidence(home, captured, s, m)
    PROVE  Evidence(home', captured', s, n)
<1>1. home' = home
  BY StepEffect DEF Wait, Take, LookupDone, Payload, Release
<1>2. \A k \in 1..Len(captured) : captured'[k] = captured[k]
  BY TakeEffect, LastEffect
<1>3. \A k \in 1..m : k \in 1..Len(captured) /\ k \in 1..n
  BY LastBound
<1> QED
  BY <1>1, <1>2, <1>3 DEF Evidence

LEMMA ScopesNext ==
    ASSUME ControlInv, History, Order, Scopes, [Next]_vars
    PROVE  Scopes'
<1>1. PICK m \in Nat : m = Last /\ m <= Len(captured) /\ Len(captured) \in Nat
  BY LastBound
<1>2. PICK n \in Nat : n = Last' /\ m <= n
  BY <1>1, TakeEffect, LastEffect
<1>3. ASSUME NEW s \in Sessions, scope[s] = "accepted"
      PROVE  Evidence(home', captured', s, n)
  BY <1>1, <1>2, <1>3, EvidenceLasts DEF Scopes
<1>4. ASSUME NEW i \in 1..Len(posts)
      PROVE  /\ posts[i].dir # "outside"
             /\ Evidence(home', captured', posts[i].session, posts[i].id)
  <2>1. PICK l \in Nat : l = posts[i].id /\ l <= m
    BY <1>1 DEF Order
  <2>2. Evidence(home, captured, posts[i].session, l)
    BY <2>1 DEF Scopes
  <2> QED
    BY <1>1, <2>1, <2>2, EvidenceLasts DEF Scopes
<1>5. CASE posts' = posts /\ scope' = scope
           /\ (pc' \in {"scoped", "start", "event"} => UNCHANGED <<pc, current>>)
  BY <1>2, <1>3, <1>4, <1>5 DEF Scopes
<1>6. CASE Wait
  BY <1>5, <1>6 DEF Wait
<1>7. CASE Release
  BY <1>5, <1>7 DEF Release, Resting
<1>8. CASE Take
  <2>1. PICK t \in Task :
           /\ n = m + 1 /\ captured'[m + 1] = t
           /\ \/ pc' \in {"loop", "lookup"}
              \/ /\ pc' = "scoped" /\ current' = t
                 /\ scope'[t.session] = "accepted" /\ t.dir # "outside"
           /\ \A s \in Sessions :
                 scope'[s] = "accepted" =>
                    scope[s] = "accepted" \/ (s = t.session /\ t.dir = "inside")
    BY <1>1, <1>2, <1>8, TakeEffect
  <2>2. t.dir = "inside" => Evidence(home', captured', t.session, n)
    <3>1. m + 1 \in 1..n
      BY <2>1
    <3> QED
      BY <2>1, <3>1 DEF Evidence
  <2>3. \A s \in Sessions : scope'[s] = "accepted" => Evidence(home', captured', s, n)
    BY <1>3, <2>1, <2>2
  <2>4. posts' = posts
    BY <1>8 DEF Take
  <2> QED
    BY <1>2, <1>4, <2>1, <2>3, <2>4 DEF Scopes
<1>9. CASE LookupDone
  <2>1. PICK info \in {home[current.session], "none"} :
           /\ scope' = [scope EXCEPT ![current.session] = LookupScope(current, info)]
           /\ Settle(current, LookupScope(current, info))
    BY <1>9 DEF LookupDone
  <2>2. /\ current \in Task /\ posts' = posts /\ captured' = captured /\ home' = home
        /\ current # NoTask
    BY <1>9, NoTaskAssumption DEF LookupDone, ControlInv, Control, Resting, TypeOK
  <2>3. current.session \in Sessions /\ scope \in [Sessions -> {"unresolved", "accepted", "rejected"}]
    BY <2>2 DEF Task, ControlInv, TypeOK
  <2>4. PICK verdict : verdict = LookupScope(current, info)
    OBVIOUS
  <2>5. /\ scope'[current.session] = verdict
        /\ \A s \in Sessions : s # current.session => scope'[s] = scope[s]
    BY <2>1, <2>3, <2>4
  <2>6. verdict = "accepted" => home[current.session] = "inside" \/ current.dir = "inside"
    BY <2>4 DEF LookupScope
  <2>7. m = current.id /\ current.id \in 1..Len(captured) /\ captured[current.id] = current
    <3>1. current.id \in 1..(Len(captured) - Len(queue)) /\ captured[current.id] = current
      BY <2>2 DEF History
    <3>2. Len(queue) \in Nat
      BY DEF ControlInv, TypeOK
    <3> QED
      BY <1>1, <2>2, <3>1, <3>2 DEF Last
  <2>8. verdict = "accepted" => Evidence(home', captured', current.session, n)
    <3>1. current.id \in 1..n
      BY <1>2, <2>7
    <3> QED
      BY <2>2, <2>6, <2>7, <3>1 DEF Evidence
  <2>9. \A s \in Sessions : scope'[s] = "accepted" => Evidence(home', captured', s, n)
    BY <1>3, <2>5, <2>8
  <2>10. \/ pc' = "loop"
         \/ /\ pc' = "scoped" /\ current' = current
            /\ verdict = "accepted" /\ current.dir # "outside"
    BY <2>1, <2>4 DEF Settle, Passes
  <2> QED
    BY <1>2, <1>4, <2>2, <2>5, <2>9, <2>10 DEF Scopes
<1>10. ASSUME NEW kind \in {"SessionStart", "event"}, Payload(kind)
       PROVE  Scopes'
  <2>1. /\ Len(posts) \in Nat /\ Len(posts') = Len(posts) + 1
        /\ \A i \in 1..Len(posts) : posts'[i] = posts[i]
        /\ posts'[Len(posts) + 1].id = current.id
        /\ posts'[Len(posts) + 1].session = current.session
        /\ posts'[Len(posts) + 1].dir = current.dir
        /\ current \in Task /\ current # NoTask /\ current' = current
    BY <1>10, PayloadEffect
  <2>2. scope' = scope /\ captured' = captured /\ home' = home
    BY <1>10 DEF Payload
  <2>3. scope[current.session] = "accepted" /\ current.dir # "outside"
    BY <1>10 DEF Payload, Scopes
  <2>4. m = current.id
    BY <1>1, <2>1 DEF Last
  <2>5. Evidence(home', captured', current.session, current.id)
    <3>1. current.session \in Sessions
      BY <2>1 DEF Task
    <3> QED
      BY <1>1, <2>2, <2>3, <2>4, <3>1 DEF Scopes
  <2>6. ASSUME NEW i \in 1..Len(posts')
        PROVE  /\ posts'[i].dir # "outside"
               /\ Evidence(home', captured', posts'[i].session, posts'[i].id)
    <3>1. CASE i = Len(posts) + 1
      BY <2>1, <2>3, <2>5, <3>1
    <3>2. CASE i \in 1..Len(posts)
      BY <1>4, <2>1, <3>2
    <3> QED
      BY <2>1, <3>1, <3>2
  <2> QED
    BY <1>2, <1>3, <2>1, <2>2, <2>3, <2>6 DEF Scopes
<1> QED
  BY <1>6, <1>7, <1>8, <1>9, <1>10, StepEffect

-----------------------------------------------------------------------------
HistoryInv ==
    /\ ControlInv
    /\ History
    /\ Order
    /\ Starts
    /\ Scopes

LEMMA HistoryInit ==
    ASSUME Init
    PROVE  HistoryInv
<1>1. Len(queue) = 0 /\ Len(captured) = 0 /\ Len(posts) = 0 /\ current = NoTask /\ pc = "idle"
  BY DEF Init
<1>2. \A s \in Sessions : ~started[s] /\ scope[s] # "accepted"
  BY DEF Init
<1>3. History
  BY <1>1 DEF History, Numbered, Suffix
<1>4. Order
  BY <1>1 DEF Order, InCaptureOrder
<1>5. Starts
  BY <1>1, <1>2 DEF Starts, SessionStartFirst
<1>6. Scopes
  BY <1>1, <1>2 DEF Scopes
<1> QED
  BY <1>3, <1>4, <1>5, <1>6, ControlInit DEF HistoryInv

LEMMA HistoryHolds == Spec => []HistoryInv
<1>1. Init => HistoryInv
  BY HistoryInit
<1>2. HistoryInv /\ [Next]_vars => HistoryInv'
  <2> SUFFICES ASSUME HistoryInv, [Next]_vars
               PROVE  HistoryInv'
    OBVIOUS
  <2>1. ControlInv /\ History /\ Order /\ Starts /\ Scopes
    BY DEF HistoryInv
  <2>2. ControlInv' /\ History' /\ Order' /\ Starts' /\ Scopes'
    BY <2>1, ControlNext, HistoryNext, OrderNext, StartsNext, ScopesNext
  <2> QED
    BY <2>2 DEF HistoryInv
<1> QED
  BY <1>1, <1>2, PTL DEF Spec

(* Payloads are posted in the order of capture, however captures, lookups, *)
(* requests and close() interleave: one run() at a time takes the queue in *)
(* order, and each task posts its SessionStart before its own payload.     *)
THEOREM PostedInOrder == Spec => []InCaptureOrder
<1>1. HistoryInv => InCaptureOrder
  BY DEF HistoryInv, Order
<1> QED
  BY <1>1, HistoryHolds, PTL

(* Each session's first payload is its SessionStart and it has no other:   *)
(* processTask sets `started' before it awaits the request.                *)
THEOREM StartsFirst == Spec => []SessionStartFirst
<1>1. HistoryInv => SessionStartFirst
  BY DEF HistoryInv, Starts
<1> QED
  BY <1>1, HistoryHolds, PTL

(* resolveScope lets nothing out for an event outside the project, and     *)
(* nothing for a session neither OpenCode nor an event captured so far     *)
(* places inside it, although verdicts are remembered and revised.         *)
THEOREM OnlyProject == Spec => []OnlyProjectSessions
<1>1. HistoryInv => OnlyProjectSessions
  BY DEF HistoryInv, Scopes, OnlyProjectSessions, Evidence
<1> QED
  BY <1>1, HistoryHolds, PTL

-----------------------------------------------------------------------------
(* Refinement: every step of the pipeline is a step of SerialDelivery or   *)
(* leaves its variables alone.                                             *)

Unseen == UNCHANGED <<queue, current, posts, accepting>>

LEMMA SerialInit ==
    ASSUME Init
    PROVE  Serial!SInit
  BY DEF Init, Serial!SInit

\* A task accepted while run() is idle is taken at once: SerialDelivery's Accept either lets
\* it wait or has it in progress, and a task dropped at once leaves nothing.
LEMMA CaptureRefines ==
    ASSUME HistoryInv, NEW s \in Sessions, NEW d \in Dirs, NEW a \in BOOLEAN, Capture(s, d, a)
    PROVE  (\E t \in BoundedTask : Serial!Accept(t)) \/ Unseen
<1> DEFINE t == [id |-> Len(captured) + 1, session |-> s, dir |-> d, activity |-> a]
<1>1. Len(captured) \in Nat /\ queue \in Seq(Task) /\ Len(queue) \in Nat /\ MaxQueue \in Nat
  BY BoundAssumption DEF HistoryInv, ControlInv, TypeOK
<1>2. t \in BoundedTask /\ t \in Task
  BY <1>1, BoundAssumption DEF Capture, BoundedTask, Task
<1>3. /\ accepting /\ ~Full /\ UNCHANGED <<accepting, posts>>
      /\ IF Processing
         THEN queue' = Append(queue, t) /\ UNCHANGED <<current, pc, tracked, scope>>
         ELSE Shift(Append(queue, t))
  BY DEF Capture, closeVars
<1> HIDE DEF t
<1>4. Len(queue) < MaxQueue
  BY <1>1, <1>3 DEF Full, Busy
<1>5. CASE Processing
  BY <1>2, <1>3, <1>4, <1>5 DEF Serial!Accept
<1>6. CASE ~Processing
  <2>1. queue = <<>> /\ current = NoTask
    BY <1>6 DEF HistoryInv, ControlInv, Control, NoTaskStranded, Processing, Resting
  <2>2. /\ Append(queue, t) \in Seq(Task) /\ Append(queue, t) # <<>>
        /\ Head(Append(queue, t)) = t /\ Tail(Append(queue, t)) = <<>>
    BY <1>2, <2>1
  <2>3. queue' = <<>> /\ current' \in {NoTask, t}
    BY <1>3, <1>6, <2>2, ShiftEffect DEF HistoryInv, ControlInv
  <2> QED
    BY <1>2, <1>3, <1>4, <2>1, <2>3 DEF Serial!Accept, Unseen
<1> QED
  BY <1>5, <1>6

\* The flag `started' is SerialDelivery's Announced, and where run() is tells that the
\* task's own payload has not been posted.
LEMMA PayloadRefines ==
    ASSUME HistoryInv, NEW kind \in {"SessionStart", "event"}, Payload(kind),
           accepting' = accepting
    PROVE  Serial!Announce \/ Serial!Emit
<1>1. /\ current \in Task /\ current # NoTask /\ pc \in {"scoped", "start"}
      /\ UNCHANGED <<queue, current, accepting>>
      /\ posts' = Append(posts, Serial!Entry(current, kind))
  BY NoTaskAssumption DEF Payload, Deliver, Serial!Entry
<1>2. current.session \in Sessions
  BY <1>1 DEF Task
<1>3. Serial!Announced(current.session) <=> started[current.session]
  BY <1>2 DEF HistoryInv, Starts, Serial!Announced
<1>4. CASE kind = "SessionStart"
  BY <1>1, <1>3, <1>4 DEF Payload, Serial!Announce
<1>5. CASE kind = "event"
  <2>1. started[current.session]
    BY <1>1, <1>5 DEF Payload, HistoryInv, Starts
  <2>2. ~\E i \in 1..Len(posts) : posts[i].id = current.id /\ posts[i].kind = "event"
    BY <1>1 DEF HistoryInv, Order
  <2> QED
    BY <1>1, <1>3, <1>5, <2>1, <2>2 DEF Serial!Emit
<1> QED
  BY <1>4, <1>5

LEMMA ResumeRefines ==
    ASSUME HistoryInv, Resume \/ StartDone
    PROVE  Serial!Announce \/ Serial!Emit \/ Serial!Done
<1>1. /\ pc \in {"scoped", "start"} /\ current \in Task /\ current # NoTask
      /\ UNCHANGED <<queue, accepting>>
  BY NoTaskAssumption DEF Resume, StartDone, closeVars, HistoryInv, ControlInv, Control, Resting, TypeOK
<1>2. CASE pc' = "loop" /\ current' = NoTask /\ UNCHANGED posts
  BY <1>1, <1>2 DEF Serial!Done
<1>3. CASE Payload("SessionStart") \/ Payload("event")
  BY <1>1, <1>3, PayloadRefines
<1>4. UNCHANGED <<scope, home, captured>>
  BY DEF Resume, StartDone, sessionVars
<1>5. CASE Resume /\ StartSession
  BY <1>1, <1>3, <1>4, <1>5 DEF Resume, StartSession, Payload
<1>6. CASE Apply /\ UNCHANGED started /\ (pc = "scoped" => ~(current.activity /\ ~started[current.session]))
  <2>1. CASE current.activity /\ pc' = "event" /\ Deliver("event") /\ UNCHANGED current
    BY <1>1, <1>3, <1>4, <1>6, <2>1 DEF Payload
  <2> QED
    BY <1>2, <1>6, <2>1 DEF Apply
<1> QED
  BY <1>5, <1>6 DEF Resume, StartDone, sessionVars

LEMMA StepRefines ==
    ASSUME HistoryInv, [Next]_vars
    PROVE  [Serial!SNext]_(Serial!svars)
<1> USE DEF Serial!SNext, Serial!svars
<1>1. CASE UNCHANGED vars
  BY <1>1 DEF vars
<1>2. CASE \E s \in Sessions, d \in Dirs, a \in BOOLEAN : Capture(s, d, a)
  BY <1>2, CaptureRefines DEF Unseen
<1>3. CASE LookupDone
  <2>1. current # NoTask /\ current' \in {current, NoTask} /\ UNCHANGED <<queue, posts, accepting>>
    BY <1>3 DEF LookupDone, Settle, closeVars, HistoryInv, ControlInv, Control, Resting
  <2> QED
    BY <2>1 DEF Serial!Done
<1>4. CASE Resume \/ StartDone
  BY <1>4, ResumeRefines
<1>5. CASE EventDone
  <2>1. current # NoTask
    BY <1>5 DEF EventDone, HistoryInv, ControlInv, Control, Resting
  <2> QED
    BY <1>5, <2>1 DEF EventDone, closeVars, Serial!Done
<1>6. CASE (Loop \/ Finally) /\ Work
  <2>1. Shift(queue) /\ queue # <<>> /\ UNCHANGED <<posts, accepting>>
    BY <1>6 DEF Loop, Finally, Work, closeVars
  <2>2. current = NoTask
    BY <1>6 DEF Loop, Finally, HistoryInv, ControlInv, Control, Resting
  <2>3. queue' = Tail(queue) /\ current' \in {Head(queue), NoTask}
    BY <2>1, ShiftEffect DEF HistoryInv, ControlInv, TypeOK
  <2> QED
    BY <2>1, <2>2, <2>3 DEF Serial!Take
<1>7. CASE (Loop \/ Finally) /\ ~Work
  BY <1>7 DEF Loop, Finally, closeVars
<1>8. CASE Close
  <2>1. accepting' = FALSE /\ queue' \in {queue, <<>>} /\ UNCHANGED <<current, posts>>
    BY <1>8 DEF Close, CloseBegin, CloseResume, CloseTimeout, GraceEnd, Shut, HistoryInv,
                ControlInv, Control
  <2> QED
    BY <2>1 DEF Serial!Stop
<1> QED
  BY <1>1, <1>2, <1>3, <1>4, <1>5, <1>6, <1>7, <1>8 DEF Next, Close

(* The pipeline implements SerialDelivery: with all its awaits, scope      *)
(* lookups and timers it handles accepted tasks one at a time, in order,   *)
(* and posts for each at most the SessionStart owed and then one payload.  *)
THEOREM ImplementsSerialDelivery == Spec => SerialDeliveryHolds
<1>1. Init => Serial!SInit
  BY SerialInit
<1>2. HistoryInv /\ [Next]_vars => [Serial!SNext]_(Serial!svars)
  BY StepRefines
<1> QED
  BY <1>1, <1>2, HistoryHolds, PTL DEF Spec, SerialDeliveryHolds, Serial!SSpec
=============================================================================
