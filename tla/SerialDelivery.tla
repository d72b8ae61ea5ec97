---------------------------- MODULE SerialDelivery ----------------------------
(***************************************************************************)
(* What the plugin's capture pipeline promises, whatever its awaits,       *)
(* scope lookups and timers do: accepted tasks are handled one at a time   *)
(* in the order they were accepted; handling one posts at most a           *)
(* SessionStart, if the session has none yet, and then at most one         *)
(* payload, never before the session's SessionStart; a stop discards what  *)
(* waits and the task being handled may still finish.                      *)
(***************************************************************************)
EXTENDS Naturals, Sequences

CONSTANTS Task, NoTask, Capacity

VARIABLES waiting, active, log, open

svars == <<waiting, active, log, open>>

Announced(s) == \E i \in 1..Len(log) : log[i].kind = "SessionStart" /\ log[i].session = s

Entry(t, kind) == [id |-> t.id, session |-> t.session, dir |-> t.dir, kind |-> kind]

SInit ==
    /\ waiting = <<>>
    /\ active = NoTask
    /\ log = <<>>
    /\ open = TRUE

\* An accepted task waits behind the others, or is handled or dropped at once.
Accept(t) ==
    /\ open
    /\ Len(waiting) < Capacity
    /\ \/ waiting' = Append(waiting, t) /\ active' = active
       \/ waiting = <<>> /\ active = NoTask /\ waiting' = waiting /\ active' = t
    /\ UNCHANGED <<log, open>>

\* The oldest task is taken, or dropped without a trace.
Take ==
    /\ active = NoTask
    /\ waiting # <<>>
    /\ active' \in {Head(waiting), NoTask}
    /\ waiting' = Tail(waiting)
    /\ UNCHANGED <<log, open>>

Announce ==
    /\ active # NoTask
    /\ ~Announced(active.session)
    /\ log' = Append(log, Entry(active, "SessionStart"))
    /\ UNCHANGED <<waiting, active, open>>

Emit ==
    /\ active # NoTask
    /\ Announced(active.session)
    /\ ~\E i \in 1..Len(log) : log[i].id = active.id /\ log[i].kind = "event"
    /\ log' = Append(log, Entry(active, "event"))
    /\ UNCHANGED <<waiting, active, open>>

Done ==
    /\ active # NoTask
    /\ active' = NoTask
    /\ UNCHANGED <<waiting, log, open>>

\* Stopping closes the entrance for good; what waits may be discarded.
Stop ==
    /\ open' = FALSE
    /\ waiting' \in {waiting, <<>>}
    /\ UNCHANGED <<active, log>>

SNext ==
    \/ \E t \in Task : Accept(t)
    \/ Take
    \/ Announce
    \/ Emit
    \/ Done
    \/ Stop

SSpec == SInit /\ [][SNext]_svars
=============================================================================
