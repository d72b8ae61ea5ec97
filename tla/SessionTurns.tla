----------------------------- MODULE SessionTurns -----------------------------
(***************************************************************************)
(* The session accumulator of the OpenCode plugin (class                   *)
(* SessionAccumulator of opencode-plugin/src/index.ts): what the tasks of  *)
(* one session make of its hooks and events once the capture pipeline      *)
(* applies them, one after the other.                                      *)
(*                                                                         *)
(* Hooks and the event stream are two channels, and the pipeline may       *)
(* refuse what either brings, so the accumulator meets events in any order *)
(* with any of them missing: `log' is what was applied so far.  The n-th   *)
(* of them has the message id or event id n; 0 stands for undefined.       *)
(***************************************************************************)
EXTENDS Naturals, Sequences

CONSTANTS
    Inputs,     \* the hook calls and events OpenCode may produce
    Messages,   \* assistant message ids
    Names,      \* agents, titles, models and providers
    None,       \* an absent message, name or session detail
    MaxEvents   \* model bound: the length of a session

Fields == {"agent", "title", "model", "provider"}
Metadata == [Fields -> Names \cup {None}]

Event ==
    [kind    : {"prompt", "before", "after", "started", "text", "step", "finish", "metadata"},
     queue   : BOOLEAN,                   \* prompt: delivery is "queue"
     settled : BOOLEAN,                   \* before: TRUE; after: the status is a known one
     message : Messages \cup {None},      \* text: assistantMessageID, None also without a text
     ordinal : Nat,                       \* text
     blank   : BOOLEAN,                   \* text: nothing but spaces
     tokens  : BOOLEAN,                   \* step: readTokenUsage finds usage
     meta    : Metadata]                  \* what a metadata event or a tool hook tells

ASSUME InputsAssumption == Inputs \subseteq Event
ASSUME NoneAssumption == None \notin Names \cup Messages
ASSUME MaxEventsAssumption == MaxEvents \in Nat

VARIABLES
    active,     \* state.activeTurn, a turn with id 0 if there is none
    pending,    \* state.pendingTurnID
    meta,       \* state.agent, title, model and provider
    log,        \* history: the events applied
    posts       \* history: the payloads returned

vars == <<active, pending, meta, log, posts>>

Part == [message : Messages, ordinal : Nat, blank : BOOLEAN, at : Nat]
Turn == [id : Nat, steps : SUBSET Nat, parts : SUBSET Part, last : SUBSET Part]
Payload == [hook : {"UserPromptSubmit", "PreToolUse", "PostToolUse", "Stop"},
            turn : Nat, at : Nat, steps : SUBSET Nat, last : SUBSET Part, meta : Metadata]

TypeOK ==
    /\ active \in Turn
    /\ pending \in Nat
    /\ meta \in Metadata
    /\ log \in Seq(Event)
    /\ posts \in Seq(Payload)

\* Usage is the set of steps summed, lastAssistantMessage the set of parts joined.
CreateTurn(id) == [id |-> id, steps |-> {}, parts |-> {}, last |-> {}]

Init ==
    /\ active = CreateTurn(0)
    /\ pending = 0
    /\ meta = [f \in Fields |-> None]
    /\ log = <<>>
    /\ posts = <<>>

-----------------------------------------------------------------------------
Now == Len(log) + 1    \* the id of the event applied next

Read(e) ==
    /\ Len(log) < MaxEvents
    /\ log' = Append(log, e)

\* A payload that carries runtime metadata m.
Base(hook, id, m) ==
    [hook |-> hook, turn |-> id, at |-> Now, steps |-> {}, last |-> {}, meta |-> m]

\* Does the prompt wait for a turn of its own, or join the active one?
PromptOwn(e) == active.id = 0 \/ e.queue

Prompt(e) ==
    /\ e.kind = "prompt"
    /\ Read(e)
    /\ pending' = IF PromptOwn(e) THEN Now ELSE pending
    /\ posts' = Append(posts, Base("UserPromptSubmit",
                                   IF PromptOwn(e) THEN Now ELSE active.id, meta))
    /\ UNCHANGED <<active, meta>>

\* The details m with the agent the hook names, if it names one.
WithOwnAgent(e, m) == [m EXCEPT !["agent"] = IF e.meta["agent"] # None THEN e.meta["agent"] ELSE @]

\* Mutant: a tool's agent replaces the one selected.
WithToolAgentAlways(e) == WithOwnAgent(e, meta)

WithToolAgent(e) == [meta EXCEPT !["agent"] = IF @ = None THEN e.meta["agent"] ELSE @]

\* toolBefore and toolAfter; turn 0 is the message id the hook itself gives.  The payload
\* names the agent the hook names even when the session keeps another.
Tool(e) ==
    /\ e.kind \in {"before", "after"}
    /\ Read(e)
    /\ meta' = WithToolAgent(e)
    /\ posts' = IF e.settled
                THEN Append(posts, Base(IF e.kind = "before" THEN "PreToolUse" ELSE "PostToolUse",
                                        IF active.id # 0 THEN active.id ELSE pending,
                                        WithOwnAgent(e, meta')))
                ELSE posts
    /\ UNCHANGED <<active, pending>>

-----------------------------------------------------------------------------
(* openCodeEvent.                                                          *)

\* session.agent.selected, session.model.selected, session.renamed, and the answer of the
\* session lookup: each replaces the details it has.
Selected(e) ==
    /\ e.kind = "metadata"
    /\ Read(e)
    /\ meta' = [f \in Fields |-> IF e.meta[f] # None THEN e.meta[f] ELSE meta[f]]
    /\ UNCHANGED <<active, pending, posts>>

\* Mutant: the turn is named after the event, and the prompt waiting for it is forgotten.
StartedIDOfEvent == Now

StartedID == IF pending # 0 THEN pending ELSE Now

Started(e) ==
    /\ e.kind = "started"
    /\ Read(e)
    /\ active' = CreateTurn(StartedID)
    /\ pending' = 0
    /\ UNCHANGED <<meta, posts>>

\* Mutant: an event makes a turn whether there is one or not.
EnsuredAnew(fallback) == CreateTurn(IF pending # 0 THEN pending ELSE fallback)

\* ensureTurn: the active turn, or a new one for the waiting prompt or for the event.
Ensured(fallback) ==
    IF active.id # 0 THEN active
    ELSE CreateTurn(IF pending # 0 THEN pending ELSE fallback)
EnsuredPending == IF active.id # 0 THEN pending ELSE 0

\* Mutant: an empty message is remembered, too.
RecordBlankText(turn, e) ==
    LET part == [message |-> e.message, ordinal |-> e.ordinal, blank |-> e.blank, at |-> Now]
        parts == {p \in turn.parts : ~(p.message = e.message /\ p.ordinal = e.ordinal)} \cup {part}
    IN  [turn EXCEPT !.parts = parts, !.last = {p \in parts : p.message = e.message}]

\* A part replaces the one with its ordinal; a message that is not blank is the last one.
RecordAssistantText(turn, e) ==
    LET part == [message |-> e.message, ordinal |-> e.ordinal, blank |-> e.blank, at |-> Now]
        parts == {p \in turn.parts : ~(p.message = e.message /\ p.ordinal = e.ordinal)} \cup {part}
        joined == {p \in parts : p.message = e.message}
    IN  [turn EXCEPT !.parts = parts,
                     !.last = IF \E p \in joined : ~p.blank THEN joined ELSE @]

TextEnded(e) ==
    /\ e.kind = "text"
    /\ Read(e)
    /\ active' = IF e.message # None THEN RecordAssistantText(Ensured(Now), e) ELSE Ensured(Now)
    /\ pending' = EnsuredPending
    /\ UNCHANGED <<meta, posts>>

AddUsage(turn, e) == IF e.tokens THEN [turn EXCEPT !.steps = @ \cup {Now}] ELSE turn

StepEnded(e) ==
    /\ e.kind = "step"
    /\ Read(e)
    /\ active' = AddUsage(Ensured(Now), e)
    /\ pending' = EnsuredPending
    /\ UNCHANGED <<meta, posts>>

\* Mutant: the turn stays active.
AfterStopSame == Ensured(0)

\* Mutant: the waiting prompt is not consumed.
PendingAfterStopKept == pending

AfterStop == CreateTurn(0)
PendingAfterStop == EnsuredPending

\* The end of an execution, or the session being idle: a Stop if there is a turn or a
\* prompt waiting for one.
FinishTurn(e) ==
    LET turn == Ensured(0) IN
    /\ e.kind = "finish"
    /\ Read(e)
    /\ IF turn.id # 0
       THEN /\ posts' = Append(posts, [Base("Stop", turn.id, meta)
                                          EXCEPT !.steps = turn.steps, !.last = turn.last])
            /\ active' = AfterStop
            /\ pending' = PendingAfterStop
       ELSE UNCHANGED <<active, pending, posts>>
    /\ UNCHANGED meta

Next ==
    \E e \in Inputs :
        \/ Prompt(e)
        \/ Tool(e)
        \/ Selected(e)
        \/ Started(e)
        \/ TextEnded(e)
        \/ StepEnded(e)
        \/ FinishTurn(e)

Spec == Init /\ [][Next]_vars

-----------------------------------------------------------------------------
(* What the accumulator guarantees, in terms of the events it was given.   *)

\* A turn begins anew after these.
Boundary(k) == log[k].kind \in {"started", "finish"}

\* The events of the turn that event j belongs to or ends.
TurnBefore(j) == {k \in 1..(j - 1) : \A b \in k..(j - 1) : ~Boundary(b)}

StepsBefore(j) == {k \in TurnBefore(j) : log[k].kind = "step" /\ log[k].tokens}

Stops == {i \in 1..Len(posts) : posts[i].hook = "Stop"}

\* No turn is stopped twice, whatever end of execution, idle and prompt events meet.
OneStopPerTurn ==
    \A i, j \in Stops : posts[i].turn = posts[j].turn => i = j

\* A Stop reports the usage of exactly the steps since the last start or end of an
\* execution, and no end is without its Stop when there were such steps: a step is counted
\* in one turn at most.
StopsReportSteps ==
    /\ \A i \in Stops : posts[i].steps = StepsBefore(posts[i].at)
    /\ \A j \in 1..Len(log) :
          log[j].kind = "finish" /\ StepsBefore(j) # {} => \E i \in Stops : posts[i].at = j

\* A Stop of a prompt's turn comes after that prompt, and no prompt joins a turn that was
\* stopped.
StopsAnswerPrompts ==
    \A i \in Stops :
        /\ log[posts[i].turn].kind = "prompt" =>
              \E j \in 1..(i - 1) : /\ posts[j].hook = "UserPromptSubmit"
                                    /\ posts[j].at = posts[i].turn
                                    /\ posts[j].turn = posts[i].turn
        /\ \A j \in (i + 1)..Len(posts) :
              posts[j].hook = "UserPromptSubmit" => posts[j].turn # posts[i].turn

\* A waiting prompt is given a turn of its own or makes room for a later prompt; it is
\* never forgotten.
PendingOpensTurn ==
    [][pending # 0 /\ pending' = 0 =>
          \/ active'.id = pending
          \/ /\ Len(posts') = Len(posts) + 1
             /\ posts'[Len(posts')].hook = "Stop"
             /\ posts'[Len(posts')].turn = pending]_vars

\* The texts of the turn up to event k that are the latest of their message and ordinal.
TextsUpTo(j, k) ==
    LET texts == {i \in TurnBefore(j) : i <= k /\ log[i].kind = "text" /\ log[i].message = log[k].message}
    IN  {i \in texts : \A l \in texts : l > i => log[l].ordinal # log[i].ordinal}

Speaking(j) ==
    {k \in TurnBefore(j) : /\ log[k].kind = "text" /\ log[k].message # None
                           /\ \E i \in TextsUpTo(j, k) : ~log[i].blank}

\* last_assistant_message is the message last added to that was not blank then, whole and
\* with each part in its latest version, in whatever order parts and messages came.
LastMessageIsLatest ==
    \A i \in Stops :
        LET j == posts[i].at IN
        {p.at : p \in posts[i].last} =
            UNION {TextsUpTo(j, k) : k \in {k \in Speaking(j) : \A l \in Speaking(j) : l <= k}}

\* Of every detail a payload has the value last selected; before one was, the agent is that
\* of the first tool call to name one.  Only the payload of a tool call that names an agent
\* has that agent, whatever was selected, and no later payload has it for that.
MetadataIsLatest ==
    \A i \in 1..Len(posts), f \in Fields :
        LET told == {k \in 1..posts[i].at : log[k].meta[f] # None}
            chosen == {k \in told : log[k].kind = "metadata"}
            first == {k \in told : log[k].kind \in {"before", "after"} /\ f = "agent"}
        IN  posts[i].meta[f] =
              IF posts[i].at \in first THEN log[posts[i].at].meta[f]
              ELSE IF chosen # {} THEN log[CHOOSE k \in chosen : \A l \in chosen : l <= k].meta[f]
              ELSE IF first # {} THEN log[CHOOSE k \in first : \A l \in first : k <= l].meta[f]
              ELSE None
=============================================================================
