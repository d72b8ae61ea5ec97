-------------------------- MODULE MCAnnotationPanel --------------------------
(* Small analyses: tool calls and agent turns only, one page being a record. *)
EXTENDS AnnotationPanel

Tool(e, necessary) ==
    [event |-> e, labels |-> [necessary |-> necessary, completionStatus |-> "completed"]]
Turn(e, follows) ==
    [event |-> e, labels |-> [followsInstructions |-> follows, performance |-> "neutral",
                              scopeAdherence |-> "within_scope",
                              groundedness |-> "supported", verification |-> "verified"]]
OldTurn(e) ==
    [event |-> e, labels |-> [followsInstructions |-> "no", performance |-> "unclear"]]

WithRows(tools, turns) ==
    [c \in Categories |-> CASE c = "tools" -> tools [] c = "turns" -> turns [] OTHER -> <<>>]
Covered(rows, more) ==
    [c \in Categories |-> [captured |-> Len(rows[c]) + more, labeled |-> Len(rows[c]) + more,
                           unclear |-> UnclearRows(rows[c])]]

Reviewed == WithRows(<<Tool("e1", "yes"), Tool("e2", "unclear"), Tool("e3", "yes")>>,
                     <<Turn("e4", "no")>>)

\* A complete annotation, one of version 1, and annotations whose counts are wrong with the
\* version stated exactly and with a blank before it.
MCAnnotations ==
    {[schema |-> "2", rows |-> Reviewed, coverage |-> Covered(Reviewed, 0), gaps |-> 1],
     [schema |-> "1", rows |-> WithRows(<<>>, <<OldTurn("e4"), OldTurn("e4")>>),
      coverage |-> <<>>, gaps |-> 0],
     [schema |-> "2", rows |-> Reviewed, coverage |-> Covered(Reviewed, 1), gaps |-> 0],
     [schema |-> " 2", rows |-> Reviewed, coverage |-> Covered(Reviewed, 1), gaps |-> 0]}

MCDecisions == {AllDecisions, <<"necessary", "yes">>, <<"followsInstructions", "no">>}

To(type, path) == [type |-> type, path |-> path]

\* Improvements the API accepts, spelt in all ways that differ for it or for the panel, and
\* one outside the agent's directories.
MCEvaluations ==
    {[schema |-> "2", improvements |->
        <<To("agent_behavior", <<>>), To("agent_behavior", <<".github", "a.md">>),
          To("agent_instructions", <<"AGENTS.md">>),
          To("agent_instructions", <<".", "AGENTS.md">>),
          To("agent_instructions", <<"docs", "..", "AGENTS.md">>),
          To("agent_instructions", <<"docs", "..", ".codex", "", "a.md">>),
          To("agent_instructions", <<".", ".", ".agents", "..", ".claude", ".md", "..", "a.md">>),
          To("agent_instructions", <<".opencode", ".cursor", ".", "a.md">>),
          To("agent_instructions", <<".cursor", ".md">>),
          To("agent_instructions", <<".windsurf", "a.md">>),
          To("skill_instructions", <<".agents", "skills", "a.md">>),
          To("workflow_instructions", <<".claude", "workflows", "a.md", "">>)>>],
     [schema |-> "2", improvements |-> <<To("agent_instructions", <<".agents", "..", "..", ".agents", "a.md">>)>>]}

MCMarkdown == {"AGENTS.md", "CLAUDE.md", "CODEX.md", "a.md", ".md"}
=============================================================================
