--------------------------- MODULE SessionAnalysis ---------------------------
(***************************************************************************)
(* The saved analysis of one session (server/analysis.go,                  *)
(* storage/analysis.go, trace/analysis.go): an annotation and an           *)
(* evaluation, posted independently of each other, checked by the API and  *)
(* upserted into one document, of which each save sets one half.           *)
(*                                                                         *)
(* An annotation is [schema, rows, coverage, gaps]: per category its       *)
(* records [event, labels], the counts it states of each category (<<>>    *)
(* when it states none), and the number of capture gaps.  An evaluation is *)
(* [schema, improvements], an improvement [type, path]: what is between    *)
(* the slashes of its path, <<>> when that is blank, so that <<".", "a">>  *)
(* is "./a" and <<"a", "">> is "a/".  Names are compared without case, and *)
(* backslashes, which both programs read as slashes, and colons, which the *)
(* API refuses, are left out; so are texts, verdicts that are only shown,  *)
(* other ids and updated_at.                                               *)
(***************************************************************************)
EXTENDS Naturals, Sequences, FiniteSets

CONSTANTS
    Annotations,  \* the annotations that are posted
    Evaluations,  \* the evaluations that are posted
    Markdown,     \* of the names in their paths, those ending in .md
    MaxSaves      \* bound on the saves posted

Halves == {"annotation", "evaluation"}
Categories == {"user_turns", "turns", "tools", "skills", "files"}

ASSUME SavesAssumption ==
    /\ MaxSaves \in Nat
    /\ \A a \in Annotations : \A c \in Categories :
          Len(a.rows[c]) \in Nat /\ DOMAIN a.rows[c] = 1..Len(a.rows[c])

InstructionRoots ==
    {".agents", ".codex", ".claude", ".cursor", ".github", ".opencode", ".windsurf"}

ASSUME PathsAssumption ==
    /\ \A e \in Evaluations : \A i \in DOMAIN e.improvements : e.improvements[i].path \in Seq(STRING)
    /\ "AGENTS.md" \in Markdown
    /\ Markdown \cap (InstructionRoots \cup {"", ".", ".."}) = {}

VARIABLES
    saves,     \* the saves posted, in order: [half, value, step, before]
    document   \* per half the save it was set by, 0 while it is not recorded

apiVars == <<saves, document>>

-----------------------------------------------------------------------------
\* The checks of a posted analysis

Verdicts == {"yes", "no", "unclear"}

Allowed ==
    [signalType |-> {"request", "constraint", "clarification", "correction", "approval",
                     "rejection", "feedback", "other", "unclear"},
     followsInstructions |-> Verdicts,
     performance |-> {"improved", "neutral", "worsened", "unclear"},
     scopeAdherence |-> {"within_scope", "deviation", "unclear"},
     groundedness |-> {"supported", "unsupported", "unclear"},
     verification |-> {"verified", "not_verified", "not_applicable", "unclear"},
     completionStatus |-> {"completed", "incomplete", "failed", "unknown"},
     necessary |-> Verdicts]

\* The labels every record of a category has, and those only version 2 asks for.
Required(c) == CASE c = "user_turns" -> {"signalType"}
                 [] c = "turns" -> {"followsInstructions", "performance"}
                 [] OTHER -> {"necessary"}
RequiredByV2(c) == CASE c = "turns" -> {"scopeAdherence", "groundedness", "verification"}
                     [] c = "tools" -> {"completionStatus"}
                     [] OTHER -> {}

ValidRecord(c, r) ==
    /\ Required(c) \subseteq DOMAIN r.labels
    /\ DOMAIN r.labels \subseteq Required(c) \cup RequiredByV2(c)
    /\ \A f \in DOMAIN r.labels \ {"completionStatus"} : r.labels[f] \in Allowed[f]

\* At least one decision of the record is open.
IsUnclear(r) ==
    \E f \in DOMAIN r.labels :
        r.labels[f] = (IF f = "completionStatus" THEN "unknown" ELSE "unclear")

UnclearRows(rows) == Cardinality({i \in DOMAIN rows : IsUnclear(rows[i])})

\* Mutant: the counts are compared with one another only.
CategoryCoveredByClaim(stated, rows) ==
    stated.captured = stated.labeled /\ stated.unclear <= stated.labeled

CategoryCovered(stated, rows) ==
    /\ stated.captured = stated.labeled
    /\ stated.labeled = Len(rows)
    /\ stated.unclear = UnclearRows(rows)

ValidV2(a) ==
    \A c \in Categories :
        /\ \A i, j \in DOMAIN a.rows[c] : a.rows[c][i].event = a.rows[c][j].event => i = j
        /\ \A i \in DOMAIN a.rows[c], f \in RequiredByV2(c) :
              LET labels == a.rows[c][i].labels IN f \in DOMAIN labels /\ labels[f] \in Allowed[f]
        /\ c \in DOMAIN a.coverage
        /\ CategoryCovered(a.coverage[c], a.rows[c])

\* The version is read without the blanks around it, but only an exact "2" is held to the
\* rules of version 2.
ValidAnnotation(a) ==
    /\ a.schema \in {"1", "2", " 2"}
    /\ \A c \in Categories : \A i \in DOMAIN a.rows[c] : ValidRecord(c, a.rows[c][i])
    /\ a.schema = "2" => ValidV2(a)

\* path.Clean: without empty names and dots, and with each name before a ".." taken back.
Shorter(clean, name) ==
    LET n == Len(clean) IN
    CASE name \in {"", "."} -> clean
      [] name = ".." /\ n > 0 /\ clean[n] # ".." -> SubSeq(clean, 1, n - 1)
      [] OTHER -> Append(clean, name)

Cleaning(path) ==
    LET clean[n \in 0..Len(path)] ==
            IF n = 0 THEN <<>> ELSE Shorter(clean[n - 1], path[n])
    IN  clean

Clean(path) == Cleaning(path)[Len(path)]

\* Relative, inside the project, and markdown in one of the directories or AGENTS.md.
IsAgentInstructionPath(path) ==
    LET clean == Clean(path) IN
    /\ Len(path) > 0 /\ path[1] # ""
    /\ Len(clean) > 0 /\ clean[Len(clean)] \in Markdown
    /\ clean = <<"AGENTS.md">> \/ clean[1] \in InstructionRoots

\* The directory is looked for in the path as it was posted.
IsUnder(directory, path) == \E k \in 2..Len(path) - 1 : path[k] = directory

ValidImprovement(m) ==
    /\ m.type \in {"agent_behavior", "agent_instructions", "skill_instructions",
                  "workflow_instructions"}
    /\ IsAgentInstructionPath(m.path) \/ (m.type = "agent_behavior" /\ m.path = <<>>)
    /\ m.type = "skill_instructions" => IsUnder("skills", m.path)
    /\ m.type = "workflow_instructions" => IsUnder("workflows", m.path)

ValidEvaluation(e) ==
    /\ e.schema \in {"1", "2", " 2"}
    /\ \A i \in DOMAIN e.improvements :
          IF e.schema = "2"
          THEN ValidImprovement(e.improvements[i])
          ELSE e.improvements[i].path # <<>>

Valid(save) ==
    IF save.half = "annotation" THEN ValidAnnotation(save.value) ELSE ValidEvaluation(save.value)

-----------------------------------------------------------------------------
\* The API

ApiInit ==
    /\ saves = <<>>
    /\ document = [h \in Halves |-> 0]

\* The saves whose requests are over, in the client's eyes too.
Settled == {i \in DOMAIN saves : saves[i].step \in {"saved", "refused", "failed", "applied"}}

\* The skills that post an analysis: any time, over an earlier one, and again.
Post(h, v) ==
    /\ Len(saves) < MaxSaves
    /\ saves' = Append(saves, [half |-> h, value |-> v, step |-> "posted", before |-> Settled])
    /\ UNCHANGED document

\* The handler, up to the database: normalise, check, refuse with 400.
Check(i) ==
    /\ saves[i].step = "posted"
    /\ saves' = [saves EXCEPT ![i].step = IF Valid(saves[i]) THEN "writing" ELSE "refused"]
    /\ UNCHANGED document

\* Mutant: the document is replaced by one with the half saved.
UpsertWhole(i) == document' = [[h \in Halves |-> 0] EXCEPT ![saves[i].half] = i]

\* One update of one document, atomic in the database: $set of the half.
Upsert(i) == document' = [document EXCEPT ![saves[i].half] = i]

\* The update is acknowledged.
Write(i) ==
    /\ saves[i].step = "writing"
    /\ saves' = [saves EXCEPT ![i].step = "saved"]
    /\ Upsert(i)

\* Or its call returns an error: the client is told that the save failed.
WriteFails(i) ==
    /\ saves[i].step = "writing"
    /\ saves' = [saves EXCEPT ![i].step = "failed"]
    /\ UNCHANGED document

\* The database may still apply an update whose call failed, at once or after other saves.
ApplyLate(i) ==
    /\ saves[i].step = "failed"
    /\ saves' = [saves EXCEPT ![i].step = "applied"]
    /\ Upsert(i)

ApiNext ==
    \/ \E a \in Annotations : Post("annotation", a)
    \/ \E e \in Evaluations : Post("evaluation", e)
    \/ \E i \in DOMAIN saves : Check(i) \/ Write(i) \/ WriteFails(i) \/ ApplyLate(i)

ApiSpec == ApiInit /\ [][ApiNext]_apiVars

-----------------------------------------------------------------------------
\* Properties

Save == [half : Halves, value : Annotations \cup Evaluations,
         step : {"posted", "writing", "refused", "saved", "failed", "applied"},
         before : SUBSET (1..MaxSaves)]

ApiTypeOK ==
    /\ saves \in Seq(Save) /\ Len(saves) <= MaxSaves
    /\ document \in [Halves -> 0..MaxSaves]

\* A save answered with success stays: whatever other saves run beside it, of either half,
\* its half is recorded, and not by a save that was over before this one was posted, unless
\* that one was answered with a failure.
SavesStick ==
    \A i \in DOMAIN saves :
        saves[i].step = "saved" =>
            LET last == document[saves[i].half] IN
            /\ last # 0
            /\ last \in saves[i].before => saves[last].step = "applied"

\* Only what passed the checks is stored, in the half it was posted for.
StoredIsChecked ==
    \A h \in Halves :
        document[h] # 0 =>
            /\ document[h] \in DOMAIN saves
            /\ saves[document[h]].half = h
            /\ Valid(saves[document[h]])
=============================================================================
