--------------------------- MODULE AnnotationPanel ---------------------------
(***************************************************************************)
(* The annotation of the saved analysis as the evaluation page shows it    *)
(* (sessionAnalysis.js, components/InsightCards.jsx): normalised from the  *)
(* API's answer, filtered by evidence type and decision, each category's   *)
(* matching records in a list that starts with one page.                   *)
(***************************************************************************)
EXTENDS SessionAnalysis

CONSTANTS
    PageSize,   \* records a list starts with, and those "Load more" adds
    Decisions,  \* bound: the decisions chosen of those the select offers
    None

AllDecisions == <<"all", "all">>

\* One of the labels that can be stored is not among the options.
DecisionOptions ==
    {AllDecisions} \cup
    {o \in {"followsInstructions", "scopeAdherence", "groundedness", "verification",
            "performance", "necessary"} \X UNION {Allowed[f] : f \in DOMAIN Allowed} :
        o[2] \in Allowed[o[1]] /\ o # <<"verification", "unclear">>}

ASSUME PanelAssumption == PageSize \in Nat \ {0} /\ Decisions \subseteq DecisionOptions

VARIABLES
    page,           \* the document as it was read, None while the page is closed
    evidenceType,
    decision,       \* <<field, value>>, or AllDecisions
    lists,          \* per category the state of its list: [key, count]
    asked           \* history: the <<category, selection>> "Load more" was pressed for

panelVars == <<page, evidenceType, decision, lists, asked>>
vars == <<saves, document, page, evidenceType, decision, lists, asked>>

EvidenceTypes == Categories \cup {"all", "capture_gaps"}

-----------------------------------------------------------------------------
\* Normalisation of the annotation

Recorded == page # None /\ page["annotation"] # 0
Annotation == saves[page["annotation"]].value

IsV2(a) == a.schema \in {"2", " 2"}

\* The evaluation page has no trace to count captured records in, so only version 2 tells
\* how many there were.
Counts(a, c) ==
    LET rows == a.rows[c]
        open == {i \in DOMAIN rows :
                    \E f \in DOMAIN rows[i].labels \ {"signalType", "completionStatus"} :
                        rows[i].labels[f] = "unclear"}
    IN  IF IsV2(a) /\ c \in DOMAIN a.coverage
        THEN a.coverage[c]
        ELSE [labeled |-> Len(rows), unclear |-> Cardinality(open),
              captured |-> IF IsV2(a) THEN Len(rows) ELSE None]

Breakdowns(c) == (Required(c) \cup RequiredByV2(c)) \ {"signalType", "completionStatus"}

\* The path as it is read: one "./" before it is dropped, nothing else is cleaned.
NormalizedPath(path) ==
    IF Len(path) > 1 /\ path[1] = "." THEN SubSeq(path, 2, Len(path)) ELSE path

AgentDirectories == {".agents", ".codex", ".claude", ".cursor"}

\* What follows the last agent directory that stands inside the path, with that directory.
AgentRelativePath(path) ==
    LET normal == NormalizedPath(path)
        starts == {1} \cup {k \in 2..Len(normal) - 1 : normal[k] \in AgentDirectories}
    IN  SubSeq(normal, CHOOSE k \in starts : \A j \in starts : j <= k, Len(normal))

InAgentDirectory(relative) ==
    LET n == Len(relative) IN
    /\ n > 1 /\ relative[1] \in AgentDirectories
    /\ relative[n] \in Markdown /\ relative # <<relative[1], ".md">>

\* Mutant: files at the top of the project are taken for its source.
TargetInDirectory(path) == InAgentDirectory(AgentRelativePath(path))

\* Paths that are recognised as agent instructions.
InstructionPathTarget(path) ==
    LET relative == AgentRelativePath(path) IN
    \/ relative \in {<<"AGENTS.md">>, <<"CLAUDE.md">>, <<"CODEX.md">>}
    \/ InAgentDirectory(relative)

\* Listed as an action for the agent, not as a "legacy target" in project source.  (Paths
\* that are the name of a target themselves, which the API refuses, are left out.)
Listed(m) ==
    \/ InstructionPathTarget(m.path)
    \/ m.type = "agent_behavior"
    \/ /\ m.type \in {"agent_instructions", "skill_instructions", "workflow_instructions"}
       /\ NormalizedPath(m.path) \in {<<>>, <<"">>}

-----------------------------------------------------------------------------
\* The filters

Selection == <<evidenceType, decision>>

SupportsDecision(c, d) == d = AllDecisions \/ d[1] \in Breakdowns(c)

CategoryShown(c, type, d) == type \in {"all", c} /\ SupportsDecision(c, d)

Matches(r, d) == d = AllDecisions \/ (d[1] \in DOMAIN r.labels /\ r.labels[d[1]] = d[2])

\* The positions of the records shown.
VisibleRows(c, type, d) ==
    {i \in DOMAIN Annotation.rows[c] :
        CategoryShown(c, type, d) /\ Matches(Annotation.rows[c][i], d)}

GapsShown(type, d) == d = AllDecisions /\ type \in {"all", "capture_gaps"}

\* A list is unmounted, and forgets its state, when there is nothing for it to show.
Fresh == [key |-> None, count |-> PageSize]
Kept(type, d) == [c \in Categories |-> IF VisibleRows(c, type, d) = {} THEN Fresh ELSE lists[c]]

ChooseFilters(type, d) ==
    /\ evidenceType' = type /\ decision' = d
    /\ lists' = Kept(type, d)
    /\ UNCHANGED <<saves, document, page, asked>>

\* Mutant: a decision chosen before is kept.
ChooseEvidenceOnly(type) == Recorded /\ type # evidenceType /\ ChooseFilters(type, decision)

ChooseEvidence(type) ==
    /\ Recorded /\ type # evidenceType
    /\ ChooseFilters(type, IF type = "capture_gaps" THEN AllDecisions ELSE decision)

\* The decision cannot be chosen while capture gaps are.
ChooseDecision(d) ==
    /\ Recorded /\ d # decision /\ evidenceType # "capture_gaps"
    /\ ChooseFilters(evidenceType, d)

ClearFilters ==
    /\ Recorded /\ Selection # <<"all", AllDecisions>>
    /\ ChooseFilters("all", AllDecisions)

-----------------------------------------------------------------------------
\* The lists

Smaller(m, n) == IF m <= n THEN m ELSE n

Rows(c) == IF Recorded THEN Cardinality(VisibleRows(c, evidenceType, decision)) ELSE 0

\* Mutant: the number of records loaded for one selection is used for any.
LoadedForAny(c) == lists[c].count

Loaded(c) == IF lists[c].key = Selection THEN lists[c].count ELSE PageSize

Shown(c) == Smaller(Rows(c), Loaded(c))

LoadMore(c) ==
    /\ Shown(c) < Rows(c)
    /\ lists' = [lists EXCEPT ![c] = [key |-> Selection,
                                      count |-> Smaller(Rows(c), Loaded(c) + PageSize)]]
    /\ asked' = asked \cup {<<c, Selection>>}
    /\ UNCHANGED <<saves, document, page, evidenceType, decision>>

ShowFewer(c) ==
    /\ Rows(c) > PageSize /\ Shown(c) = Rows(c)
    /\ lists' = [lists EXCEPT ![c] = [key |-> Selection, count |-> PageSize]]
    /\ UNCHANGED <<saves, document, page, evidenceType, decision, asked>>

-----------------------------------------------------------------------------
\* The page

\* The analysis is read and shown; while it loads nothing of an earlier one is.
Open ==
    /\ page' = document
    /\ evidenceType' = "all" /\ decision' = AllDecisions
    /\ lists' = [c \in Categories |-> Fresh]
    /\ asked' = {}
    /\ UNCHANGED <<saves, document>>

Init ==
    /\ ApiInit
    /\ page = None
    /\ evidenceType = "all" /\ decision = AllDecisions
    /\ lists = [c \in Categories |-> Fresh]
    /\ asked = {}

Next ==
    \/ ApiNext /\ UNCHANGED panelVars
    \/ Open
    \/ \E type \in EvidenceTypes : ChooseEvidence(type)
    \/ \E d \in Decisions : ChooseDecision(d)
    \/ ClearFilters
    \/ \E c \in Categories : LoadMore(c) \/ ShowFewer(c)

Spec == Init /\ [][Next]_vars

-----------------------------------------------------------------------------
\* Properties

TypeOK ==
    /\ ApiTypeOK
    /\ page \in {None} \cup [Halves -> 0..MaxSaves]
    /\ evidenceType \in EvidenceTypes /\ decision \in DecisionOptions
    /\ lists \in [Categories -> [key : {None} \cup (EvidenceTypes \X DecisionOptions),
                                 count : Nat]]

\* "Counts describe saved labels. V2 records include every captured item per category.":
\* what the panel says of a category of a version 2 annotation are the counts of the
\* records it lists, and no filter matches more records than it says are labeled.  A
\* version with blanks around it is left out: the API checks it as version 1 and the panel
\* reads it as version 2.
CountsDescribeRows ==
    Recorded /\ Annotation.schema # " 2" =>
        \A c \in Categories :
            /\ Rows(c) <= Counts(Annotation, c).labeled
            /\ evidenceType \in {"all", c} /\ decision = AllDecisions =>
                  Rows(c) = Counts(Annotation, c).labeled
            /\ IsV2(Annotation) =>
                  /\ Counts(Annotation, c).captured = Len(Annotation.rows[c])
                  /\ Counts(Annotation, c).unclear = UnclearRows(Annotation.rows[c])

\* The API cleans a path before it looks at it and the panel does not: AGENTS.md under any
\* other spelling ("docs/../AGENTS.md") and a path that goes on after its file ("a.md/") may
\* be unknown to the panel; so are three of the directories, and a file called ".md".
SpeltForApiOnly(path) ==
    LET clean == Clean(path) IN
    \/ clean = <<"AGENTS.md">> /\ NormalizedPath(path) # clean
    \/ clean[Len(clean)] # path[Len(path)]
    \/ clean[1] \in InstructionRoots \ AgentDirectories
    \/ clean[Len(clean)] = ".md"

\* An improvement that the API accepted as one to agent instructions is not dismissed as one
\* to project source: not for its type, and not for dots, empty names, or agent directories
\* one in the other, wherever in its path, but for the paths above.
ImprovementsAreListed ==
    page # None /\ page["evaluation"] # 0 =>
        LET e == saves[page["evaluation"]].value IN
        e.schema = "2" =>
            \A i \in DOMAIN e.improvements :
                Listed(e.improvements[i]) \/ SpeltForApiOnly(e.improvements[i].path)

\* Who asks for the capture gaps sees them, whatever was chosen before.
GapsAreShown == evidenceType = "capture_gaps" => GapsShown(evidenceType, decision)

\* The records matched by a selection start with one page: more are shown only when "Load
\* more" was pressed for that selection, however filters were changed since.
SelectionsStartShort ==
    \A c \in Categories : Shown(c) > PageSize => <<c, Selection>> \in asked
=============================================================================
