------------------------ MODULE SessionAnalysisProofs ------------------------
(***************************************************************************)
(* A saved analysis stays saved, and the panel counts what it lists, for   *)
(* every set of analyses and every number of saves.                        *)
(***************************************************************************)
EXTENDS AnnotationPanel, FiniteSetTheorems, SequenceTheorems, WellFoundedInduction, TLAPS

\* A save has a value of its half; the saves a new one comes after are over and stay so; what
\* is written was checked, and what is stored was written.
Values(h) == IF h = "annotation" THEN Annotations ELSE Evaluations
Ordered ==
    /\ \A i \in DOMAIN saves : saves[i].value \in Values(saves[i].half)
    /\ \A i \in DOMAIN saves : saves[i].step \in {"writing", "failed"} => Valid(saves[i])
    /\ \A i \in DOMAIN saves : saves[i].before \subseteq Settled
    /\ \A h \in Halves : document[h] # 0 => saves[document[h]].step \in {"saved", "applied"}

ApiInv == ApiTypeOK /\ StoredIsChecked /\ Ordered /\ SavesStick

\* What a save is of does not change.
SavesKept ==
    \A i \in DOMAIN saves :
        /\ i \in DOMAIN saves'
        /\ saves'[i].half = saves[i].half /\ saves'[i].value = saves[i].value

LEMMA PostKeeps ==
    ASSUME ApiInv, NEW h \in Halves, NEW v \in Values(h), Post(h, v)
    PROVE  ApiInv' /\ SavesKept
<1> DEFINE n == Len(saves) + 1
           new == [half |-> h, value |-> v, step |-> "posted", before |-> Settled]
<1>1. /\ saves \in Seq(Save) /\ Len(saves) < MaxSaves /\ MaxSaves \in Nat
      /\ document' = document /\ saves' = Append(saves, new)
  BY SavesAssumption DEF ApiInv, ApiTypeOK, Post
<1>2. Settled \subseteq 1..MaxSaves
  BY <1>1 DEF Settled
<1>3. new \in Save /\ new.value \in Values(new.half)
  BY <1>2 DEF Save, Values
<1> HIDE DEF new
<1>4. /\ saves' \in Seq(Save) /\ Len(saves') = n /\ saves'[n] = new
      /\ DOMAIN saves' = DOMAIN saves \cup {n} /\ n \notin DOMAIN saves
      /\ \A i \in DOMAIN saves : saves'[i] = saves[i]
  BY <1>1, <1>3
<1>5. new.step = "posted" /\ new.before = Settled
  BY DEF new
<1>6. Settled' = Settled
  BY <1>4, <1>5 DEF Settled
<1>7. ApiTypeOK'
  BY <1>1, <1>4 DEF ApiInv, ApiTypeOK
<1>8. StoredIsChecked'
  BY <1>1, <1>4 DEF ApiInv, StoredIsChecked
<1>9. Ordered'
  BY <1>1, <1>3, <1>4, <1>5, <1>6 DEF ApiInv, Ordered, StoredIsChecked
<1>10. SavesStick'
  <2>1. \A k \in DOMAIN saves : saves[k].half \in Halves
    <3>1. \A k \in DOMAIN saves : saves[k] \in Save
      BY <1>1
    <3> QED  BY <3>1 DEF Save
  <2>2. \A k \in DOMAIN saves : document[saves[k].half] # 0 => document[saves[k].half] \in DOMAIN saves
    BY <2>1 DEF ApiInv, StoredIsChecked
  <2>3. \A k \in DOMAIN saves' : saves'[k].step = "saved" => k \in DOMAIN saves
    BY <1>4, <1>5
  <2> QED  BY <1>1, <1>4, <2>2, <2>3 DEF ApiInv, SavesStick
<1> QED  BY <1>4, <1>7, <1>8, <1>9, <1>10 DEF ApiInv, SavesKept

\* A save that moves on and is not made open again, and what that leaves as it was.
LEMMA StepKeeps ==
    ASSUME ApiInv, NEW i \in DOMAIN saves,
           NEW step \in {"writing", "refused", "saved", "failed", "applied"},
           saves' = [saves EXCEPT ![i].step = step], i \notin Settled \/ step = "applied"
    PROVE  /\ saves' \in Seq(Save) /\ Len(saves') = Len(saves) /\ DOMAIN saves' = DOMAIN saves
           /\ saves'[i].step = step
           /\ \A k \in DOMAIN saves : /\ saves'[k].half = saves[k].half
                                      /\ saves'[k].value = saves[k].value
                                      /\ saves'[k].before = saves[k].before
                                      /\ k # i => saves'[k].step = saves[k].step
           /\ \A k \in DOMAIN saves : Valid(saves[k])' <=> Valid(saves[k])
           /\ Settled \subseteq Settled'
<1>1. saves \in Seq(Save) /\ saves[i] \in Save
  BY DEF ApiInv, ApiTypeOK
<1> DEFINE moved == [saves[i] EXCEPT !.step = step]
<1>2. /\ moved \in Save /\ moved.step = step /\ moved.half = saves[i].half
      /\ moved.value = saves[i].value /\ moved.before = saves[i].before
  BY <1>1 DEF Save
<1>3. saves' = [saves EXCEPT ![i] = moved]
  OBVIOUS
<1> HIDE DEF moved
<1>4. /\ saves' \in Seq(Save) /\ Len(saves') = Len(saves) /\ DOMAIN saves' = DOMAIN saves
      /\ saves'[i] = moved
      /\ \A k \in DOMAIN saves : k # i => saves'[k] = saves[k]
  BY <1>1, <1>2, <1>3
<1>5. /\ saves'[i].step = step
      /\ \A k \in DOMAIN saves : /\ saves'[k].half = saves[k].half
                                 /\ saves'[k].value = saves[k].value
                                 /\ saves'[k].before = saves[k].before
                                 /\ k # i => saves'[k].step = saves[k].step
  BY <1>2, <1>4
<1>6. \A k \in DOMAIN saves : Valid(saves[k])' <=> Valid(saves[k])
  BY <1>5 DEF Valid
<1>7. Settled \subseteq Settled'
  BY <1>4, <1>5 DEF Settled
<1> QED  BY <1>4, <1>5, <1>6, <1>7

LEMMA CheckKeeps ==
    ASSUME ApiInv, NEW i \in DOMAIN saves, Check(i) \/ WriteFails(i)
    PROVE  ApiInv' /\ SavesKept
<1>1. /\ saves[i].step \in {"posted", "writing"} /\ i \notin Settled /\ document' = document
      /\ \/ saves' = [saves EXCEPT ![i].step = IF Valid(saves[i]) THEN "writing" ELSE "refused"]
         \/ saves[i].step = "writing" /\ saves' = [saves EXCEPT ![i].step = "failed"]
  BY DEF Check, WriteFails, Settled
<1>2. PICK step \in {"writing", "refused", "failed"} :
          /\ saves' = [saves EXCEPT ![i].step = step]
          /\ step # "refused" => Valid(saves[i])
  BY <1>1 DEF ApiInv, Ordered
<1>3. /\ saves' \in Seq(Save) /\ Len(saves') = Len(saves) /\ DOMAIN saves' = DOMAIN saves
      /\ saves'[i].step = step
      /\ \A k \in DOMAIN saves : /\ saves'[k].half = saves[k].half
                                 /\ saves'[k].value = saves[k].value
                                 /\ saves'[k].before = saves[k].before
                                 /\ k # i => saves'[k].step = saves[k].step
      /\ \A k \in DOMAIN saves : Valid(saves[k])' <=> Valid(saves[k])
      /\ Settled \subseteq Settled'
  BY <1>1, <1>2, StepKeeps
<1>4. ApiTypeOK'
  BY <1>1, <1>3 DEF ApiInv, ApiTypeOK
<1>5. StoredIsChecked'
  BY <1>1, <1>3 DEF ApiInv, StoredIsChecked
<1>6. Ordered'
  <2>1. \A h \in Halves : document[h] # 0 => document[h] \in DOMAIN saves /\ document[h] # i
    BY <1>1 DEF ApiInv, Ordered, StoredIsChecked
  <2> QED  BY <1>1, <1>2, <1>3, <2>1 DEF ApiInv, Ordered
<1>7. SavesStick'
  <2>1. \A k \in DOMAIN saves : saves'[k].step = "applied" <=> saves[k].step = "applied"
    BY <1>1, <1>3
  <2>2. \A k \in DOMAIN saves : saves[k].half \in Halves
    <3>1. \A k \in DOMAIN saves : saves[k] \in Save
      BY DEF ApiInv, ApiTypeOK
    <3> QED  BY <3>1 DEF Save
  <2>3. \A k \in DOMAIN saves : saves[k].before \subseteq DOMAIN saves
    BY DEF ApiInv, Ordered, Settled
  <2>4. \A k \in DOMAIN saves : saves'[k].step = "saved" => saves[k].step = "saved"
    BY <1>3
  <2> QED  BY <1>1, <1>3, <2>1, <2>2, <2>3, <2>4 DEF ApiInv, SavesStick
<1> QED  BY <1>3, <1>4, <1>5, <1>6, <1>7 DEF ApiInv, SavesKept

\* An update of the document, in time or late.
LEMMA UpsertKeeps ==
    ASSUME ApiInv, NEW i \in DOMAIN saves, Upsert(i),
           NEW step \in {"saved", "applied"}, saves' = [saves EXCEPT ![i].step = step],
           \/ saves[i].step = "writing"
           \/ saves[i].step = "failed" /\ step = "applied"
    PROVE  ApiInv' /\ SavesKept
<1>0. /\ saves \in Seq(Save) /\ Len(saves) <= MaxSaves /\ MaxSaves \in Nat
      /\ document \in [Halves -> 0..MaxSaves]
  BY SavesAssumption DEF ApiInv, ApiTypeOK
<1>a. \A k \in DOMAIN saves : saves[k] \in Save
  BY <1>0
<1>1. /\ saves[i].step \in {"writing", "failed"} /\ (i \notin Settled \/ step = "applied")
      /\ saves[i].half \in Halves /\ i \in 1..MaxSaves /\ i # 0
  <2>1. saves[i].step \in {"writing", "failed"} /\ (i \notin Settled \/ step = "applied")
    BY DEF Settled
  <2>2. saves[i].half \in Halves
    BY <1>a DEF Save
  <2>3. i \in 1..MaxSaves
    BY <1>0
  <2> QED  BY <2>1, <2>2, <2>3
<1>2. document' = [document EXCEPT ![saves[i].half] = i]
  BY DEF Upsert
<1>3. /\ saves' \in Seq(Save) /\ Len(saves') = Len(saves) /\ DOMAIN saves' = DOMAIN saves
      /\ saves'[i].step = step
      /\ \A k \in DOMAIN saves : /\ saves'[k].half = saves[k].half
                                 /\ saves'[k].value = saves[k].value
                                 /\ saves'[k].before = saves[k].before
                                 /\ k # i => saves'[k].step = saves[k].step
      /\ \A k \in DOMAIN saves : Valid(saves[k])' <=> Valid(saves[k])
      /\ Settled \subseteq Settled'
  BY <1>1, StepKeeps
<1>4. /\ document' \in [Halves -> 0..MaxSaves]
      /\ \A h \in Halves : h # saves[i].half => document'[h] = document[h]
      /\ document'[saves[i].half] = i
  BY <1>0, <1>1, <1>2
<1>5. ApiTypeOK'
  BY <1>3, <1>4 DEF ApiInv, ApiTypeOK
<1>6. StoredIsChecked'
  BY <1>1, <1>3, <1>4 DEF ApiInv, StoredIsChecked, Ordered
<1>7. Ordered'
  BY <1>1, <1>3, <1>4 DEF ApiInv, Ordered, StoredIsChecked
<1>8. SavesStick'
  <2> SUFFICES ASSUME NEW k \in DOMAIN saves, saves'[k].step = "saved"
               PROVE  /\ document'[saves[k].half] # 0
                      /\ document'[saves[k].half] \in saves[k].before =>
                            saves'[document'[saves[k].half]].step = "applied"
    BY <1>3 DEF SavesStick
  <2>0. saves[k].half \in Halves
    BY <1>a DEF Save
  <2>1. step = "saved" => i \notin saves[k].before
    BY <1>1 DEF ApiInv, Ordered
  <2>2. CASE saves[k].half = saves[i].half
    BY <1>1, <1>3, <1>4, <2>0, <2>1, <2>2
  <2>3. CASE saves[k].half # saves[i].half
    <3>1. k # i /\ saves[k].step = "saved" /\ document'[saves[k].half] = document[saves[k].half]
      BY <1>3, <1>4, <2>0, <2>3
    <3>2. /\ document[saves[k].half] # 0
          /\ document[saves[k].half] \in saves[k].before =>
                saves[document[saves[k].half]].step = "applied"
      BY <3>1 DEF ApiInv, SavesStick
    <3>3. /\ document[saves[k].half] \in DOMAIN saves
          /\ saves[document[saves[k].half]].half = saves[k].half
      BY <2>0, <3>2 DEF ApiInv, StoredIsChecked
    <3>4. saves'[document[saves[k].half]].step = saves[document[saves[k].half]].step
      BY <1>3, <2>3, <3>3
    <3> QED  BY <3>1, <3>2, <3>4
  <2> QED  BY <2>2, <2>3
<1> QED  BY <1>3, <1>5, <1>6, <1>7, <1>8 DEF ApiInv, SavesKept

LEMMA WriteKeeps ==
    ASSUME ApiInv, NEW i \in DOMAIN saves, Write(i) \/ ApplyLate(i)
    PROVE  ApiInv' /\ SavesKept
<1>1. CASE Write(i)
  BY <1>1, UpsertKeeps DEF Write
<1>2. CASE ApplyLate(i)
  BY <1>2, UpsertKeeps DEF ApplyLate
<1> QED  BY <1>1, <1>2

LEMMA ApiKeeps ==
    ASSUME ApiInv, ApiNext
    PROVE  ApiInv' /\ SavesKept
<1>1. CASE \E a \in Annotations : Post("annotation", a)
  BY <1>1, PostKeeps DEF Halves, Values
<1>2. CASE \E e \in Evaluations : Post("evaluation", e)
  BY <1>2, PostKeeps DEF Halves, Values
<1>3. CASE \E i \in DOMAIN saves : Check(i) \/ Write(i) \/ WriteFails(i) \/ ApplyLate(i)
  BY <1>3, CheckKeeps, WriteKeeps
<1> QED  BY <1>1, <1>2, <1>3 DEF ApiNext

-----------------------------------------------------------------------------
(* The page: what was read is a document of the past.                      *)

PageInv ==
    /\ page \in {None} \cup [Halves -> 0..MaxSaves]
    /\ page # None =>
          \A h \in Halves :
              page[h] # 0 => /\ page[h] \in DOMAIN saves
                             /\ saves[page[h]].half = h
                             /\ Valid(saves[page[h]])

FilterInv ==
    /\ evidenceType \in EvidenceTypes /\ decision \in DecisionOptions
    /\ GapsAreShown

ListInv ==
    /\ lists \in [Categories -> [key : {None} \cup (EvidenceTypes \X DecisionOptions), count : Nat]]
    /\ \A c \in Categories : lists[c].count > PageSize => <<c, lists[c].key>> \in asked

PanelInv == ApiInv /\ PageInv /\ FilterInv /\ ListInv

\* The records a list shows are some of the category's.
LEMMA RowsAreRecords ==
    ASSUME ApiInv, PageInv, Recorded, NEW c \in Categories
    PROVE  /\ Len(Annotation.rows[c]) \in Nat
           /\ Rows(c) \in Nat /\ Rows(c) <= Len(Annotation.rows[c])
           /\ evidenceType \in {"all", c} /\ decision = AllDecisions =>
                 Rows(c) = Len(Annotation.rows[c])
<1> DEFINE rows == Annotation.rows[c]
           visible == VisibleRows(c, evidenceType, decision)
<1>1. Annotation \in Annotations
  BY DEF Recorded, PageInv, Halves, Annotation, ApiInv, Ordered, Values
<1>2. Len(rows) \in Nat /\ DOMAIN rows = 1..Len(rows)
  BY <1>1, SavesAssumption
<1>3. IsFiniteSet(1..Len(rows)) /\ Cardinality(1..Len(rows)) = Len(rows)
  BY <1>2, FS_Interval
<1>4. visible \subseteq 1..Len(rows)
  BY <1>2 DEF VisibleRows
<1>5. Cardinality(visible) \in Nat /\ Cardinality(visible) <= Len(rows)
  BY <1>3, <1>4, FS_Subset, FS_CardinalityType
<1>6. ASSUME evidenceType \in {"all", c}, decision = AllDecisions
      PROVE  visible = 1..Len(rows)
  BY <1>2, <1>6 DEF VisibleRows, CategoryShown, SupportsDecision, Matches
<1>7. Rows(c) = Cardinality(visible)
  BY DEF Rows
<1> QED  BY <1>2, <1>3, <1>5, <1>6, <1>7

LEMMA PageKept ==
    ASSUME PageInv, SavesKept, page' = page
    PROVE  PageInv'
<1>1. \A i \in DOMAIN saves : Valid(saves[i]) => Valid(saves'[i])
  BY DEF SavesKept, Valid
<1> QED  BY <1>1 DEF PageInv, SavesKept

\* A choice of filters leaves lists as they are or new.
LEMMA FiltersKeep ==
    ASSUME PanelInv, NEW type \in EvidenceTypes, NEW d \in DecisionOptions,
           type = "capture_gaps" => d = AllDecisions, ChooseFilters(type, d)
    PROVE  PanelInv'
<1>1. ApiInv'
  BY DEF PanelInv, ChooseFilters, ApiInv, ApiTypeOK, StoredIsChecked, Ordered, SavesStick, Settled
<1>2. PageInv'
  BY DEF PanelInv, PageInv, ChooseFilters
<1>3. FilterInv'
  BY DEF FilterInv, ChooseFilters, GapsAreShown, GapsShown
<1>4. /\ Fresh \in [key : {None} \cup (EvidenceTypes \X DecisionOptions), count : Nat]
      /\ ~(Fresh.count > PageSize)
  BY PanelAssumption DEF Fresh
<1>5. ListInv'
  BY <1>4 DEF PanelInv, ListInv, ChooseFilters, Kept
<1> QED  BY <1>1, <1>2, <1>3, <1>5 DEF PanelInv

LEMMA PanelKeeps ==
    ASSUME PanelInv, [Next]_vars
    PROVE  PanelInv'
<1>0. AllDecisions \in DecisionOptions /\ "all" \in EvidenceTypes /\ "all" # "capture_gaps"
  BY DEF DecisionOptions, EvidenceTypes
<1>1. CASE ApiNext /\ UNCHANGED panelVars
  <2>1. ApiInv' /\ SavesKept
    BY <1>1, ApiKeeps DEF PanelInv
  <2>2. PageInv'
    BY <1>1, <2>1, PageKept DEF PanelInv, panelVars
  <2>3. FilterInv' /\ ListInv'
    BY <1>1 DEF PanelInv, FilterInv, ListInv, panelVars, GapsAreShown, GapsShown
  <2> QED  BY <2>1, <2>2, <2>3 DEF PanelInv
<1>2. CASE Open
  <2>1. ApiInv'
    BY <1>2 DEF PanelInv, Open, ApiInv, ApiTypeOK, StoredIsChecked, Ordered, SavesStick, Settled
  <2>2. PageInv'
    BY <1>2 DEF PanelInv, Open, PageInv, ApiInv, ApiTypeOK, StoredIsChecked
  <2>3. FilterInv'
    BY <1>0, <1>2 DEF Open, FilterInv, GapsAreShown
  <2>4. ListInv'
    BY <1>2, PanelAssumption DEF Open, ListInv, Fresh
  <2> QED  BY <2>1, <2>2, <2>3, <2>4 DEF PanelInv
<1>3. ASSUME NEW type \in EvidenceTypes, ChooseEvidence(type)
      PROVE  PanelInv'
  <2>1. decision \in DecisionOptions
    BY DEF PanelInv, FilterInv
  <2> QED  BY <1>0, <1>3, <2>1, FiltersKeep DEF ChooseEvidence
<1>4. ASSUME NEW d \in Decisions, ChooseDecision(d)
      PROVE  PanelInv'
  <2>1. d \in DecisionOptions /\ evidenceType \in EvidenceTypes
    BY PanelAssumption DEF PanelInv, FilterInv
  <2> QED  BY <1>4, <2>1, FiltersKeep DEF ChooseDecision
<1>5. CASE ClearFilters
  BY <1>0, <1>5, FiltersKeep DEF ClearFilters
<1>6. ASSUME NEW c \in Categories, LoadMore(c) \/ ShowFewer(c)
      PROVE  PanelInv'
  <2>1. ApiInv'
    BY <1>6 DEF PanelInv, LoadMore, ShowFewer, ApiInv, ApiTypeOK, StoredIsChecked, Ordered,
                SavesStick, Settled
  <2>2. PageInv' /\ FilterInv'
    BY <1>6 DEF PanelInv, LoadMore, ShowFewer, PageInv, FilterInv, GapsAreShown, GapsShown
  <2>3. Rows(c) \in Nat
    <3>1. CASE Recorded
      BY <3>1, RowsAreRecords DEF PanelInv
    <3>2. CASE ~Recorded
      BY <3>2 DEF Rows
    <3> QED  BY <3>1, <3>2
  <2>4. PageSize \in Nat /\ Loaded(c) \in Nat
    BY PanelAssumption DEF Loaded, PanelInv, ListInv
  <2>5. Smaller(Rows(c), Loaded(c) + PageSize) \in Nat
    BY <2>3, <2>4 DEF Smaller
  <2>6. Selection \in EvidenceTypes \X DecisionOptions
    BY DEF Selection, PanelInv, FilterInv
  <2>7. \E l \in [key : {None} \cup (EvidenceTypes \X DecisionOptions), count : Nat] :
            /\ lists' = [lists EXCEPT ![c] = l]
            /\ asked \subseteq asked'
            /\ l.count > PageSize => <<c, l.key>> \in asked'
    <3>1. CASE LoadMore(c)
      <4> DEFINE l == [key |-> Selection, count |-> Smaller(Rows(c), Loaded(c) + PageSize)]
      <4>1. l \in [key : {None} \cup (EvidenceTypes \X DecisionOptions), count : Nat]
        BY <2>5, <2>6
      <4> QED  BY <3>1, <4>1 DEF LoadMore
    <3>2. CASE ShowFewer(c)
      <4> DEFINE l == [key |-> Selection, count |-> PageSize]
      <4>1. /\ l \in [key : {None} \cup (EvidenceTypes \X DecisionOptions), count : Nat]
            /\ ~(l.count > PageSize)
        BY <2>4, <2>6
      <4> QED  BY <3>2, <4>1 DEF ShowFewer
    <3> QED  BY <1>6, <3>1, <3>2
  <2>8. ListInv'
    BY <2>7 DEF PanelInv, ListInv
  <2> QED  BY <2>1, <2>2, <2>8 DEF PanelInv
<1>7. CASE UNCHANGED vars
  BY <1>7 DEF vars, PanelInv, ApiInv, ApiTypeOK, StoredIsChecked, Ordered, SavesStick, Settled,
              PageInv, FilterInv, ListInv, GapsAreShown, GapsShown
<1> QED  BY <1>1, <1>2, <1>3, <1>4, <1>5, <1>6, <1>7 DEF Next

LEMMA PanelStarts == Init => PanelInv
<1> SUFFICES ASSUME Init PROVE PanelInv
  OBVIOUS
<1>1. saves = <<>> /\ DOMAIN saves = {} /\ Len(saves) = 0 /\ saves \in Seq(Save)
  BY DEF Init, ApiInit
<1>2. document \in [Halves -> 0..MaxSaves] /\ \A h \in Halves : document[h] = 0
  BY SavesAssumption DEF Init, ApiInit
<1>3. ApiInv
  BY <1>1, <1>2, SavesAssumption DEF ApiInv, ApiTypeOK, StoredIsChecked, Ordered, SavesStick
<1>4. PageInv
  BY DEF Init, PageInv
<1>5. FilterInv
  BY DEF Init, FilterInv, GapsAreShown, EvidenceTypes, DecisionOptions
<1>6. ListInv
  BY PanelAssumption DEF Init, ListInv, Fresh
<1> QED  BY <1>3, <1>4, <1>5, <1>6 DEF PanelInv

LEMMA PanelInvariant == Spec => []PanelInv
  BY PanelStarts, PanelKeeps, PTL DEF Spec

-----------------------------------------------------------------------------
(* Paths, cleaned by the API and not by the panel.                         *)

LEMMA SetInduction ==
    ASSUME NEW S, 0 \in S, \A n \in Nat : n \in S => n + 1 \in S
    PROVE  Nat \subseteq S
<1>1. PICK R : /\ IsWellFoundedOn(R, Nat)
               /\ \A x, y \in Nat : x < y => <<x, y>> \in R
  BY NatLessThanWellFounded DEF OpToRel
<1>2. PICK T : T = Nat \ S
  OBVIOUS
<1>3. SUFFICES ASSUME T # {} PROVE FALSE
  BY <1>2
<1>4. PICK x \in T : \A y \in T : ~ (<<y, x>> \in R)
  BY <1>1, <1>2, <1>3, WFMin
<1>5. x # 0 /\ x \in Nat /\ x - 1 \in Nat /\ x - 1 < x /\ x - 1 + 1 = x
  BY <1>2
<1>6. x - 1 \notin T
  BY <1>1, <1>4, <1>5
<1> QED  BY <1>2, <1>5, <1>6

\* A set of places in a path has a last one.
LEMMA LastPlace ==
    ASSUME NEW n \in Nat, NEW P \in SUBSET (1..n), P # {}
    PROVE  \E k \in P : \A j \in P : j <= k
<1> DEFINE Bounded == {m \in Nat : \A T \in SUBSET (1..m) :
                                      T # {} => \E k \in T : \A j \in T : j <= k}
<1>1. 0 \in Bounded
  <2>1. 1..0 = {}
    OBVIOUS
  <2> QED  BY <2>1
<1>2. ASSUME NEW m \in Nat, m \in Bounded
      PROVE  m + 1 \in Bounded
  <2> SUFFICES ASSUME NEW T \in SUBSET (1..m + 1), T # {}
               PROVE  \E k \in T : \A j \in T : j <= k
    OBVIOUS
  <2>1. CASE m + 1 \in T
    BY <2>1
  <2>2. CASE m + 1 \notin T
    <3>1. T \in SUBSET (1..m)
      BY <2>2
    <3> QED  BY <1>2, <3>1
  <2> QED  BY <2>1, <2>2
<1> HIDE DEF Bounded
<1>3. n \in Bounded
  BY <1>1, <1>2, SetInduction
<1> QED  BY <1>3 DEF Bounded

\* What is left of the first n names of a path.
IsCleaning(path, g, n) ==
    g = [k \in 0..n |-> IF k = 0 THEN <<>> ELSE Shorter(g[k - 1], path[k])]

LEMMA CleaningExists ==
    ASSUME NEW path, NEW N \in Nat
    PROVE  \E g : IsCleaning(path, g, N)
<1> DEFINE S == {n \in Nat : \E g : IsCleaning(path, g, n)}
<1>1. 0 \in S
  <2>1. IsCleaning(path, [k \in 0..0 |-> <<>>], 0)
    BY DEF IsCleaning
  <2> QED  BY <2>1
<1>2. ASSUME NEW n \in Nat, n \in S
      PROVE  n + 1 \in S
  <2>1. PICK g : IsCleaning(path, g, n)
    BY <1>2
  <2>2. PICK x : x = Shorter(g[n], path[n + 1])
    OBVIOUS
  <2>3. PICK h : h = [k \in 0..n + 1 |-> IF k = n + 1 THEN x ELSE g[k]]
    OBVIOUS
  <2>4. \A k \in 0..n : h[k] = g[k]
    BY <2>3
  <2>5. ASSUME NEW k \in 0..n + 1
        PROVE  h[k] = IF k = 0 THEN <<>> ELSE Shorter(h[k - 1], path[k])
    <3>1. CASE k = n + 1
      <4>1. k # 0 /\ k - 1 = n /\ n \in 0..n
        BY <3>1
      <4>2. h[k] = x /\ h[k - 1] = g[n]
        BY <2>3, <2>4, <3>1, <4>1
      <4> QED  BY <2>2, <3>1, <4>1, <4>2
    <3>2. CASE k # n + 1 /\ k # 0
      <4>1. k \in 0..n /\ k - 1 \in 0..n
        BY <3>2
      <4>2. h[k] = g[k] /\ h[k - 1] = g[k - 1]
        BY <2>4, <4>1
      <4>3. g[k] = Shorter(g[k - 1], path[k])
        BY <2>1, <3>2, <4>1 DEF IsCleaning
      <4> QED  BY <3>2, <4>2, <4>3
    <3>3. CASE k # n + 1 /\ k = 0
      <4>1. k \in 0..n /\ h[k] = g[k]
        BY <2>4, <3>3
      <4> QED  BY <2>1, <3>3, <4>1 DEF IsCleaning
    <3> QED  BY <3>1, <3>2, <3>3
  <2>6. IsCleaning(path, h, n + 1)
    BY <2>3, <2>5 DEF IsCleaning
  <2> QED  BY <2>6
<1> HIDE DEF S
<1>3. Nat \subseteq S
  BY <1>1, <1>2, SetInduction
<1> QED  BY <1>3 DEF S

LEMMA ShorterNames ==
    ASSUME NEW Names, NEW clean \in Seq(Names), NEW name \in Names
    PROVE  Shorter(clean, name) \in Seq(Names)
<1>1. CASE name \in {"", "."}
  BY <1>1 DEF Shorter
<1>2. CASE name = ".." /\ Len(clean) > 0 /\ clean[Len(clean)] # ".."
  <2>1. SubSeq(clean, 1, Len(clean) - 1) \in Seq(Names)
    BY <1>2
  <2> QED  BY <1>2, <2>1 DEF Shorter
<1>3. CASE /\ name \notin {"", "."}
           /\ ~(name = ".." /\ Len(clean) > 0 /\ clean[Len(clean)] # "..")
  <2>1. Shorter(clean, name) = Append(clean, name)
    BY <1>3 DEF Shorter
  <2> QED  BY <2>1
<1> QED  BY <1>1, <1>2, <1>3

\* Cleaning a path gives names of that path.
LEMMA CleanNames ==
    ASSUME NEW path \in Seq(STRING)
    PROVE  /\ Clean(path) \in Seq(STRING)
           /\ \A j \in 1..Len(Clean(path)) : \E k \in 1..Len(path) : path[k] = Clean(path)[j]
<1>1. PICK N \in Nat : N = Len(path)
  OBVIOUS
<1>2. IsCleaning(path, Cleaning(path), N)
  <2>1. \E g : IsCleaning(path, g, N)
    BY CleaningExists
  <2>2. Cleaning(path) = CHOOSE g : IsCleaning(path, g, N)
    BY <1>1 DEF Cleaning, IsCleaning
  <2> QED  BY <2>1, <2>2
<1> PICK g : g = Cleaning(path)
  OBVIOUS
<1>3. g[0] = <<>> /\ \A n \in 1..N : g[n] = Shorter(g[n - 1], path[n])
  BY <1>2 DEF IsCleaning
<1>a. PICK Names : Names = {path[k] : k \in 1..N}
  OBVIOUS
<1> DEFINE S == {n \in Nat : n <= N => g[n] \in Seq(Names)}
<1>4. 0 \in S
  <2>1. <<>> \in Seq(Names) /\ g[0] = <<>>
    BY <1>3
  <2> QED  BY <2>1
<1>5. ASSUME NEW n \in Nat, n \in S
      PROVE  n + 1 \in S
  <2> SUFFICES ASSUME n + 1 <= N PROVE g[n + 1] \in Seq(Names)
    OBVIOUS
  <2>1. PICK clean \in Seq(Names) : clean = g[n]
    BY <1>5
  <2>2. PICK name \in Names : name = path[n + 1]
    BY <1>a
  <2>3. g[n + 1] = Shorter(clean, name)
    <3>1. n + 1 \in 1..N /\ (n + 1) - 1 = n
      OBVIOUS
    <3> QED  BY <1>3, <2>1, <2>2, <3>1
  <2> QED  BY <2>3, ShorterNames
<1> HIDE DEF S
<1>6. N \in S
  BY <1>4, <1>5, SetInduction
<1>7. PICK clean \in Seq(Names) : clean = Clean(path)
  BY <1>1, <1>6 DEF S, Clean
<1>8. \A name \in Names : name \in STRING /\ \E k \in 1..Len(path) : path[k] = name
  BY <1>1, <1>a
<1>9. \A j \in 1..Len(clean) : clean[j] \in Names
  OBVIOUS
<1>10. clean \in Seq(STRING)
  BY <1>8, <1>9
<1> QED  BY <1>7, <1>8, <1>9, <1>10

LEMMA FromPlace ==
    ASSUME NEW S, NEW s \in Seq(S), NEW m \in 1..Len(s)
    PROVE  /\ SubSeq(s, m, Len(s)) \in Seq(S)
           /\ Len(SubSeq(s, m, Len(s))) = Len(s) - m + 1
           /\ \A j \in 1..Len(s) - m + 1 : SubSeq(s, m, Len(s))[j] = s[m + j - 1]
<1>1. m \in Int /\ Len(s) \in Int /\ m <= Len(s) /\ \A i \in m..Len(s) : s[i] \in S
  OBVIOUS
<1> QED  BY <1>1, SubSeqProperties

\* An accepted path has the directory it is in somewhere, and the panel finds it or a later
\* one.
LEMMA PathIsListed ==
    ASSUME NEW path \in Seq(STRING), IsAgentInstructionPath(path), ~SpeltForApiOnly(path)
    PROVE  InstructionPathTarget(path)
<1>1. PICK clean \in Seq(STRING) :
          /\ clean = Clean(path)
          /\ \A j \in 1..Len(clean) : \E k \in 1..Len(path) : path[k] = clean[j]
  BY CleanNames
<1>2. PICK file : file = path[Len(path)]
  OBVIOUS
<1>3. /\ Len(path) > 0 /\ Len(clean) > 0
      /\ file \in Markdown /\ file # ".md"
      /\ clean = <<"AGENTS.md">> \/ clean[1] \in AgentDirectories
      /\ clean = <<"AGENTS.md">> => NormalizedPath(path) = clean
  BY <1>1, <1>2 DEF IsAgentInstructionPath, SpeltForApiOnly
<1>4. PICK normal \in Seq(STRING) :
          /\ normal = NormalizedPath(path) /\ Len(normal) > 0
          /\ normal[Len(normal)] = file
          /\ \A k \in 1..Len(path) : path[k] # "." => \E j \in 1..Len(normal) : normal[j] = path[k]
  <2>1. CASE Len(path) > 1 /\ path[1] = "."
    <3>1. PICK q \in Seq(STRING) : /\ q = NormalizedPath(path) /\ Len(q) = Len(path) - 1
                                   /\ \A j \in 1..Len(path) - 1 : q[j] = path[j + 1]
      <4>1. NormalizedPath(path) = SubSeq(path, 2, Len(path))
        BY <2>1 DEF NormalizedPath
      <4>2. 2 \in 1..Len(path)
        BY <2>1
      <4>3. PICK q : q = SubSeq(path, 2, Len(path))
        OBVIOUS
      <4>4. /\ q \in Seq(STRING) /\ Len(q) = Len(path) - 2 + 1
            /\ \A j \in 1..Len(path) - 2 + 1 : q[j] = path[2 + j - 1]
        BY <4>2, <4>3, FromPlace, Zenon
      <4>5. /\ Len(q) = Len(path) - 1 /\ \A j \in 1..Len(path) - 1 : q[j] = path[j + 1]
        BY <4>2, <4>4
      <4> QED  BY <4>1, <4>3, <4>4, <4>5, Zenon
    <3>2. ASSUME NEW k \in 1..Len(path), path[k] # "."
          PROVE  \E j \in 1..Len(q) : q[j] = path[k]
      <4>1. k - 1 \in 1..Len(path) - 1 /\ k - 1 + 1 = k
        BY <2>1, <3>2
      <4> QED  BY <3>1, <4>1
    <3>3. Len(q) > 0 /\ q[Len(q)] = file
      <4>1. Len(path) - 1 \in 1..Len(path) - 1 /\ Len(path) - 1 + 1 = Len(path)
        BY <2>1
      <4> QED  BY <1>2, <2>1, <3>1, <4>1
    <3> QED  BY <3>1, <3>2, <3>3
  <2>2. CASE ~(Len(path) > 1 /\ path[1] = ".")
    BY <1>2, <1>3, <2>2 DEF NormalizedPath
  <2> QED  BY <2>1, <2>2
<1> DEFINE starts == {1} \cup {k \in 2..Len(normal) - 1 : normal[k] \in AgentDirectories}
<1>5. PICK s : s = CHOOSE k \in starts : \A j \in starts : j <= k
  OBVIOUS
<1>6. s \in starts /\ \A j \in starts : j <= s
  <2>1. Len(normal) \in Nat /\ starts \in SUBSET (1..Len(normal)) /\ starts # {}
    BY <1>4
  <2> HIDE DEF starts
  <2>2. \E k \in starts : \A j \in starts : j <= k
    BY <2>1, LastPlace
  <2> QED  BY <1>5, <2>2
<1>7. AgentRelativePath(path) = SubSeq(normal, s, Len(normal))
  BY <1>4, <1>5 DEF AgentRelativePath
<1>8. CASE clean = <<"AGENTS.md">>
  <2>1. normal = <<"AGENTS.md">> /\ Len(normal) = 1
    BY <1>3, <1>4, <1>8
  <2>2. s = 1
    BY <1>6, <2>1
  <2>3. SubSeq(normal, 1, Len(normal)) = normal
    BY SubSeqFull
  <2>4. AgentRelativePath(path) = <<"AGENTS.md">>
    BY <1>7, <2>1, <2>2, <2>3
  <2> QED  BY <2>4 DEF InstructionPathTarget
<1>9. CASE clean # <<"AGENTS.md">>
  <2>1. clean[1] \in AgentDirectories /\ clean[1] # "." /\ file \notin AgentDirectories
    BY <1>3, <1>9, PathsAssumption DEF AgentDirectories, InstructionRoots
  <2>2. PICK k \in 1..Len(normal) : normal[k] = clean[1]
    BY <1>1, <1>3, <1>4, <2>1
  <2>3. k < Len(normal)
    BY <1>4, <2>1, <2>2
  <2>4. s \in 1..Len(normal) - 1 /\ normal[s] \in AgentDirectories
    BY <1>4, <1>6, <2>1, <2>2, <2>3
  <2>5. PICK relative \in Seq(STRING) : /\ relative = SubSeq(normal, s, Len(normal))
                                        /\ Len(relative) = Len(normal) - s + 1
                                        /\ relative[1] = normal[s]
                                        /\ relative[Len(relative)] = normal[Len(normal)]
    <3>1. PICK q \in Seq(STRING) : /\ q = SubSeq(normal, s, Len(normal))
                                   /\ Len(q) = Len(normal) - s + 1
                                   /\ \A j \in 1..Len(normal) - s + 1 : q[j] = normal[s + j - 1]
      <4>1. s \in 1..Len(normal)
        BY <2>4
      <4>2. /\ SubSeq(normal, s, Len(normal)) \in Seq(STRING)
            /\ Len(SubSeq(normal, s, Len(normal))) = Len(normal) - s + 1
            /\ \A j \in 1..Len(normal) - s + 1 : SubSeq(normal, s, Len(normal))[j] = normal[s + j - 1]
        BY <4>1, FromPlace, Zenon
      <4> QED  BY <4>2, Zenon
    <3>2. /\ 1 \in 1..Len(normal) - s + 1 /\ s + 1 - 1 = s
          /\ Len(normal) - s + 1 \in 1..Len(normal) - s + 1
          /\ s + (Len(normal) - s + 1) - 1 = Len(normal)
      BY <2>4
    <3> QED  BY <3>1, <3>2
  <2>6. Len(relative) > 1 /\ relative[Len(relative)] = file /\ relative[1] \in AgentDirectories
    BY <1>4, <2>4, <2>5
  <2>7. relative # <<relative[1], ".md">>
    <3> SUFFICES ASSUME NEW x, relative = <<x, ".md">> PROVE FALSE
      BY <2>5
    <3>1. Len(relative) = 2 /\ relative[2] = ".md"
      OBVIOUS
    <3> QED  BY <1>3, <2>6, <3>1
  <2> QED  BY <1>3, <1>7, <2>5, <2>6, <2>7 DEF InstructionPathTarget, InAgentDirectory
<1> QED  BY <1>8, <1>9

-----------------------------------------------------------------------------
(* What the invariant says.                                                *)

\* Saves, document and page keep their types (SessionAnalysis and AnnotationPanel).
THEOREM PanelTypeCorrect == Spec => []TypeOK
<1>1. PanelInv => TypeOK
  BY DEF PanelInv, ApiInv, PageInv, FilterInv, ListInv, TypeOK
<1> QED  BY <1>1, PanelInvariant, PTL

\* However many saves of either half overlap or fail, and whenever the updates of failed ones
\* are applied after all, one that was answered with success is not undone by another that
\* was over before it was posted and not answered with a failure.
THEOREM SavesAreKept == Spec => []SavesStick
<1>1. PanelInv => SavesStick
  BY DEF PanelInv, ApiInv
<1> QED  BY <1>1, PanelInvariant, PTL

\* The counts the panel shows are those of the records it lists: what the API checks when an
\* annotation is saved is what the panel relies on when it is read.
THEOREM CountsAreOfRows == Spec => []CountsDescribeRows
<1>1. PanelInv => CountsDescribeRows
  <2> SUFFICES ASSUME PanelInv, Recorded, Annotation.schema # " 2", NEW c \in Categories
               PROVE  /\ Rows(c) <= Counts(Annotation, c).labeled
                      /\ evidenceType \in {"all", c} /\ decision = AllDecisions =>
                            Rows(c) = Counts(Annotation, c).labeled
                      /\ IsV2(Annotation) =>
                            /\ Counts(Annotation, c).captured = Len(Annotation.rows[c])
                            /\ Counts(Annotation, c).unclear = UnclearRows(Annotation.rows[c])
    BY DEF CountsDescribeRows
  <2>1. ValidAnnotation(Annotation)
    BY DEF PanelInv, PageInv, Recorded, Annotation, Valid, Halves
  <2>2. CASE Annotation.schema = "2"
    <3>1. /\ c \in DOMAIN Annotation.coverage
          /\ CategoryCovered(Annotation.coverage[c], Annotation.rows[c])
      BY <2>1, <2>2 DEF ValidAnnotation, ValidV2
    <3>2. Counts(Annotation, c) = Annotation.coverage[c]
      BY <2>2, <3>1 DEF Counts, IsV2
    <3> QED  BY <3>1, <3>2, RowsAreRecords DEF CategoryCovered, PanelInv
  <2>3. CASE Annotation.schema = "1"
    <3>1. Counts(Annotation, c).labeled = Len(Annotation.rows[c]) /\ ~IsV2(Annotation)
      BY <2>3 DEF Counts, IsV2
    <3> QED  BY <3>1, RowsAreRecords DEF PanelInv
  <2> QED  BY <2>1, <2>2, <2>3 DEF ValidAnnotation
<1> QED  BY <1>1, PanelInvariant, PTL

\* What the API accepts as an improvement of agent instructions the panel lists as one, for
\* paths of any length with dots and empty names anywhere, but for the spellings stated.
THEOREM ImprovementsListed == Spec => []ImprovementsAreListed
<1>1. PanelInv => ImprovementsAreListed
  <2> SUFFICES ASSUME PanelInv, page # None, page["evaluation"] # 0,
                      saves[page["evaluation"]].value.schema = "2",
                      NEW i \in DOMAIN saves[page["evaluation"]].value.improvements
               PROVE  LET m == saves[page["evaluation"]].value.improvements[i] IN
                      Listed(m) \/ SpeltForApiOnly(m.path)
    BY DEF ImprovementsAreListed
  <2> DEFINE e == saves[page["evaluation"]].value
             m == e.improvements[i]
  <2>1. ValidEvaluation(e) /\ e \in Evaluations
    BY DEF PanelInv, PageInv, Valid, Halves, ApiInv, Ordered, Values
  <2>2. ValidImprovement(m) /\ m.path \in Seq(STRING)
    BY <2>1, PathsAssumption DEF ValidEvaluation
  <2>3. CASE m.type = "agent_behavior" /\ m.path = <<>>
    BY <2>3 DEF Listed
  <2>4. CASE IsAgentInstructionPath(m.path)
    BY <2>2, <2>4, PathIsListed DEF Listed
  <2> QED  BY <2>2, <2>3, <2>4 DEF ValidImprovement
<1> QED  BY <1>1, PanelInvariant, PTL

\* The gaps asked for are never hidden by a decision chosen before.
THEOREM GapsShownOnRequest == Spec => []GapsAreShown
<1>1. PanelInv => GapsAreShown
  BY DEF PanelInv, FilterInv
<1> QED  BY <1>1, PanelInvariant, PTL

\* A list that shows more than a page was asked to for the selection it shows.
THEOREM ListsStartShort == Spec => []SelectionsStartShort
<1>1. PanelInv => SelectionsStartShort
  <2> SUFFICES ASSUME PanelInv, NEW c \in Categories, Shown(c) > PageSize
               PROVE  <<c, Selection>> \in asked
    BY DEF SelectionsStartShort
  <2>1. Rows(c) \in Nat
    <3>1. CASE Recorded
      BY <3>1, RowsAreRecords DEF PanelInv
    <3>2. CASE ~Recorded
      BY <3>2 DEF Rows
    <3> QED  BY <3>1, <3>2
  <2>2. PageSize \in Nat /\ Loaded(c) \in Nat
    BY PanelAssumption DEF Loaded, PanelInv, ListInv
  <2>3. Loaded(c) > PageSize
    BY <2>1, <2>2 DEF Shown, Smaller
  <2>4. lists[c].key = Selection /\ lists[c].count > PageSize
    BY <2>2, <2>3 DEF Loaded
  <2> QED  BY <2>4 DEF PanelInv, ListInv
<1> QED  BY <1>1, PanelInvariant, PTL
=============================================================================
