---------------------------- MODULE GradesSyncProofs ---------------------------
(***************************************************************************)
(* Theorems about GradesSync, for any gradebook of Moodle, any number of   *)
(* runs and any mappings the primary synchronisation adds between them.    *)
(***************************************************************************)
EXTENDS GradesSync, FiniteSetTheorems, TLAPS

-------------------------------------------------------------------------------
(* The invariant *)

GradeRows == [student : Students, value : Values]

TypeOK ==
    /\ mapOf \in [Users -> Students \cup {None}] /\ courseMapped \in BOOLEAN
    /\ academic \in AcademicStates /\ tx \in AcademicStates
    /\ runs \in [RunIds -> RunStates]
    /\ watermark \in 0..MaxRuns
    /\ raw \subseteq RunIds
    /\ staging \in StagingStates
    /\ run \in 0..MaxRuns
    /\ pc \in Phases
    /\ extraction \in MoodleStates
    /\ counters \in CounterStates

\* A started process has a run, a starting one room for it; a user has a student
\* of its own; a staged grade has a user.
TypeInv ==
    /\ TypeOK
    /\ pc \notin {"idle", "start"} => run \in RunIds
    /\ pc = "start" => run < MaxRuns
    /\ \A u, v \in Users : mapOf[u] # None /\ mapOf[u] = mapOf[v] => u = v
    /\ \A g \in Present(staging.grades) : UserOf[g] # None

\* A merged grade belongs to the student its user is mapped to.
Owned(d) ==
    \A g \in Grades : d.grade[g] # None =>
        UserOf[g] # None /\ d.grade[g].student = mapOf[UserOf[g]]

\* As IssuesTrackGrades.
IssuesTrack(d) ==
    \A g \in Grades : /\ d.issue[g] = "OPEN" => d.grade[g] = None
                      /\ d.issue[g] = "RESOLVED" => d.grade[g] # None

TablesInv == \A d \in {academic, tx} : Owned(d) /\ IssuesTrack(d) /\ ~PairTaken(d)

Merging == {"items", "grades", "commit"}

Validated(s) ==
    /\ \A g \in Present(s.grades) : s.items[ItemOf[g]] # None
    /\ \A g, h \in Present(s.grades) :
        ItemOf[g] = ItemOf[h] /\ UserOf[g] = UserOf[h] => g = h

ItemsMerged(d, s) == \A i \in Present(s.items) : d.item[i] = s.items[i]

\* n adds to d, and changes in it, what s says and nothing else.
ComesFrom(n, d, s) ==
    /\ \A i \in Items : n.item[i] # d.item[i] =>
        s.items[i] # None /\ n.item[i] = s.items[i]
    /\ \A g \in Grades : n.grade[g] # d.grade[g] =>
        /\ s.grades[g] # None /\ n.grade[g] # None
        /\ n.grade[g].value = s.grades[g].value

\* Where a run is in the pipeline says what its merge has done with the batch.
BatchInv ==
    /\ watermark <= run
    /\ pc \notin {"idle", "start", "failing"} => watermark < run
    /\ pc \in {"raw", "stage", "validate"} \cup Merging => extraction \in Snapshots
    /\ pc \in {"validate"} \cup Merging => staging = Staged(run, extraction)
    /\ pc \in Merging => Validated(staging)
    /\ pc \in Merging \ {"items"} => ItemsMerged(tx, staging)
    /\ pc = "commit" => Reflects(tx, staging)
    /\ IF pc \in Merging THEN ComesFrom(tx, academic, staging) ELSE tx = academic
    /\ NothingLost

LedgerInv ==
    /\ \A r \in RunIds : r > run <=> runs[r].status = "NONE"
    /\ pc \notin {"idle", "start", "failing"} => runs[run].status = "RUNNING"
    /\ pc = "failing" => \/ runs[run].status = "RUNNING"
                         \/ runs[run].status = "SUCCESS" /\ watermark = run

-------------------------------------------------------------------------------
(* The operators the steps are built from *)

LEMMA EmptyAcademicType == EmptyAcademic \in AcademicStates
BY DEF EmptyAcademic, AcademicStates, NoIssues, IssueStates

LEMMA NoExtractionType == NoExtraction \in MoodleStates
BY DEF NoExtraction, MoodleStates

LEMMA ItemParts ==
    ASSUME NEW d \in AcademicStates, staging \in StagingStates
    PROVE  /\ MergedItems(d) \in AcademicStates
           /\ MergedItems(d).grade = d.grade /\ MergedItems(d).issue = d.issue
           /\ \A i \in Items : MergedItems(d).item[i] =
                IF staging.items[i] = None THEN d.item[i] ELSE staging.items[i]
BY DEF MergedItems, AcademicStates, StagingStates

\* The ways of a staged grade.
LEMMA GradeSorts ==
    ASSUME NEW d \in AcademicStates, TypeInv, NEW g \in Grades
    PROVE  /\ g \in Present(staging.grades) <=> staging.grades[g] # None
           /\ staging.grades[g] # None =>
                /\ staging.grades[g] \in [value : Values]
                /\ UserOf[g] \in Users /\ mapOf[UserOf[g]] \in Students \cup {None}
           /\ g \in SkippedGrades <=>
                staging.grades[g] # None /\ mapOf[UserOf[g]] = None
           /\ g \in NewGrades(d) <=>
                /\ staging.grades[g] # None /\ mapOf[UserOf[g]] # None
                /\ d.grade[g] = None
           /\ g \in ChangedGrades(d) <=>
                /\ staging.grades[g] # None /\ mapOf[UserOf[g]] # None
                /\ d.grade[g] # None /\ d.grade[g].value # staging.grades[g].value
<1>1. staging.grades \in [Grades -> [value : Values] \cup {None}]
      /\ mapOf \in [Users -> Students \cup {None}]
  BY DEF TypeInv, TypeOK, StagingStates
<1>2. g \in Present(staging.grades) <=> staging.grades[g] # None
  BY <1>1 DEF Present
<1>3. staging.grades[g] # None =>
        /\ staging.grades[g] \in [value : Values]
        /\ UserOf[g] \in Users /\ mapOf[UserOf[g]] \in Students \cup {None}
  BY <1>1, <1>2, GradesAssumption DEF TypeInv
<1> QED BY <1>2, <1>3 DEF SkippedGrades, NewGrades, ChangedGrades

\* What _merge_student_grades does to one grade and its issue.
LEMMA GradeParts ==
    ASSUME NEW d \in AcademicStates, TypeInv
    PROVE  /\ MergedGrades(d) \in AcademicStates /\ MergedGrades(d).item = d.item
           /\ \A g \in NewGrades(d) : MergedGrades(d).grade[g] =
                [student |-> mapOf[UserOf[g]], value |-> staging.grades[g].value]
           /\ \A g \in ChangedGrades(d) : MergedGrades(d).grade[g] =
                [d.grade[g] EXCEPT !.value = staging.grades[g].value]
           /\ \A g \in Grades \ (NewGrades(d) \cup ChangedGrades(d)) :
                MergedGrades(d).grade[g] = d.grade[g]
           /\ \A g \in Grades : MergedGrades(d).issue[g] =
                IF g \in SkippedGrades THEN "OPEN"
                ELSE IF g \in NewGrades(d) /\ d.issue[g] = "OPEN" THEN "RESOLVED"
                ELSE d.issue[g]
<1> DEFINE grade == [g \in Grades |->
            CASE g \in NewGrades(d) ->
                    [student |-> mapOf[UserOf[g]], value |-> staging.grades[g].value]
              [] g \in ChangedGrades(d) ->
                    [d.grade[g] EXCEPT !.value = staging.grades[g].value]
              [] OTHER -> d.grade[g]]
<1>1. MergedGrades(d) = [d EXCEPT !.grade = grade, !.issue = MergedIssues(d)]
  BY DEF MergedGrades
<1>2. NewGrades(d) \subseteq Grades /\ ChangedGrades(d) \subseteq Grades
  BY DEF NewGrades, ChangedGrades, Present, TypeInv, TypeOK, StagingStates
<1>3. ASSUME NEW g \in Grades
      PROVE  /\ g \in NewGrades(d) => grade[g] =
                [student |-> mapOf[UserOf[g]], value |-> staging.grades[g].value]
             /\ g \in ChangedGrades(d) =>
                grade[g] = [d.grade[g] EXCEPT !.value = staging.grades[g].value]
             /\ g \notin NewGrades(d) \cup ChangedGrades(d) => grade[g] = d.grade[g]
  BY DEF NewGrades, ChangedGrades
<1>4. ASSUME NEW g \in Grades
      PROVE  grade[g] \in GradeRows \cup {None}
  <2>1. d.grade[g] \in GradeRows \cup {None}
    BY DEF AcademicStates, GradeRows
  <2>2. CASE g \in NewGrades(d)
    BY <1>3, <2>2, GradeSorts DEF GradeRows
  <2>3. CASE g \in ChangedGrades(d)
    <3>1. grade[g] = [d.grade[g] EXCEPT !.value = staging.grades[g].value]
      BY <1>3, <2>3
    <3>2. d.grade[g] \in GradeRows /\ staging.grades[g] \in [value : Values]
      BY <2>1, <2>3, GradeSorts
    <3> QED BY <3>1, <3>2 DEF GradeRows
  <2> QED BY <1>3, <2>1, <2>2, <2>3
<1>5. grade \in [Grades -> GradeRows \cup {None}]
  BY <1>4
<1>6. \A g \in Grades : MergedIssues(d)[g] =
        IF g \in SkippedGrades THEN "OPEN"
        ELSE IF g \in NewGrades(d) /\ d.issue[g] = "OPEN" THEN "RESOLVED"
        ELSE d.issue[g]
  <2>1. d.issue \in [Grades -> IssueStates]
    BY DEF AcademicStates
  <2>2. \A g \in Grades : /\ Opened(d.issue, g)[g] = "OPEN"
                          /\ Resolved(d.issue, g)[g] =
                                IF d.issue[g] = "OPEN" THEN "RESOLVED" ELSE d.issue[g]
    BY <2>1 DEF Opened, Resolved
  <2> QED BY <2>2 DEF MergedIssues, NewGrades
<1>7. MergedIssues(d) \in [Grades -> IssueStates]
  <2>1. \A g \in Grades : MergedIssues(d)[g] \in IssueStates
    BY <1>6 DEF AcademicStates, IssueStates
  <2> QED BY <2>1 DEF MergedIssues
<1> HIDE DEF grade
<1>8. /\ MergedGrades(d) \in AcademicStates /\ MergedGrades(d).item = d.item
      /\ MergedGrades(d).grade = grade /\ MergedGrades(d).issue = MergedIssues(d)
  BY <1>1, <1>5, <1>7 DEF AcademicStates, GradeRows
<1> QED BY <1>2, <1>3, <1>6, <1>8

LEMMA StagedParts ==
    ASSUME NEW b \in 0..MaxRuns, NEW x \in MoodleStates
    PROVE  /\ Staged(b, x) \in StagingStates /\ Staged(b, x).batch = b
           /\ \A i \in Items : Staged(b, x).items[i] # None =>
                /\ i \in Present(x.items) \ HiddenItems(x)
                /\ Staged(b, x).items[i] = Clean[x.items[i].form]
           /\ \A g \in Grades : Staged(b, x).grades[g] # None =>
                /\ g \in Present(x.grades) \ HiddenGrades(x) /\ UserOf[g] # None
                /\ Staged(b, x).grades[g].value = x.grades[g].value
<1> DEFINE item(i) == IF i \in Present(x.items) \ HiddenItems(x)
                      THEN Clean[x.items[i].form] ELSE None
           grade(g) == IF g \in Present(x.grades) \ HiddenGrades(x) /\ UserOf[g] # None
                       THEN [value |-> x.grades[g].value] ELSE None
<1>1. \A i \in Items : item(i) \in ItemContents \cup {None}
  BY GradesAssumption DEF MoodleStates, Present
<1>2. \A g \in Grades : grade(g) \in [value : Values] \cup {None}
  BY DEF MoodleStates, Present
<1>3. Staged(b, x) = [batch |-> b, items |-> [i \in Items |-> item(i)],
                      grades |-> [g \in Grades |-> grade(g)]]
  BY DEF Staged
<1>4. Staged(b, x) \in StagingStates
  <2> HIDE DEF item, grade
  <2> QED BY <1>1, <1>2, <1>3 DEF StagingStates
<1> QED BY <1>3, <1>4

LEMMA RowsReadType ==
    ASSUME NEW x \in MoodleStates
    PROVE  RowsRead(x) \in Nat
<1>1. Present(x.items) \subseteq Items /\ Present(x.grades) \subseteq Grades
  BY DEF Present, MoodleStates
<1>2. IsFiniteSet(Present(x.items)) /\ IsFiniteSet(Present(x.grades))
  BY <1>1, GradesAssumption, FS_Subset
<1>3. Cardinality(Present(x.items)) \in Nat /\ Cardinality(Present(x.grades)) \in Nat
  BY <1>2, FS_CardinalityType
<1> QED BY <1>3 DEF RowsRead

LEMMA TallyType ==
    ASSUME NEW c \in CounterStates, NEW a, NEW b, NEW s, NEW k,
           IsFiniteSet(a), IsFiniteSet(b), IsFiniteSet(s), IsFiniteSet(k)
    PROVE  Tally(c, a, b, s, k) \in CounterStates
<1>1. Cardinality(a) \in Nat /\ Cardinality(b) \in Nat /\ Cardinality(s) \in Nat
      /\ Cardinality(k) \in Nat
  BY FS_CardinalityType
<1> QED BY <1>1 DEF Tally, CounterStates

-------------------------------------------------------------------------------
(* Types *)

LEMMA InitTyped == Init => TypeInv
<1> SUFFICES ASSUME Init PROVE TypeInv
  OBVIOUS
<1> USE DEF Init
<1>1. academic \in AcademicStates /\ tx \in AcademicStates
  BY EmptyAcademicType
<1>2. runs \in [RunIds -> RunStates] /\ counters \in CounterStates
  BY DEF NoRun, RunStates, NoCounters, CounterStates
<1>3. /\ staging \in StagingStates /\ extraction \in MoodleStates
      /\ \A g \in Grades : staging.grades[g] # None => UserOf[g] # None
  BY NoExtractionType, StagedParts, GradesAssumption
<1>4. watermark \in 0..MaxRuns /\ run \in 0..MaxRuns
  BY GradesAssumption
<1>5. \A g \in Present(staging.grades) : UserOf[g] # None
  BY <1>3 DEF Present, StagingStates
<1> QED BY <1>1, <1>2, <1>3, <1>4, <1>5 DEF TypeInv, TypeOK, Phases

\* What an exception or the end of the process leaves in memory is typed.
LEMMA EndsTyped ==
    ASSUME TypeInv, pc # "idle", EndOfProcess \/ (Raise /\ pc # "start"),
           academic' \in AcademicStates, runs' \in [RunIds -> RunStates],
           watermark' \in 0..MaxRuns, UNCHANGED <<raw, staging>>
    PROVE  TypeInv'
<1>1. /\ UNCHANGED <<mapOf, courseMapped, run, raw, staging>>
      /\ pc' \in {"idle", "failing"} /\ (pc' = "failing" => run \in RunIds)
      /\ tx' \in AcademicStates /\ counters' = NoCounters
      /\ extraction' \in MoodleStates
  BY NoExtractionType DEF EndOfProcess, Raise, primary, TypeInv, TypeOK
<1>2. counters' \in CounterStates
  BY <1>1 DEF NoCounters, CounterStates
<1> QED BY <1>1, <1>2 DEF TypeInv, TypeOK, Phases, Present

LEMMA QuietTyped ==
    ASSUME TypeInv, pc # "idle", EndOfProcess \/ (Raise /\ pc # "start"), UNCHANGED tables
    PROVE  TypeInv'
<1>1. /\ academic' \in AcademicStates /\ runs' \in [RunIds -> RunStates]
      /\ watermark' \in 0..MaxRuns /\ UNCHANGED <<raw, staging>>
  BY DEF tables, TypeInv, TypeOK
<1> QED BY <1>1, EndsTyped

\* Steps of a run that go on: they write some of its state and keep the rest.
LEMMA StepTyped ==
    ASSUME TypeInv, run \in RunIds, pc' \in Phases \ {"idle", "start"},
           UNCHANGED <<mapOf, courseMapped, academic, runs, watermark, run>>,
           raw' \subseteq RunIds, staging' \in StagingStates, extraction' \in MoodleStates,
           tx' \in AcademicStates, counters' \in CounterStates,
           \A g \in Grades : staging'.grades[g] # None => UserOf[g] # None
    PROVE  TypeInv'
<1>1. \A g \in Present(staging'.grades) : UserOf[g] # None
  BY DEF Present, StagingStates
<1> QED BY <1>1 DEF TypeInv, TypeOK, Present

LEMMA StagedUsers ==
    ASSUME TypeInv
    PROVE  \A g \in Grades : staging.grades[g] # None => UserOf[g] # None
BY DEF TypeInv, TypeOK, StagingStates, Present

LEMMA NextTyped == TypeInv /\ [Next]_vars => TypeInv'
<1> SUFFICES ASSUME TypeInv, [Next]_vars PROVE TypeInv'
  OBVIOUS
<1> USE DEF tables, primary, MovesTo
<1>1. CASE PrimarySync
  BY <1>1 DEF PrimarySync, TypeInv, TypeOK, Phases, Present
<1>2. CASE StartSyncRun
  <2>1. run + 1 \in RunIds /\ run' \in RunIds /\ run' \in 0..MaxRuns
    BY <1>2, GradesAssumption DEF StartSyncRun, RunIds, TypeInv, TypeOK
  <2>2. [NoRun EXCEPT !.status = "RUNNING"] \in RunStates
    BY DEF NoRun, RunStates, NoCounters, CounterStates
  <2>3. runs' \in [RunIds -> RunStates]
    BY <1>2, <2>1, <2>2 DEF StartSyncRun, TypeInv, TypeOK
  <2> QED BY <1>2, <2>1, <2>3 DEF StartSyncRun, TypeInv, TypeOK, Phases, Present
<1>3. CASE Extract
  <2>1. extraction' \in MoodleStates
    BY <1>3, GradesAssumption DEF Extract
  <2> QED BY <1>3, <2>1, StagedUsers, StepTyped DEF Extract, TypeInv, TypeOK, Phases
<1>4. CASE WriteRawBatch
  <2>1. run \in RunIds
    BY <1>4 DEF WriteRawBatch, TypeInv
  <2> QED BY <1>4, <2>1, StagedUsers, StepTyped DEF WriteRawBatch, TypeInv, TypeOK, Phases
<1>5. CASE WriteStagingBatch
  <2>1. run \in RunIds /\ run \in 0..MaxRuns /\ extraction \in MoodleStates
    BY <1>5 DEF WriteStagingBatch, TypeInv, TypeOK
  <2>2. staging' = Staged(run, extraction)
    BY <1>5 DEF WriteStagingBatch
  <2>3. /\ staging' \in StagingStates
        /\ \A g \in Grades : staging'.grades[g] # None => UserOf[g] # None
    BY <2>1, <2>2, StagedParts
  <2> QED BY <1>5, <2>1, <2>3, StepTyped DEF WriteStagingBatch, TypeInv, TypeOK, Phases
<1>6. CASE ValidateStagedBatch
  <2>1. UNCHANGED tables /\ pc = "validate"
    BY <1>6 DEF ValidateStagedBatch
  <2>2. CASE Raise
    BY <2>1, <2>2, QuietTyped
  <2>3. CASE ~Raise
    <3>1. MovesTo("items") /\ UNCHANGED extraction
      BY <1>6, <2>3 DEF ValidateStagedBatch
    <3> QED BY <2>1, <3>1, StagedUsers, StepTyped DEF TypeInv, TypeOK, Phases
  <2> QED BY <2>2, <2>3
<1>7. CASE MergeItems
  <2>1. tx' \in AcademicStates
    BY <1>7, ItemParts DEF MergeItems, TypeInv, TypeOK
  <2>2. \A f : f \subseteq Present(staging.items) => IsFiniteSet(f)
    BY GradesAssumption, FS_Subset DEF TypeInv, TypeOK, StagingStates, Present
  <2>3. PICK known : known = {i \in Present(staging.items) : tx.item[i] # None}
    OBVIOUS
  <2>4. PICK same : same = {i \in known : tx.item[i] = staging.items[i]}
    OBVIOUS
  <2>5. counters' = Tally(counters, Present(staging.items) \ known, known \ same, same, {})
    BY <1>7, <2>3, <2>4 DEF MergeItems
  <2>6. counters' \in CounterStates
    BY <2>2, <2>3, <2>4, <2>5, TallyType DEF TypeInv, TypeOK
  <2> QED BY <1>7, <2>1, <2>6, StagedUsers, StepTyped DEF MergeItems, TypeInv, TypeOK, Phases
<1>8. CASE MergeGrades
  <2>1. tx' \in AcademicStates
    BY <1>8, GradeParts DEF MergeGrades, TypeInv, TypeOK
  <2>2. \A f : f \subseteq Present(staging.grades) => IsFiniteSet(f)
    BY GradesAssumption, FS_Subset DEF TypeInv, TypeOK, StagingStates, Present
  <2>3. /\ IsFiniteSet(NewGrades(tx)) /\ IsFiniteSet(ChangedGrades(tx))
        /\ IsFiniteSet(SameGrades(tx)) /\ IsFiniteSet(SkippedGrades)
    BY <2>2 DEF NewGrades, ChangedGrades, SameGrades, SkippedGrades
  <2>4. counters' \in CounterStates
    BY <1>8, <2>3, TallyType DEF MergeGrades, TypeInv, TypeOK
  <2> QED BY <1>8, <2>1, <2>4, StagedUsers, StepTyped DEF MergeGrades, TypeInv, TypeOK, Phases
<1>9. CASE Commit
  <2>1. [status |-> "SUCCESS", read |-> RowsRead(extraction), merged |-> counters]
            \in RunStates
    BY RowsReadType DEF TypeInv, TypeOK, RunStates
  <2>2. runs' \in [RunIds -> RunStates] /\ academic' \in AcademicStates
        /\ watermark' \in 0..MaxRuns
    BY <1>9, <2>1 DEF Commit, TypeInv, TypeOK
  <2> QED BY <1>9, <2>2, EndsTyped DEF Commit
<1>10. CASE MarkSyncRunFailed
  <2>1. /\ run \in RunIds /\ runs \in [RunIds -> RunStates] /\ RowsRead(extraction) \in Nat
    BY <1>10, RowsReadType DEF MarkSyncRunFailed, TypeInv, TypeOK
  <2>2. runs' \in [RunIds -> RunStates]
    BY <1>10, <2>1 DEF MarkSyncRunFailed, RunStates
  <2>3. academic' \in AcademicStates /\ watermark' \in 0..MaxRuns
    BY <1>10 DEF MarkSyncRunFailed, TypeInv, TypeOK
  <2> QED BY <1>10, <2>2, <2>3, EndsTyped DEF MarkSyncRunFailed
<1>11. CASE GradeConflict \/ Fault \/ Crash
  BY <1>11, QuietTyped DEF GradeConflict, Fault, Crash
<1>12. CASE UNCHANGED vars
  BY <1>12 DEF vars, worker, TypeInv, TypeOK, Present
<1> QED BY <1>1, <1>2, <1>3, <1>4, <1>5, <1>6, <1>7, <1>8, <1>9, <1>10, <1>11, <1>12
        DEF Next

LEMMA AlwaysTyped == Spec => []TypeInv
BY InitTyped, NextTyped, PTL DEF Spec

\* Every table, and everything the worker remembers, keeps its type.
THEOREM TypeCorrect == Spec => []TypeOK
<1>1. TypeInv => TypeOK
  BY DEF TypeInv
<1> QED BY <1>1, AlwaysTyped, PTL

-------------------------------------------------------------------------------
(* The tables, committed and in the merge transaction *)

\* Only a commit publishes the transaction, and only the merge adds to it; the
\* mappings change only before it opens.
LEMMA TxSteps ==
    ASSUME TypeInv, BatchInv, [Next]_vars
    PROVE  \/ /\ academic' = academic /\ tx' \in {tx, academic}
              /\ mapOf' = mapOf
           \/ /\ academic' = academic /\ tx' = academic /\ pc = "idle"
              /\ \A u \in Users : mapOf[u] # None => mapOf'[u] = mapOf[u]
           \/ academic' = tx /\ tx' = tx /\ mapOf' = mapOf
           \/ academic' = academic /\ tx' = MergedItems(tx) /\ mapOf' = mapOf
           \/ /\ academic' = academic /\ tx' = MergedGrades(tx) /\ ~Refused(tx)
              /\ mapOf' = mapOf
<1> USE DEF tables, primary, MovesTo
<1>1. CASE PrimarySync
  BY <1>1 DEF PrimarySync, BatchInv, Merging
<1>2. CASE StartSyncRun \/ Extract \/ WriteRawBatch \/ WriteStagingBatch \/ UNCHANGED vars
  BY <1>2 DEF StartSyncRun, Extract, WriteRawBatch, WriteStagingBatch, vars, worker
<1>3. CASE ValidateStagedBatch \/ GradeConflict \/ Fault \/ Crash \/ MarkSyncRunFailed
  BY <1>3 DEF ValidateStagedBatch, GradeConflict, Fault, Crash, MarkSyncRunFailed, Raise,
              EndOfProcess
<1>4. CASE Commit
  BY <1>4 DEF Commit, Raise, EndOfProcess
<1>5. CASE MergeItems \/ MergeGrades
  BY <1>5 DEF MergeItems, MergeGrades
<1> QED BY <1>1, <1>2, <1>3, <1>4, <1>5 DEF Next

LEMMA MergedGradesTables ==
    ASSUME TypeInv, Owned(tx), IssuesTrack(tx)
    PROVE  Owned(MergedGrades(tx)) /\ IssuesTrack(MergedGrades(tx))
<1> DEFINE n == MergedGrades(tx)
<1>1. tx \in AcademicStates /\ tx.grade \in [Grades -> GradeRows \cup {None}]
  BY DEF TypeInv, TypeOK, AcademicStates, GradeRows
<1>2. ASSUME NEW g \in Grades
      PROVE  /\ n.grade[g] # None => /\ UserOf[g] # None
                                     /\ n.grade[g].student = mapOf[UserOf[g]]
             /\ n.issue[g] = "OPEN" => n.grade[g] = None
             /\ n.issue[g] = "RESOLVED" => n.grade[g] # None
  <2>1. /\ tx.grade[g] # None => /\ UserOf[g] # None /\ tx.grade[g] \in GradeRows
                                 /\ tx.grade[g].student = mapOf[UserOf[g]]
                                 /\ mapOf[UserOf[g]] # None
        /\ tx.issue[g] = "OPEN" => tx.grade[g] = None
        /\ tx.issue[g] = "RESOLVED" => tx.grade[g] # None
    BY <1>1, GradesAssumption DEF Owned, IssuesTrack, GradeRows
  <2>2. n.issue[g] = IF g \in SkippedGrades THEN "OPEN"
                     ELSE IF g \in NewGrades(tx) /\ tx.issue[g] = "OPEN" THEN "RESOLVED"
                     ELSE tx.issue[g]
    BY <1>1, GradeParts
  <2>3. CASE g \in NewGrades(tx)
    <3>1. n.grade[g] = [student |-> mapOf[UserOf[g]], value |-> staging.grades[g].value]
      BY <1>1, <2>3, GradeParts
    <3>2. /\ staging.grades[g] # None /\ staging.grades[g] \in [value : Values]
          /\ UserOf[g] \in Users /\ mapOf[UserOf[g]] \in Students /\ g \notin SkippedGrades
      BY <1>1, <2>3, GradeSorts
    <3>3. n.grade[g] \in GradeRows
      BY <3>1, <3>2 DEF GradeRows
    <3>4. n.grade[g] # None /\ UserOf[g] # None
      BY <3>2, <3>3, GradesAssumption DEF GradeRows
    <3> QED BY <2>2, <2>3, <3>1, <3>2, <3>4
  <2>4. CASE g \in ChangedGrades(tx)
    <3>1. n.grade[g] = [tx.grade[g] EXCEPT !.value = staging.grades[g].value]
      BY <1>1, <2>4, GradeParts
    <3>2. /\ tx.grade[g] \in GradeRows /\ staging.grades[g] \in [value : Values]
          /\ g \notin NewGrades(tx) /\ g \notin SkippedGrades
      BY <1>1, <2>1, <2>4, GradeSorts
    <3>3. n.grade[g] \in GradeRows /\ n.grade[g].student = tx.grade[g].student
      BY <3>1, <3>2 DEF GradeRows
    <3>4. n.grade[g] # None
      BY <3>3, GradesAssumption DEF GradeRows
    <3> QED BY <2>1, <2>2, <3>2, <3>3, <3>4, <1>1, <2>4, GradeSorts
  <2>5. CASE g \notin NewGrades(tx) \cup ChangedGrades(tx)
    <3>1. n.grade[g] = tx.grade[g]
      BY <1>1, <2>5, GradeParts
    <3>2. g \in SkippedGrades => tx.grade[g] = None
      BY <1>1, <2>1, GradeSorts
    <3> QED BY <2>1, <2>2, <2>5, <3>1, <3>2
  <2> QED BY <2>3, <2>4, <2>5
<1> HIDE DEF n
<1>3. Owned(n) /\ IssuesTrack(n)
  BY <1>2 DEF Owned, IssuesTrack
<1> QED BY <1>3 DEF n

\* What the tables say does not change with the mappings the primary adds.
LEMMA OwnedLater ==
    ASSUME TypeInv, NEW d \in AcademicStates, Owned(d),
           \A u \in Users : mapOf[u] # None => mapOf'[u] = mapOf[u]
    PROVE  \A g \in Grades : d.grade[g] # None =>
                UserOf[g] # None /\ d.grade[g].student = mapOf'[UserOf[g]]
<1>1. \A g \in Grades : d.grade[g] # None =>
        /\ UserOf[g] \in Users /\ d.grade[g].student = mapOf[UserOf[g]]
        /\ UserOf[g] # None /\ d.grade[g].student # None
  BY GradesAssumption DEF Owned, AcademicStates
<1> QED BY <1>1

LEMMA NextTables == TypeInv /\ BatchInv /\ TablesInv /\ [Next]_vars => TablesInv'
<1> SUFFICES ASSUME TypeInv, BatchInv, TablesInv, [Next]_vars PROVE TablesInv'
  OBVIOUS
<1>0. tx \in AcademicStates /\ academic \in AcademicStates /\ staging \in StagingStates
  BY DEF TypeInv, TypeOK
<1> USE DEF TablesInv
<1>1. CASE academic' = academic /\ tx' \in {tx, academic} /\ mapOf' = mapOf
  BY <1>1 DEF Owned, IssuesTrack, PairTaken, Present
<1>2. CASE academic' = academic /\ tx' = academic
           /\ \A u \in Users : mapOf[u] # None => mapOf'[u] = mapOf[u]
  <2>1. \A g \in Grades : academic.grade[g] # None =>
            UserOf[g] # None /\ academic.grade[g].student = mapOf'[UserOf[g]]
    BY <1>0, <1>2, OwnedLater
  <2> QED BY <1>2, <2>1 DEF Owned, IssuesTrack, PairTaken, Present
<1>3. CASE academic' = tx /\ tx' = tx /\ mapOf' = mapOf
  BY <1>3 DEF Owned, IssuesTrack, PairTaken, Present
<1>4. CASE academic' = academic /\ tx' = MergedItems(tx) /\ mapOf' = mapOf
  <2>1. tx'.grade = tx.grade /\ tx'.issue = tx.issue
    BY <1>0, <1>4, ItemParts
  <2> QED BY <1>4, <2>1 DEF Owned, IssuesTrack, PairTaken, Present
<1>5. CASE academic' = academic /\ tx' = MergedGrades(tx) /\ ~Refused(tx) /\ mapOf' = mapOf
  <2>1. Owned(tx') /\ IssuesTrack(tx') /\ ~PairTaken(tx')
    BY <1>5, MergedGradesTables DEF Refused
  <2> QED BY <1>5, <2>1 DEF Owned, IssuesTrack, PairTaken, Present
<1> QED BY <1>1, <1>2, <1>3, <1>4, <1>5, TxSteps

-------------------------------------------------------------------------------
(* What a batch becomes *)

\* A step that ends the merge, or is before it, writes no table.
LEMMA QuietBatch ==
    ASSUME TypeInv, BatchInv, UNCHANGED <<academic, watermark, staging, run>>,
           \/ pc' \in {"idle", "start", "failing"} /\ tx' = academic
           \/ /\ pc \notin {"idle", "start", "failing"} \cup Merging
              /\ pc' \in {"raw", "stage"} /\ extraction' \in Snapshots /\ tx' = tx
    PROVE  BatchInv'
BY DEF BatchInv, Merging, NothingLost, Reflects, Present

LEMMA MergedItemsBatch ==
    ASSUME TypeInv, BatchInv, pc = "items"
    PROVE  /\ ItemsMerged(MergedItems(tx), staging)
           /\ ComesFrom(MergedItems(tx), academic, staging)
<1> DEFINE n == MergedItems(tx)
<1>1. /\ tx \in AcademicStates /\ staging \in StagingStates
      /\ ComesFrom(tx, academic, staging)
  BY DEF TypeInv, TypeOK, BatchInv, Merging
<1>2. /\ n.grade = tx.grade
      /\ \A i \in Items : n.item[i] = IF staging.items[i] = None THEN tx.item[i]
                                      ELSE staging.items[i]
  BY <1>1, ItemParts
<1>3. \A i \in Present(staging.items) : i \in Items /\ staging.items[i] # None
  BY <1>1 DEF StagingStates, Present
<1> HIDE DEF n
<1>4. ItemsMerged(n, staging)
  BY <1>2, <1>3 DEF ItemsMerged
<1>5. ComesFrom(n, academic, staging)
  BY <1>1, <1>2 DEF ComesFrom
<1> QED BY <1>4, <1>5 DEF n

LEMMA MergedGradesBatch ==
    ASSUME TypeInv, BatchInv, Owned(tx), pc = "grades"
    PROVE  /\ ItemsMerged(MergedGrades(tx), staging)
           /\ ComesFrom(MergedGrades(tx), academic, staging)
           /\ Reflects(MergedGrades(tx), staging)
<1> DEFINE n == MergedGrades(tx)
<1>1. /\ tx \in AcademicStates /\ staging \in StagingStates
      /\ tx.grade \in [Grades -> GradeRows \cup {None}]
      /\ ComesFrom(tx, academic, staging) /\ ItemsMerged(tx, staging)
  BY DEF TypeInv, TypeOK, BatchInv, Merging, AcademicStates, GradeRows
<1>2. n.item = tx.item
  BY <1>1, GradeParts
<1>3. ASSUME NEW g \in NewGrades(tx) \cup ChangedGrades(tx)
      PROVE  /\ g \in Grades /\ staging.grades[g] # None /\ n.grade[g] # None
             /\ n.grade[g].value = staging.grades[g].value
  <2>1. g \in Grades
    BY <1>1, <1>3 DEF NewGrades, ChangedGrades, Present, StagingStates
  <2>2. staging.grades[g] # None /\ staging.grades[g] \in [value : Values]
        /\ mapOf[UserOf[g]] \in Students
    BY <1>1, <1>3, <2>1, GradeSorts
  <2>3. n.grade[g] \in GradeRows /\ n.grade[g].value = staging.grades[g].value
    <3>1. CASE g \in NewGrades(tx)
      <4>1. n.grade[g] = [student |-> mapOf[UserOf[g]], value |-> staging.grades[g].value]
        BY <1>1, <3>1, GradeParts
      <4> QED BY <2>2, <4>1 DEF GradeRows
    <3>2. CASE g \in ChangedGrades(tx)
      <4>1. tx.grade[g] \in GradeRows
        BY <1>1, <2>1, <3>2, GradeSorts
      <4>2. n.grade[g] = [tx.grade[g] EXCEPT !.value = staging.grades[g].value]
        BY <1>1, <3>2, GradeParts
      <4> QED BY <2>2, <4>1, <4>2 DEF GradeRows
    <3> QED BY <1>3, <3>1, <3>2
  <2>4. n.grade[g] # None
    BY <2>3, GradesAssumption DEF GradeRows
  <2> QED BY <2>1, <2>2, <2>3, <2>4
<1>4. \A g \in Grades \ (NewGrades(tx) \cup ChangedGrades(tx)) : n.grade[g] = tx.grade[g]
  BY <1>1, GradeParts
<1>5. ASSUME NEW g \in Present(staging.grades)
      PROVE  IF n.grade[g] = None THEN n.issue[g] = "OPEN"
             ELSE n.grade[g].value = staging.grades[g].value
  <2>1. g \in Grades /\ staging.grades[g] # None
    BY <1>1 DEF StagingStates, Present
  <2>2. CASE g \in NewGrades(tx) \cup ChangedGrades(tx)
    BY <1>3, <2>2
  <2>3. CASE g \notin NewGrades(tx) \cup ChangedGrades(tx)
    <3>1. n.grade[g] = tx.grade[g]
      BY <1>4, <2>1, <2>3
    <3>2. CASE mapOf[UserOf[g]] = None
      <4>1. n.issue[g] = "OPEN"
        BY <1>1, <2>1, <3>2, GradeSorts, GradeParts
      <4>2. tx.grade[g] = None
        BY <1>1, <2>1, <3>2, GradesAssumption DEF Owned, GradeRows
      <4> QED BY <3>1, <4>1, <4>2
    <3>3. CASE mapOf[UserOf[g]] # None
      <4>1. tx.grade[g] # None /\ tx.grade[g].value = staging.grades[g].value
        BY <1>1, <2>1, <2>3, <3>3, GradeSorts
      <4> QED BY <3>1, <4>1
    <3> QED BY <3>2, <3>3
  <2> QED BY <2>2, <2>3
<1> HIDE DEF n
<1>6. ItemsMerged(n, staging)
  BY <1>1, <1>2 DEF ItemsMerged
<1>7. ComesFrom(n, academic, staging)
  BY <1>1, <1>2, <1>3, <1>4 DEF ComesFrom
<1>8. Reflects(n, staging)
  BY <1>5, <1>6 DEF Reflects, ItemsMerged
<1> QED BY <1>6, <1>7, <1>8 DEF n

LEMMA NextBatch == TypeInv /\ TablesInv /\ BatchInv /\ [Next]_vars => BatchInv'
<1> SUFFICES ASSUME TypeInv, TablesInv, BatchInv, [Next]_vars PROVE BatchInv'
  OBVIOUS
<1>0. /\ run \in Nat /\ watermark \in Nat /\ run \in 0..MaxRuns
      /\ tx \in AcademicStates /\ staging \in StagingStates /\ extraction \in MoodleStates
  BY GradesAssumption DEF TypeInv, TypeOK
<1> USE DEF tables, primary, MovesTo
<1>1. CASE PrimarySync \/ Extract \/ WriteRawBatch \/ GradeConflict \/ Fault \/ Crash
           \/ MarkSyncRunFailed
  <2>1. UNCHANGED <<academic, watermark, staging, run>>
    BY <1>1 DEF PrimarySync, Extract, WriteRawBatch, GradeConflict, Fault, Crash,
                MarkSyncRunFailed, Raise, EndOfProcess
  <2>2. \/ pc' \in {"idle", "start", "failing"} /\ tx' = academic
        \/ /\ pc \notin {"idle", "start", "failing"} \cup Merging
           /\ pc' \in {"raw", "stage"} /\ extraction' \in Snapshots /\ tx' = tx
    BY <1>1 DEF PrimarySync, Extract, WriteRawBatch, GradeConflict, Fault, Crash,
                MarkSyncRunFailed, Raise, EndOfProcess, BatchInv, Merging
  <2> QED BY <2>1, <2>2, QuietBatch
<1>2. CASE StartSyncRun
  BY <1>0, <1>2 DEF StartSyncRun, BatchInv, Merging, NothingLost, Reflects, Present
<1>3. CASE WriteStagingBatch
  <2>1. /\ staging' = Staged(run, extraction) /\ pc = "stage" /\ pc' = "validate"
        /\ UNCHANGED <<academic, watermark, run, tx, extraction>>
    BY <1>3 DEF WriteStagingBatch
  <2>2. staging'.batch = run
    BY <1>0, <2>1, StagedParts
  <2>3. Staged(run, extraction)' = Staged(run, extraction)
    BY <2>1 DEF Staged, Present, HiddenItems, HiddenGrades
  <2> QED BY <1>0, <2>1, <2>2, <2>3 DEF BatchInv, Merging, NothingLost
<1>4. CASE ValidateStagedBatch
  <2>1. UNCHANGED <<academic, watermark, staging, run, extraction>> /\ pc = "validate"
    BY <1>4 DEF ValidateStagedBatch, Raise
  <2>2. CASE Raise
    BY <2>1, <2>2, QuietBatch DEF Raise
  <2>3. CASE ~Raise
    <3>1. ~ValidationIssues(staging) /\ pc' = "items" /\ tx' = tx /\ tx = academic
      BY <1>4, <2>1, <2>3 DEF ValidateStagedBatch, BatchInv, Merging
    <3>2. Validated(staging)
      BY <3>1 DEF ValidationIssues, Validated
    <3>3. Validated(staging)' /\ ComesFrom(tx, academic, staging)'
      BY <2>1, <3>1, <3>2 DEF Validated, Present, ComesFrom
    <3>4. Staged(run, extraction)' = Staged(run, extraction)
      BY <2>1 DEF Staged, Present, HiddenItems, HiddenGrades
    <3> QED BY <2>1, <3>1, <3>3, <3>4 DEF BatchInv, Merging, NothingLost, Reflects, Present
  <2> QED BY <2>2, <2>3
<1>5. CASE MergeItems \/ MergeGrades
  <2>1. UNCHANGED <<academic, watermark, staging, run, extraction>>
    BY <1>5 DEF MergeItems, MergeGrades
  <2>2. /\ ItemsMerged(tx', staging) /\ ComesFrom(tx', academic, staging)
        /\ pc \in Merging /\ pc' \in {"grades", "commit"}
        /\ pc' = "commit" => Reflects(tx', staging)
    BY <1>5, MergedItemsBatch, MergedGradesBatch
       DEF MergeItems, MergeGrades, TablesInv, Merging
  <2>3. /\ ItemsMerged(tx, staging)' /\ ComesFrom(tx, academic, staging)'
        /\ pc' = "commit" => Reflects(tx, staging)'
    BY <2>1, <2>2 DEF ItemsMerged, ComesFrom, Reflects, Present
  <2>4. /\ Staged(run, extraction)' = Staged(run, extraction)
        /\ Validated(staging)' = Validated(staging)
    BY <2>1 DEF Staged, Present, HiddenItems, HiddenGrades, Validated
  <2> QED BY <2>1, <2>2, <2>3, <2>4 DEF BatchInv, Merging, NothingLost, Reflects, Present
<1>6. CASE Commit
  <2>1. /\ pc = "commit" /\ academic' = tx /\ tx' = tx /\ watermark' = run
        /\ UNCHANGED <<staging, run>> /\ pc' \in {"idle", "failing"}
    BY <1>6 DEF Commit, Raise, EndOfProcess
  <2>2. Reflects(academic', staging')
    BY <2>1 DEF BatchInv, Reflects, Present
  <2> QED BY <1>0, <2>1, <2>2 DEF BatchInv, Merging, NothingLost, Reflects, Present
<1>7. CASE UNCHANGED vars
  <2>1. /\ UNCHANGED <<academic, watermark, staging, run, pc, tx, extraction>>
    BY <1>7 DEF vars, worker
  <2>2. /\ Staged(run, extraction)' = Staged(run, extraction)
        /\ Validated(staging)' = Validated(staging)
    BY <2>1 DEF Staged, Present, HiddenItems, HiddenGrades, Validated
  <2> QED BY <2>1, <2>2 DEF BatchInv, Merging, NothingLost, Reflects, Present,
              ItemsMerged, ComesFrom
<1> QED BY <1>1, <1>2, <1>3, <1>4, <1>5, <1>6, <1>7 DEF Next

LEMMA AlwaysBatch == Spec => [](TablesInv /\ BatchInv)
<1>1. Init => TablesInv /\ BatchInv
  BY DEF Init, BatchInv, NothingLost, Merging, TablesInv, EmptyAcademic, NoIssues, Owned,
         IssuesTrack, PairTaken, Present
<1> QED BY <1>1, NextTables, NextBatch, AlwaysTyped, PTL DEF Spec

\* While staging still holds the batch the watermark names, every item and grade
\* of it is merged with its value, or is one whose user has no student yet and an
\* open issue: after any faults, crashes and lost acknowledgements in between.
THEOREM NothingIsLost == Spec => []NothingLost
<1>1. BatchInv => NothingLost
  BY DEF BatchInv
<1> QED BY <1>1, AlwaysBatch, PTL

\* An issue is open while its grade is missing and resolved only with the grade:
\* a grade that was merged can never be skipped again.
THEOREM IssuesFollowGrades == Spec => []IssuesTrackGrades
<1>1. TablesInv => IssuesTrackGrades
  BY DEF TablesInv, IssuesTrack, IssuesTrackGrades
<1> QED BY <1>1, AlwaysBatch, PTL

\* Whatever a step adds to the academic tables or changes there is in the batch
\* just extracted and shown there, a grade with its item: what the staging writer
\* left out for being hidden comes in by no other way.
THEOREM HiddenStaysOut == Spec => OnlyShownMerged
<1> DEFINE Rows ==
        /\ \A i \in Items : academic'.item[i] # academic.item[i] =>
            /\ Shown(extraction.items[i], extraction.time)
            /\ academic'.item[i] = Clean[extraction.items[i].form]
        /\ \A g \in Grades : academic'.grade[g] # academic.grade[g] =>
            /\ Shown(extraction.grades[g], extraction.time)
            /\ Shown(extraction.items[ItemOf[g]], extraction.time)
            /\ academic'.grade[g].value = extraction.grades[g].value
<1>1. ASSUME NEW x \in MoodleStates
      PROVE  /\ \A i \in Present(x.items) \ HiddenItems(x) : Shown(x.items[i], x.time)
             /\ \A g \in Present(x.grades) \ HiddenGrades(x) :
                    /\ Shown(x.grades[g], x.time)
                    /\ ItemOf[g] \notin HiddenItems(x)
  <2>1. \A h \in Int : ~IsMoodleHidden(h, x.time) => h # 1 /\ h <= x.time
    BY DEF IsMoodleHidden, MoodleStates
  <2>2. /\ \A i \in Present(x.items) : x.items[i].hidden \in Int
        /\ \A g \in Present(x.grades) : x.grades[g].hidden \in Int
    BY DEF MoodleStates, Present
  <2> QED BY <2>1, <2>2 DEF HiddenItems, HiddenGrades, Shown
<1>2. ASSUME TypeInv, BatchInv, Commit
      PROVE  Rows
  <2>1. /\ academic' = tx /\ ComesFrom(tx, academic, staging)
        /\ extraction \in Snapshots /\ staging = Staged(run, extraction)
        /\ extraction \in MoodleStates /\ run \in 0..MaxRuns
    BY <1>2 DEF Commit, BatchInv, Merging, TypeInv, TypeOK
  <2>2. ASSUME NEW i \in Items, academic'.item[i] # academic.item[i]
        PROVE  /\ Shown(extraction.items[i], extraction.time)
               /\ academic'.item[i] = Clean[extraction.items[i].form]
    <3>1. staging.items[i] # None /\ academic'.item[i] = staging.items[i]
      BY <2>1, <2>2 DEF ComesFrom
    <3>2. /\ i \in Present(extraction.items) \ HiddenItems(extraction)
          /\ staging.items[i] = Clean[extraction.items[i].form]
      BY <2>1, <3>1, StagedParts
    <3> QED BY <1>1, <2>1, <3>1, <3>2
  <2>3. ASSUME NEW g \in Grades, academic'.grade[g] # academic.grade[g]
        PROVE  /\ Shown(extraction.grades[g], extraction.time)
               /\ Shown(extraction.items[ItemOf[g]], extraction.time)
               /\ academic'.grade[g].value = extraction.grades[g].value
    <3>1. staging.grades[g] # None /\ academic'.grade[g].value = staging.grades[g].value
      BY <2>1, <2>3 DEF ComesFrom
    <3>2. /\ g \in Present(extraction.grades) \ HiddenGrades(extraction)
          /\ staging.grades[g].value = extraction.grades[g].value
      BY <2>1, <3>1, StagedParts
    <3>3. ItemOf[g] \in Present(extraction.items)
      BY <2>1, <3>2, GradesAssumption DEF Present, MoodleStates
    <3> QED BY <1>1, <2>1, <3>1, <3>2, <3>3
  <2> QED BY <2>2, <2>3
<1>3. ASSUME [Next]_vars, ~Commit
      PROVE  academic' = academic
  BY <1>3 DEF Next, PrimarySync, StartSyncRun, Extract, WriteRawBatch, WriteStagingBatch,
              ValidateStagedBatch, MergeItems, MergeGrades, GradeConflict, Fault, Crash,
              MarkSyncRunFailed, MovesTo, Raise, EndOfProcess, tables, vars
<1>4. TypeInv /\ BatchInv /\ [Next]_vars => Rows
  BY <1>2, <1>3
<1> QED BY <1>4, AlwaysTyped, AlwaysBatch, PTL DEF Spec, OnlyShownMerged

-------------------------------------------------------------------------------
(* When a validated batch is refused *)

\* Every grade of the merge, old or new, is of the student its user is mapped to;
\* what staging does not hold is left alone.
LEMMA MergedOwner ==
    ASSUME TypeInv, Owned(tx), NEW g \in Grades, MergedGrades(tx).grade[g] # None
    PROVE  /\ UserOf[g] \in Users /\ mapOf[UserOf[g]] # None
           /\ MergedGrades(tx).grade[g].student = mapOf[UserOf[g]]
           /\ staging.grades[g] = None =>
                tx.grade[g] # None /\ tx.grade[g] = MergedGrades(tx).grade[g]
<1>1. tx \in AcademicStates /\ tx.grade \in [Grades -> GradeRows \cup {None}]
  BY DEF TypeInv, TypeOK, AcademicStates, GradeRows
<1>2. tx.grade[g] # None => /\ tx.grade[g] \in GradeRows /\ UserOf[g] \in Users
                            /\ tx.grade[g].student = mapOf[UserOf[g]]
                            /\ mapOf[UserOf[g]] # None
  BY <1>1, GradesAssumption DEF Owned, GradeRows
<1>3. CASE g \in NewGrades(tx)
  <2>1. MergedGrades(tx).grade[g] =
            [student |-> mapOf[UserOf[g]], value |-> staging.grades[g].value]
    BY <1>1, <1>3, GradeParts
  <2> QED BY <1>1, <1>3, <2>1, GradeSorts
<1>4. CASE g \in ChangedGrades(tx)
  <2>1. MergedGrades(tx).grade[g] = [tx.grade[g] EXCEPT !.value = staging.grades[g].value]
    BY <1>1, <1>4, GradeParts
  <2>2. tx.grade[g] # None /\ staging.grades[g] # None
    BY <1>1, <1>4, GradeSorts
  <2> QED BY <1>2, <2>1, <2>2 DEF GradeRows
<1>5. CASE g \notin NewGrades(tx) \cup ChangedGrades(tx)
  <2>1. MergedGrades(tx).grade[g] = tx.grade[g]
    BY <1>1, <1>5, GradeParts
  <2> QED BY <1>2, <2>1
<1> QED BY <1>3, <1>4, <1>5

LEMMA RefusedReplaced ==
    ASSUME TypeInv, TablesInv, Validated(staging), Refused(tx)
    PROVE  \E g \in Present(tx.grade), h \in Present(staging.grades) :
                /\ staging.grades[g] = None
                /\ ItemOf[g] = ItemOf[h] /\ tx.grade[g].student = mapOf[UserOf[h]]
<1> DEFINE n == MergedGrades(tx)
<1>1. /\ tx \in AcademicStates /\ staging \in StagingStates
      /\ DOMAIN tx.grade = Grades /\ DOMAIN staging.grades = Grades
      /\ n \in AcademicStates /\ DOMAIN n.grade = Grades
      /\ Owned(tx) /\ ~PairTaken(tx)
  <2>1. tx \in AcademicStates /\ staging \in StagingStates
    BY DEF TypeInv, TypeOK
  <2>2. n \in AcademicStates
    BY <2>1, GradeParts
  <2> QED BY <2>1, <2>2 DEF AcademicStates, StagingStates, TablesInv
<1>2. PairTaken(n)
  BY DEF Refused, Validated
<1>3. PICK g \in Grades, h \in Grades :
        /\ n.grade[g] # None /\ n.grade[h] # None
        /\ g # h /\ ItemOf[g] = ItemOf[h] /\ n.grade[g].student = n.grade[h].student
  BY <1>1, <1>2 DEF PairTaken, Present
<1>4. /\ n.grade[g].student = mapOf[UserOf[g]] /\ n.grade[h].student = mapOf[UserOf[h]]
      /\ UserOf[g] \in Users /\ UserOf[h] \in Users
      /\ mapOf[UserOf[g]] # None /\ mapOf[UserOf[h]] # None
      /\ staging.grades[g] = None => tx.grade[g] # None /\ tx.grade[g] = n.grade[g]
      /\ staging.grades[h] = None => tx.grade[h] # None /\ tx.grade[h] = n.grade[h]
  BY <1>1, <1>3, MergedOwner
<1>5. UserOf[g] = UserOf[h]
  BY <1>3, <1>4 DEF TypeInv
<1> HIDE DEF n
<1>6. CASE staging.grades[g] # None /\ staging.grades[h] # None
  BY <1>1, <1>3, <1>5, <1>6 DEF Validated, Present
<1>7. CASE staging.grades[g] = None /\ staging.grades[h] = None
  BY <1>1, <1>3, <1>4, <1>7 DEF PairTaken, Present
<1>8. CASE staging.grades[g] = None /\ staging.grades[h] # None
  <2>1. g \in Present(tx.grade) /\ h \in Present(staging.grades)
    BY <1>1, <1>4, <1>8 DEF Present
  <2> QED BY <1>3, <1>4, <1>5, <1>8, <2>1
<1>9. CASE staging.grades[g] # None /\ staging.grades[h] = None
  <2>1. h \in Present(tx.grade) /\ g \in Present(staging.grades)
    BY <1>1, <1>4, <1>9 DEF Present
  <2> QED BY <1>3, <1>4, <1>5, <1>9, <2>1
<1> QED BY <1>6, <1>7, <1>8, <1>9

\* A batch that passed validation is refused only if a merged grade disappeared
\* from it and another grade row took its item and student.
THEOREM RefusalsHaveACause == Spec => []RefusalNeedsReplacement
<1>1. TypeInv /\ TablesInv /\ BatchInv => RefusalNeedsReplacement
  BY RefusedReplaced DEF BatchInv, Merging, RefusalNeedsReplacement
<1> QED BY <1>1, AlwaysTyped, AlwaysBatch, PTL

-------------------------------------------------------------------------------
(* The promise of SyncLedger *)

statuses == [r \in RunIds |-> runs[r].status]

\* The columns of sync_runs that SyncLedger sees, after one row is written.
LEMMA StatusSet ==
    ASSUME TypeInv, NEW r \in RunIds, NEW s \in RunStates,
           runs' = [runs EXCEPT ![r] = s]
    PROVE  statuses' = [statuses EXCEPT ![r] = s.status]
BY DEF TypeInv, TypeOK, statuses

\* Steps that write no run and no watermark.
LEMMA QuietLedger ==
    ASSUME LedgerInv, UNCHANGED <<runs, watermark, run>>,
           pc \in {"idle", "start"} => pc' \in {"idle", "start"},
           pc = "failing" => pc' = "idle"
    PROVE  LedgerInv'
BY DEF LedgerInv

LEMMA StartLedger ==
    ASSUME TypeInv, LedgerInv, StartSyncRun
    PROVE  LedgerInv' /\ \E r \in RunIds : Ledger!Begin(r)
<1>1. run \in 0..MaxRuns /\ MaxRuns \in Nat /\ run < MaxRuns /\ run + 1 \in RunIds
  BY GradesAssumption DEF StartSyncRun, TypeInv, TypeOK, RunIds
<1> DEFINE s == [NoRun EXCEPT !.status = "RUNNING"]
<1>2. s \in RunStates /\ s.status = "RUNNING"
  BY DEF NoRun, NoCounters, RunStates, CounterStates
<1>3. /\ runs' = [runs EXCEPT ![run + 1] = s] /\ run' = run + 1
      /\ pc' = "extract" /\ UNCHANGED <<academic, watermark>>
  BY DEF StartSyncRun
<1>4. statuses' = [statuses EXCEPT ![run + 1] = "RUNNING"]
  BY <1>1, <1>2, <1>3, StatusSet
<1>5. \A r \in RunIds : r > run <=> statuses[r] = "NONE"
  BY DEF LedgerInv, statuses
<1>6. \A r \in RunIds : r \in Nat
  BY DEF RunIds
<1>7. \A r \in RunIds : statuses'[r] = IF r = run + 1 THEN "RUNNING" ELSE statuses[r]
  BY <1>4 DEF statuses
<1>8. \A r \in RunIds : r > run + 1 <=> statuses'[r] = "NONE"
  BY <1>1, <1>5, <1>6, <1>7
<1>9. LedgerInv'
  BY <1>1, <1>3, <1>7, <1>8 DEF LedgerInv, statuses
<1>10. PICK r \in RunIds : r = run + 1
  BY <1>1
<1>11. Ledger!Begin(r)
  BY <1>1, <1>3, <1>4, <1>5, <1>6, <1>10
     DEF Ledger!Begin, Ledger!RunIds, statuses, RunIds
<1> QED BY <1>9, <1>11

\* The newest run may act: no later run has been started.
LEMMA NewestIsLatest ==
    ASSUME TypeInv, LedgerInv, pc \notin {"idle", "start"}
    PROVE  \A r \in RunIds : r = run => Ledger!Latest(r)
<1>1. run \in RunIds /\ \A r \in RunIds : r \in Nat
  BY DEF TypeInv, RunIds
<1>2. \A r \in RunIds : r > run <=> statuses[r] = "NONE"
  BY DEF LedgerInv, statuses
<1> QED BY <1>1, <1>2 DEF Ledger!Latest, Ledger!RunIds, RunIds, statuses

LEMMA CommitLedger ==
    ASSUME TypeInv, LedgerInv, Commit
    PROVE  LedgerInv' /\ \E r \in RunIds : Ledger!Merge(r)
<1> DEFINE s == [status |-> "SUCCESS", read |-> RowsRead(extraction), merged |-> counters]
<1>1. s \in RunStates
  BY RowsReadType DEF TypeInv, TypeOK, RunStates
<1>2. /\ pc = "commit" /\ runs' = [runs EXCEPT ![run] = s]
      /\ watermark' = run /\ academic' = tx /\ run' = run
      /\ pc' \in {"idle", "failing"}
  BY DEF Commit, Raise, EndOfProcess
<1>3. run \in RunIds
  BY <1>2 DEF TypeInv
<1>4. statuses' = [statuses EXCEPT ![run] = "SUCCESS"]
  BY <1>1, <1>2, <1>3, StatusSet
<1>5. statuses[run] = "RUNNING"
  BY <1>2, <1>3 DEF LedgerInv, statuses
<1>6. \A r \in RunIds : r > run <=> statuses[r] = "NONE"
  BY DEF LedgerInv, statuses
<1>7. /\ \A r \in RunIds : r > run <=> statuses'[r] = "NONE"
      /\ statuses'[run] = "SUCCESS"
  BY <1>3, <1>4, <1>5, <1>6 DEF statuses
<1>8. LedgerInv'
  BY <1>2, <1>3, <1>7 DEF LedgerInv, statuses
<1>9. PICK r \in RunIds : r = run
  BY <1>3
<1>10. Ledger!Latest(r)
  BY <1>2, <1>9, NewestIsLatest
<1>11. Ledger!Merge(r)
  BY <1>2, <1>3, <1>4, <1>5, <1>9, <1>10 DEF Ledger!Merge, statuses, TypeInv, TypeOK
<1> QED BY <1>8, <1>11

LEMMA FailedLedger ==
    ASSUME TypeInv, LedgerInv, MarkSyncRunFailed
    PROVE  LedgerInv' /\ \E r \in RunIds : Ledger!Fail(r) \/ Ledger!Disown(r)
<1> DEFINE s == [runs[run] EXCEPT !.status = "FAILED", !.read = RowsRead(extraction)]
<1>1. pc = "failing" /\ run \in RunIds
  BY DEF MarkSyncRunFailed, TypeInv
<1>2. runs[run] \in RunStates /\ RowsRead(extraction) \in Nat
  BY <1>1, RowsReadType DEF TypeInv, TypeOK
<1>3. s \in RunStates /\ s.status = "FAILED"
  BY <1>2 DEF RunStates
<1>4. runs' = [runs EXCEPT ![run] = s]
  BY <1>1, <1>2 DEF MarkSyncRunFailed, TypeInv, TypeOK, RunStates
<1>5. pc' = "idle" /\ UNCHANGED <<academic, watermark, run>>
  BY DEF MarkSyncRunFailed, EndOfProcess
<1>6. statuses' = [statuses EXCEPT ![run] = "FAILED"]
  BY <1>1, <1>3, <1>4, StatusSet
<1>7. \/ statuses[run] = "RUNNING"
      \/ statuses[run] = "SUCCESS" /\ watermark = run
  BY <1>1 DEF LedgerInv, statuses
<1>8. \A r \in RunIds : r > run <=> statuses[r] = "NONE"
  BY DEF LedgerInv, statuses
<1>9. \A r \in RunIds : r > run <=> statuses'[r] = "NONE"
  BY <1>1, <1>6, <1>7, <1>8 DEF statuses
<1>10. LedgerInv'
  BY <1>5, <1>9 DEF LedgerInv, statuses
<1>11. PICK r \in RunIds : r = run
  BY <1>1
<1>12. Ledger!Latest(r)
  BY <1>1, <1>11, NewestIsLatest
<1>13. Ledger!Fail(r) \/ Ledger!Disown(r)
  BY <1>1, <1>5, <1>6, <1>7, <1>11, <1>12 DEF Ledger!Fail, Ledger!Disown, statuses
<1> QED BY <1>10, <1>13

\* Every step is a step of the promise or is not seen by it.
LEMMA NextLedger ==
    TypeInv /\ LedgerInv /\ [Next]_vars => LedgerInv' /\ [Ledger!Next]_(Ledger!vars)
<1> SUFFICES ASSUME TypeInv, LedgerInv, [Next]_vars
             PROVE  LedgerInv' /\ [Ledger!Next]_(Ledger!vars)
  OBVIOUS
<1>1. CASE StartSyncRun
  BY <1>1, StartLedger DEF Ledger!Next, Ledger!RunIds, RunIds
<1>2. CASE Commit \/ MarkSyncRunFailed
  BY <1>2, CommitLedger, FailedLedger DEF Ledger!Next, Ledger!RunIds, RunIds
<1>3. CASE PrimarySync \/ Extract \/ WriteRawBatch \/ WriteStagingBatch
           \/ ValidateStagedBatch \/ MergeItems \/ MergeGrades \/ GradeConflict \/ Fault \/ Crash
  <2>1. UNCHANGED <<academic, runs, watermark, run>>
    BY <1>3 DEF PrimarySync, Extract, WriteRawBatch, WriteStagingBatch,
                ValidateStagedBatch, MergeItems, MergeGrades, GradeConflict, Fault, Crash,
                MovesTo, Raise, EndOfProcess, tables
  <2>2. /\ pc \in {"idle", "start"} => pc' \in {"idle", "start"}
        /\ pc = "failing" => pc' = "idle"
    BY <1>3 DEF PrimarySync, Extract, WriteRawBatch, WriteStagingBatch,
                ValidateStagedBatch, MergeItems, MergeGrades, GradeConflict, Fault, Crash,
                MovesTo, Raise, EndOfProcess
  <2> QED BY <2>1, <2>2, QuietLedger DEF Ledger!vars
<1>4. CASE UNCHANGED vars
  BY <1>4 DEF vars, tables, worker, LedgerInv, Ledger!vars
<1> QED BY <1>1, <1>2, <1>3, <1>4 DEF Next

\* The pipeline keeps the promise of SyncLedger: data, watermark and SUCCESS
\* become visible in one step, and no other step changes the data or the
\* watermark.
THEOREM KeepsLedgerPromise == Spec => LedgerPromise
<1>1. Init => LedgerInv /\ Ledger!Init
  <2> SUFFICES ASSUME Init PROVE LedgerInv /\ Ledger!Init
    OBVIOUS
  <2>1. LedgerInv
    BY DEF Init, LedgerInv, NoRun, RunIds
  <2>2. Ledger!Init
    BY EmptyAcademicType DEF Init, Ledger!Init, Ledger!RunIds, RunIds, NoRun
  <2> QED BY <2>1, <2>2
<1> QED BY <1>1, NextLedger, AlwaysTyped, PTL DEF Spec, LedgerPromise, Ledger!Spec
===============================================================================
