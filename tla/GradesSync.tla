------------------------------ MODULE GradesSync ------------------------------
(***************************************************************************)
(* The Moodle grades synchronisation, run_moodle_grades_sync of            *)
(* app/integration/moodle/grades_sync.py, as main() of sync.py runs it:    *)
(* in the same process, after the primary synchronisation, whether that    *)
(* one succeeded or not.  It copies the visible grade items and grades of  *)
(* one course; a grade whose Moodle user has no academic student yet is    *)
(* skipped with an open issue.                                             *)
(*                                                                         *)
(* The assignment of items to evaluation categories, one INSERT of the     *)
(* merge transaction that touches no table of this module, is              *)
(* EvaluationScheme's StartAssigning.  The worker may fail at every step,  *)
(* lose the acknowledgement of a COMMIT, or be killed.                     *)
(***************************************************************************)
EXTENDS SyncIssues, Integers, FiniteSets

CONSTANTS
    Users,         \* mdl_user ids
    Students,      \* ids of academic.students
    Items,         \* mdl_grade_items ids
    ItemForms,     \* name, type and maximum of an item, as Moodle holds them
    ItemContents,  \* the same normalised
    Clean,         \* normalisation; None: no name, or no positive maximum
    Grades,        \* mdl_grade_grades ids
    ItemOf,        \* the item of a grade
    UserOf,        \* the user of a grade; None when Moodle has none
    Values,        \* finalgrade; SQL NULL, not graded yet, is one of them
    Snapshots,     \* the states of Moodle an extraction can meet
    MaxRuns,       \* bound: runs started in one behaviour
    None           \* no row

\* A state of Moodle's gradebook at the snapshot time; hidden is 0, 1 or the
\* second until which the row is hidden.
MoodleStates ==
    [time : Nat,
     items : [Items -> [form : ItemForms, hidden : Int] \cup {None}],
     grades : [Grades -> [value : Values, hidden : Int] \cup {None}]]

ASSUME GradesAssumption ==
    /\ IsFiniteSet(Items) /\ IsFiniteSet(Grades)
    /\ Clean \in [ItemForms -> ItemContents \cup {None}]
    /\ ItemOf \in [Grades -> Items] /\ UserOf \in [Grades -> Users \cup {None}]
    /\ None \notin Users \cup Students \cup ItemContents
                   \cup [student : Students, value : Values]
                   \cup [form : ItemForms, hidden : Int]
                   \cup [value : Values, hidden : Int]
    /\ Snapshots \subseteq MoodleStates
    /\ \A x \in Snapshots : \A g \in Grades :
        x.grades[g] # None => x.items[ItemOf[g]] # None
    /\ MaxRuns \in Nat

VARIABLES
    mapOf,         \* student_sources of the primary synchronisation
    courseMapped,  \* course_sources has the configured course
    academic,      \* committed grade tables, source mappings and issues
    runs,          \* integration.sync_runs of this pipeline
    watermark,     \* integration.sync_state: last_batch_id, 0 when no row
    raw,           \* batches whose raw_moodle rows are committed
    staging,       \* the staged grade items and grades
    run,           \* run id of the newest run; batch ids are run ids
    pc,            \* the step the worker is at
    extraction,    \* worker memory: the extracted batch
    tx,            \* the merge transaction's view of academic
    counters       \* worker memory: MergeCounters

primary == <<mapOf, courseMapped>>
tables == <<academic, runs, watermark, raw, staging>>
worker == <<run, pc, extraction, tx, counters>>
vars == <<primary, tables, worker>>

RunIds == 1..MaxRuns

\* item: grade_items with their grade_item_sources; grade: student_grades with
\* their student_grade_sources.  A hash covers what its row holds and is always
\* written with it.  issue: the UNRESOLVED_GRADE_STUDENT issues.
AcademicStates ==
    [item : [Items -> ItemContents \cup {None}],
     grade : [Grades -> [student : Students, value : Values] \cup {None}],
     issue : [Grades -> IssueStates]]

EmptyAcademic ==
    [item |-> [i \in Items |-> None], grade |-> [g \in Grades |-> None],
     issue |-> NoIssues(Grades)]

CounterStates == [inserted : Nat, updated : Nat, unchanged : Nat, skipped : Nat]
NoCounters == [inserted |-> 0, updated |-> 0, unchanged |-> 0, skipped |-> 0]

RunStates ==
    [status : {"NONE", "RUNNING", "SUCCESS", "FAILED"}, read : Nat,
     merged : CounterStates]
NoRun == [status |-> "NONE", read |-> 0, merged |-> NoCounters]

NoExtraction ==
    [time |-> 0, items |-> [i \in Items |-> None], grades |-> [g \in Grades |-> None]]

StagingStates ==
    [batch : 0..MaxRuns,
     items : [Items -> ItemContents \cup {None}],
     grades : [Grades -> [value : Values] \cup {None}]]

Phases == {"idle", "start", "extract", "raw", "stage", "validate",
           "items", "grades", "commit", "failing"}

-------------------------------------------------------------------------------
(* What the steps compute *)

Present(f) == {k \in DOMAIN f : f[k] # None}

RowsRead(x) == Cardinality(Present(x.items)) + Cardinality(Present(x.grades))

\* Mutant: hidden is taken for a boolean of Moodle.
HiddenFlag(hidden, time) == hidden = 1

\* is_moodle_hidden, evaluated at the snapshot time.
IsMoodleHidden(hidden, time) ==
    hidden # 0 /\ (hidden = 1 \/ hidden > time)

HiddenItems(x) ==
    {i \in Present(x.items) : IsMoodleHidden(x.items[i].hidden, x.time)}

\* A grade is hidden by its own flag or by its item.
HiddenGrades(x) ==
    {g \in Present(x.grades) :
        IsMoodleHidden(x.grades[g].hidden, x.time) \/ ItemOf[g] \in HiddenItems(x)}

\* Hidden rows are left out silently; an item without name or maximum and a
\* grade without user are left out with an issue.
Staged(batch, x) ==
    [batch |-> batch,
     items |-> [i \in Items |->
        IF i \in Present(x.items) \ HiddenItems(x) THEN Clean[x.items[i].form]
        ELSE None],
     grades |-> [g \in Grades |->
        IF g \in Present(x.grades) \ HiddenGrades(x) /\ UserOf[g] # None
        THEN [value |-> x.grades[g].value] ELSE None]]

StagingIssues(x) ==
    \/ \E i \in Present(x.items) \ HiddenItems(x) : Clean[x.items[i].form] = None
    \/ \E g \in Present(x.grades) \ HiddenGrades(x) : UserOf[g] = None

\* Mutant: two grades of a user on an item are not looked for.
IssuesWithoutPairs(s) ==
    ~courseMapped \/ \E g \in Present(s.grades) : s.items[ItemOf[g]] = None

ValidationIssues(s) ==
    \/ ~courseMapped
    \/ \E g \in Present(s.grades) : s.items[ItemOf[g]] = None
    \/ \E g, h \in Present(s.grades) :
        g # h /\ ItemOf[g] = ItemOf[h] /\ UserOf[g] = UserOf[h]

MergedItems(d) ==
    [d EXCEPT !.item = [i \in Items |-> IF staging.items[i] = None THEN @[i]
                                        ELSE staging.items[i]]]

\* The staged grades _merge_student_grades skips, inserts, updates and leaves.
SkippedGrades == {g \in Present(staging.grades) : mapOf[UserOf[g]] = None}
NewGrades(d) ==
    {g \in Present(staging.grades) \ SkippedGrades : d.grade[g] = None}
ChangedGrades(d) ==
    {g \in Present(staging.grades) \ SkippedGrades :
        d.grade[g] # None /\ d.grade[g].value # staging.grades[g].value}
SameGrades(d) ==
    {g \in Present(staging.grades) \ SkippedGrades :
        d.grade[g] # None /\ d.grade[g].value = staging.grades[g].value}

\* Mutant: the issue of a grade is resolved when its student is known, merged
\* or not.
ResolvedByStudent(d) ==
    [g \in Grades |->
        CASE g \in SkippedGrades -> Opened(d.issue, g)[g]
          [] UserOf[g] # None /\ mapOf[UserOf[g]] # None -> Resolved(d.issue, g)[g]
          [] OTHER -> d.issue[g]]

\* Only an INSERT resolves.
MergedIssues(d) ==
    [g \in Grades |->
        CASE g \in SkippedGrades -> Opened(d.issue, g)[g]
          [] g \in NewGrades(d) -> Resolved(d.issue, g)[g]
          [] OTHER -> d.issue[g]]

\* Mutant: a merged grade keeps its first value.
InsertedGrades(d) ==
    [d EXCEPT
        !.grade = [g \in Grades |->
            IF g \in NewGrades(d)
            THEN [student |-> mapOf[UserOf[g]], value |-> staging.grades[g].value]
            ELSE @[g]],
        !.issue = MergedIssues(d)]

MergedGrades(d) ==
    [d EXCEPT
        !.grade = [g \in Grades |->
            CASE g \in NewGrades(d) ->
                    [student |-> mapOf[UserOf[g]], value |-> staging.grades[g].value]
              [] g \in ChangedGrades(d) -> [@[g] EXCEPT !.value = staging.grades[g].value]
              [] OTHER -> @[g]],
        !.issue = MergedIssues(d)]

\* UNIQUE(grade_item_id, student_id).
PairTaken(d) ==
    \E g, h \in Present(d.grade) :
        g # h /\ ItemOf[g] = ItemOf[h] /\ d.grade[g].student = d.grade[h].student

Tally(c, new, changed, same, skipped) ==
    [inserted |-> c.inserted + Cardinality(new),
     updated |-> c.updated + Cardinality(changed),
     unchanged |-> c.unchanged + Cardinality(same),
     skipped |-> c.skipped + Cardinality(skipped)]

-------------------------------------------------------------------------------
(* The worker *)

Init ==
    /\ mapOf = [u \in Users |-> None]
    /\ courseMapped = FALSE
    /\ academic = EmptyAcademic
    /\ runs = [r \in RunIds |-> NoRun]
    /\ watermark = 0
    /\ raw = {}
    /\ staging = Staged(0, NoExtraction)
    /\ run = 0
    /\ pc = "idle"
    /\ extraction = NoExtraction
    /\ tx = EmptyAcademic
    /\ counters = NoCounters

\* run_moodle_grades_sync returned, or its process is gone.
EndOfProcess ==
    /\ pc' = "idle"
    /\ extraction' = NoExtraction
    /\ tx' = academic'
    /\ counters' = NoCounters
    /\ UNCHANGED <<run, primary>>

\* Control reaches `except Exception`; begin()'s exit has rolled back.
Raise ==
    /\ pc' = "failing"
    /\ tx' = academic'
    /\ counters' = NoCounters
    /\ UNCHANGED <<run, extraction, primary>>

\* A step inside the try block that touches no merge state.
MovesTo(next) ==
    /\ pc' = next
    /\ UNCHANGED <<run, tx, counters, primary>>

\* main(): the primary synchronisation ran first.  It may have failed; it adds
\* mappings of users to students of their own and never takes one back.
PrimarySync ==
    /\ pc = "idle" /\ run < MaxRuns
    /\ mapOf' \in [Users -> Students \cup {None}]
    /\ \A u \in Users : mapOf[u] # None => mapOf'[u] = mapOf[u]
    /\ \A u, v \in Users : mapOf'[u] # None /\ mapOf'[u] = mapOf'[v] => u = v
    /\ courseMapped' \in {courseMapped, TRUE}
    /\ pc' = "start"
    /\ UNCHANGED <<tables, run, extraction, tx, counters>>

\* start_sync_run, in its own transaction.
StartSyncRun ==
    /\ pc = "start"
    /\ run' = run + 1
    /\ runs' = [runs EXCEPT ![run + 1] = [NoRun EXCEPT !.status = "RUNNING"]]
    /\ pc' = "extract"
    /\ UNCHANGED <<academic, watermark, raw, staging, extraction, tx, counters, primary>>

\* extract_moodle_grades_batch: one REPEATABLE READ snapshot of Moodle.
Extract ==
    /\ pc = "extract"
    /\ UNCHANGED tables
    /\ extraction' \in Snapshots
    /\ MovesTo("raw")

\* RAW keeps the hidden rows too.
WriteRawBatch ==
    /\ pc = "raw"
    /\ raw' = raw \cup {run}
    /\ MovesTo("stage")
    /\ UNCHANGED <<academic, runs, watermark, staging, extraction>>

\* Deletes every staged grade item and grade, then inserts the batch.
WriteStagingBatch ==
    /\ pc = "stage"
    /\ staging' = Staged(run, extraction)
    /\ MovesTo("validate")
    /\ UNCHANGED <<academic, runs, watermark, raw, extraction>>

\* A batch with issues goes to mark_sync_run_failed; a clean one opens the
\* merge transaction.
ValidateStagedBatch ==
    /\ pc = "validate"
    /\ UNCHANGED tables
    /\ \/ /\ StagingIssues(extraction) \/ ValidationIssues(staging)
          /\ Raise
       \/ /\ ~StagingIssues(extraction) /\ ~ValidationIssues(staging)
          /\ MovesTo("items")
          /\ UNCHANGED extraction

\* Mutant: the items are committed before the grades are merged.
MergeItemsAndCommit ==
    /\ pc = "items"
    /\ pc' = "grades"
    /\ tx' = MergedItems(tx)
    /\ academic' = MergedItems(tx)
    /\ UNCHANGED <<runs, watermark, raw, staging, run, extraction, counters, primary>>

MergeItems ==
    /\ pc = "items"
    /\ pc' = "grades"
    /\ tx' = MergedItems(tx)
    /\ LET known == {i \in Present(staging.items) : tx.item[i] # None}
           same == {i \in known : tx.item[i] = staging.items[i]} IN
       counters' = Tally(counters, Present(staging.items) \ known,
                         known \ same, same, {})
    /\ UNCHANGED <<tables, run, extraction, primary>>

\* KeyError of an item that is not staged, or UNIQUE.
Refused(d) ==
    \/ \E g \in Present(staging.grades) \ SkippedGrades : staging.items[ItemOf[g]] = None
    \/ PairTaken(MergedGrades(d))

MergeGrades ==
    /\ pc = "grades" /\ ~Refused(tx)
    /\ pc' = "commit"
    /\ tx' = MergedGrades(tx)
    /\ counters' = Tally(counters, NewGrades(tx), ChangedGrades(tx), SameGrades(tx),
                         SkippedGrades)
    /\ UNCHANGED <<tables, run, extraction, primary>>

\* KeyError or IntegrityError: the transaction rolls back.
GradeConflict ==
    /\ pc = "grades" /\ Refused(tx)
    /\ UNCHANGED tables
    /\ Raise

\* The merge transaction commits with advance_sync_state and
\* mark_sync_run_success; the worker returns, or sees an exception although
\* the server has committed.
Commit ==
    /\ pc = "commit"
    /\ academic' = tx
    /\ watermark' = run
    /\ runs' = [runs EXCEPT ![run] = [status |-> "SUCCESS",
                                      read |-> RowsRead(extraction),
                                      merged |-> counters]]
    /\ EndOfProcess \/ Raise
    /\ UNCHANGED <<raw, staging>>

\* Any other exception.
Fault ==
    /\ pc \notin {"idle", "start", "failing"}
    /\ UNCHANGED tables
    /\ Raise

\* mark_sync_run_failed looks at the run's id only, whatever its status.
MarkSyncRunFailed ==
    /\ pc = "failing"
    /\ runs' = [runs EXCEPT ![run].status = "FAILED",
                            ![run].read = RowsRead(extraction)]
    /\ UNCHANGED <<academic, watermark, raw, staging>>
    /\ EndOfProcess

\* The process is killed, or start_sync_run or mark_sync_run_failed fails.
Crash ==
    /\ pc # "idle"
    /\ UNCHANGED tables
    /\ EndOfProcess

Next ==
    \/ PrimarySync
    \/ StartSyncRun
    \/ Extract
    \/ WriteRawBatch
    \/ WriteStagingBatch
    \/ ValidateStagedBatch
    \/ MergeItems
    \/ MergeGrades
    \/ GradeConflict
    \/ Commit
    \/ Fault
    \/ MarkSyncRunFailed
    \/ Crash

Spec == Init /\ [][Next]_vars

-------------------------------------------------------------------------------
(* Properties *)

\* Moodle shows the row at that time: Moodle's own rule, of which
\* is_moodle_hidden is meant to be the negation.
Shown(row, time) == row.hidden # 1 /\ row.hidden <= time

\* README, "Hidden data": a hidden item, a hidden grade, or a grade of a hidden
\* item never reaches the academic tables.  Whatever a step adds or changes
\* there is in the batch just extracted, shown with its item, of that value.
OnlyShownMerged ==
    [][/\ \A i \in Items : academic'.item[i] # academic.item[i] =>
            /\ Shown(extraction.items[i], extraction.time)
            /\ academic'.item[i] = Clean[extraction.items[i].form]
       /\ \A g \in Grades : academic'.grade[g] # academic.grade[g] =>
            /\ Shown(extraction.grades[g], extraction.time)
            /\ Shown(extraction.items[ItemOf[g]], extraction.time)
            /\ academic'.grade[g].value = extraction.grades[g].value]_vars

\* What the academic tables say of every row of s is what s says, up to grades
\* with an open issue.
Reflects(d, s) ==
    /\ \A i \in Present(s.items) : d.item[i] = s.items[i]
    /\ \A g \in Present(s.grades) :
        IF d.grade[g] = None THEN d.issue[g] = "OPEN"
        ELSE d.grade[g].value = s.grades[g].value

\* README, "Student resolution" ("nothing lost") and "Idempotency": while
\* staging still holds the batch the watermark names, its items and grades are
\* merged with their values, NULL being none of the numbers, and whatever is
\* missing has an open issue.
NothingLost ==
    watermark # 0 /\ staging.batch = watermark => Reflects(academic, staging)

\* A resolved issue is of a merged grade, an open one of a grade that never was.
IssuesTrackGrades ==
    \A d \in {academic, tx} : \A g \in Grades :
        /\ d.issue[g] = "OPEN" => d.grade[g] = None
        /\ d.issue[g] = "RESOLVED" => d.grade[g] # None

\* A validated batch is refused only when a merged grade is missing from it,
\* deleted or hidden, and another grade row took its item and student.
RefusalNeedsReplacement ==
    pc = "grades" /\ Refused(tx) =>
        \E g \in Present(tx.grade), h \in Present(staging.grades) :
            /\ staging.grades[g] = None
            /\ ItemOf[g] = ItemOf[h] /\ tx.grade[g].student = mapOf[UserOf[h]]

\* Data, watermark and SUCCESS change in one step.
Ledger == INSTANCE SyncLedger WITH
    Contents <- AcademicStates,
    status <- [r \in RunIds |-> runs[r].status],
    content <- academic

LedgerPromise == Ledger!Spec
===============================================================================
