# Verification of the CANUMPE academic platform

This directory holds TLA+ specifications of the platform in `src/`, the TLC
configurations that model-check them on small instances, and theorems about
them that TLAPS proves for every instance. Names follow the source; every
definition that models code is listed with its lines in `PROJECT.json` (`map`).

## The system

The platform keeps one PostgreSQL database. Ingestion pipelines copy data from
Moodle and from an attendance system into it; a FastAPI service serves students,
administrators and one bot from it.

| Part | State it keeps | Operations | Hard behaviour | What makes it correct |
|---|---|---|---|---|
| Moodle sync (`integration/moodle/sync.py`) | academic students, courses, enrollments; source mappings with hashes; RAW, staging; `sync_runs`, `sync_state` | one run: extract, RAW, staging, validate, merge | any step raises, the process is killed, a COMMIT's acknowledgement is lost; row-by-row merge against unique keys | mappings describe their rows; the watermark names the merged batch; re-merging changes nothing; nothing is forgotten |
| Moodle grades sync (`grades_*.py`) | grade items, student grades, mappings, issues; assignments of items to categories | one run, after the Moodle sync in the same process | hidden grades; students not there yet; administrators writing the same tables | an academic decision is never overwritten; a grade is never invented |
| Attendance sync (`integration/attendance/`) | sessions, records, student mappings, issues | one run, on a timer of its own | students matched by account number before or after Moodle knows them; both timers fire at once | never creates a student; a late student's history arrives complete |
| Sync issues (`issues.py`) | one row per inconsistency | open, resolve | rows that disappear before they are resolved | OPEN exactly while the inconsistency stands |
| Evaluation scheme (`evaluation_service.py`, `evaluation_repository.py`) | categories, assignments | GET, whole-scheme PUT | READ COMMITTED transactions of several statements overlap; deadlocks | the whole scheme or nothing; weights total 100 |
| Evaluation and gradebook (`evaluation_service.py`, `gradebook_service.py`, score services) | none | calculate one student, the whole class | several SELECTs make one answer | both agree; null is never zero |
| Participation (`participation_service.py`) | observations | append, list, delete | a retried POST | the summary matches the observations |
| API keys (`auth/`) | keys, revocation | issue, rotate, revoke, authenticate | concurrent rotation; revocation during a request | at most one active key per student |
| Routes, schemas, migrations, deployment | none of their own | | | constraints and isolation the models assume |

The parts meet in the database only. The two syncs are separate processes
(`deploy/systemd`), each `Type=oneshot`, so a unit never overlaps itself but the
two units overlap each other and the API. The Moodle unit runs the grades sync
after the primary sync, whatever the outcome of the first. Grades and
attendance resolve students through the mappings of the Moodle sync; the grades
sync writes `grade_item_evaluation`, which administrators write too.

## Modules

| Module | Models |
|---|---|
| `SyncLedger` | the abstract promise of a pipeline: runs, watermark and data; `Begin`, `Merge`, `Fail`, `Disown` |
| `StudentDirectory` | the abstract promise of the Moodle sync to the others: `academic.students` and the course mapping |
| `SyncIssues` | opening and resolving `sync_issues` |
| `MoodleSync` | the Moodle sync, one action per step of `run_moodle_sync` and per row of `merge_batch` |
| `AttendanceSync` | the Attendance sync, with the Moodle sync as `StudentDirectory` beside it |
| `GradesSync` | the Moodle grades sync, after primary syncs that may fail |
| `SchemeRules` | what a legal evaluation scheme is, and what the database keeps of it |
| `SchemePromise` | the abstract promise: atomic replacement, additions by the sync |
| `EvaluationScheme` | PUTs, the sync's assignments and readers, one action per SQL statement and row |
| `EvaluationCalc` | the calculation of an evaluation, as operators over exact fractions |
| `StudentEvaluation` | the student's evaluation and the gradebook, one action per SELECT, while others commit |
| `ApiKeys` | the commands that issue, rotate and revoke keys, one action per SQL statement |
| `Participation` | HTTP requests beside these commands: authentication, participation routes |
| `MC...` | the instances of each for TLC |
| `MoodleSyncProofs` | theorems about `MoodleSync`: tables, batches and promises; the merge, row by row |
| `EvaluationSchemeProofs`, `SchemeWholeProofs` | theorems about `EvaluationScheme`: locks, constraints, references; all of a scheme or nothing of it; one administrator at a time |
| `AttendanceSyncProofs`, `GradesSyncProofs` | theorems about the other two pipelines |
| `ParticipationProofs` | theorems about `ApiKeys` alone and about the requests beside it |
| `EvaluationCalcProofs` | theorems about the arithmetic of `EvaluationCalc`: fractions, sums, rounding, the figures of one evaluation |
| `StudentEvaluationProofs` | theorems about `StudentEvaluation`: what is read, and the figures made of it |

How they compose: `MoodleSync`, `AttendanceSync` and `GradesSync` each implement
`SyncLedger`. `MoodleSync` implements `StudentDirectory`, and `AttendanceSync`
takes `MoodleCommit` of that module as a step of its environment, so the two
syncs that fire together are checked one through the promise of the other.
`Participation` extends `ApiKeys`; `StudentEvaluation` extends `EvaluationCalc`.

### MoodleSync

`academic` is the committed academic tables with the `student_sources`,
`course_sources` and `enrollment_sources` rows; `tx` is what the merge
transaction sees, and equals `academic` outside the merge. `runs` and
`watermark` are `sync_runs` and `sync_state`; `raw` and `staging` the landing
tables; `pc`, `extraction`, `todoStudents`, `todoEnrollments` and `counters` the
worker's place and memory. Batch ids are run numbers.

A run is `StartSyncRun`, `Extract`, `WriteRawBatch`, `WriteStagingBatch`,
`ValidateStagedBatch`, one `InsertStudent`/`UpdateStudent`/`KeepStudent` per
staged student in any order (`_merge_students` has no ORDER BY), one course
action, one `InsertEnrollment`/`KeepEnrollment` per enrollment, and `Commit`,
which writes data, watermark and SUCCESS together. `AccountConflict` is the
IntegrityError of `UNIQUE(account_number)`. `Fault` is any other exception at
any step before the handler; `MarkSyncRunFailed` is the handler's write, which
looks at the run id only. `Commit` may also end in the handler: the server
committed, the acknowledgement was lost. A process returns with `pc` at "idle"
and dies with `pc` at "gone", in two ways: `HandlerFault` is the handler's own write
failing, which nothing guards, and `Crash` a kill at any step. The server rolls
back, the memory is gone, the run row stays as it is.

Moodle itself is outside: an extraction meets any state of the constant
`Snapshots`. A profile is what Moodle holds, `Clean` is normalisation, and a
hash is modelled by the normalised content it is computed from. Not modelled:
timestamps, the columns no decision depends on, more than one course (the
configuration names one), and the update branch of `_merge_enrollments`, which
cannot run: extraction gives every enrollment the status "active", so its hash
never differs from the stored one.

### EvaluationScheme

`rows` and `assigned` are the committed `grade_categories` and
`grade_item_evaluation` of a course. What a transaction has written and not
committed is in `dropped`, `added`, `unassigned` and `assigning`; `shared` holds
the categories the sync's foreign keys lock FOR KEY SHARE. A category row
carries the request that inserted it, which stands for its id.

A PUT is `Validate`, `SelectCategories`, the two DELETE statements (each takes a
snapshot when it starts, then visits its rows one by one, waiting for a row
another transaction has deleted and skipping it if that one commits),
`CheckReferences` (ON DELETE RESTRICT), one `InsertCategory` per category
followed by its `InsertAssignment`s, `Commit`, and the two SELECTs of the
answer. The sync's part of the grades merge is `StartAssigning` (the SELECT of
INSERT ... SELECT), `AutoAssign` per row, the foreign key locks and
`CommitSync`. A gradebook request is its two SELECTs of categories and items.
`Fault` fails any transaction at any step, `Cancel` one of a deadlock.

The locks and constraints are PostgreSQL's, modelled from how the code uses
them and marked external in the map. Weights are in thousandths of a percent so
that `Rounded` can do what NUMERIC(5,2) does. Not modelled: grade items that
appear while a PUT runs (a payload that names an unknown item is refused
before any write), `counts_toward_current_grade`, the list of unassigned items in
the answer, and the position at which a failed unique check leaves partial index
entries: a row and its index entries appear in one step.

### AttendanceSync and SyncIssues

`academic` holds the committed attendance tables: sessions, records, the mapping
of each attendance student (`mapOf`) and its issue. `accounts` and
`courseMapped`, from `StudentDirectory`, are what the Moodle sync commits. The
run is that of `MoodleSync`; what differs is the merge. `_reconcile_students`
takes each staged student by itself: `LookupStudent` is the SELECT by account
number, `MapStudent` or `SkipStudent` what follows, and a Moodle commit may fall
between the two. A student already mapped is `KeepStudent`: its account number is
not looked at again. From the INSERT of a mapping on, the foreign key holds the
student's row, and `LockedStudents` keeps its number. Sessions and records
are merged by one action each, since the order of their rows does not change
the outcome: UNIQUE(session, student) refuses a set of rows or it does not.
`RecordConflict` is that refusal.

### GradesSync

`PrimarySync` stands for what the primary sync, which ran before it in the same
process, has left of users and students: it may have failed, so mappings may
be missing. A source row carries `hidden` as Moodle keeps it, 0, 1 or a time, and
the batch its own time. `Staged` is what normalisation and hiding leave of the
batch. Items and grades are merged in one action each, for the reason above.
The automatic assignments of this merge are in `EvaluationScheme`, where they
meet administrators.

### EvaluationCalc and StudentEvaluation

`Evaluation` is `calculate_student_evaluation`: weights in hundredths of a
percent, scores and points as fractions in lowest terms, every figure rounded to
hundredths once (`Round2`). `course` is the committed state of all that is read,
`reader` a request with the SELECTs still to do and what it has read.
`StudentPlan` and `GradebookPlan` are the SELECTs of the two services; they
differ: the student's evaluation reads items with grades in one SELECT and both
counts of attendance in one, the gradebook in two each. A reader's `moved` is
the set of parts that have changed since it read them; only properties read it.

Beside a reader commit `PutScheme`, `MergeGrades`, `MergeAttendance` and
`ChangeObservation`. A grades merge writes in one transaction an item's
`max_grade` (`maxima`), its automatic assignment if it has none, and a grade; a
batch of several items or grades is modelled by one of each, and an item's activity
type is left out, so that the automatic assignment may be to any category of grade
items. Items that are new to the course are not modelled: `Items` is fixed.

The reference (`ExpectedScore`, `IsEvaluation`) is another definition, from the
course instead of what was read, as sums of the shares of single grades,
sessions and observations.

### ApiKeys and Participation

`keys` are the committed rows of `api_keys`, named by the command that made
them; `cmd` is each command's step, the rows the snapshot of its UPDATE shows
(`found`) and its uncommitted writes (`revoked`, `made`). Waiting is a guard:
`UpdateWaitsFor` for a row another command has revoked and not committed,
`InsertWaitsFor` for an entry of the partial unique index. `Update` then looks
at the rows again and takes those still active; a key committed after its
snapshot is not among them, and `Insert` meets it as a conflict.

`req` is an HTTP request: `Authenticate` is one SELECT at its start; `Append`,
`Delete`, `Read`, `Summarise` and `CommitRequest` the statements of the
participation services. A DELETE waits for the row another one has deleted and
answers 404 when that one commits. Averages are functions of the observations
counted, so an answer is the set of them.

## What is checked

| Run | Instance | Shows |
|---|---|---|
| `moodle` | 2 users (one enrolled twice), 3 runs, account numbers moving between users, padded, blank and missing texts | `TypeOK`, `AcademicConsistent`, `NoDanglingLookup`, `ConflictNeedsReuse`, `WatermarkMirrored`, `Idempotent`, `CountersAddUp`, `NothingForgotten`, `BatchTrail`, `LedgerPromise` (implements `SyncLedger`), `DirectoryPromise` (implements `StudentDirectory`), `RunsFinish` |
| `moodle_lost_ack` | | violation: a run reads FAILED although the watermark names it |
| `attendance` | 2 attendance students, 2 runs, Moodle commits between any two statements | `NothingLost`, `IssuesTrackMappings`, `RefusalNeedsReplacement`, `HistoryKept`, `LedgerPromise` |
| `grades` | 2 users, 1 item, 4 grade rows, 2 runs | `NothingLost`, `IssuesTrackGrades`, `RefusalNeedsReplacement`, `OnlyShownMerged`, `LedgerPromise` |
| `scheme_serial` | 2 PUTs one at a time, 2 syncs, 1 gradebook; 7 payloads, 4 of them refused by validation or the database | `ReplacedAtomically` (implements `SchemePromise`), `AnswerShowsPayload`, `GradebookReadsWholeSchemes` |
| `scheme_concurrent` | PUTs, 2 at a time, 1 sync | `SchemeIntact`, `WholeSchemes`, `SyncKeepsDecisions`, `RequestsAnswered` |
| `scheme_weights` | one administrator | violation: a stored scheme whose weights do not total 100 |
| `scheme_overlap` | 2 PUTs at a time | violation: the categories of two PUTs side by side |
| `scheme_blend` | 2 PUTs at a time | violation: a PUT without the attendance/participation category deletes the one another PUT has added since it was validated |
| `scheme_gradebook` | one administrator, one gradebook | violation: the gradebook fails with KeyError |
| `evaluation` | 1 student, 2 items, 2 sessions, 2 observations, 4 schemes, 2 commits while one request reads | `QuietAnswers`, `AnswersFit`, `AttendanceAboveNeedsRace`, `FiguresRight`, `BetterGradeNeverLowers` |
| `api` | 3 commands, 3 requests, 4 of them started | `OneActiveKey`, `WaitsAreShort`, `NeverLockedOut`, `RevokedStaysOut`, `ObservationsAddUp`, `AnswersAreUpToDate` |

The violations are disagreements between the code and its documents; each is a
finding of `PROJECT.json`, with the sentence it contradicts.

Some properties say exactly how far the code goes, where a document promises
less or nothing:

- `RefusalNeedsReplacement`: a batch that passed validation is refused only when a
  row the platform has merged was deleted, hidden, moved or renumbered at its
  source. The refusal then recurs in every batch that still has the new row,
  because nothing deletes the old one.
- `HistoryKept`: a mapping is made once; an attendance student whose account
  number changes stays with the academic student first matched, and a
  record whose student or session changes keeps the old ones.
- `AttendanceAboveNeedsRace`: the gradebook shows more sessions attended than held
  only when the Attendance sync changes the CLOSED sessions between its two
  counts. The property is about every state from the second count on, and
  `moved` holds only what changed after it was read: in the state right after the
  second count nothing but a commit between the two excuses it. A student's
  evaluation never shows it.
- `GradebookReadsWholeSchemes`: with one administrator at a time, each of the two
  SELECTs of a gradebook sees one scheme whole; an answered gradebook shows one
  and the same, or the categories of one without any item.
- `RunsFinish`: a run ends as SUCCESS or FAILED unless its process dies, by a kill
  or because the handler could not write. The row then reads RUNNING for good.
- `QuietAnswers`: the student's evaluation reads categories before items, so a PUT
  between the two yields a scheme with no graded item; a category is answered as
  one snapshot of everything would be whenever what it depends on did not move.
  `FiguresRight` adds that what is answered of one snapshot is right: it agrees
  with the reference definition to the hundredth.

**Bounds.** `MaxRuns` 3 lets a batch meet the mappings of a first run after a
second one failed, lost its acknowledgement or was killed; 2 runs in `attendance`
and `grades` let a skipped student or a replaced row come back. Two users are
enough for every collision of two accounts or of two rows of one item and
student. The source states of `moodle` are two account numbers in every
distribution over the users and their enrollments, and seven with a padded, blank,
missing or renamed text; those of the other two are the families of students,
sessions, records, items and grades in their `MC` modules. Payloads: two
items of two types let the sync want an item a payload names and one it leaves
out. In `evaluation`, maxima 3 and 8 and weights 37.50 and 62.50 make thirds and
exact halves of a hundredth, 0 is a weight, a maximum a merge may write, a grade
and an observation, and two commits suffice to change one part between two SELECTs and another before or
after. In `api`, three commands are two rivals and the key they start from;
`MaxStarted` 4 of the 6 actors keeps the run small: commands and requests together number
at most four in a behaviour. Runs end when their bounds are used
up, so deadlock is not checked; that nobody waits for ever is `RunsFinish`,
`RequestsAnswered` and `WaitsAreShort`.

**Fairness.** Weak fairness of the worker's own steps, of each accepted
request's steps and of the sync's: a running process is scheduled, and the
database grants a free lock and cancels deadlocks. No fairness makes the timer
fire, a request arrive, or a failure happen or stay away: `FairSpec` of
`MoodleSync` is all of `Spec`, with kills and failing handlers, and the fairness of
`WorkerStep`. `RunsFinish` names the death of the process as the one other end,
because nothing in the code ends the run of a process that died. `RequestsAnswered`
is checked under fairness of requests and server. The other modules state safety
only, and no fairness.

## What is proved

Every safety invariant, every action property and every refinement that the
passing runs check is a theorem. TLC shows each on a small instance; the theorems hold for any
sets of users, enrolments, profiles, students, sessions, records, items, grades,
weights, payloads, requests and commands, and any bounds. Three of `EvaluationScheme` hold for one
administrator at a time, and say so: `ASSUME MaxActive = 1`.

**`MoodleSyncProofs`**

- `TypeCorrect`: `TypeOK`. The inductive invariant is `TypeInv`: `TypeOK`, and
  that rows still to merge are rows of the staged batch.
- `MappingsStayFaithful`: `AcademicConsistent`. The consistency of `tx` is
  inductive under the merge actions, since an inserted id is free, an updated
  row is the mapped one, and UNIQUE refuses a used account number; the committed
  tables get it at `Commit`, and `tx` gets it back from them whenever the
  transaction is dropped.
- `BatchesTraceable`: `BatchTrail`, strengthened to `TrailInv`: between two steps
  of a worker, RAW holds what it extracted and staging what it wrote.
- `NothingIsForgotten`: `NothingForgotten`, an action property. What has to be
  kept between steps is `TxExtends`: the transaction always extends the
  committed tables, so its commit forgets nothing.
- `KeepsDirectoryPromise`: `MoodleSync` implements `StudentDirectory`; each commit
  goes from consistent tables to consistent tables that extend them.
- `KeepsLedgerPromise`: `MoodleSync` implements `SyncLedger`. `LedgerInv` says
  that a worker's own run is RUNNING until the handler, where it may also be the
  SUCCESS the watermark names, and that later runs have no row; each step then
  maps to `Begin`, `Merge`, `Fail`, `Disown` or a stutter.
- `ReturnedRunsEnd`: `ReturnedRunEnded`, the safety half of `RunsFinish`: a
  process that returned has ended its run, whatever raised. A conjunct of `LedgerInv`.

The second half of the module adds what a merge has achieved at each row.
`MergeInv`: the batch passed validation, the rows already visited are in `tx` as the batch
has them, every other row is as the committed tables have it, and the rows not
visited yet have the mapping they had. From it follow `LookupsResolve`
(`NoDanglingLookup`) and `RefusalNeedsReuse` (`ConflictNeedsReuse`). At `Commit`
no row is left, so the tables mirror the batch: `WatermarkBatchMirrored`
(`WatermarkMirrored`, by `MirrorInv`), and a merge that starts from a mirror can
only take the `Keep` actions: `RemergeIsIdle` (`Idempotent`). `EveryRowCounted`
(`CountersAddUp`) is a cardinality argument about the rows still to do
(`Progress`); `WatermarkFollowsCommits` (`WatermarkIsNewestCommit`) needs that no
SUCCESS run is newer than the watermark and that the watermark's own run keeps
its counters when it is disowned (`SettledInv`).

**`EvaluationSchemeProofs`.** READ COMMITTED promises nothing about two
statements of one transaction, so the argument is about locks. `SchemeInv` is
`TypeOK`, `SchemeIntact` and four parts:

- `PhaseInv`: what a transaction holds at each of its labels, and that a running
  request carries a payload that passed validation;
- `WriteInv`: deletions hit committed rows, insertions come from the payload,
  and a foreign key that has been checked still holds its category;
- `LockInv`: two transactions never hold the same row, or keys that clash;
- `FitInv`: what a transaction has inserted clashes with nothing it will find
  committed, and nothing committed refers to what it has deleted.

A commit keeps `FitInv` of the others because `LockInv` kept their writes apart,
and gives `SchemeIntact`. The theorems are `TypeCorrect` (`TypeOK`) and
`SchemeStaysIntact` (`SchemeIntact`).

**`SchemeWholeProofs`** adds that the second DELETE of a PUT dooms all categories
of an owner or none, and the category of every assignment the first DELETE took
(`DropsWhole`). Its snapshot has whole schemes only, and a scheme committed after
the snapshot is by a request that owned nothing before. `SchemesStayWhole`
(`WholeSchemes`) follows; `SyncRespectsDecisions` (`SyncKeepsDecisions`) is the
part of `WriteInv` about the sync.

For one administrator at a time the module has a second invariant, `SerialInv`.
`OneAdministrator`: no two PUTs are running, which is what `MaxActive = 1`
means. `PutSerial`: nobody else replaces the categories while a PUT does, so its
DELETE dooms every category there is, its inserts have passed the CHECKs, the
attendance/participation category it was validated against is still the one
there, and after its commit the tables are its payload and what the sync adds.
`OneScheme`: the tables hold one scheme whole, of an owner whose payload is
`Settled`, because its PUT has committed. `ReaderSerial`: so does what each SELECT
of a gradebook has read, of one owner for the categories and perhaps another for
the items. It follows that the answer to a PUT shows what it wrote
(`AnswersShowPayload`), that a gradebook reads whole schemes and fails only when it met two
(`GradebooksReadWholeSchemes`), and that the statements implement `SchemePromise`
(`TransactionsKeepPromise`): a PUT's commit is one `Replace`, the sync's one
`Add`, and every other step, failures included, a stutter.

**`AttendanceSyncProofs` and `GradesSyncProofs`** follow one plan. `TypeInv` types
the tables and what the worker remembers. `TablesInv` is what holds of committed
tables and of `tx` alike: an issue is open only without, and resolved only with,
the mapping or grade it is about; a record's hash is that of its time; a grade
belongs to the student of its user. `BatchInv` says what the merge has achieved
at each of its steps, from "staging is this run's batch" over "every student
reached has a mapping or an open issue" to "the tables reflect the batch", and
that the watermark is older than the run under way: a commit that reflects a
batch makes it the watermark's, and what comes next to staging is of a later run.
`NothingIsLost`, `IssuesFollowMappings`/`IssuesFollowGrades`,
`RefusalsHaveACause` and `HiddenStaysOut` follow from these three;
`HistoryIsKept` from `TxExtends` (the open transaction extends the committed
tables), and `KeepsLedgerPromise`, twice, from `LedgerInv` as in `MoodleSync`. In
the attendance module the commits of the Moodle sync are steps of the
environment, and each proof has a case for them.

**`ParticipationProofs`.** `OneActiveKey` is not inductive: what an open transaction has
written decides what its COMMIT does. `KeysInv` adds `CommandInv` (what a command
holds at each step; a rotation finds keys of its own student only), `RowLocks`
(an open transaction has revoked active keys, and no two the same) and
`IndexEntries` (a key inserted and not committed is the only one that will be
active). `LocalStep` keeps all of it for any step that leaves the table alone;
`CommitRows` and `CommitActive` say what a COMMIT changes. `StudentsHaveOneKey`
(`OneActiveKey`), `RotationNeverLocksOut` (`NeverLockedOut`) and `NoChainOfWaits`
(`WaitsAreShort`) follow from `KeysInvariant`. `Participation` leaves `keys` and
`cmd` to these commands (`KeysUndisturbed`), so all of this holds beside any
number of requests. `ApiInv` is about those: what a request holds at each step,
that a key a finished command revoked is inactive (`RevokedRows`), and that open
DELETEs have locked different rows of their own student (`Deletions`).
`RevokedKeysStayOut`, `ObservationsAlwaysAddUp` and `AnswersStayUpToDate` are
conjuncts of it, inductive only together with the others.

**`StudentEvaluationProofs`.** `EvaluationInv` has two sides. `CourseOK`:
assignments are to categories of the course, and no category has an id of a PUT
still to come. `RequestOK`: a request has read what the SELECTs of its plan so far
read (`Underway`), each part that has not changed since as the course has it
(`Faithful`), assignments to categories it has read unless the scheme was replaced
in between or later (`AssignedToRead`), and both counts of sessions from one course,
a gradebook unless the CLOSED sessions changed after the first (`CountsTogether`).
`AnswersAgree` (`QuietAnswers`) shows from it that the calculation, applied to
what was read in four or six SELECTs, gives what it gives of one snapshot, whole or
category by category; `AttendanceNeedsRace` (`AttendanceAboveNeedsRace`) that the
attended sessions exceed the held ones only by a change between the two counts.

**`EvaluationCalcProofs`.** The figures are sums of fractions that a recursive
`Gcd` reduces, rounded at the end. The library's induction theorems take an
operator, which the provers cannot instantiate; induction here is over sets
instead: a set of naturals has a least element (`LeastNatural`), so the set of
counterexamples is empty, and what holds of a subset whenever it holds of the
subset without the element that `CHOOSE` takes first holds of every finite set
(`SubsetsByFirst`). From that the module proves, in this order:

- that `Gcd`, defined by recursion, satisfies its equation (`GcdRecursion`) and
  divides both numbers (`GcdDivides`), so `Fraction`, `Plus` and `Times` have the
  values they stand for (`FractionValue`, `PlusValue`, `TimesValue`);
- an order of fractions that both operations respect (`PlusMonotone`,
  `TimesMonotone`), and `Same` for equal values, since sums need not agree in form;
- that a fold over a finite set exists and takes one term at a time (`FoldExists`,
  `SumSteps`); from it that sums respect order and factors (`SumMonotone`,
  `SumScaled`, `SumConstant`);
- that `Round2` is the nearest hundredth, ties up, and monotone (`Round2Rounds`,
  `RoundingMonotone`), and how far a sum of n rounded terms is from its rounded
  sum: at most n + 1 halves (`RoundedTerms`);
- what that makes of one evaluation: its figures belong together
  (`FiguresBelong`), the current grade lies between two scores
  (`CurrentIsBetween`), better grades do not lower it (`BetterGradesHelp`), and a
  mean or a blend is the sum of its items' shares (`MeanOfItems`, `BlendLaws`).

**Figures of what was read.** `StudentEvaluationProofs` carries these to the
answers. `ReadsTyped` is the invariant needed: each part read is of the type of
its SELECT, whatever moved in between, so the calculation always gets an input
it can use (`InputTyped`). `AnswersBelong` (`AnswersFit`) follows for every answer,
torn ones included; `BetterGradesNeverLower` (`BetterGradeNeverLowers`) and
`FiguresAreRight` (`FiguresRight`) for the committed course, the latter because
each score has the same value as its reference definition
(`ScoresAreExpected`) and rounding looks at values only.

The proofs assume the named assumptions of the modules and nothing else:
`DomainAssumption`, `NoneAssumption`, `AccountAssumption` and `SequenceAssumption` of
`MoodleSync` (types of the constants, a sequence with an id for every user),
`AttendanceAssumption` and `GradesAssumption` (finite sets, types, `None` is no
value, a source that names an item of every grade), `KeysAssumption` and
`RowsAssumption` of `ApiKeys` (no row is `None`), `RequestsAssumption` of
`Participation` (requests are not commands), `DefsAssumption` of `SchemeRules`,
`OwnersAssumption` and `SchemeAssumption` of `EvaluationScheme` (actors are
distinct; the initial scheme is one the database can hold), and
`ItemsAssumption`, `NoneAssumption`, `CourseAssumption` and `SchemeAssumption` of
`EvaluationCalc` and `StudentEvaluation` (types, finitely many items, sessions,
observations and category definitions, `None` is no number; the foreign key holds
of the initial course and of every payload). Grades are non-negative, as Moodle
gives them on a scale from 0 to the item's maximum; the code does not check it.

Only model-checked: liveness (`RunsFinish`, `RequestsAnswered`), which is beyond
the prover.

## Plan

Every safety property of a passing run is proved. What is left to add: the 28
digits of Python's quotients, with a bound on how far a figure may be off because
of them; and the listings of `student_read_service.py`, should they ever combine
SELECTs.

## Not modelled

- A second Moodle process started by hand beside the timer's: each pipeline's model
  has one worker, as `Type=oneshot` gives it.
- The listings of `student_read_service.py`: one SELECT each, shown as read.
- A retried POST of an observation: the API has no idempotency key, so the retry is
  one more request and appends one more observation; no property tells it from one.
- Who holds the plaintext of an API key: a key that was committed and never printed is
  active, and nobody can use it until an operator rotates it.
- What an operator does with a run that reads RUNNING after its process died.
- Python's 28 digits: a quotient cut there may round an exact half down.
- Hashing of keys, the text of messages and logs, occurrence counts of issues.
- Routing and response shapes, configuration, migrations and deployment keep no
  state of their own; what they fix (constraints, isolation level, one process
  per unit) appears as guards and assumptions.
