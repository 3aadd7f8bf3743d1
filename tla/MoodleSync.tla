------------------------------ MODULE MoodleSync ------------------------------
(***************************************************************************)
(* The primary Moodle synchronisation, run_moodle_sync of                  *)
(* app/integration/moodle/sync.py: one worker process that extracts a      *)
(* snapshot of one Moodle course, lands it in RAW, normalises it into      *)
(* staging, validates it and merges it row by row into the academic tables *)
(* inside one transaction.                                                 *)
(*                                                                         *)
(* The worker may fail at every step (an exception), may lose the          *)
(* acknowledgement of a COMMIT the server has performed, and may be killed *)
(* at every step.  The systemd unit is Type=oneshot, so the same sync      *)
(* never runs twice at once; the timer starts it again and again.          *)
(***************************************************************************)
EXTENDS Naturals, FiniteSets

CONSTANTS
    Users,           \* mdl_user ids
    Enrollments,     \* mdl_user_enrolments ids
    UserOf,          \* the user of an enrolment; never changes in Moodle
    Profiles,        \* a user's fields as Moodle holds them
    RawAccount,      \* the 'cuenta' field of a profile, byte for byte
    Contents,        \* a student's normalised fields
    Clean,           \* normalisation of a profile; None: no account number
    AccountOf,       \* the account number in normalised fields
    CourseProfiles,  \* the course's fields as Moodle holds them
    CourseContents,  \* the course's normalised fields
    CleanCourse,     \* normalisation of a course; None: no name
    Snapshots,       \* the states of Moodle an extraction can meet
    StudentIds,      \* ids the database can give to academic.students rows
    MaxRuns,         \* bound: runs started in one behaviour
    None             \* no row, SQL NULL

\* A state of Moodle: the profile of every user who has the 'cuenta' field,
\* the course, and the active enrolments of users that are not deleted.
MoodleStates ==
    {m \in [profile : [Users -> Profiles \cup {None}],
            course : CourseProfiles \cup {None},
            enrolled : SUBSET Enrollments] :
        m.course = None => m.enrolled = {}}

ASSUME DomainAssumption ==
    /\ IsFiniteSet(Users) /\ IsFiniteSet(Enrollments)
    /\ UserOf \in [Enrollments -> Users]
    /\ DOMAIN RawAccount = Profiles
    /\ Clean \in [Profiles -> Contents \cup {None}]
    /\ DOMAIN AccountOf = Contents
    /\ CleanCourse \in [CourseProfiles -> CourseContents \cup {None}]
    /\ Snapshots \subseteq MoodleStates
    /\ MaxRuns \in Nat

ASSUME NoneAssumption ==
    None \notin Profiles \cup Contents \cup CourseProfiles \cup CourseContents
                \cup StudentIds

\* Extraction drops students without an account number.
ASSUME AccountAssumption == None \notin {AccountOf[c] : c \in Contents}

\* The id sequence of academic.students does not run out.
ASSUME SequenceAssumption ==
    IsFiniteSet(StudentIds) /\ Cardinality(StudentIds) >= Cardinality(Users)

VARIABLES
    academic,         \* committed academic tables and source mappings
    runs,             \* integration.sync_runs
    watermark,        \* integration.sync_state: last_batch_id, 0 when no row
    raw,              \* batches whose raw_moodle rows are committed
    staging,          \* the moodle rows of the staging tables
    run,              \* run id of the newest run; batch ids are run ids
    pc,               \* the step the worker is at
    extraction,       \* worker memory: the extracted batch
    tx,               \* the merge transaction's view of academic
    todoStudents,     \* staged students the merge has not reached
    todoEnrollments,  \* staged enrollments the merge has not reached
    counters          \* worker memory: MergeCounters

store == <<academic, runs, watermark, raw, staging>>
worker == <<run, pc, extraction, tx, todoStudents, todoEnrollments, counters>>
vars == <<store, worker>>

-------------------------------------------------------------------------------
(* Tables *)

RunIds == 1..MaxRuns

\* student, mapId/mapHash: academic.students and its student_sources rows.
\* course/courseHash: the configured course and the hash in course_sources.
\* enrolled: the students of the course's academic.enrollments rows.
\* enrollMap: enrollment_sources, which point at one of those rows.
AcademicStates ==
    [student : [StudentIds -> Contents \cup {None}],
     mapId : [Users -> StudentIds \cup {None}],
     mapHash : [Users -> Contents \cup {None}],
     course : CourseContents \cup {None},
     courseHash : CourseContents \cup {None},
     enrolled : SUBSET StudentIds,
     enrollMap : [Enrollments -> StudentIds \cup {None}]]

EmptyAcademic ==
    [student |-> [i \in StudentIds |-> None],
     mapId |-> [u \in Users |-> None],
     mapHash |-> [u \in Users |-> None],
     course |-> None,
     courseHash |-> None,
     enrolled |-> {},
     enrollMap |-> [e \in Enrollments |-> None]]

NoCounters == [inserted |-> 0, updated |-> 0, unchanged |-> 0]
CounterStates == [inserted : Nat, updated : Nat, unchanged : Nat]

NoRun == [status |-> "NONE", read |-> 0, merged |-> NoCounters]
RunStates ==
    [status : {"NONE", "RUNNING", "SUCCESS", "FAILED"},
     read : Nat, merged : CounterStates]

Extractions ==
    [students : [Users -> Profiles \cup {None}],
     course : CourseProfiles \cup {None},
     enrollments : SUBSET Enrollments]

NoExtraction ==
    [students |-> [u \in Users |-> None], course |-> None, enrollments |-> {}]

StagingStates ==
    [batch : 0..MaxRuns,
     students : [Users -> Contents \cup {None}],
     course : CourseContents \cup {None},
     enrollments : SUBSET Enrollments]

EmptyStaging ==
    [batch |-> 0, students |-> [u \in Users |-> None],
     course |-> None, enrollments |-> {}]

\* "idle": no process, the last one returned; "gone": no process, the last one
\* was killed, or an exception left run_moodle_sync.
Phases == {"idle", "gone", "extract", "raw", "stage", "validate",
           "students", "enrollments", "failing"}

Down == pc \in {"idle", "gone"}

-------------------------------------------------------------------------------
(* What the steps compute *)

\* A student is extracted only with the 'cuenta' field and an active
\* enrolment; an enrolment is extracted whether its user has the field or not.
Extracted(m) ==
    [students |-> [u \in Users |-> IF \E e \in m.enrolled : UserOf[e] = u
                                   THEN m.profile[u] ELSE None],
     course |-> m.course,
     enrollments |-> m.enrolled]

\* The raw account numbers _fetch_students refuses.
DuplicateRawAccounts(x) ==
    \E u, v \in Users :
        /\ u # v /\ x.students[u] # None /\ x.students[v] # None
        /\ RawAccount[x.students[u]] = RawAccount[x.students[v]]

StudentsOf(b) == {u \in Users : b.students[u] # None}

RowsRead(b) ==
    Cardinality(StudentsOf(b)) + (IF b.course = None THEN 0 ELSE 1)
        + Cardinality(b.enrollments)

\* Mutant: staging keeps the text as Moodle holds it.
StagedVerbatim(batch, x) ==
    [batch |-> batch, students |-> x.students,
     course |-> IF x.course = None THEN None ELSE CleanCourse[x.course],
     enrollments |-> x.enrollments]

\* Rows without an account number or a course name are dropped ...
Staged(batch, x) ==
    [batch |-> batch,
     students |-> [u \in Users |-> IF x.students[u] = None THEN None
                                   ELSE Clean[x.students[u]]],
     course |-> IF x.course = None THEN None ELSE CleanCourse[x.course],
     enrollments |-> x.enrollments]

\* ... and each of them is an issue of the batch.
StagingIssues(x) ==
    \/ \E u \in StudentsOf(x) : Clean[x.students[u]] = None
    \/ x.course # None /\ CleanCourse[x.course] = None

DuplicateAccounts(s) ==
    \E u, v \in StudentsOf(s) :
        u # v /\ AccountOf[s.students[u]] = AccountOf[s.students[v]]

\* Mutant: only the course of an enrollment is looked for.
DanglingCourses(s) == s.enrollments # {} /\ s.course = None

DanglingReferences(s) ==
    \E e \in s.enrollments : UserOf[e] \notin StudentsOf(s) \/ s.course = None

\* Mutant: duplicate normalised account numbers are not looked for.
ReferencesOnly(s) == DanglingReferences(s)

ValidationIssues(s) == DuplicateAccounts(s) \/ DanglingReferences(s)

\* Mutant: academic.students has no UNIQUE(account_number).
TakenUnindexed(d, i, c) == FALSE

\* UNIQUE(account_number): another row of academic.students holds it.
AccountTaken(d, i, c) ==
    \E j \in StudentIds :
        j # i /\ d.student[j] # None /\ AccountOf[d.student[j]] = AccountOf[c]

\* insert(Student) and insert(StudentSource), with the id the sequence gave.
InsertedStudent(d, u, i, c) ==
    [d EXCEPT !.student = [@ EXCEPT ![i] = c],
              !.mapId = [@ EXCEPT ![u] = i],
              !.mapHash = [@ EXCEPT ![u] = c]]

\* Mutant: the mapping keeps its old hash.
UpdatedRowOnly(d, u, c) == [d EXCEPT !.student = [@ EXCEPT ![d.mapId[u]] = c]]

\* update(Student) and update(StudentSource): the mapped row, never the mapping.
UpdatedStudent(d, u, c) ==
    [d EXCEPT !.student = [@ EXCEPT ![d.mapId[u]] = c],
              !.mapHash = [@ EXCEPT ![u] = c]]

\* Mutant: course_sources is not written.
MergedCourseRowOnly(d, c) == [d EXCEPT !.course = c]

MergedCourse(d, c) == [d EXCEPT !.course = c, !.courseHash = c]

\* Mutant: no mapping row when the enrollment is reused.
InsertedUnlessReused(d, e, i) ==
    IF i \in d.enrolled THEN d
    ELSE [d EXCEPT !.enrolled = @ \cup {i}, !.enrollMap = [@ EXCEPT ![e] = i]]

\* A new enrollment_sources row; its enrollment is reused when the student
\* already has one through another enrolment method.
InsertedEnrollment(d, e, i) ==
    [d EXCEPT !.enrolled = @ \cup {i},
              !.enrollMap = [@ EXCEPT ![e] = i]]

-------------------------------------------------------------------------------
(* The worker *)

Init ==
    /\ academic = EmptyAcademic
    /\ runs = [r \in RunIds |-> NoRun]
    /\ watermark = 0
    /\ raw = {}
    /\ staging = EmptyStaging
    /\ run = 0
    /\ pc = "idle"
    /\ extraction = NoExtraction
    /\ tx = EmptyAcademic
    /\ todoStudents = {}
    /\ todoEnrollments = {}
    /\ counters = NoCounters

\* run_moodle_sync returned ("idle") or its process died ("gone"): its memory is
\* lost and the server has rolled back whatever it had not committed.
EndOfProcess(how) ==
    /\ pc' = how
    /\ extraction' = NoExtraction
    /\ tx' = academic'
    /\ todoStudents' = {}
    /\ todoEnrollments' = {}
    /\ counters' = NoCounters
    /\ UNCHANGED run

\* Control reaches `except Exception`; begin()'s exit has rolled back.
Raise ==
    /\ pc' = "failing"
    /\ tx' = academic'
    /\ todoStudents' = {}
    /\ todoEnrollments' = {}
    /\ counters' = NoCounters
    /\ UNCHANGED <<run, extraction>>

\* A step inside the try block that touches no merge state.
MovesTo(next) ==
    /\ pc' = next
    /\ UNCHANGED <<run, tx, todoStudents, todoEnrollments, counters>>

\* The timer starts the process: start_sync_run, in its own transaction.
StartSyncRun ==
    /\ Down /\ run < MaxRuns
    /\ run' = run + 1
    /\ runs' = [runs EXCEPT ![run + 1] = [NoRun EXCEPT !.status = "RUNNING"]]
    /\ pc' = "extract"
    /\ UNCHANGED <<academic, watermark, raw, staging, extraction, tx,
                   todoStudents, todoEnrollments, counters>>

\* extract_moodle_batch: one REPEATABLE READ snapshot of Moodle.
Extract ==
    /\ pc = "extract"
    /\ UNCHANGED store
    /\ \E m \in Snapshots :
        LET x == Extracted(m) IN
        \/ /\ ~DuplicateRawAccounts(x)
           /\ extraction' = x
           /\ MovesTo("raw")
        \/ /\ DuplicateRawAccounts(x)
           /\ Raise

WriteRawBatch ==
    /\ pc = "raw"
    /\ raw' = raw \cup {run}
    /\ MovesTo("stage")
    /\ UNCHANGED <<academic, runs, watermark, staging, extraction>>

\* Mutant: the enrollments of earlier batches are not deleted.
AppendStagingBatch ==
    /\ pc = "stage"
    /\ staging' = [Staged(run, extraction)
                     EXCEPT !.enrollments = @ \cup staging.enrollments]
    /\ MovesTo("validate")
    /\ UNCHANGED <<academic, runs, watermark, raw, extraction>>

\* Deletes every moodle row of the staging tables, then inserts the batch.
WriteStagingBatch ==
    /\ pc = "stage"
    /\ staging' = Staged(run, extraction)
    /\ MovesTo("validate")
    /\ UNCHANGED <<academic, runs, watermark, raw, extraction>>

\* Mutant: a batch with issues returns without mark_sync_run_failed.
ValidateAndReturn ==
    /\ pc = "validate"
    /\ UNCHANGED store
    /\ \/ /\ StagingIssues(extraction) \/ ValidationIssues(staging)
          /\ EndOfProcess("idle")
       \/ /\ ~StagingIssues(extraction) /\ ~ValidationIssues(staging)
          /\ pc' = "students"
          /\ tx' = academic
          /\ todoStudents' = StudentsOf(staging)
          /\ todoEnrollments' = staging.enrollments
          /\ counters' = NoCounters
          /\ UNCHANGED <<run, extraction>>

\* A batch with issues goes to mark_sync_run_failed; a clean one opens the
\* merge transaction, which reads the staged rows.
ValidateStagedBatch ==
    /\ pc = "validate"
    /\ UNCHANGED store
    /\ \/ /\ StagingIssues(extraction) \/ ValidationIssues(staging)
          /\ Raise
       \/ /\ ~StagingIssues(extraction) /\ ~ValidationIssues(staging)
          /\ pc' = "students"
          /\ tx' = academic
          /\ todoStudents' = StudentsOf(staging)
          /\ todoEnrollments' = staging.enrollments
          /\ counters' = NoCounters
          /\ UNCHANGED <<run, extraction>>

\* One row of _merge_students leaves the transaction as d.
StudentDone(u, d, counter) ==
    /\ tx' = d
    /\ todoStudents' = todoStudents \ {u}
    /\ counters' = [counters EXCEPT ![counter] = @ + 1]
    /\ UNCHANGED <<store, run, pc, extraction, todoEnrollments>>

\* Mutant: the existing mapping is not looked up.
InsertStudentAgain(u) ==
    /\ pc = "students" /\ u \in todoStudents
    /\ \E i \in StudentIds :
        /\ tx.student[i] = None
        /\ ~AccountTaken(tx, i, staging.students[u])
        /\ StudentDone(u, InsertedStudent(tx, u, i, staging.students[u]), "inserted")

InsertStudent(u) ==
    /\ pc = "students" /\ u \in todoStudents
    /\ tx.mapId[u] = None
    /\ \E i \in StudentIds :
        /\ tx.student[i] = None
        /\ ~AccountTaken(tx, i, staging.students[u])
        /\ StudentDone(u, InsertedStudent(tx, u, i, staging.students[u]), "inserted")

UpdateStudent(u) ==
    /\ pc = "students" /\ u \in todoStudents
    /\ tx.mapId[u] # None /\ tx.mapHash[u] # staging.students[u]
    /\ ~AccountTaken(tx, tx.mapId[u], staging.students[u])
    /\ StudentDone(u, UpdatedStudent(tx, u, staging.students[u]), "updated")

KeepStudent(u) ==
    /\ pc = "students" /\ u \in todoStudents
    /\ tx.mapId[u] # None /\ tx.mapHash[u] = staging.students[u]
    /\ StudentDone(u, tx, "unchanged")

\* UNIQUE(account_number) refuses the row the merge would write.
Refused(u) ==
    /\ pc = "students" /\ u \in todoStudents
    /\ tx.mapHash[u] # staging.students[u]
    /\ AccountTaken(tx, tx.mapId[u], staging.students[u])

\* IntegrityError: the transaction rolls back.
AccountConflict(u) ==
    /\ Refused(u)
    /\ UNCHANGED store
    /\ Raise

\* Mutant: students and courses commit before the enrollments are merged.
CourseDoneAndCommitted(d, merged) ==
    /\ tx' = d
    /\ academic' = d
    /\ counters' = merged
    /\ pc' = "enrollments"
    /\ UNCHANGED <<runs, watermark, raw, staging, run, extraction, todoStudents,
                   todoEnrollments>>

\* _merge_courses runs once every student is merged.
CourseDone(d, merged) ==
    /\ tx' = d
    /\ counters' = merged
    /\ pc' = "enrollments"
    /\ UNCHANGED <<store, run, extraction, todoStudents, todoEnrollments>>

NoCourse ==
    /\ pc = "students" /\ todoStudents = {}
    /\ staging.course = None
    /\ CourseDone(tx, counters)

InsertCourse ==
    /\ pc = "students" /\ todoStudents = {}
    /\ staging.course # None /\ tx.courseHash = None
    /\ CourseDone(MergedCourse(tx, staging.course),
                  [counters EXCEPT !.inserted = @ + 1])

UpdateCourse ==
    /\ pc = "students" /\ todoStudents = {}
    /\ staging.course # None
    /\ tx.courseHash \notin {None, staging.course}
    /\ CourseDone(MergedCourse(tx, staging.course),
                  [counters EXCEPT !.updated = @ + 1])

\* Mutant: an unchanged course is not counted.
KeepCourseUncounted ==
    /\ pc = "students" /\ todoStudents = {}
    /\ staging.course # None /\ tx.courseHash = staging.course
    /\ CourseDone(tx, counters)

KeepCourse ==
    /\ pc = "students" /\ todoStudents = {}
    /\ staging.course # None /\ tx.courseHash = staging.course
    /\ CourseDone(tx, [counters EXCEPT !.unchanged = @ + 1])

\* student_academic_id_by_source_id[...]: None stands for the KeyError.
MergedId(u) == IF u \in StudentsOf(staging) THEN tx.mapId[u] ELSE None

EnrollmentDone(e, d, counter) ==
    /\ tx' = d
    /\ todoEnrollments' = todoEnrollments \ {e}
    /\ counters' = [counters EXCEPT ![counter] = @ + 1]
    /\ UNCHANGED <<store, run, pc, extraction, todoStudents>>

InsertEnrollment(e) ==
    /\ pc = "enrollments" /\ e \in todoEnrollments
    /\ MergedId(UserOf[e]) # None
    /\ tx.enrollMap[e] = None
    /\ EnrollmentDone(e, InsertedEnrollment(tx, e, MergedId(UserOf[e])), "inserted")

\* The hash of an enrolment covers its user, its course and the status
\* "active" extraction gives to every row: it never differs from the stored one.
KeepEnrollment(e) ==
    /\ pc = "enrollments" /\ e \in todoEnrollments
    /\ MergedId(UserOf[e]) # None
    /\ tx.enrollMap[e] # None
    /\ EnrollmentDone(e, tx, "unchanged")

\* The merge transaction commits with advance_sync_state and
\* mark_sync_run_success; the worker returns, or sees an exception although
\* the server has committed.
Commit ==
    /\ pc = "enrollments" /\ todoEnrollments = {}
    /\ academic' = tx
    /\ watermark' = run
    /\ runs' = [runs EXCEPT ![run] = [status |-> "SUCCESS",
                                      read |-> RowsRead(extraction),
                                      merged |-> counters]]
    /\ EndOfProcess("idle") \/ Raise
    /\ UNCHANGED <<raw, staging>>

\* Any other exception: Moodle or the database unreachable, a refused COMMIT.
Fault ==
    /\ ~Down /\ pc # "failing"
    /\ UNCHANGED store
    /\ Raise

\* mark_sync_run_failed looks at the run's id only, whatever its status.
MarkSyncRunFailed ==
    /\ pc = "failing"
    /\ runs' = [runs EXCEPT ![run].status = "FAILED",
                            ![run].read = RowsRead(extraction)]
    /\ UNCHANGED <<academic, watermark, raw, staging>>
    /\ EndOfProcess("idle")

\* mark_sync_run_failed raises in the handler, where nothing catches it (the
\* database is still unreachable, say): the run's row keeps its status.  The
\* other call, for a batch with issues, is inside the try block: when it raises,
\* control comes to the handler, which calls it again.
HandlerFault ==
    /\ pc = "failing"
    /\ UNCHANGED store
    /\ EndOfProcess("gone")

\* The process is killed, or the host stops.
Crash ==
    /\ ~Down
    /\ UNCHANGED store
    /\ EndOfProcess("gone")

MergeStudent(u) ==
    InsertStudent(u) \/ UpdateStudent(u) \/ KeepStudent(u) \/ AccountConflict(u)
MergeCourse == NoCourse \/ InsertCourse \/ UpdateCourse \/ KeepCourse
MergeEnrollment(e) == InsertEnrollment(e) \/ KeepEnrollment(e)

\* What the process does by itself once the timer has started it.
WorkerStep ==
    \/ Extract
    \/ WriteRawBatch
    \/ WriteStagingBatch
    \/ ValidateStagedBatch
    \/ \E u \in Users : MergeStudent(u)
    \/ MergeCourse
    \/ \E e \in Enrollments : MergeEnrollment(e)
    \/ Commit
    \/ MarkSyncRunFailed

Next ==
    \/ StartSyncRun
    \/ WorkerStep
    \/ Fault
    \/ HandlerFault
    \/ Crash

Spec == Init /\ [][Next]_vars

\* Fairness: a running process keeps executing.  Nothing makes the timer fire,
\* and nothing keeps the process from being killed.
FairSpec == Spec /\ WF_vars(WorkerStep)

-------------------------------------------------------------------------------
(* Properties *)

TypeOK ==
    /\ academic \in AcademicStates
    /\ runs \in [RunIds -> RunStates]
    /\ watermark \in 0..MaxRuns
    /\ raw \subseteq RunIds
    /\ staging \in StagingStates
    /\ run \in 0..MaxRuns
    /\ pc \in Phases
    /\ extraction \in Extractions
    /\ tx \in AcademicStates
    /\ todoStudents \subseteq Users
    /\ todoEnrollments \subseteq Enrollments
    /\ counters \in CounterStates

Merging == pc \in {"students", "enrollments"}

\* Change detection trusts the hash in student_sources and course_sources to
\* describe the row the merge would otherwise write (merge.py compares hashes
\* only).  That is right only while a mapping's hash is the content of the row
\* it points at, two Moodle users never share a row, no student row lacks a
\* mapping, UNIQUE(account_number) holds, and an enrolment points at an
\* existing enrollment of its own user.  Stated of the committed tables and of
\* the transaction in progress.
HashFaithful(d) ==
    /\ \A u \in Users :
        \/ d.mapId[u] = None /\ d.mapHash[u] = None
        \/ d.mapId[u] # None /\ d.mapHash[u] # None
           /\ d.student[d.mapId[u]] = d.mapHash[u]
    /\ d.course = d.courseHash

MappingsDisjoint(d) ==
    /\ \A u, v \in Users : d.mapId[u] # None /\ d.mapId[u] = d.mapId[v] => u = v
    /\ \A i \in StudentIds : d.student[i] # None => \E u \in Users : d.mapId[u] = i

AccountsUnique(d) ==
    \A i, j \in StudentIds :
        /\ d.student[i] # None /\ d.student[j] # None
        /\ AccountOf[d.student[i]] = AccountOf[d.student[j]]
        => i = j

EnrollmentsMapped(d) ==
    \A e \in Enrollments :
        d.enrollMap[e] # None => /\ d.enrollMap[e] = d.mapId[UserOf[e]]
                                 /\ d.enrollMap[e] \in d.enrolled

Consistent(d) ==
    HashFaithful(d) /\ MappingsDisjoint(d) /\ AccountsUnique(d) /\ EnrollmentsMapped(d)

AcademicConsistent == Consistent(academic) /\ Consistent(tx)

\* The merge's lookup of a student by source id cannot raise KeyError: the
\* validation of the staged batch (validation.py) is enough for every row order.
NoDanglingLookup ==
    pc = "enrollments" => \A e \in todoEnrollments : MergedId(UserOf[e]) # None

\* Some student of the batch carries an account number that another row of
\* academic.students held before the merge.
ReusesAccount(s, d) ==
    \E u \in StudentsOf(s) : AccountTaken(d, d.mapId[u], s.students[u])

\* A validated batch is refused by UNIQUE(account_number) only if it reuses an
\* account number the platform already gave to somebody else, in whatever
\* order the staged rows are merged (_merge_students has no ORDER BY).
ConflictNeedsReuse ==
    (\E u \in Users : Refused(u)) => ReusesAccount(staging, academic)

\* What the academic tables say of every row of s is what s says.
Mirrors(d, s) ==
    /\ \A u \in StudentsOf(s) :
        d.mapId[u] # None /\ d.student[d.mapId[u]] = s.students[u]
    /\ s.course # None => d.course = s.course
    /\ \A e \in s.enrollments : d.enrollMap[e] # None

\* While the staging tables still hold the batch the watermark names, the
\* academic tables mirror it: nothing touched them since that commit, and the
\* commit left no row of the batch behind (README, "Consistent snapshot").
WatermarkMirrored ==
    watermark # 0 /\ staging.batch = watermark => Mirrors(academic, staging)

\* Idempotency (README, invariant 4): merging a batch the academic tables
\* already mirror inserts nothing, updates nothing and changes nothing.
Idempotent ==
    Merging /\ Mirrors(academic, staging)
    => counters.inserted = 0 /\ counters.updated = 0 /\ tx = academic

\* rows_inserted + rows_updated + rows_unchanged accounts for every row read
\* once the merge is over, and for the rows already merged before that.
Counted(c) == c.inserted + c.updated + c.unchanged

CountersAddUp ==
    /\ Merging =>
        Counted(counters) + Cardinality(todoStudents) + Cardinality(todoEnrollments)
            + (IF pc = "students" /\ staging.course # None THEN 1 ELSE 0)
        = RowsRead(extraction)
    /\ \A r \in RunIds :
        runs[r].status = "SUCCESS" => Counted(runs[r].merged) = runs[r].read

\* sync_state never lags behind a run that reads SUCCESS, and only names a run
\* whose merge committed: SUCCESS, or FAILED when its acknowledgement was lost.
WatermarkIsNewestCommit ==
    /\ \A r \in RunIds : runs[r].status = "SUCCESS" => r <= watermark
    /\ watermark # 0 => runs[watermark].status \in {"SUCCESS", "FAILED"}
    /\ watermark # 0 /\ runs[watermark].status = "FAILED"
       => Counted(runs[watermark].merged) = runs[watermark].read

\* Every batch that reached staging or the academic tables can still be found
\* in RAW, staging never holds rows of two batches, and a merge reads the
\* staged form of the batch its own worker extracted.
BatchTrail ==
    /\ {staging.batch, watermark} \subseteq raw \cup {0}
    /\ Merging => staging = Staged(run, extraction)

\* README, invariant 6: a student, mapping or enrollment that Moodle no longer
\* reports is never deleted, and a mapping once made is never repointed.
NothingForgotten ==
    [][/\ \A u \in Users :
            academic.mapId[u] # None => academic'.mapId[u] = academic.mapId[u]
       /\ \A i \in StudentIds : academic.student[i] # None => academic'.student[i] # None
       /\ academic.enrolled \subseteq academic'.enrolled
       /\ \A e \in Enrollments :
            academic.enrollMap[e] # None
            => academic'.enrollMap[e] = academic.enrollMap[e]]_vars

\* What the pipeline promises outside: data, watermark and SUCCESS change in
\* one step, and no other step changes the data or the watermark.
Ledger == INSTANCE SyncLedger WITH
    Contents <- AcademicStates,
    status <- [r \in RunIds |-> runs[r].status],
    content <- academic

LedgerPromise == Ledger!Spec

\* What the Attendance synchronisation relies on while it runs beside this one:
\* account numbers are unique at every commit, no academic student disappears,
\* and the course stays mapped.
Directory == INSTANCE StudentDirectory WITH
    Students <- StudentIds,
    Numbers <- {AccountOf[c] : c \in Contents},
    accounts <- [i \in StudentIds |-> IF academic.student[i] = None THEN None
                                      ELSE AccountOf[academic.student[i]]],
    courseMapped <- academic.courseHash # None

DirectoryPromise == Directory!DirectorySpec

\* A run that was started ends as SUCCESS or FAILED, whatever step raises.  The
\* one other end is the death of its process: it was killed, or the exception
\* handler could not write FAILED.  Such a run reads RUNNING for good; no step
\* of any later run looks at it.
RunsFinish ==
    \A r \in RunIds :
        run = r /\ ~Down
        ~> runs[r].status \in {"SUCCESS", "FAILED"} \/ (pc = "gone" /\ run = r)

\* The safety half of RunsFinish: a process that returned left its run ended.
ReturnedRunEnded ==
    pc = "idle" /\ run # 0 => runs[run].status \in {"SUCCESS", "FAILED"}

\* README, "Transaction and failure behavior": the watermark "never advances
\* on a failed run".
FailedRunLeavesWatermark ==
    \A r \in RunIds : runs[r].status = "FAILED" => watermark # r
===============================================================================
