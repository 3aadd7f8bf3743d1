---------------------------- MODULE AttendanceSync ----------------------------
(***************************************************************************)
(* The Attendance synchronisation, run_attendance_sync of                  *)
(* app/integration/attendance/sync.py: one worker process that copies the  *)
(* students, sessions and attendances of the Attendance database through   *)
(* RAW and staging into the academic tables.  It creates no student: an    *)
(* Attendance student is matched by account number with a row of           *)
(* academic.students, once, and is skipped with an open issue until such a *)
(* row exists.                                                             *)
(*                                                                         *)
(* The timer of the Moodle synchronisation fires at the same minutes, so   *)
(* that one may commit between any two statements of this one, each of     *)
(* which sees its own READ COMMITTED snapshot of academic.students         *)
(* (StudentDirectory).  The worker may fail at every step, lose the        *)
(* acknowledgement of a COMMIT, or be killed.                              *)
(***************************************************************************)
EXTENDS StudentDirectory, SyncIssues, Naturals, FiniteSets

CONSTANTS
    Pupils,          \* students ids of the Attendance database
    Accounts,        \* their account_number, as Attendance holds it
    Clean,           \* the account number without padding; None when blank
    Sessions,        \* attendance_sessions ids
    SessionForms,    \* opened_at, closed_at and status, as Attendance holds them
    SessionContents, \* those with opened_at and a status OPEN or CLOSED
    Records,         \* attendances ids
    Times,           \* values of recorded_at
    Snapshots,       \* the states of the Attendance database an extraction meets
    MaxRuns          \* bound: runs started in one behaviour

RecordContents == [pupil : Pupils, session : Sessions, time : Times]

\* A state of the Attendance database; what is extracted is all of it.
Extractions ==
    [students : [Pupils -> Accounts \cup {None}],
     sessions : [Sessions -> SessionForms \cup {None}],
     records : [Records -> RecordContents \cup {None}]]

ASSUME AttendanceAssumption ==
    /\ IsFiniteSet(Pupils) /\ IsFiniteSet(Sessions) /\ IsFiniteSet(Records)
    /\ Clean \in [Accounts -> Numbers \cup {None}]
    /\ SessionContents \subseteq SessionForms
    /\ None \notin Students \cup Numbers \cup Accounts \cup SessionForms
                   \cup RecordContents
                   \cup [student : Students, session : Sessions, time : Times]
    /\ Snapshots \subseteq Extractions
    /\ MaxRuns \in Nat

VARIABLES
    academic,    \* committed attendance tables, source mappings and issues
    runs,        \* integration.sync_runs
    watermark,   \* integration.sync_state: last_batch_id, 0 when no row
    raw,         \* batches whose raw_attendance rows are committed
    staging,     \* the attendance rows of the staging tables
    run,         \* run id of the newest run; batch ids are run ids
    pc,          \* the step the worker is at
    extraction,  \* worker memory: the extracted batch
    tx,          \* the merge transaction's view of academic
    todo,        \* staged students _reconcile_students has not reached
    found,       \* worker memory: the academic student just looked up
    counters     \* worker memory: MergeCounters

tables == <<academic, runs, watermark, raw, staging>>
worker == <<run, pc, extraction, tx, todo, found, counters>>
vars == <<tables, worker, directory>>

RunIds == 1..MaxRuns

\* mapOf/mapHash: student_sources; hash_fields strips, so the hash stands for
\* the normalised account number.
\* session: sessions with their attendance_session_sources, whose hash covers
\* every merged column and is written with them.
\* record/recordHash: attendance_records and attendance_record_sources.
\* issue: the UNRESOLVED_STUDENT issues.
AcademicStates ==
    [mapOf : [Pupils -> Students \cup {None}],
     mapHash : [Pupils -> Numbers \cup {None}],
     session : [Sessions -> SessionContents \cup {None}],
     record : [Records -> [student : Students, session : Sessions, time : Times]
                              \cup {None}],
     recordHash : [Records -> RecordContents \cup {None}],
     issue : [Pupils -> IssueStates]]

EmptyAcademic ==
    [mapOf |-> [p \in Pupils |-> None], mapHash |-> [p \in Pupils |-> None],
     session |-> [x \in Sessions |-> None],
     record |-> [r \in Records |-> None], recordHash |-> [r \in Records |-> None],
     issue |-> NoIssues(Pupils)]

CounterStates == [inserted : Nat, updated : Nat, unchanged : Nat, skipped : Nat]
NoCounters == [inserted |-> 0, updated |-> 0, unchanged |-> 0, skipped |-> 0]

RunStates ==
    [status : {"NONE", "RUNNING", "SUCCESS", "FAILED"}, read : Nat,
     merged : CounterStates]
NoRun == [status |-> "NONE", read |-> 0, merged |-> NoCounters]

NoExtraction ==
    [students |-> [p \in Pupils |-> None], sessions |-> [x \in Sessions |-> None],
     records |-> [r \in Records |-> None]]

StagingStates ==
    [batch : 0..MaxRuns,
     students : [Pupils -> Numbers \cup {None}],
     sessions : [Sessions -> SessionContents \cup {None}],
     records : [Records -> RecordContents \cup {None}]]

Phases == {"idle", "extract", "raw", "stage", "validate",
           "students", "records", "commit", "failing"}

-------------------------------------------------------------------------------
(* What the steps compute *)

Present(f) == {k \in DOMAIN f : f[k] # None}

RowsRead(x) ==
    Cardinality(Present(x.students)) + Cardinality(Present(x.sessions))
        + Cardinality(Present(x.records))

\* _fetch_students refuses an account number two students carry byte for byte.
DuplicateRawAccounts(x) ==
    \E p, q \in Present(x.students) : p # q /\ x.students[p] = x.students[q]

\* Students without an account number and malformed sessions are dropped; every
\* record is kept.
Staged(batch, x) ==
    [batch |-> batch,
     students |-> [p \in Pupils |->
        IF x.students[p] = None THEN None ELSE Clean[x.students[p]]],
     sessions |-> [y \in Sessions |->
        IF x.sessions[y] \in SessionContents THEN x.sessions[y] ELSE None],
     records |-> x.records]

StagingIssues(x) ==
    \/ \E p \in Present(x.students) : Clean[x.students[p]] = None
    \/ \E y \in Present(x.sessions) : x.sessions[y] \notin SessionContents

DuplicateAccounts(s) ==
    \E p, q \in Present(s.students) :
        p # q /\ s.students[p] = s.students[q]

DanglingReferences(s) ==
    \E r \in Present(s.records) :
        \/ s.records[r].pupil \notin Present(s.students)
        \/ s.records[r].session \notin Present(s.sessions)

\* Two records of the same student in the same session.
DuplicatePairs(s) ==
    \E q, r \in Present(s.records) :
        /\ q # r
        /\ s.records[q].pupil = s.records[r].pupil
        /\ s.records[q].session = s.records[r].session

\* Mutant: duplicate attendances are not looked for.
IssuesWithoutPairs(s) ==
    ~courseMapped \/ DuplicateAccounts(s) \/ DanglingReferences(s)

\* An account number of two academic students would be another issue; the
\* directory's UNIQUE(account_number) leaves no such number.
ValidationIssues(s) ==
    ~courseMapped \/ DuplicateAccounts(s) \/ DanglingReferences(s) \/ DuplicatePairs(s)

\* The academic students whose account number is that of pupil p.
Matches(p) == {i \in Students : accounts[i] = staging.students[p]}

\* Mutant: the issue of a student that is matched at last stays open.
MappedUnresolved(d, p, i) ==
    [d EXCEPT !.mapOf = [@ EXCEPT ![p] = i],
              !.mapHash = [@ EXCEPT ![p] = staging.students[p]]]

\* insert(StudentSource) and resolve_issue.
Mapped(d, p, i) ==
    [d EXCEPT !.mapOf = [@ EXCEPT ![p] = i],
              !.mapHash = [@ EXCEPT ![p] = staging.students[p]],
              !.issue = Resolved(@, p)]

\* Mutant: a changed account number is matched again.
Rematched(d, p) ==
    [d EXCEPT !.mapHash = [@ EXCEPT ![p] = staging.students[p]],
              !.mapOf = [@ EXCEPT ![p] = IF Matches(p) = {} THEN @
                                         ELSE CHOOSE i \in Matches(p) : TRUE]]

\* update(StudentSource): the hash only, never the student.
Rehashed(d, p) == [d EXCEPT !.mapHash = [@ EXCEPT ![p] = staging.students[p]]]

MergedSessions(d) ==
    [y \in Sessions |-> IF staging.sessions[y] = None THEN d.session[y]
                        ELSE staging.sessions[y]]

\* The staged records _merge_records skips, inserts, updates and leaves.
SkippedRecords(d) ==
    {r \in Present(staging.records) : d.mapOf[staging.records[r].pupil] = None}
NewRecords(d) ==
    {r \in Present(staging.records) \ SkippedRecords(d) : d.record[r] = None}
ChangedRecords(d) ==
    {r \in Present(staging.records) \ SkippedRecords(d) :
        d.record[r] # None /\ d.recordHash[r] # staging.records[r]}
SameRecords(d) ==
    {r \in Present(staging.records) \ SkippedRecords(d) :
        d.record[r] # None /\ d.recordHash[r] = staging.records[r]}

\* A changed record changes its time only: student and session are set by the
\* INSERT.
MergedRecords(d) ==
    [d EXCEPT
        !.record = [r \in Records |->
            CASE r \in NewRecords(d) ->
                    [student |-> d.mapOf[staging.records[r].pupil],
                     session |-> staging.records[r].session,
                     time |-> staging.records[r].time]
              [] r \in ChangedRecords(d) ->
                    [@[r] EXCEPT !.time = staging.records[r].time]
              [] OTHER -> @[r]],
        !.recordHash = [r \in Records |->
            IF r \in NewRecords(d) \cup ChangedRecords(d) THEN staging.records[r]
            ELSE @[r]]]

\* UNIQUE(attendance_session_id, student_id).
PairTaken(d) ==
    \E q, r \in Records :
        /\ q # r /\ d.record[q] # None /\ d.record[r] # None
        /\ d.record[q].student = d.record[r].student
        /\ d.record[q].session = d.record[r].session

Tally(c, new, changed, same, skipped) ==
    [inserted |-> c.inserted + Cardinality(new),
     updated |-> c.updated + Cardinality(changed),
     unchanged |-> c.unchanged + Cardinality(same),
     skipped |-> c.skipped + Cardinality(skipped)]

-------------------------------------------------------------------------------
(* The worker *)

Init ==
    /\ DirectoryInit
    /\ academic = EmptyAcademic
    /\ runs = [r \in RunIds |-> NoRun]
    /\ watermark = 0
    /\ raw = {}
    /\ staging = Staged(0, NoExtraction)
    /\ run = 0
    /\ pc = "idle"
    /\ extraction = NoExtraction
    /\ tx = EmptyAcademic
    /\ todo = {}
    /\ found = None
    /\ counters = NoCounters

\* run_attendance_sync returned, or its process is gone: its memory is lost and
\* the server has rolled back whatever it had not committed.
EndOfProcess ==
    /\ pc' = "idle"
    /\ extraction' = NoExtraction
    /\ tx' = academic'
    /\ todo' = {}
    /\ found' = None
    /\ counters' = NoCounters
    /\ UNCHANGED <<run, directory>>

\* Control reaches `except Exception`; begin()'s exit has rolled back.
Raise ==
    /\ pc' = "failing"
    /\ tx' = academic'
    /\ todo' = {}
    /\ found' = None
    /\ counters' = NoCounters
    /\ UNCHANGED <<run, extraction, directory>>

\* A step inside the try block that touches no merge state.
MovesTo(next) ==
    /\ pc' = next
    /\ UNCHANGED <<run, tx, todo, found, counters, directory>>

\* The timer starts the process: start_sync_run, in its own transaction.
StartSyncRun ==
    /\ pc = "idle" /\ run < MaxRuns
    /\ run' = run + 1
    /\ runs' = [runs EXCEPT ![run + 1] = [NoRun EXCEPT !.status = "RUNNING"]]
    /\ pc' = "extract"
    /\ UNCHANGED <<academic, watermark, raw, staging, extraction, tx, todo, found,
                   counters, directory>>

\* extract_attendance_batch: one REPEATABLE READ snapshot of Attendance.
Extract ==
    /\ pc = "extract"
    /\ UNCHANGED tables
    /\ \E x \in Snapshots :
        \/ /\ ~DuplicateRawAccounts(x)
           /\ extraction' = x
           /\ MovesTo("raw")
        \/ /\ DuplicateRawAccounts(x)
           /\ Raise

WriteRawBatch ==
    /\ pc = "raw"
    /\ raw' = raw \cup {run}
    /\ MovesTo("stage")
    /\ UNCHANGED <<academic, runs, watermark, staging, extraction>>

\* Deletes every attendance row of the staging tables, then inserts the batch.
WriteStagingBatch ==
    /\ pc = "stage"
    /\ staging' = Staged(run, extraction)
    /\ MovesTo("validate")
    /\ UNCHANGED <<academic, runs, watermark, raw, extraction>>

\* A batch with issues goes to mark_sync_run_failed; a clean one opens the
\* merge transaction.
ValidateStagedBatch ==
    /\ pc = "validate"
    /\ UNCHANGED tables
    /\ \/ /\ StagingIssues(extraction) \/ ValidationIssues(staging)
          /\ Raise
       \/ /\ ~StagingIssues(extraction) /\ ~ValidationIssues(staging)
          /\ pc' = "students"
          /\ tx' = academic
          /\ todo' = Present(staging.students)
          /\ UNCHANGED <<run, extraction, found, counters, directory>>

\* One row of _reconcile_students leaves the transaction as d.
StudentDone(p, d, new, changed, same, skipped) ==
    /\ tx' = d
    /\ todo' = todo \ {p}
    /\ found' = None
    /\ counters' = Tally(counters, new, changed, same, skipped)
    /\ UNCHANGED <<tables, run, pc, extraction, directory>>

\* The SELECT by account number of a student without a mapping finds a row ...
LookupStudent(p) ==
    /\ pc = "students" /\ p \in todo /\ found = None
    /\ tx.mapOf[p] = None
    /\ \E i \in Matches(p) : found' = [pupil |-> p, student |-> i]
    /\ UNCHANGED <<tables, run, pc, extraction, tx, todo, counters, directory>>

\* ... which the mapping then refers to, or it finds none.
MapStudent(p) ==
    /\ pc = "students" /\ found # None /\ found.pupil = p
    /\ StudentDone(p, Mapped(tx, p, found.student), {p}, {}, {}, {})

\* Mutant: skipped without an issue.
SkipSilently(p) ==
    /\ pc = "students" /\ p \in todo /\ found = None
    /\ tx.mapOf[p] = None /\ Matches(p) = {}
    /\ StudentDone(p, tx, {}, {}, {}, {p})

SkipStudent(p) ==
    /\ pc = "students" /\ p \in todo /\ found = None
    /\ tx.mapOf[p] = None /\ Matches(p) = {}
    /\ StudentDone(p, [tx EXCEPT !.issue = Opened(@, p)], {}, {}, {}, {p})

\* An existing mapping is not matched again: only its hash follows.
KeepStudent(p) ==
    /\ pc = "students" /\ p \in todo /\ found = None
    /\ tx.mapOf[p] # None
    /\ IF tx.mapHash[p] = staging.students[p]
       THEN StudentDone(p, tx, {}, {}, {p}, {})
       ELSE StudentDone(p, Rehashed(tx, p), {}, {p}, {}, {})

MergeSessions ==
    /\ pc = "students" /\ todo = {}
    /\ pc' = "records"
    /\ tx' = [tx EXCEPT !.session = MergedSessions(tx)]
    /\ LET known == {y \in Present(staging.sessions) : tx.session[y] # None}
           same == {y \in known : tx.session[y] = staging.sessions[y]} IN
       counters' = Tally(counters, Present(staging.sessions) \ known,
                         known \ same, same, {})
    /\ UNCHANGED <<tables, run, extraction, todo, found, directory>>

\* session_academic_id_by_source_id[...] raises KeyError for a session that is
\* not staged; UNIQUE refuses a second record of a student in a session.
Refused(d) ==
    \/ \E r \in Present(staging.records) \ SkippedRecords(d) :
        staging.records[r].session \notin Present(staging.sessions)
    \/ PairTaken(MergedRecords(d))

MergeRecords ==
    /\ pc = "records" /\ ~Refused(tx)
    /\ pc' = "commit"
    /\ tx' = MergedRecords(tx)
    /\ counters' = Tally(counters, NewRecords(tx), ChangedRecords(tx),
                         SameRecords(tx), SkippedRecords(tx))
    /\ UNCHANGED <<tables, run, extraction, todo, found, directory>>

\* KeyError or IntegrityError: the transaction rolls back.
RecordConflict ==
    /\ pc = "records" /\ Refused(tx)
    /\ UNCHANGED tables
    /\ Raise

\* Mutant: the run is marked SUCCESS in a transaction of its own.
CommitWithoutSuccess ==
    /\ pc = "commit"
    /\ academic' = tx
    /\ watermark' = run
    /\ EndOfProcess \/ Raise
    /\ UNCHANGED <<runs, raw, staging>>

\* The merge transaction commits with advance_sync_state and
\* mark_sync_run_success; the worker returns, or sees an exception although
\* the server has committed.
Commit ==
    /\ pc = "commit"
    /\ academic' = tx
    /\ watermark' = run
    /\ runs' = [runs EXCEPT ![run] = [status |-> "SUCCESS",
                                      read |-> RowsRead(extraction),
                                      merged |-> counters]]
    /\ EndOfProcess \/ Raise
    /\ UNCHANGED <<raw, staging>>

\* Any other exception: a database unreachable, a value staging refuses, a
\* deadlock with the Moodle synchronisation, a refused COMMIT.
Fault ==
    /\ pc \notin {"idle", "failing"}
    /\ UNCHANGED tables
    /\ Raise

\* mark_sync_run_failed looks at the run's id only, whatever its status.
MarkSyncRunFailed ==
    /\ pc = "failing"
    /\ runs' = [runs EXCEPT ![run].status = "FAILED",
                            ![run].read = RowsRead(extraction)]
    /\ UNCHANGED <<academic, watermark, raw, staging>>
    /\ EndOfProcess

\* The process is killed, the host stops, or mark_sync_run_failed itself fails.
Crash ==
    /\ pc # "idle"
    /\ UNCHANGED tables
    /\ EndOfProcess

\* The foreign keys of uncommitted mappings and records hold key-share locks on
\* these academic.students rows: an UPDATE of their account number waits.
LockedStudents ==
    {tx.mapOf[p] : p \in {q \in Pupils : tx.mapOf[q] # academic.mapOf[q]}}
    \cup {tx.record[r].student : r \in {q \in Records :
            tx.record[q] # None /\ academic.record[q] = None}}

\* A commit of the Moodle synchronisation, at any moment.
MoodleCommits ==
    /\ MoodleCommit
    /\ directory' # directory
    /\ \A i \in LockedStudents : accounts'[i] = accounts[i]
    /\ UNCHANGED <<tables, worker>>

ReconcileStudent(p) ==
    LookupStudent(p) \/ MapStudent(p) \/ SkipStudent(p) \/ KeepStudent(p)

Next ==
    \/ StartSyncRun
    \/ Extract
    \/ WriteRawBatch
    \/ WriteStagingBatch
    \/ ValidateStagedBatch
    \/ \E p \in Pupils : ReconcileStudent(p)
    \/ MergeSessions
    \/ MergeRecords
    \/ RecordConflict
    \/ Commit
    \/ Fault
    \/ MarkSyncRunFailed
    \/ Crash
    \/ MoodleCommits

Spec == Init /\ [][Next]_vars

-------------------------------------------------------------------------------
(* Properties *)

\* What the attendance tables say of every row of s is what s says: a student
\* is mapped or has an open issue, and every attendance of a mapped student is
\* there with its time.
Reflects(d, s) ==
    /\ \A p \in Present(s.students) : d.mapOf[p] = None => d.issue[p] = "OPEN"
    /\ \A y \in Present(s.sessions) : d.session[y] = s.sessions[y]
    /\ \A r \in Present(s.records) :
        d.mapOf[s.records[r].pupil] # None
        => d.record[r] # None /\ d.record[r].time = s.records[r].time

\* README, "Unresolved students are skipped": while staging still holds the
\* batch the watermark names, that batch is merged with the entire history of
\* every student matched so far, also of those an earlier batch had skipped,
\* and whoever is missing has an open issue.
NothingLost ==
    watermark # 0 /\ staging.batch = watermark => Reflects(academic, staging)

\* An open issue is of a student without a mapping and a resolved one of a
\* student with one, in the committed tables and in the merge: the README's
\* "can't actually trigger a reopen".
IssuesTrackMappings ==
    \A d \in {academic, tx} : \A p \in Pupils :
        /\ d.issue[p] = "OPEN" => d.mapOf[p] = None
        /\ d.issue[p] = "RESOLVED" => d.mapOf[p] # None

\* Whoever was mapped is still in the batch, at the number its academic student
\* has; whatever was merged is still in it, of the same student and session.
SourceUnmoved(d, s) ==
    /\ \A p \in Present(d.mapOf) : s.students[p] = accounts[d.mapOf[p]]
    /\ \A r \in Present(d.record) :
        /\ s.records[r] # None
        /\ d.record[r].student = d.mapOf[s.records[r].pupil]
        /\ d.record[r].session = s.records[r].session

\* A validated batch is refused only when a row the platform already merged was
\* deleted, moved or renumbered at its source, in either system; new rows and
\* new times are never refused.
RefusalNeedsReplacement ==
    pc = "records" /\ Refused(tx) => ~SourceUnmoved(tx, staging)

\* A mapping is never repointed, a record never deleted nor moved to another
\* student or session, a session never deleted, an issue neither deleted nor
\* reopened, whatever disappears from or changes in either source.
HistoryKept ==
    [][/\ \A p \in Present(academic.mapOf) : academic'.mapOf[p] = academic.mapOf[p]
       /\ \A y \in Present(academic.session) : academic'.session[y] # None
       /\ \A r \in Present(academic.record) :
            /\ academic'.record[r] # None
            /\ academic'.record[r].student = academic.record[r].student
            /\ academic'.record[r].session = academic.record[r].session
       /\ \A p \in Pupils :
            /\ academic.issue[p] = "OPEN" => academic'.issue[p] # "NONE"
            /\ academic.issue[p] = "RESOLVED" => academic'.issue[p] = "RESOLVED"]_vars

\* Data, watermark and SUCCESS change in one step, and no other step changes
\* the data or the watermark; a commit of the Moodle synchronisation is none of
\* them.
Ledger == INSTANCE SyncLedger WITH
    Contents <- AcademicStates,
    status <- [r \in RunIds |-> runs[r].status],
    content <- academic

LedgerPromise == Ledger!Spec
===============================================================================
