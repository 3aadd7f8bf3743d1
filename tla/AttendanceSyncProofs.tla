-------------------------- MODULE AttendanceSyncProofs -------------------------
(***************************************************************************)
(* Theorems about AttendanceSync, for any Attendance database, any number  *)
(* of runs, and any commits of the Moodle synchronisation between them.    *)
(***************************************************************************)
EXTENDS AttendanceSync, FiniteSetTheorems, TLAPS

-------------------------------------------------------------------------------
(* The invariant *)

Lookups == [pupil : Pupils, student : Students]

TypeOK ==
    /\ accounts \in Directories /\ courseMapped \in BOOLEAN
    /\ academic \in AcademicStates /\ tx \in AcademicStates
    /\ runs \in [RunIds -> RunStates]
    /\ watermark \in 0..MaxRuns
    /\ raw \subseteq RunIds
    /\ staging \in StagingStates
    /\ run \in 0..MaxRuns
    /\ pc \in Phases
    /\ extraction \in Extractions
    /\ todo \subseteq Pupils
    /\ found \in Lookups \cup {None}
    /\ counters \in CounterStates

\* A running process has a run; the lookup of _reconcile_students is of a staged
\* row it has not reached, of a student without a mapping.
TypeInv ==
    /\ TypeOK
    /\ pc # "idle" => run \in RunIds
    /\ pc = "students" => todo \subseteq Present(staging.students)
    /\ found # None => /\ pc = "students" /\ found.pupil \in todo
                       /\ tx.mapOf[found.pupil] = None

\* The hash of a record stands for the time that is merged.
HashFaithful(d) ==
    \A r \in Present(d.record) :
        d.recordHash[r] # None /\ d.recordHash[r].time = d.record[r].time

\* An open issue has no mapping, a resolved one has; as IssuesTrackMappings.
IssuesTrack(d) ==
    \A p \in Pupils : /\ d.issue[p] = "OPEN" => d.mapOf[p] = None
                      /\ d.issue[p] = "RESOLVED" => d.mapOf[p] # None

TablesInv == \A d \in {academic, tx} : HashFaithful(d) /\ IssuesTrack(d)

Validated(s) == ~DuplicateAccounts(s) /\ ~DanglingReferences(s) /\ ~DuplicatePairs(s)

\* Whoever of these students has no mapping has an open issue.
Accounted(d, pupils) == \A p \in pupils : d.mapOf[p] = None => d.issue[p] = "OPEN"

SessionsMerged(d, s) == \A y \in Present(s.sessions) : d.session[y] = s.sessions[y]

\* Where a run is in the pipeline says what its merge has done with the batch.
BatchInv ==
    /\ watermark <= run
    /\ pc \notin {"idle", "failing"} => watermark < run
    /\ pc \in {"validate", "students", "records", "commit"} => staging.batch = run
    /\ pc \in {"students", "records", "commit"} => Validated(staging)
    /\ pc = "students" => Accounted(tx, Present(staging.students) \ todo)
    /\ pc = "records" => /\ Accounted(tx, Present(staging.students))
                         /\ SessionsMerged(tx, staging)
    /\ pc = "commit" => Reflects(tx, staging)
    /\ NothingLost

\* n keeps what d has, as HistoryKept wants it of the committed tables.
Extends(n, d) ==
    /\ \A p \in Present(d.mapOf) : n.mapOf[p] = d.mapOf[p]
    /\ \A y \in Present(d.session) : n.session[y] # None
    /\ \A r \in Present(d.record) :
        /\ n.record[r] # None
        /\ n.record[r].student = d.record[r].student
        /\ n.record[r].session = d.record[r].session
    /\ \A p \in Pupils :
        /\ d.issue[p] = "OPEN" => n.issue[p] # "NONE"
        /\ d.issue[p] = "RESOLVED" => n.issue[p] = "RESOLVED"

TxExtends == Extends(tx, academic)

LedgerInv ==
    /\ \A r \in RunIds : r > run <=> runs[r].status = "NONE"
    /\ pc \notin {"idle", "failing"} => runs[run].status = "RUNNING"
    /\ pc = "failing" => \/ runs[run].status = "RUNNING"
                         \/ runs[run].status = "SUCCESS" /\ watermark = run

-------------------------------------------------------------------------------
(* The operators the steps are built from *)

LEMMA EmptyAcademicType == EmptyAcademic \in AcademicStates
BY DEF EmptyAcademic, AcademicStates, NoIssues, IssueStates

\* What one row of _reconcile_students does to each table.
LEMMA MappedParts ==
    ASSUME NEW d \in AcademicStates, NEW p \in Pupils, NEW i \in Students,
           staging.students[p] \in Numbers
    PROVE  /\ Mapped(d, p, i) \in AcademicStates
           /\ Mapped(d, p, i).mapOf = [d.mapOf EXCEPT ![p] = i]
           /\ Mapped(d, p, i).issue = [d.issue EXCEPT ![p] =
                IF d.issue[p] = "OPEN" THEN "RESOLVED" ELSE d.issue[p]]
           /\ Mapped(d, p, i).session = d.session
           /\ Mapped(d, p, i).record = d.record
           /\ Mapped(d, p, i).recordHash = d.recordHash
BY DEF Mapped, Resolved, AcademicStates, IssueStates

LEMMA RehashedParts ==
    ASSUME NEW d \in AcademicStates, NEW p \in Pupils, staging.students[p] \in Numbers
    PROVE  /\ Rehashed(d, p) \in AcademicStates
           /\ Rehashed(d, p).mapOf = d.mapOf /\ Rehashed(d, p).issue = d.issue
           /\ Rehashed(d, p).session = d.session /\ Rehashed(d, p).record = d.record
           /\ Rehashed(d, p).recordHash = d.recordHash
BY DEF Rehashed, AcademicStates

LEMMA SkippedParts ==
    ASSUME NEW d \in AcademicStates, NEW p \in Pupils
    PROVE  LET n == [d EXCEPT !.issue = Opened(@, p)] IN
           /\ n \in AcademicStates
           /\ n.mapOf = d.mapOf /\ n.issue = [d.issue EXCEPT ![p] = "OPEN"]
           /\ n.session = d.session /\ n.record = d.record
           /\ n.recordHash = d.recordHash
BY DEF Opened, AcademicStates, IssueStates

LEMMA SessionParts ==
    ASSUME NEW d \in AcademicStates, staging \in StagingStates
    PROVE  LET n == [d EXCEPT !.session = MergedSessions(d)] IN
           /\ n \in AcademicStates
           /\ n.mapOf = d.mapOf /\ n.issue = d.issue
           /\ \A y \in Sessions : n.session[y] = IF staging.sessions[y] = None
                                            THEN d.session[y] ELSE staging.sessions[y]
           /\ n.record = d.record /\ n.recordHash = d.recordHash
BY DEF MergedSessions, AcademicStates, StagingStates

\* The four ways of a staged record.
LEMMA RecordSorts ==
    ASSUME NEW d \in AcademicStates, staging \in StagingStates, NEW r \in Records
    PROVE  /\ staging.records[r] # None =>
                /\ staging.records[r] \in RecordContents
                /\ d.mapOf[staging.records[r].pupil] \in Students \cup {None}
           /\ r \in SkippedRecords(d) <=>
                staging.records[r] # None /\ d.mapOf[staging.records[r].pupil] = None
           /\ r \in NewRecords(d) <=>
                /\ staging.records[r] # None /\ d.mapOf[staging.records[r].pupil] # None
                /\ d.record[r] = None
           /\ r \in ChangedRecords(d) <=>
                /\ staging.records[r] # None /\ d.mapOf[staging.records[r].pupil] # None
                /\ d.record[r] # None /\ d.recordHash[r] # staging.records[r]
<1>1. staging.records \in [Records -> RecordContents \cup {None}]
      /\ d.mapOf \in [Pupils -> Students \cup {None}]
  BY DEF StagingStates, AcademicStates
<1>2. staging.records[r] # None => staging.records[r].pupil \in Pupils
  BY <1>1 DEF RecordContents
<1> QED BY <1>1, <1>2
        DEF SkippedRecords, NewRecords, ChangedRecords, Present

\* What _merge_records does to one record.
LEMMA RecordParts ==
    ASSUME NEW d \in AcademicStates, staging \in StagingStates
    PROVE  /\ MergedRecords(d) \in AcademicStates
           /\ MergedRecords(d).mapOf = d.mapOf /\ MergedRecords(d).issue = d.issue
           /\ MergedRecords(d).session = d.session
           /\ \A r \in NewRecords(d) : MergedRecords(d).record[r] =
                [student |-> d.mapOf[staging.records[r].pupil],
                 session |-> staging.records[r].session, time |-> staging.records[r].time]
           /\ \A r \in ChangedRecords(d) : MergedRecords(d).record[r] =
                [d.record[r] EXCEPT !.time = staging.records[r].time]
           /\ \A r \in Records \ (NewRecords(d) \cup ChangedRecords(d)) :
                /\ MergedRecords(d).record[r] = d.record[r]
                /\ MergedRecords(d).recordHash[r] = d.recordHash[r]
           /\ \A r \in NewRecords(d) \cup ChangedRecords(d) :
                MergedRecords(d).recordHash[r] = staging.records[r]
<1> DEFINE record == [r \in Records |->
            CASE r \in NewRecords(d) ->
                    [student |-> d.mapOf[staging.records[r].pupil],
                     session |-> staging.records[r].session,
                     time |-> staging.records[r].time]
              [] r \in ChangedRecords(d) ->
                    [d.record[r] EXCEPT !.time = staging.records[r].time]
              [] OTHER -> d.record[r]]
           hash == [r \in Records |->
            IF r \in NewRecords(d) \cup ChangedRecords(d) THEN staging.records[r]
            ELSE d.recordHash[r]]
           Row == [student : Students, session : Sessions, time : Times]
<1>1. MergedRecords(d) = [d EXCEPT !.record = record, !.recordHash = hash]
  BY DEF MergedRecords
<1>2. NewRecords(d) \subseteq Records /\ ChangedRecords(d) \subseteq Records
  BY DEF NewRecords, ChangedRecords, Present, StagingStates
<1>3. ASSUME NEW r \in Records
      PROVE  /\ r \in NewRecords(d) => record[r] =
                [student |-> d.mapOf[staging.records[r].pupil],
                 session |-> staging.records[r].session, time |-> staging.records[r].time]
             /\ r \in ChangedRecords(d) =>
                record[r] = [d.record[r] EXCEPT !.time = staging.records[r].time]
             /\ r \notin NewRecords(d) \cup ChangedRecords(d) => record[r] = d.record[r]
  BY DEF NewRecords, ChangedRecords
<1>4. ASSUME NEW r \in Records
      PROVE  record[r] \in Row \cup {None}
  <2>1. d.record[r] \in Row \cup {None}
    BY DEF AcademicStates
  <2>2. CASE r \in NewRecords(d)
    BY <1>3, <2>2, RecordSorts DEF RecordContents
  <2>3. CASE r \in ChangedRecords(d)
    BY <1>3, <2>1, <2>3, RecordSorts DEF RecordContents
  <2> QED BY <1>3, <2>1, <2>2, <2>3
<1>5. record \in [Records -> Row \cup {None}]
  BY <1>4
<1>6. hash \in [Records -> RecordContents \cup {None}]
  BY DEF AcademicStates, StagingStates
<1>7. \A r \in Records : hash[r] = IF r \in NewRecords(d) \cup ChangedRecords(d)
                                   THEN staging.records[r] ELSE d.recordHash[r]
  OBVIOUS
<1> HIDE DEF record, hash
<1>8. /\ MergedRecords(d) \in AcademicStates
      /\ MergedRecords(d).mapOf = d.mapOf /\ MergedRecords(d).issue = d.issue
      /\ MergedRecords(d).session = d.session
      /\ MergedRecords(d).record = record /\ MergedRecords(d).recordHash = hash
  BY <1>1, <1>5, <1>6 DEF AcademicStates
<1> QED BY <1>2, <1>3, <1>7, <1>8

LEMMA StagedType ==
    ASSUME NEW b \in 0..MaxRuns, NEW x \in Extractions
    PROVE  Staged(b, x) \in StagingStates
BY AttendanceAssumption DEF Staged, Extractions, StagingStates

LEMMA NoExtractionType == NoExtraction \in Extractions
BY DEF NoExtraction, Extractions

LEMMA RowsReadType ==
    ASSUME NEW x \in Extractions
    PROVE  RowsRead(x) \in Nat
<1>1. /\ Present(x.students) \subseteq Pupils /\ Present(x.sessions) \subseteq Sessions
      /\ Present(x.records) \subseteq Records
  BY DEF Present, Extractions
<1>2. /\ IsFiniteSet(Present(x.students)) /\ IsFiniteSet(Present(x.sessions))
      /\ IsFiniteSet(Present(x.records))
  BY <1>1, AttendanceAssumption, FS_Subset
<1>3. /\ Cardinality(Present(x.students)) \in Nat
      /\ Cardinality(Present(x.sessions)) \in Nat
      /\ Cardinality(Present(x.records)) \in Nat
  BY <1>2, FS_CardinalityType
<1> QED BY <1>3 DEF RowsRead

LEMMA TallyType ==
    ASSUME NEW c \in CounterStates, NEW a, NEW b, NEW s, NEW k,
           IsFiniteSet(a), IsFiniteSet(b), IsFiniteSet(s), IsFiniteSet(k)
    PROVE  Tally(c, a, b, s, k) \in CounterStates
<1>1. Cardinality(a) \in Nat /\ Cardinality(b) \in Nat /\ Cardinality(s) \in Nat
      /\ Cardinality(k) \in Nat
  BY FS_CardinalityType
<1> QED BY <1>1 DEF Tally, CounterStates

-------------------------------------------------------------------------------
(* Types *)

LEMMA InitTyped == Init => TypeInv
<1> SUFFICES ASSUME Init PROVE TypeInv
  OBVIOUS
<1> USE DEF Init
<1>1. academic \in AcademicStates /\ tx \in AcademicStates
  BY EmptyAcademicType
<1>2. runs \in [RunIds -> RunStates] /\ counters \in CounterStates
  BY DEF NoRun, RunStates, NoCounters, CounterStates
<1>3. staging \in StagingStates /\ extraction \in Extractions
  BY NoExtractionType, StagedType, AttendanceAssumption
<1>4. watermark \in 0..MaxRuns /\ run \in 0..MaxRuns
  BY AttendanceAssumption
<1>5. accounts \in Directories /\ courseMapped \in BOOLEAN
  BY DEF DirectoryInit, Directories
<1> QED BY <1>1, <1>2, <1>3, <1>4, <1>5 DEF TypeInv, TypeOK, Phases

\* What an exception or the end of the process leaves in memory is typed.
LEMMA EndsTyped ==
    ASSUME TypeInv, pc # "idle", Raise \/ EndOfProcess,
           academic' \in AcademicStates, runs' \in [RunIds -> RunStates],
           watermark' \in 0..MaxRuns, UNCHANGED <<raw, staging>>
    PROVE  TypeInv'
BY NoExtractionType
   DEF TypeInv, TypeOK, Raise, EndOfProcess, NoCounters, CounterStates, Phases, directory,
       Directories, Extractions, NoExtraction

LEMMA RaiseTyped ==
    ASSUME TypeInv, pc # "idle", Raise \/ EndOfProcess, UNCHANGED tables
    PROVE  TypeInv'
<1>1. /\ academic' \in AcademicStates /\ runs' \in [RunIds -> RunStates]
      /\ watermark' \in 0..MaxRuns /\ UNCHANGED <<raw, staging>>
  BY DEF tables, TypeInv, TypeOK
<1> QED BY <1>1, EndsTyped

LEMMA StudentDoneTyped ==
    ASSUME TypeInv, pc = "students", NEW p \in Pupils, NEW d \in AcademicStates,
           NEW a \in {{}, {p}}, NEW b \in {{}, {p}}, NEW s \in {{}, {p}}, NEW k \in {{}, {p}},
           StudentDone(p, d, a, b, s, k)
    PROVE  TypeInv'
<1>1. IsFiniteSet(a) /\ IsFiniteSet(b) /\ IsFiniteSet(s) /\ IsFiniteSet(k)
  <2>1. IsFiniteSet({}) /\ IsFiniteSet({p})
    BY FS_EmptySet, FS_Singleton
  <2> QED BY <2>1
<1>2. counters' \in CounterStates
  BY <1>1, TallyType DEF StudentDone, TypeInv, TypeOK
<1> QED BY <1>2 DEF StudentDone, TypeInv, TypeOK, tables, directory, Directories, Present

\* The students _reconcile_students has before it are staged, with a number.
LEMMA StagedNumber ==
    ASSUME TypeInv, pc = "students", NEW p \in todo
    PROVE  p \in Pupils /\ staging.students[p] \in Numbers /\ staging.students[p] # None
BY DEF TypeInv, TypeOK, Present, StagingStates

LEMMA ReconcileTyped ==
    ASSUME TypeInv, NEW p \in Pupils, ReconcileStudent(p)
    PROVE  TypeInv'
<1>1. tx \in AcademicStates
  BY DEF TypeInv, TypeOK
<1>2. CASE LookupStudent(p)
  <2>1. PICK i \in Matches(p) : found' = [pupil |-> p, student |-> i]
    BY <1>2 DEF LookupStudent
  <2>2. i \in Students
    BY DEF Matches
  <2>3. found' \in Lookups /\ found'.pupil = p
    BY <2>1, <2>2 DEF Lookups
  <2> QED BY <1>2, <2>3
          DEF LookupStudent, TypeInv, TypeOK, tables, directory, Directories, Present
<1>3. CASE MapStudent(p)
  <2>1. found \in Lookups /\ found.student \in Students /\ p \in todo /\ pc = "students"
    BY <1>3 DEF MapStudent, TypeInv, TypeOK, Lookups
  <2>2. Mapped(tx, p, found.student) \in AcademicStates
    BY <1>1, <2>1, StagedNumber, MappedParts
  <2> QED BY <1>3, <2>1, <2>2, StudentDoneTyped DEF MapStudent
<1>4. CASE SkipStudent(p)
  <2>1. [tx EXCEPT !.issue = Opened(@, p)] \in AcademicStates
    BY <1>1, SkippedParts
  <2> QED BY <1>4, <2>1, StudentDoneTyped DEF SkipStudent
<1>5. CASE KeepStudent(p)
  <2>1. Rehashed(tx, p) \in AcademicStates
    BY <1>1, <1>5, StagedNumber, RehashedParts DEF KeepStudent
  <2> QED BY <1>1, <1>5, <2>1, StudentDoneTyped DEF KeepStudent
<1> QED BY <1>2, <1>3, <1>4, <1>5 DEF ReconcileStudent

LEMMA NextTyped == TypeInv /\ [Next]_vars => TypeInv'
<1> SUFFICES ASSUME TypeInv, [Next]_vars PROVE TypeInv'
  OBVIOUS
<1>1. CASE StartSyncRun
  <2>1. run + 1 \in RunIds /\ run' \in RunIds /\ run' \in 0..MaxRuns
    BY <1>1, AttendanceAssumption DEF StartSyncRun, RunIds, TypeInv, TypeOK
  <2>2. [NoRun EXCEPT !.status = "RUNNING"] \in RunStates
    BY DEF NoRun, RunStates, NoCounters, CounterStates
  <2>3. runs' \in [RunIds -> RunStates]
    BY <1>1, <2>1, <2>2 DEF StartSyncRun, TypeInv, TypeOK
  <2> QED BY <1>1, <2>1, <2>3 DEF StartSyncRun, TypeInv, TypeOK, Phases, directory, Directories
<1>2. CASE Extract
  <2>1. PICK x \in Snapshots : (extraction' = x /\ MovesTo("raw")) \/ Raise
    BY <1>2 DEF Extract
  <2>2. UNCHANGED tables /\ pc = "extract" /\ x \in Extractions
    BY <1>2, AttendanceAssumption DEF Extract
  <2>3. CASE extraction' = x /\ MovesTo("raw")
    BY <2>2, <2>3 DEF MovesTo, tables, TypeInv, TypeOK, Phases, directory, Directories
  <2>4. CASE Raise
    BY <2>2, <2>4, RaiseTyped
  <2> QED BY <2>1, <2>3, <2>4
<1>3. CASE WriteRawBatch
  BY <1>3 DEF WriteRawBatch, MovesTo, TypeInv, TypeOK, Phases, directory, Directories
<1>4. CASE WriteStagingBatch
  <2>1. staging' \in StagingStates
    BY <1>4, StagedType DEF WriteStagingBatch, TypeInv, TypeOK
  <2> QED BY <1>4, <2>1
          DEF WriteStagingBatch, MovesTo, TypeInv, TypeOK, Phases, directory, Directories
<1>5. CASE ValidateStagedBatch
  <2>1. UNCHANGED tables /\ pc = "validate"
    BY <1>5 DEF ValidateStagedBatch
  <2>2. CASE Raise
    BY <2>1, <2>2, RaiseTyped
  <2>3. CASE ~Raise
    BY <1>5, <2>1, <2>3
       DEF ValidateStagedBatch, tables, TypeInv, TypeOK, Phases, directory, Directories,
           StagingStates, Present
  <2> QED BY <2>2, <2>3
<1>6. ASSUME NEW p \in Pupils, ReconcileStudent(p) PROVE TypeInv'
  BY <1>6, ReconcileTyped
<1>7. CASE MergeSessions
  <2>1. tx' \in AcademicStates
    BY <1>7, SessionParts DEF MergeSessions, TypeInv, TypeOK
  <2>2. \A f : f \subseteq Present(staging.sessions) => IsFiniteSet(f)
    BY AttendanceAssumption, FS_Subset DEF TypeInv, TypeOK, StagingStates, Present
  <2>3. PICK known : known = {y \in Present(staging.sessions) : tx.session[y] # None}
    OBVIOUS
  <2>4. PICK same : same = {y \in known : tx.session[y] = staging.sessions[y]}
    OBVIOUS
  <2>5. counters' = Tally(counters, Present(staging.sessions) \ known, known \ same, same, {})
    BY <1>7, <2>3, <2>4 DEF MergeSessions
  <2>6. counters' \in CounterStates
    BY <2>2, <2>3, <2>4, <2>5, TallyType DEF TypeInv, TypeOK
  <2> QED BY <1>7, <2>1, <2>6
          DEF MergeSessions, tables, TypeInv, TypeOK, Phases, directory, Directories
<1>8. CASE MergeRecords
  <2>1. tx' \in AcademicStates
    BY <1>8, RecordParts DEF MergeRecords, TypeInv, TypeOK
  <2>2. \A f : f \subseteq Present(staging.records) => IsFiniteSet(f)
    BY AttendanceAssumption, FS_Subset DEF TypeInv, TypeOK, StagingStates, Present
  <2>3. /\ IsFiniteSet(NewRecords(tx)) /\ IsFiniteSet(ChangedRecords(tx))
        /\ IsFiniteSet(SameRecords(tx)) /\ IsFiniteSet(SkippedRecords(tx))
    BY <2>2 DEF NewRecords, ChangedRecords, SameRecords, SkippedRecords
  <2>4. counters' \in CounterStates
    BY <1>8, <2>3, TallyType DEF MergeRecords, TypeInv, TypeOK
  <2> QED BY <1>8, <2>1, <2>4
          DEF MergeRecords, tables, TypeInv, TypeOK, Phases, directory, Directories
<1>9. CASE Commit
  <2>1. [status |-> "SUCCESS", read |-> RowsRead(extraction), merged |-> counters]
            \in RunStates
    BY RowsReadType DEF TypeInv, TypeOK, RunStates
  <2>2. runs' \in [RunIds -> RunStates] /\ academic' \in AcademicStates
        /\ watermark' \in 0..MaxRuns
    BY <1>9, <2>1 DEF Commit, TypeInv, TypeOK
  <2> QED BY <1>9, <2>2, EndsTyped DEF Commit
<1>10. CASE MarkSyncRunFailed
  <2>1. /\ run \in RunIds /\ runs \in [RunIds -> RunStates] /\ RowsRead(extraction) \in Nat
    BY <1>10, RowsReadType DEF MarkSyncRunFailed, TypeInv, TypeOK
  <2>2. runs' \in [RunIds -> RunStates]
    BY <1>10, <2>1 DEF MarkSyncRunFailed, RunStates
  <2>3. academic' \in AcademicStates /\ watermark' \in 0..MaxRuns
    BY <1>10 DEF MarkSyncRunFailed, TypeInv, TypeOK
  <2> QED BY <1>10, <2>2, <2>3, EndsTyped DEF MarkSyncRunFailed
<1>11. CASE RecordConflict \/ Fault \/ Crash
  BY <1>11, RaiseTyped DEF RecordConflict, Fault, Crash
<1>12. CASE MoodleCommits
  BY <1>12 DEF MoodleCommits, MoodleCommit, tables, worker, TypeInv, TypeOK, Present
<1>13. CASE UNCHANGED vars
  BY <1>13 DEF vars, tables, worker, directory, TypeInv, TypeOK, Directories, Present
<1> QED BY <1>1, <1>2, <1>3, <1>4, <1>5, <1>6, <1>7, <1>8, <1>9, <1>10, <1>11, <1>12, <1>13
        DEF Next

LEMMA AlwaysTyped == Spec => []TypeInv
BY InitTyped, NextTyped, PTL DEF Spec

\* Every table, and everything the worker remembers, keeps its type.
THEOREM TypeCorrect == Spec => []TypeOK
<1>1. TypeInv => TypeOK
  BY DEF TypeInv
<1> QED BY <1>1, AlwaysTyped, PTL

-------------------------------------------------------------------------------
(* The tables, committed and in the merge transaction *)

\* One row, one table or the records at a time: what the merge does to tx.
MergeStep ==
    \/ \E p \in Pupils :
        \/ /\ tx.mapOf[p] = None /\ staging.students[p] \in Numbers
           /\ \E i \in Students : tx' = Mapped(tx, p, i)
        \/ tx.mapOf[p] = None /\ tx' = [tx EXCEPT !.issue = Opened(@, p)]
        \/ staging.students[p] \in Numbers /\ tx' = Rehashed(tx, p)
    \/ tx' = [tx EXCEPT !.session = MergedSessions(tx)]
    \/ tx' = MergedRecords(tx)

\* Only a commit publishes the transaction, and only the merge adds to it.
LEMMA TxSteps ==
    ASSUME TypeInv, [Next]_vars
    PROVE  \/ academic' = academic /\ tx' \in {tx, academic}
           \/ academic' = tx /\ tx' = tx
           \/ academic' = academic /\ MergeStep
<1>1. CASE StartSyncRun \/ WriteRawBatch \/ WriteStagingBatch \/ MoodleCommits
           \/ UNCHANGED vars
  BY <1>1 DEF StartSyncRun, WriteRawBatch, WriteStagingBatch, MovesTo, MoodleCommits, vars,
              tables, worker
<1>2. CASE Extract \/ ValidateStagedBatch \/ RecordConflict \/ Fault \/ Crash
           \/ MarkSyncRunFailed
  BY <1>2 DEF Extract, ValidateStagedBatch, RecordConflict, Fault, Crash, MarkSyncRunFailed,
              MovesTo, Raise, EndOfProcess, tables
<1>3. CASE Commit
  BY <1>3 DEF Commit, Raise, EndOfProcess
<1>4. CASE MergeSessions \/ MergeRecords
  BY <1>4 DEF MergeSessions, MergeRecords, MergeStep, tables
<1>5. ASSUME NEW p \in Pupils, ReconcileStudent(p)
      PROVE  academic' = academic /\ (tx' = tx \/ MergeStep)
  <2>1. CASE LookupStudent(p)
    BY <2>1 DEF LookupStudent, tables
  <2>2. CASE MapStudent(p)
    <3>1. /\ found.student \in Students /\ p \in todo /\ pc = "students"
          /\ tx.mapOf[p] = None
      BY <2>2 DEF MapStudent, TypeInv, TypeOK, Lookups
    <3>2. academic' = academic /\ tx' = Mapped(tx, p, found.student)
      BY <2>2 DEF MapStudent, StudentDone, tables
    <3>3. staging.students[p] \in Numbers
      BY <3>1, StagedNumber
    <3> QED BY <3>1, <3>2, <3>3 DEF MergeStep
  <2>3. CASE SkipStudent(p)
    BY <2>3 DEF SkipStudent, StudentDone, tables, MergeStep
  <2>4. CASE KeepStudent(p)
    <3>1. academic' = academic /\ (tx' = tx \/ tx' = Rehashed(tx, p))
      BY <2>4 DEF KeepStudent, StudentDone, tables
    <3>2. staging.students[p] \in Numbers
      BY <2>4, StagedNumber DEF KeepStudent
    <3> QED BY <3>1, <3>2 DEF MergeStep
  <2> QED BY <1>5, <2>1, <2>2, <2>3, <2>4 DEF ReconcileStudent
<1> QED BY <1>1, <1>2, <1>3, <1>4, <1>5 DEF Next

\* HashFaithful depends on two tables, IssuesTrack on two others.
LEMMA SameHashes ==
    ASSUME NEW d, NEW n, n.record = d.record, n.recordHash = d.recordHash, HashFaithful(d)
    PROVE  HashFaithful(n)
BY DEF HashFaithful, Present

LEMMA SameIssues ==
    ASSUME NEW d, NEW n, n.mapOf = d.mapOf, n.issue = d.issue, IssuesTrack(d)
    PROVE  IssuesTrack(n)
BY DEF IssuesTrack

LEMMA RecordsHashed ==
    ASSUME NEW d \in AcademicStates
    PROVE  HashFaithful(d) <=> \A r \in Records : d.record[r] # None =>
                d.recordHash[r] # None /\ d.recordHash[r].time = d.record[r].time
<1>1. DOMAIN d.record = Records
  BY DEF AcademicStates
<1> QED BY <1>1 DEF HashFaithful, Present

LEMMA MergeStepTables ==
    ASSUME TypeInv, HashFaithful(tx), IssuesTrack(tx), MergeStep
    PROVE  HashFaithful(tx)' /\ IssuesTrack(tx)'
<1>1. tx \in AcademicStates /\ staging \in StagingStates
  BY DEF TypeInv, TypeOK
<1>2. /\ DOMAIN tx.mapOf = Pupils /\ DOMAIN tx.issue = Pupils
  BY <1>1 DEF AcademicStates
<1>3. ASSUME NEW p \in Pupils, tx.mapOf[p] = None, staging.students[p] \in Numbers,
             NEW i \in Students, tx' = Mapped(tx, p, i)
      PROVE  HashFaithful(tx)' /\ IssuesTrack(tx)'
  <2>1. i # None
    BY AttendanceAssumption
  <2>2. HashFaithful(tx')
    <3>1. tx'.record = tx.record /\ tx'.recordHash = tx.recordHash
      BY <1>1, <1>3, MappedParts
    <3> QED BY <3>1, SameHashes
  <2>3. /\ tx'.mapOf = [tx.mapOf EXCEPT ![p] = i]
        /\ tx'.issue = [tx.issue EXCEPT ![p] = IF tx.issue[p] = "OPEN" THEN "RESOLVED"
                                               ELSE tx.issue[p]]
    BY <1>1, <1>3, MappedParts
  <2>4. IssuesTrack(tx')
    BY <1>2, <1>3, <2>1, <2>3 DEF IssuesTrack
  <2> QED BY <2>2, <2>4 DEF HashFaithful, IssuesTrack, Present
<1>4. ASSUME NEW p \in Pupils, tx.mapOf[p] = None, tx' = [tx EXCEPT !.issue = Opened(@, p)]
      PROVE  HashFaithful(tx)' /\ IssuesTrack(tx)'
  <2>1. /\ tx'.record = tx.record /\ tx'.recordHash = tx.recordHash
        /\ tx'.mapOf = tx.mapOf /\ tx'.issue = [tx.issue EXCEPT ![p] = "OPEN"]
    BY <1>1, <1>4, SkippedParts
  <2>2. HashFaithful(tx')
    BY <2>1, SameHashes
  <2>3. IssuesTrack(tx')
    BY <1>2, <1>4, <2>1 DEF IssuesTrack
  <2> QED BY <2>2, <2>3 DEF HashFaithful, IssuesTrack, Present
<1>5. ASSUME NEW p \in Pupils, staging.students[p] \in Numbers, tx' = Rehashed(tx, p)
      PROVE  HashFaithful(tx)' /\ IssuesTrack(tx)'
  <2>1. HashFaithful(tx') /\ IssuesTrack(tx')
    BY <1>1, <1>5, RehashedParts, SameHashes, SameIssues
  <2> QED BY <2>1 DEF HashFaithful, IssuesTrack, Present
<1>6. CASE tx' = [tx EXCEPT !.session = MergedSessions(tx)]
  <2>1. HashFaithful(tx') /\ IssuesTrack(tx')
    BY <1>1, <1>6, SessionParts, SameHashes, SameIssues
  <2> QED BY <2>1 DEF HashFaithful, IssuesTrack, Present
<1>7. CASE tx' = MergedRecords(tx)
  <2>1. IssuesTrack(tx')
    BY <1>1, <1>7, RecordParts, SameIssues
  <2>2. ASSUME NEW r \in Records, tx'.record[r] # None
        PROVE  tx'.recordHash[r] # None /\ tx'.recordHash[r].time = tx'.record[r].time
    <3>1. CASE r \in NewRecords(tx)
      <4>1. staging.records[r] # None
        BY <1>1, <3>1, RecordSorts
      <4>2. /\ tx'.recordHash[r] = staging.records[r]
            /\ tx'.record[r] = [student |-> tx.mapOf[staging.records[r].pupil],
                                session |-> staging.records[r].session,
                                time |-> staging.records[r].time]
        BY <1>1, <1>7, <3>1, RecordParts
      <4> QED BY <4>1, <4>2
    <3>2. CASE r \in ChangedRecords(tx)
      <4>1. staging.records[r] # None /\ tx.record[r] # None
        BY <1>1, <3>2, RecordSorts
      <4>2. tx.record[r] \in [student : Students, session : Sessions, time : Times]
        BY <1>1, <4>1 DEF AcademicStates
      <4>3. /\ tx'.recordHash[r] = staging.records[r]
            /\ tx'.record[r] = [tx.record[r] EXCEPT !.time = staging.records[r].time]
        BY <1>1, <1>7, <3>2, RecordParts
      <4> QED BY <4>1, <4>2, <4>3
    <3>3. CASE r \notin NewRecords(tx) \cup ChangedRecords(tx)
      <4>1. tx'.record[r] = tx.record[r] /\ tx'.recordHash[r] = tx.recordHash[r]
        BY <1>1, <1>7, <3>3, RecordParts
      <4> QED BY <1>1, <2>2, <4>1, RecordsHashed
    <3> QED BY <3>1, <3>2, <3>3
  <2>3. tx' \in AcademicStates
    BY <1>1, <1>7, RecordParts
  <2>4. HashFaithful(tx')
    BY <2>2, <2>3, RecordsHashed
  <2> QED BY <2>1, <2>4 DEF HashFaithful, IssuesTrack, Present
<1> QED BY <1>3, <1>4, <1>5, <1>6, <1>7 DEF MergeStep

LEMMA NextTables == TypeInv /\ TablesInv /\ [Next]_vars => TablesInv'
<1> SUFFICES ASSUME TypeInv, TablesInv, [Next]_vars PROVE TablesInv'
  OBVIOUS
<1>1. CASE academic' = academic /\ tx' \in {tx, academic}
  BY <1>1 DEF TablesInv, HashFaithful, IssuesTrack, Present
<1>2. CASE academic' = tx /\ tx' = tx
  BY <1>2 DEF TablesInv, HashFaithful, IssuesTrack, Present
<1>3. CASE academic' = academic /\ MergeStep
  BY <1>3, MergeStepTables DEF TablesInv, HashFaithful, IssuesTrack, Present
<1> QED BY <1>1, <1>2, <1>3, TxSteps

LEMMA AlwaysTables == Spec => []TablesInv
<1>1. Init => TablesInv
  BY DEF Init, EmptyAcademic, NoIssues, TablesInv, HashFaithful, IssuesTrack, Present
<1> QED BY <1>1, NextTables, AlwaysTyped, PTL DEF Spec

\* An issue is open while its student has no mapping and resolved only with one,
\* in every order of the rows, the runs and the commits of the Moodle
\* synchronisation: what is resolved cannot be reopened.
THEOREM IssuesFollowMappings == Spec => []IssuesTrackMappings
<1>1. TablesInv => IssuesTrackMappings
  BY DEF TablesInv, IssuesTrack, IssuesTrackMappings
<1> QED BY <1>1, AlwaysTables, PTL

-------------------------------------------------------------------------------
(* Nothing that was merged goes away *)

LEMMA ExtendsReflexive == \A d : Extends(d, d)
BY DEF Extends, Present

LEMMA ExtendsTransitive ==
    ASSUME NEW a \in AcademicStates, NEW b \in AcademicStates, NEW c \in AcademicStates,
           Extends(b, a), Extends(c, b)
    PROVE  Extends(c, a)
<1>1. \A d \in {a, b, c} :
        /\ DOMAIN d.mapOf = Pupils /\ DOMAIN d.session = Sessions
        /\ DOMAIN d.record = Records /\ d.issue \in [Pupils -> IssueStates]
  BY DEF AcademicStates
<1>2. \A p \in Present(a.mapOf) : p \in Present(b.mapOf) /\ b.mapOf[p] = a.mapOf[p]
  BY <1>1 DEF Extends, Present
<1>3. \A y \in Present(a.session) : y \in Present(b.session)
  BY <1>1 DEF Extends, Present
<1>4. \A r \in Present(a.record) :
        /\ r \in Present(b.record) /\ b.record[r].student = a.record[r].student
        /\ b.record[r].session = a.record[r].session
  BY <1>1 DEF Extends, Present
<1>5. \A p \in Pupils : /\ a.issue[p] = "OPEN" => b.issue[p] \in {"OPEN", "RESOLVED"}
                        /\ a.issue[p] = "RESOLVED" => b.issue[p] = "RESOLVED"
  BY <1>1 DEF Extends, IssueStates
<1> QED BY <1>2, <1>3, <1>4, <1>5 DEF Extends

LEMMA MergeStepExtends ==
    ASSUME TypeInv, IssuesTrack(tx), MergeStep
    PROVE  Extends(tx', tx)
<1>1. /\ tx \in AcademicStates /\ staging \in StagingStates
      /\ DOMAIN tx.mapOf = Pupils /\ DOMAIN tx.session = Sessions
      /\ DOMAIN tx.record = Records /\ DOMAIN tx.issue = Pupils
  BY DEF TypeInv, TypeOK, AcademicStates
<1>2. ASSUME NEW p \in Pupils, tx.mapOf[p] = None, staging.students[p] \in Numbers,
             NEW i \in Students, tx' = Mapped(tx, p, i)
      PROVE  Extends(tx', tx)
  <2>1. /\ tx'.mapOf = [tx.mapOf EXCEPT ![p] = i]
        /\ tx'.issue = [tx.issue EXCEPT ![p] = IF tx.issue[p] = "OPEN" THEN "RESOLVED"
                                               ELSE tx.issue[p]]
        /\ tx'.session = tx.session /\ tx'.record = tx.record
    BY <1>1, <1>2, MappedParts
  <2> QED BY <1>1, <1>2, <2>1 DEF Extends, Present
<1>3. ASSUME NEW p \in Pupils, tx.mapOf[p] = None, tx' = [tx EXCEPT !.issue = Opened(@, p)]
      PROVE  Extends(tx', tx)
  <2>1. /\ tx'.mapOf = tx.mapOf /\ tx'.issue = [tx.issue EXCEPT ![p] = "OPEN"]
        /\ tx'.session = tx.session /\ tx'.record = tx.record
    BY <1>1, <1>3, SkippedParts
  <2>2. tx.issue[p] # "RESOLVED"
    BY <1>3 DEF IssuesTrack
  <2> QED BY <1>1, <2>1, <2>2 DEF Extends, Present
<1>4. ASSUME NEW p \in Pupils, staging.students[p] \in Numbers, tx' = Rehashed(tx, p)
      PROVE  Extends(tx', tx)
  <2>1. /\ tx'.mapOf = tx.mapOf /\ tx'.issue = tx.issue
        /\ tx'.session = tx.session /\ tx'.record = tx.record
    BY <1>1, <1>4, RehashedParts
  <2> QED BY <2>1 DEF Extends, Present
<1>5. CASE tx' = [tx EXCEPT !.session = MergedSessions(tx)]
  <2>1. /\ tx'.mapOf = tx.mapOf /\ tx'.issue = tx.issue /\ tx'.record = tx.record
        /\ \A y \in Sessions : tx'.session[y] = IF staging.sessions[y] = None
                                            THEN tx.session[y] ELSE staging.sessions[y]
    BY <1>1, <1>5, SessionParts
  <2> QED BY <1>1, <2>1 DEF Extends, Present
<1>6. CASE tx' = MergedRecords(tx)
  <2>1. tx'.mapOf = tx.mapOf /\ tx'.issue = tx.issue /\ tx'.session = tx.session
    BY <1>1, <1>6, RecordParts
  <2>2. ASSUME NEW r \in Records, tx.record[r] # None
        PROVE  /\ tx'.record[r] # None
               /\ tx'.record[r].student = tx.record[r].student
               /\ tx'.record[r].session = tx.record[r].session
    <3>1. r \notin NewRecords(tx)
      BY <1>1, <2>2, RecordSorts
    <3>2. CASE r \in ChangedRecords(tx)
      <4>1. tx.record[r] \in [student : Students, session : Sessions, time : Times]
            /\ staging.records[r] \in RecordContents
        BY <1>1, <2>2, <3>2, RecordSorts DEF AcademicStates
      <4>2. tx'.record[r] = [tx.record[r] EXCEPT !.time = staging.records[r].time]
        BY <1>1, <1>6, <3>2, RecordParts
      <4>3. tx'.record[r] \in [student : Students, session : Sessions, time : Times]
        BY <4>1, <4>2 DEF RecordContents
      <4> QED BY <4>1, <4>2, <4>3, AttendanceAssumption
    <3>3. CASE r \notin ChangedRecords(tx)
      <4>1. tx'.record[r] = tx.record[r]
        BY <1>1, <1>6, <3>1, <3>3, RecordParts
      <4> QED BY <2>2, <4>1
    <3> QED BY <3>2, <3>3
  <2> QED BY <1>1, <2>1, <2>2 DEF Extends, Present
<1> QED BY <1>2, <1>3, <1>4, <1>5, <1>6 DEF MergeStep

LEMMA NextExtends ==
    TypeInv /\ TypeInv' /\ TablesInv /\ TxExtends /\ [Next]_vars
    => TxExtends' /\ Extends(academic', academic)
<1> SUFFICES ASSUME TypeInv, TypeInv', TablesInv, TxExtends, [Next]_vars
             PROVE  Extends(tx', academic') /\ Extends(academic', academic)
  BY DEF TxExtends, Extends, Present
<1>1. CASE academic' = academic /\ tx' \in {tx, academic}
  BY <1>1, ExtendsReflexive DEF TxExtends
<1>2. CASE academic' = tx /\ tx' = tx
  BY <1>2, ExtendsReflexive DEF TxExtends
<1>3. CASE academic' = academic /\ MergeStep
  <2>1. Extends(tx', tx)
    BY <1>3, MergeStepExtends DEF TablesInv
  <2>2. tx \in AcademicStates /\ tx' \in AcademicStates /\ academic \in AcademicStates
    BY DEF TypeInv, TypeOK
  <2> QED BY <1>3, <2>1, <2>2, ExtendsReflexive, ExtendsTransitive DEF TxExtends
<1> QED BY <1>1, <1>2, <1>3, TxSteps

\* Whatever disappears from or changes in either source, and whatever fails, no
\* mapping is repointed, no record moved or deleted, and no issue reopened.
THEOREM HistoryIsKept == Spec => HistoryKept
<1>1. Init => TxExtends
  BY ExtendsReflexive DEF Init, TxExtends
<1>2. Extends(academic', academic) =>
        /\ \A p \in Present(academic.mapOf) : academic'.mapOf[p] = academic.mapOf[p]
        /\ \A y \in Present(academic.session) : academic'.session[y] # None
        /\ \A r \in Present(academic.record) :
            /\ academic'.record[r] # None
            /\ academic'.record[r].student = academic.record[r].student
            /\ academic'.record[r].session = academic.record[r].session
        /\ \A p \in Pupils :
            /\ academic.issue[p] = "OPEN" => academic'.issue[p] # "NONE"
            /\ academic.issue[p] = "RESOLVED" => academic'.issue[p] = "RESOLVED"
  BY DEF Extends
<1> QED BY <1>1, <1>2, NextExtends, AlwaysTyped, AlwaysTables, PTL DEF Spec, HistoryKept

-------------------------------------------------------------------------------
(* What a batch becomes *)

\* Steps that end the merge, or keep the run outside it, write no table.
LEMMA QuietBatch ==
    ASSUME TypeInv, BatchInv, UNCHANGED <<academic, watermark, staging, run>>,
           \/ pc' \in {"idle", "failing"}
           \/ pc \notin {"idle", "failing"} /\ pc' \in {"extract", "raw", "stage"}
    PROVE  BatchInv'
BY DEF BatchInv, NothingLost, Reflects, Present

LEMMA StudentDoneBatch ==
    ASSUME TypeInv, BatchInv, pc = "students", NEW p \in todo, NEW d \in AcademicStates,
           NEW a, NEW b, NEW s, NEW k, StudentDone(p, d, a, b, s, k),
           \A q \in Pupils \ {p} : d.mapOf[q] = tx.mapOf[q] /\ d.issue[q] = tx.issue[q],
           d.mapOf[p] = None => d.issue[p] = "OPEN"
    PROVE  BatchInv'
<1>1. /\ tx' = d /\ todo' = todo \ {p} /\ UNCHANGED <<academic, watermark, staging, run, pc>>
  BY DEF StudentDone, tables
<1>2. Present(staging.students) \subseteq Pupils
  BY DEF TypeInv, TypeOK, StagingStates, Present
<1>3. Accounted(tx, Present(staging.students) \ todo)'
  BY <1>1, <1>2 DEF BatchInv, Accounted, Present
<1> QED BY <1>1, <1>3 DEF BatchInv, NothingLost, Reflects, Present

LEMMA ReconcileBatch ==
    ASSUME TypeInv, BatchInv, NEW p \in Pupils, ReconcileStudent(p)
    PROVE  BatchInv'
<1>1. tx \in AcademicStates /\ DOMAIN tx.mapOf = Pupils /\ DOMAIN tx.issue = Pupils
  BY DEF TypeInv, TypeOK, AcademicStates
<1>2. CASE LookupStudent(p)
  BY <1>2 DEF LookupStudent, tables, BatchInv, Accounted, NothingLost, Reflects, Present
<1>3. CASE MapStudent(p)
  <2>1. found \in Lookups /\ found.student \in Students /\ p \in todo /\ pc = "students"
    BY <1>3 DEF MapStudent, TypeInv, TypeOK, Lookups
  <2>2. PICK i \in Students : i = found.student
    BY <2>1
  <2>3. /\ Mapped(tx, p, i) \in AcademicStates
        /\ Mapped(tx, p, i).mapOf = [tx.mapOf EXCEPT ![p] = i]
        /\ Mapped(tx, p, i).issue = [tx.issue EXCEPT ![p] =
             IF tx.issue[p] = "OPEN" THEN "RESOLVED" ELSE tx.issue[p]]
    BY <1>1, <2>1, StagedNumber, MappedParts
  <2>4. StudentDone(p, Mapped(tx, p, i), {p}, {}, {}, {})
    BY <1>3, <2>2 DEF MapStudent
  <2>5. i # None
    BY AttendanceAssumption
  <2>6. /\ \A q \in Pupils \ {p} : /\ Mapped(tx, p, i).mapOf[q] = tx.mapOf[q]
                                   /\ Mapped(tx, p, i).issue[q] = tx.issue[q]
        /\ Mapped(tx, p, i).mapOf[p] # None
    BY <1>1, <2>3, <2>5
  <2> QED BY <2>1, <2>3, <2>4, <2>6, StudentDoneBatch
<1>4. CASE SkipStudent(p)
  <2> DEFINE n == [tx EXCEPT !.issue = Opened(@, p)]
  <2>1. /\ n \in AcademicStates /\ n.mapOf = tx.mapOf
        /\ n.issue = [tx.issue EXCEPT ![p] = "OPEN"]
    BY <1>1, SkippedParts
  <2>2. p \in todo /\ pc = "students" /\ StudentDone(p, n, {}, {}, {}, {p})
    BY <1>4 DEF SkipStudent
  <2> HIDE DEF n
  <2>3. /\ \A q \in Pupils \ {p} : n.mapOf[q] = tx.mapOf[q] /\ n.issue[q] = tx.issue[q]
        /\ n.issue[p] = "OPEN"
    BY <1>1, <2>1
  <2> QED BY <2>1, <2>2, <2>3, StudentDoneBatch
<1>5. CASE KeepStudent(p)
  <2>1. p \in todo /\ pc = "students" /\ tx.mapOf[p] # None
    BY <1>5 DEF KeepStudent
  <2>2. CASE StudentDone(p, tx, {}, {}, {p}, {})
    BY <1>1, <2>1, <2>2, StudentDoneBatch
  <2>3. CASE StudentDone(p, Rehashed(tx, p), {}, {p}, {}, {})
    <3>1. /\ Rehashed(tx, p) \in AcademicStates
          /\ Rehashed(tx, p).mapOf = tx.mapOf /\ Rehashed(tx, p).issue = tx.issue
      BY <1>1, <2>1, StagedNumber, RehashedParts
    <3> QED BY <2>1, <2>3, <3>1, StudentDoneBatch
  <2> QED BY <1>5, <2>2, <2>3 DEF KeepStudent
<1> QED BY <1>2, <1>3, <1>4, <1>5 DEF ReconcileStudent

\* Once the records are merged the transaction says what the batch says.
LEMMA MergedRecordsReflect ==
    ASSUME TypeInv, HashFaithful(tx), Accounted(tx, Present(staging.students)),
           SessionsMerged(tx, staging)
    PROVE  Reflects(MergedRecords(tx), staging)
<1> DEFINE n == MergedRecords(tx)
<1>1. tx \in AcademicStates /\ staging \in StagingStates
  BY DEF TypeInv, TypeOK
<1>2. n.mapOf = tx.mapOf /\ n.issue = tx.issue /\ n.session = tx.session
  BY <1>1, RecordParts
<1>3. ASSUME NEW r \in Present(staging.records), n.mapOf[staging.records[r].pupil] # None
      PROVE  n.record[r] # None /\ n.record[r].time = staging.records[r].time
  <2>1. /\ r \in Records /\ staging.records[r] # None
        /\ staging.records[r] \in RecordContents
        /\ tx.mapOf[staging.records[r].pupil] \in Students
    <3>1. r \in Records /\ staging.records[r] # None
      BY <1>1 DEF Present, StagingStates
    <3> QED BY <1>1, <1>2, <1>3, <3>1, RecordSorts
  <2>2. CASE r \in NewRecords(tx)
    <3>1. n.record[r] = [student |-> tx.mapOf[staging.records[r].pupil],
                         session |-> staging.records[r].session,
                         time |-> staging.records[r].time]
      BY <1>1, <2>2, RecordParts
    <3>2. n.record[r] \in [student : Students, session : Sessions, time : Times]
      BY <2>1, <3>1 DEF RecordContents
    <3> QED BY <3>1, <3>2, AttendanceAssumption
  <2>3. CASE r \in ChangedRecords(tx)
    <3>1. tx.record[r] \in [student : Students, session : Sessions, time : Times]
      BY <1>1, <2>1, <2>3, RecordSorts DEF AcademicStates
    <3>2. n.record[r] = [tx.record[r] EXCEPT !.time = staging.records[r].time]
      BY <1>1, <2>3, RecordParts
    <3>3. n.record[r] \in [student : Students, session : Sessions, time : Times]
      BY <2>1, <3>1, <3>2 DEF RecordContents
    <3> QED BY <3>1, <3>2, <3>3, AttendanceAssumption
  <2>4. CASE r \notin NewRecords(tx) \cup ChangedRecords(tx)
    <3>1. n.record[r] = tx.record[r]
      BY <1>1, <2>1, <2>4, RecordParts
    <3>2. tx.mapOf[staging.records[r].pupil] # None
      BY <1>2, <1>3
    <3>3. tx.record[r] # None /\ tx.recordHash[r] = staging.records[r]
      BY <1>1, <2>1, <2>4, <3>2, RecordSorts
    <3>4. tx.recordHash[r].time = tx.record[r].time
      BY <1>1, <2>1, <3>3, RecordsHashed
    <3> QED BY <3>1, <3>3, <3>4
  <2> QED BY <2>2, <2>3, <2>4
<1> HIDE DEF n
<1>4. Reflects(n, staging)
  BY <1>2, <1>3 DEF Reflects, Accounted, SessionsMerged
<1> QED BY <1>4 DEF n

LEMMA NextBatch == TypeInv /\ TablesInv /\ BatchInv /\ [Next]_vars => BatchInv'
<1> SUFFICES ASSUME TypeInv, TablesInv, BatchInv, [Next]_vars PROVE BatchInv'
  OBVIOUS
<1>0. /\ run \in Nat /\ watermark \in Nat /\ run \in Int /\ watermark \in Int
      /\ tx \in AcademicStates /\ staging \in StagingStates
  BY AttendanceAssumption DEF TypeInv, TypeOK
<1>1. CASE StartSyncRun
  BY <1>0, <1>1 DEF StartSyncRun, BatchInv, NothingLost, Reflects, Present
<1>2. CASE Extract \/ WriteRawBatch \/ RecordConflict \/ Fault \/ Crash \/ MarkSyncRunFailed
  <2>1. UNCHANGED <<academic, watermark, staging, run>>
    BY <1>2 DEF Extract, WriteRawBatch, RecordConflict, Fault, Crash, MarkSyncRunFailed,
                MovesTo, Raise, EndOfProcess, tables
  <2>2. \/ pc' \in {"idle", "failing"}
        \/ pc \notin {"idle", "failing"} /\ pc' \in {"extract", "raw", "stage"}
    BY <1>2 DEF Extract, WriteRawBatch, RecordConflict, Fault, Crash, MarkSyncRunFailed,
                MovesTo, Raise, EndOfProcess
  <2> QED BY <2>1, <2>2, QuietBatch
<1>3. CASE WriteStagingBatch
  <2>1. /\ staging'.batch = run /\ pc = "stage" /\ pc' = "validate"
        /\ UNCHANGED <<academic, watermark, run>>
    BY <1>3 DEF WriteStagingBatch, MovesTo, Staged
  <2> QED BY <1>0, <2>1 DEF BatchInv, NothingLost
<1>4. CASE ValidateStagedBatch
  <2>1. UNCHANGED <<academic, watermark, staging, run>> /\ pc = "validate"
    BY <1>4 DEF ValidateStagedBatch, tables, Raise
  <2>2. CASE Raise
    BY <2>1, <2>2, QuietBatch DEF Raise
  <2>3. CASE ~Raise
    <3>1. /\ ~ValidationIssues(staging) /\ pc' = "students"
          /\ todo' = Present(staging.students) /\ tx' = academic
      BY <1>4, <2>3 DEF ValidateStagedBatch
    <3>2. Validated(staging)
      BY <3>1 DEF ValidationIssues, Validated
    <3>3. Validated(staging)' /\ Accounted(tx, Present(staging.students) \ todo)'
      BY <2>1, <3>1, <3>2 DEF Accounted, Present, Validated, DuplicateAccounts,
                              DanglingReferences, DuplicatePairs
    <3> QED BY <2>1, <3>1, <3>3 DEF BatchInv, NothingLost, Reflects, Present
  <2> QED BY <2>2, <2>3
<1>5. ASSUME NEW p \in Pupils, ReconcileStudent(p) PROVE BatchInv'
  BY <1>5, ReconcileBatch
<1>6. CASE MergeSessions
  <2>1. /\ UNCHANGED <<academic, watermark, staging, run>> /\ pc = "students" /\ todo = {}
        /\ pc' = "records" /\ tx' = [tx EXCEPT !.session = MergedSessions(tx)]
    BY <1>6 DEF MergeSessions, tables
  <2>2. /\ tx'.mapOf = tx.mapOf /\ tx'.issue = tx.issue
        /\ \A y \in Sessions : tx'.session[y] = IF staging.sessions[y] = None
                                            THEN tx.session[y] ELSE staging.sessions[y]
    BY <1>0, <2>1, SessionParts
  <2>3. \A y \in Present(staging.sessions) : y \in Sessions /\ staging.sessions[y] # None
    BY <1>0 DEF StagingStates, Present
  <2>4. Accounted(tx, Present(staging.students))' /\ SessionsMerged(tx, staging)'
    BY <2>1, <2>2, <2>3 DEF BatchInv, Accounted, SessionsMerged, Present
  <2> QED BY <2>1, <2>4 DEF BatchInv, NothingLost, Reflects, Present, Validated,
              DuplicateAccounts, DanglingReferences, DuplicatePairs
<1>7. CASE MergeRecords
  <2>1. /\ UNCHANGED <<academic, watermark, staging, run>> /\ pc = "records"
        /\ pc' = "commit" /\ tx' = MergedRecords(tx)
    BY <1>7 DEF MergeRecords, tables
  <2>2. Reflects(tx', staging)
    BY <2>1, MergedRecordsReflect DEF BatchInv, TablesInv
  <2> QED BY <2>1, <2>2 DEF BatchInv, NothingLost, Reflects, Present, Validated,
              DuplicateAccounts, DanglingReferences, DuplicatePairs
<1>8. CASE Commit
  <2>1. /\ pc = "commit" /\ academic' = tx /\ watermark' = run
        /\ UNCHANGED <<staging, run>> /\ pc' \in {"idle", "failing"}
    BY <1>8 DEF Commit, Raise, EndOfProcess
  <2>2. Reflects(academic', staging')
    BY <2>1 DEF BatchInv, Reflects, Present
  <2> QED BY <1>0, <2>1, <2>2 DEF BatchInv, NothingLost, Reflects, Present
<1>9. CASE MoodleCommits \/ UNCHANGED vars
  <2>1. UNCHANGED <<academic, watermark, staging, run, pc, tx, todo>>
    BY <1>9 DEF MoodleCommits, vars, tables, worker
  <2> QED BY <2>1 DEF BatchInv, NothingLost, Reflects, Present, Validated, Accounted,
              SessionsMerged, DuplicateAccounts, DanglingReferences, DuplicatePairs
<1> QED BY <1>1, <1>2, <1>3, <1>4, <1>5, <1>6, <1>7, <1>8, <1>9 DEF Next

LEMMA AlwaysBatch == Spec => []BatchInv
<1>1. Init => BatchInv
  BY DEF Init, BatchInv, NothingLost
<1> QED BY <1>1, NextBatch, AlwaysTyped, AlwaysTables, PTL DEF Spec

\* While staging still holds the batch the watermark names, every student, session
\* and attendance of it is merged, or is one whose student has an open issue:
\* after any faults, crashes, lost acknowledgements and commits in between.
THEOREM NothingIsLost == Spec => []NothingLost
<1>1. BatchInv => NothingLost
  BY DEF BatchInv
<1> QED BY <1>1, AlwaysBatch, PTL

-------------------------------------------------------------------------------
(* When a validated batch is refused *)

\* While its source stands still every record of the merge, old or new, is of the
\* student and session staging gives it.
LEMMA UnmovedRecord ==
    ASSUME TypeInv, SourceUnmoved(tx, staging), NEW r \in Records,
           MergedRecords(tx).record[r] # None
    PROVE  /\ staging.records[r] # None
           /\ MergedRecords(tx).record[r].student = tx.mapOf[staging.records[r].pupil]
           /\ MergedRecords(tx).record[r].session = staging.records[r].session
           /\ tx.mapOf[staging.records[r].pupil] \in Students
<1> DEFINE Row == [student : Students, session : Sessions, time : Times]
<1>1. /\ tx \in AcademicStates /\ staging \in StagingStates
      /\ tx.record \in [Records -> Row \cup {None}]
  BY DEF TypeInv, TypeOK, AcademicStates
<1>2. CASE r \in NewRecords(tx)
  <2>1. /\ staging.records[r] # None /\ tx.mapOf[staging.records[r].pupil] \in Students
    BY <1>1, <1>2, RecordSorts
  <2>2. MergedRecords(tx).record[r] =
            [student |-> tx.mapOf[staging.records[r].pupil],
             session |-> staging.records[r].session, time |-> staging.records[r].time]
    BY <1>1, <1>2, RecordParts
  <2> QED BY <2>1, <2>2
<1>3. ASSUME tx.record[r] # None
      PROVE  /\ staging.records[r] # None
             /\ tx.record[r].student = tx.mapOf[staging.records[r].pupil]
             /\ tx.record[r].session = staging.records[r].session
             /\ tx.record[r] \in Row
  <2>1. r \in Present(tx.record)
    BY <1>1, <1>3 DEF Present
  <2> QED BY <1>1, <1>3, <2>1 DEF SourceUnmoved
<1>4. CASE r \in ChangedRecords(tx)
  <2>1. /\ tx.record[r] # None /\ staging.records[r] \in RecordContents
    BY <1>1, <1>4, RecordSorts
  <2>2. MergedRecords(tx).record[r] = [tx.record[r] EXCEPT !.time = staging.records[r].time]
    BY <1>1, <1>4, RecordParts
  <2>3. tx.record[r] \in Row
    BY <1>3, <2>1
  <2> QED BY <1>3, <2>1, <2>2, <2>3
<1>5. CASE r \notin NewRecords(tx) \cup ChangedRecords(tx)
  <2>1. MergedRecords(tx).record[r] = tx.record[r]
    BY <1>1, <1>5, RecordParts
  <2>2. tx.record[r] # None
    BY <2>1
  <2> QED BY <1>3, <2>1, <2>2
<1> QED BY <1>2, <1>4, <1>5

LEMMA UnmovedIsMerged ==
    ASSUME TypeInv, Validated(staging), Refused(tx), SourceUnmoved(tx, staging)
    PROVE  FALSE
<1>1. /\ tx \in AcademicStates /\ staging \in StagingStates
      /\ DOMAIN tx.mapOf = Pupils /\ DOMAIN staging.records = Records
  BY DEF TypeInv, TypeOK, AcademicStates, StagingStates
<1>2. \A r \in Present(staging.records) :
        /\ staging.records[r].pupil \in Present(staging.students)
        /\ staging.records[r].session \in Present(staging.sessions)
  BY DEF Validated, DanglingReferences
<1>3. PairTaken(MergedRecords(tx))
  BY <1>2 DEF Refused
<1>4. PICK q \in Records, r \in Records :
        /\ q # r
        /\ MergedRecords(tx).record[q] # None /\ MergedRecords(tx).record[r] # None
        /\ MergedRecords(tx).record[q].student = MergedRecords(tx).record[r].student
        /\ MergedRecords(tx).record[q].session = MergedRecords(tx).record[r].session
  BY <1>3 DEF PairTaken
<1> DEFINE a == staging.records[q].pupil
           b == staging.records[r].pupil
<1>5. /\ q \in Present(staging.records) /\ r \in Present(staging.records)
      /\ staging.records[q].session = staging.records[r].session
      /\ tx.mapOf[a] = tx.mapOf[b] /\ tx.mapOf[a] \in Students
  BY <1>1, <1>4, UnmovedRecord DEF Present
<1>6. a \in Present(staging.students) /\ b \in Present(staging.students)
  BY <1>2, <1>5
<1>7. a \in Pupils /\ b \in Pupils
  BY <1>6 DEF TypeInv, TypeOK, StagingStates, Present
<1>8. a \in Present(tx.mapOf) /\ b \in Present(tx.mapOf)
  BY <1>1, <1>5, <1>7, AttendanceAssumption DEF Present
<1>9. staging.students[a] = staging.students[b]
  BY <1>5, <1>8 DEF SourceUnmoved
<1>10. a = b
  BY <1>6, <1>9 DEF Validated, DuplicateAccounts
<1> QED BY <1>4, <1>5, <1>10 DEF Validated, DuplicatePairs

\* A batch that passed validation is refused only if a row already merged was
\* deleted, moved or renumbered at its source: new attendances, new students and
\* new times never make the merge fail.
THEOREM RefusalsHaveACause == Spec => []RefusalNeedsReplacement
<1>1. TypeInv /\ BatchInv => RefusalNeedsReplacement
  BY UnmovedIsMerged DEF BatchInv, RefusalNeedsReplacement
<1> QED BY <1>1, AlwaysTyped, AlwaysBatch, PTL

-------------------------------------------------------------------------------
(* The promise of SyncLedger *)

statuses == [r \in RunIds |-> runs[r].status]

\* The columns of sync_runs that SyncLedger sees, after one row is written.
LEMMA StatusSet ==
    ASSUME TypeInv, NEW r \in RunIds, NEW s \in RunStates,
           runs' = [runs EXCEPT ![r] = s]
    PROVE  statuses' = [statuses EXCEPT ![r] = s.status]
BY DEF TypeInv, TypeOK, statuses

\* Steps of a running process that write no run and no watermark.
LEMMA QuietLedger ==
    ASSUME LedgerInv, UNCHANGED <<runs, watermark, run>>, pc # "idle",
           pc = "failing" => pc' = "idle"
    PROVE  LedgerInv'
BY DEF LedgerInv

LEMMA StartLedger ==
    ASSUME TypeInv, LedgerInv, StartSyncRun
    PROVE  LedgerInv' /\ \E r \in RunIds : Ledger!Begin(r)
<1>1. run \in 0..MaxRuns /\ MaxRuns \in Nat /\ run < MaxRuns /\ run + 1 \in RunIds
  BY AttendanceAssumption DEF StartSyncRun, TypeInv, TypeOK, RunIds
<1> DEFINE s == [NoRun EXCEPT !.status = "RUNNING"]
<1>2. s \in RunStates /\ s.status = "RUNNING"
  BY DEF NoRun, NoCounters, RunStates, CounterStates
<1>3. /\ runs' = [runs EXCEPT ![run + 1] = s] /\ run' = run + 1
      /\ pc' = "extract" /\ UNCHANGED <<academic, watermark>>
  BY DEF StartSyncRun
<1>4. statuses' = [statuses EXCEPT ![run + 1] = "RUNNING"]
  BY <1>1, <1>2, <1>3, StatusSet
<1>5. \A r \in RunIds : r > run <=> statuses[r] = "NONE"
  BY DEF LedgerInv, statuses
<1>6. \A r \in RunIds : r \in Nat
  BY DEF RunIds
<1>7. \A r \in RunIds : statuses'[r] = IF r = run + 1 THEN "RUNNING" ELSE statuses[r]
  BY <1>4 DEF statuses
<1>8. \A r \in RunIds : r > run + 1 <=> statuses'[r] = "NONE"
  BY <1>1, <1>5, <1>6, <1>7
<1>9. LedgerInv'
  BY <1>1, <1>3, <1>7, <1>8 DEF LedgerInv, statuses
<1>10. PICK r \in RunIds : r = run + 1
  BY <1>1
<1>11. Ledger!Begin(r)
  BY <1>1, <1>3, <1>4, <1>5, <1>6, <1>10
     DEF Ledger!Begin, Ledger!RunIds, statuses, RunIds
<1> QED BY <1>9, <1>11

\* The newest run may act: no later run has been started.
LEMMA NewestIsLatest ==
    ASSUME TypeInv, LedgerInv, pc # "idle"
    PROVE  \A r \in RunIds : r = run => Ledger!Latest(r)
<1>1. run \in RunIds /\ \A r \in RunIds : r \in Nat
  BY DEF TypeInv, RunIds
<1>2. \A r \in RunIds : r > run <=> statuses[r] = "NONE"
  BY DEF LedgerInv, statuses
<1> QED BY <1>1, <1>2 DEF Ledger!Latest, Ledger!RunIds, RunIds, statuses

LEMMA CommitLedger ==
    ASSUME TypeInv, LedgerInv, Commit
    PROVE  LedgerInv' /\ \E r \in RunIds : Ledger!Merge(r)
<1> DEFINE s == [status |-> "SUCCESS", read |-> RowsRead(extraction), merged |-> counters]
<1>1. s \in RunStates
  BY RowsReadType DEF TypeInv, TypeOK, RunStates
<1>2. /\ pc = "commit" /\ runs' = [runs EXCEPT ![run] = s]
      /\ watermark' = run /\ academic' = tx /\ run' = run
      /\ pc' \in {"idle", "failing"}
  BY DEF Commit, Raise, EndOfProcess
<1>3. run \in RunIds
  BY <1>2 DEF TypeInv
<1>4. statuses' = [statuses EXCEPT ![run] = "SUCCESS"]
  BY <1>1, <1>2, <1>3, StatusSet
<1>5. statuses[run] = "RUNNING"
  BY <1>2, <1>3 DEF LedgerInv, statuses
<1>6. \A r \in RunIds : r > run <=> statuses[r] = "NONE"
  BY DEF LedgerInv, statuses
<1>7. /\ \A r \in RunIds : r > run <=> statuses'[r] = "NONE"
      /\ statuses'[run] = "SUCCESS"
  BY <1>3, <1>4, <1>5, <1>6 DEF statuses
<1>8. LedgerInv'
  BY <1>2, <1>3, <1>7 DEF LedgerInv, statuses
<1>9. PICK r \in RunIds : r = run
  BY <1>3
<1>10. Ledger!Latest(r)
  BY <1>2, <1>9, NewestIsLatest
<1>11. Ledger!Merge(r)
  BY <1>2, <1>3, <1>4, <1>5, <1>9, <1>10 DEF Ledger!Merge, statuses, TypeInv, TypeOK
<1> QED BY <1>8, <1>11

LEMMA FailedLedger ==
    ASSUME TypeInv, LedgerInv, MarkSyncRunFailed
    PROVE  LedgerInv' /\ \E r \in RunIds : Ledger!Fail(r) \/ Ledger!Disown(r)
<1> DEFINE s == [runs[run] EXCEPT !.status = "FAILED", !.read = RowsRead(extraction)]
<1>1. pc = "failing" /\ run \in RunIds
  BY DEF MarkSyncRunFailed, TypeInv
<1>2. runs[run] \in RunStates /\ RowsRead(extraction) \in Nat
  BY <1>1, RowsReadType DEF TypeInv, TypeOK
<1>3. s \in RunStates /\ s.status = "FAILED"
  BY <1>2 DEF RunStates
<1>4. runs' = [runs EXCEPT ![run] = s]
  BY <1>1, <1>2 DEF MarkSyncRunFailed, TypeInv, TypeOK, RunStates
<1>5. pc' = "idle" /\ UNCHANGED <<academic, watermark, run>>
  BY DEF MarkSyncRunFailed, EndOfProcess
<1>6. statuses' = [statuses EXCEPT ![run] = "FAILED"]
  BY <1>1, <1>3, <1>4, StatusSet
<1>7. \/ statuses[run] = "RUNNING"
      \/ statuses[run] = "SUCCESS" /\ watermark = run
  BY <1>1 DEF LedgerInv, statuses
<1>8. \A r \in RunIds : r > run <=> statuses[r] = "NONE"
  BY DEF LedgerInv, statuses
<1>9. \A r \in RunIds : r > run <=> statuses'[r] = "NONE"
  BY <1>1, <1>6, <1>7, <1>8 DEF statuses
<1>10. LedgerInv'
  BY <1>5, <1>9 DEF LedgerInv, statuses
<1>11. PICK r \in RunIds : r = run
  BY <1>1
<1>12. Ledger!Latest(r)
  BY <1>1, <1>11, NewestIsLatest
<1>13. Ledger!Fail(r) \/ Ledger!Disown(r)
  BY <1>1, <1>5, <1>6, <1>7, <1>11, <1>12 DEF Ledger!Fail, Ledger!Disown, statuses
<1> QED BY <1>10, <1>13

\* Every step is a step of the promise or is not seen by it.
LEMMA NextLedger ==
    TypeInv /\ LedgerInv /\ [Next]_vars => LedgerInv' /\ [Ledger!Next]_(Ledger!vars)
<1> SUFFICES ASSUME TypeInv, LedgerInv, [Next]_vars
             PROVE  LedgerInv' /\ [Ledger!Next]_(Ledger!vars)
  OBVIOUS
<1>1. CASE StartSyncRun
  BY <1>1, StartLedger DEF Ledger!Next, Ledger!RunIds, RunIds
<1>2. CASE Commit \/ MarkSyncRunFailed
  BY <1>2, CommitLedger, FailedLedger DEF Ledger!Next, Ledger!RunIds, RunIds
<1>3. CASE Extract \/ WriteRawBatch \/ WriteStagingBatch \/ ValidateStagedBatch
           \/ MergeSessions \/ MergeRecords \/ RecordConflict \/ Fault \/ Crash
  <2>1. UNCHANGED <<academic, runs, watermark, run>>
    BY <1>3 DEF Extract, WriteRawBatch, WriteStagingBatch, ValidateStagedBatch,
                MergeSessions, MergeRecords, RecordConflict, Fault, Crash, MovesTo, Raise,
                EndOfProcess, tables
  <2>2. pc # "idle" /\ (pc = "failing" => pc' = "idle")
    BY <1>3 DEF Extract, WriteRawBatch, WriteStagingBatch, ValidateStagedBatch,
                MergeSessions, MergeRecords, RecordConflict, Fault, Crash, MovesTo, Raise,
                EndOfProcess
  <2> QED BY <2>1, <2>2, QuietLedger DEF Ledger!vars
<1>4. CASE \E p \in Pupils : ReconcileStudent(p)
  <2>1. UNCHANGED <<academic, runs, watermark, run, pc>>
    BY <1>4 DEF ReconcileStudent, LookupStudent, MapStudent, SkipStudent, KeepStudent,
                StudentDone, tables
  <2> QED BY <2>1 DEF LedgerInv, Ledger!vars
<1>5. CASE MoodleCommits \/ UNCHANGED vars
  <2>1. UNCHANGED <<academic, runs, watermark, run, pc>>
    BY <1>5 DEF MoodleCommits, vars, tables, worker
  <2> QED BY <2>1 DEF LedgerInv, Ledger!vars
<1> QED BY <1>1, <1>2, <1>3, <1>4, <1>5 DEF Next

\* The pipeline keeps the promise of SyncLedger: data, watermark and SUCCESS
\* become visible in one step, no other step changes the data or the watermark,
\* and a commit of the Moodle synchronisation is none of its steps.
THEOREM KeepsLedgerPromise == Spec => LedgerPromise
<1>1. Init => LedgerInv /\ Ledger!Init
  <2> SUFFICES ASSUME Init PROVE LedgerInv /\ Ledger!Init
    OBVIOUS
  <2>1. LedgerInv
    BY DEF Init, LedgerInv, NoRun, RunIds
  <2>2. Ledger!Init
    BY EmptyAcademicType DEF Init, Ledger!Init, Ledger!RunIds, RunIds, NoRun
  <2> QED BY <2>1, <2>2
<1> QED BY <1>1, NextLedger, AlwaysTyped, PTL DEF Spec, LedgerPromise, Ledger!Spec
===============================================================================
