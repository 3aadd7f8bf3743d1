--------------------------- MODULE MoodleSyncProofs ---------------------------
(***************************************************************************)
(* Theorems about MoodleSync, for every course, batch and number of runs:  *)
(* the tables, the batches, the promises; then the merge, which can        *)
(* resolve every reference, ends as a mirror of the batch and is refused   *)
(* only for account numbers somebody else held.                            *)
(***************************************************************************)
EXTENDS MoodleSync, FiniteSetTheorems, TLAPS

-------------------------------------------------------------------------------
(* The operators the steps are built from *)

\* What the merge does to one table row leaves a state of the academic tables.
LEMMA InsertedStudentType ==
    ASSUME NEW d \in AcademicStates, NEW u \in Users, NEW i \in StudentIds,
           NEW c \in Contents
    PROVE  InsertedStudent(d, u, i, c) \in AcademicStates
BY DEF AcademicStates, InsertedStudent

LEMMA UpdatedStudentType ==
    ASSUME NEW d \in AcademicStates, NEW u \in Users, NEW c \in Contents
    PROVE  UpdatedStudent(d, u, c) \in AcademicStates
BY DEF AcademicStates, UpdatedStudent

LEMMA MergedCourseType ==
    ASSUME NEW d \in AcademicStates, NEW c \in CourseContents
    PROVE  MergedCourse(d, c) \in AcademicStates
BY DEF AcademicStates, MergedCourse

LEMMA InsertedEnrollmentType ==
    ASSUME NEW d \in AcademicStates, NEW e \in Enrollments, NEW i \in StudentIds
    PROVE  InsertedEnrollment(d, e, i) \in AcademicStates
BY DEF AcademicStates, InsertedEnrollment

LEMMA EmptyAcademicType == EmptyAcademic \in AcademicStates
BY DEF AcademicStates, EmptyAcademic

\* A snapshot of Moodle gives a batch, a batch gives staging rows, and both can
\* be counted.
LEMMA ExtractedType ==
    ASSUME NEW m \in Snapshots
    PROVE  Extracted(m) \in Extractions
BY DomainAssumption DEF MoodleStates, Extracted, Extractions

LEMMA StagedType ==
    ASSUME NEW b \in 0..MaxRuns, NEW x \in Extractions
    PROVE  Staged(b, x) \in StagingStates
BY DomainAssumption DEF Staged, Extractions, StagingStates

LEMMA RowsReadType ==
    ASSUME NEW x \in Extractions
    PROVE  RowsRead(x) \in Nat
<1>1. IsFiniteSet(StudentsOf(x)) /\ IsFiniteSet(x.enrollments)
    BY DomainAssumption, FS_Subset DEF StudentsOf, Extractions
<1>2. Cardinality(StudentsOf(x)) \in Nat /\ Cardinality(x.enrollments) \in Nat
    BY <1>1, FS_CardinalityType
<1> QED
    BY <1>2 DEF RowsRead

-------------------------------------------------------------------------------
(* Types *)

\* TypeOK is not inductive alone: a running process has a run, and the rows the
\* merge has still to reach are rows of staging.
TypeInv ==
    /\ TypeOK
    /\ pc \notin {"idle", "gone"} => run \in RunIds
    /\ pc = "students" => todoStudents \subseteq StudentsOf(staging)
    /\ pc = "enrollments" => todoStudents = {}
    /\ Merging => todoEnrollments \subseteq staging.enrollments

LEMMA InitTyped == Init => TypeInv
<1> SUFFICES ASSUME Init PROVE TypeInv
    OBVIOUS
<1> USE DEF Init
<1>1. academic \in AcademicStates /\ tx \in AcademicStates
    BY EmptyAcademicType
<1>2. runs \in [RunIds -> RunStates] /\ counters \in CounterStates
    BY DEF NoRun, RunStates, NoCounters, CounterStates
<1>3. staging \in StagingStates /\ extraction \in Extractions
    BY DomainAssumption
       DEF EmptyStaging, StagingStates, NoExtraction, Extractions
<1>4. watermark \in 0..MaxRuns /\ run \in 0..MaxRuns
    BY DomainAssumption
<1> QED
    BY <1>1, <1>2, <1>3, <1>4 DEF TypeInv, TypeOK, Phases, Merging

\* What an exception or the end of the process leaves in memory is typed.
LEMMA LocalTypes ==
    ASSUME TypeInv, pc \notin {"idle", "gone"}, Raise \/ EndOfProcess("idle") \/ EndOfProcess("gone"),
           academic' \in AcademicStates,
           runs' \in [RunIds -> RunStates],
           watermark' \in 0..MaxRuns,
           raw' \subseteq RunIds,
           staging' \in StagingStates
    PROVE  TypeInv'
BY DEF TypeInv, TypeOK, Raise, EndOfProcess, NoExtraction, Extractions, NoCounters,
       CounterStates, Phases, Merging

LEMMA RaiseTyped ==
    ASSUME TypeInv, pc \notin {"idle", "gone"}, Raise \/ EndOfProcess("idle") \/ EndOfProcess("gone"), UNCHANGED store
    PROVE  TypeInv'
<1>1. /\ academic' \in AcademicStates
      /\ runs' \in [RunIds -> RunStates]
      /\ watermark' \in 0..MaxRuns
      /\ raw' \subseteq RunIds
      /\ staging' \in StagingStates
    BY DEF store, TypeInv, TypeOK
<1> QED
    BY <1>1, LocalTypes

LEMMA CountedType ==
    ASSUME NEW k \in {"inserted", "updated", "unchanged"}, counters \in CounterStates
    PROVE  [counters EXCEPT ![k] = @ + 1] \in CounterStates
BY DEF CounterStates

LEMMA StudentDoneTyped ==
    ASSUME TypeInv, pc = "students",
           NEW u \in todoStudents, NEW d \in AcademicStates,
           NEW k \in {"inserted", "updated", "unchanged"},
           StudentDone(u, d, k)
    PROVE  TypeInv'
BY CountedType DEF StudentDone, TypeInv, TypeOK, Merging, store, StudentsOf

LEMMA EnrollmentDoneTyped ==
    ASSUME TypeInv, pc = "enrollments",
           NEW e \in todoEnrollments, NEW d \in AcademicStates,
           NEW k \in {"inserted", "updated", "unchanged"},
           EnrollmentDone(e, d, k)
    PROVE  TypeInv'
BY CountedType DEF EnrollmentDone, TypeInv, TypeOK, Merging, store, StudentsOf

LEMMA CourseDoneTyped ==
    ASSUME TypeInv, pc = "students", todoStudents = {},
           NEW d \in AcademicStates, NEW merged \in CounterStates,
           CourseDone(d, merged)
    PROVE  TypeInv'
BY DEF CourseDone, TypeInv, TypeOK, Merging, store, StudentsOf, Phases

LEMMA MergeStudentTyped ==
    ASSUME TypeInv, NEW u \in Users, MergeStudent(u)
    PROVE  TypeInv'
<1>1. pc = "students" /\ u \in todoStudents
    BY DEF MergeStudent, InsertStudent, UpdateStudent, KeepStudent,
           AccountConflict, Refused
<1>2. staging.students[u] \in Contents /\ tx \in AcademicStates
    BY <1>1 DEF TypeInv, TypeOK, StudentsOf, StagingStates
<1>3. CASE InsertStudent(u)
    <2>1. PICK i \in StudentIds :
            StudentDone(u, InsertedStudent(tx, u, i, staging.students[u]), "inserted")
        BY <1>3 DEF InsertStudent
    <2>2. InsertedStudent(tx, u, i, staging.students[u]) \in AcademicStates
        BY <1>2, InsertedStudentType
    <2> QED
        BY <1>1, <2>1, <2>2, StudentDoneTyped
<1>4. CASE UpdateStudent(u)
    <2>1. UpdatedStudent(tx, u, staging.students[u]) \in AcademicStates
        BY <1>2, UpdatedStudentType
    <2>2. StudentDone(u, UpdatedStudent(tx, u, staging.students[u]), "updated")
        BY <1>4 DEF UpdateStudent
    <2> QED
        BY <1>1, <2>1, <2>2, StudentDoneTyped
<1>5. CASE KeepStudent(u)
    BY <1>1, <1>2, <1>5, StudentDoneTyped DEF KeepStudent
<1>6. CASE AccountConflict(u)
    BY <1>1, <1>6, RaiseTyped DEF AccountConflict
<1> QED
    BY <1>3, <1>4, <1>5, <1>6 DEF MergeStudent

LEMMA MergeCourseTyped ==
    ASSUME TypeInv, MergeCourse
    PROVE  TypeInv'
<1>1. pc = "students" /\ todoStudents = {} /\ tx \in AcademicStates
    BY DEF MergeCourse, NoCourse, InsertCourse, UpdateCourse, KeepCourse, TypeInv, TypeOK
<1>2. /\ counters \in CounterStates
      /\ [counters EXCEPT !.inserted = @ + 1] \in CounterStates
      /\ [counters EXCEPT !.updated = @ + 1] \in CounterStates
      /\ [counters EXCEPT !.unchanged = @ + 1] \in CounterStates
    BY DEF TypeInv, TypeOK, CounterStates
<1>3. staging.course # None => MergedCourse(tx, staging.course) \in AcademicStates
    BY <1>1, MergedCourseType DEF TypeInv, TypeOK, StagingStates
<1>4. CASE NoCourse
    BY <1>1, <1>2, <1>4, CourseDoneTyped DEF NoCourse
<1>5. CASE InsertCourse
    BY <1>1, <1>2, <1>3, <1>5, CourseDoneTyped DEF InsertCourse
<1>6. CASE UpdateCourse
    BY <1>1, <1>2, <1>3, <1>6, CourseDoneTyped DEF UpdateCourse
<1>7. CASE KeepCourse
    BY <1>1, <1>2, <1>7, CourseDoneTyped DEF KeepCourse
<1> QED
    BY <1>4, <1>5, <1>6, <1>7 DEF MergeCourse

LEMMA MergeEnrollmentTyped ==
    ASSUME TypeInv, NEW e \in Enrollments, MergeEnrollment(e)
    PROVE  TypeInv'
<1>1. /\ pc = "enrollments" /\ e \in todoEnrollments
      /\ MergedId(UserOf[e]) # None
    BY DEF MergeEnrollment, InsertEnrollment, KeepEnrollment
<1>2. tx \in AcademicStates /\ MergedId(UserOf[e]) \in StudentIds
    BY <1>1, DomainAssumption DEF TypeInv, TypeOK, MergedId, AcademicStates
<1>3. CASE InsertEnrollment(e)
    BY <1>1, <1>2, <1>3, InsertedEnrollmentType, EnrollmentDoneTyped
       DEF InsertEnrollment
<1>4. CASE KeepEnrollment(e)
    BY <1>1, <1>2, <1>4, EnrollmentDoneTyped DEF KeepEnrollment
<1> QED
    BY <1>3, <1>4 DEF MergeEnrollment

LEMMA NextTyped == TypeInv /\ [Next]_vars => TypeInv'
<1> SUFFICES ASSUME TypeInv, [Next]_vars PROVE TypeInv'
    OBVIOUS
<1>1. CASE StartSyncRun
    <2>1. run + 1 \in RunIds /\ run' \in RunIds /\ run' \in 0..MaxRuns
        BY <1>1, DomainAssumption DEF StartSyncRun, RunIds, TypeInv, TypeOK
    <2>2. [NoRun EXCEPT !.status = "RUNNING"] \in RunStates
        BY DEF NoRun, RunStates, NoCounters, CounterStates
    <2>3. runs' \in [RunIds -> RunStates]
        BY <1>1, <2>1, <2>2 DEF StartSyncRun, TypeInv, TypeOK
    <2> QED
        BY <1>1, <2>1, <2>3 DEF StartSyncRun, TypeInv, TypeOK, Phases, Merging
<1>2. CASE Extract
    <2>1. PICK m \in Snapshots :
            \/ extraction' = Extracted(m) /\ MovesTo("raw")
            \/ Raise
        BY <1>2 DEF Extract
    <2>2. UNCHANGED store /\ pc = "extract"
        BY <1>2 DEF Extract
    <2>3. CASE extraction' = Extracted(m) /\ MovesTo("raw")
        BY <2>2, <2>3, ExtractedType
           DEF MovesTo, store, TypeInv, TypeOK, Phases, Merging
    <2>4. CASE Raise
        BY <2>2, <2>4, RaiseTyped
    <2> QED
        BY <2>1, <2>3, <2>4
<1>3. CASE WriteRawBatch
    BY <1>3 DEF WriteRawBatch, MovesTo, TypeInv, TypeOK, Phases, Merging
<1>4. CASE WriteStagingBatch
    <2>1. staging' \in StagingStates
        BY <1>4, StagedType DEF WriteStagingBatch, TypeInv, TypeOK
    <2> QED
        BY <1>4, <2>1 DEF WriteStagingBatch, MovesTo, TypeInv, TypeOK, Phases, Merging
<1>5. CASE ValidateStagedBatch
    <2>1. UNCHANGED store /\ pc = "validate"
        BY <1>5 DEF ValidateStagedBatch
    <2>2. CASE Raise
        BY <2>1, <2>2, RaiseTyped
    <2>3. CASE ~Raise
        BY <1>5, <2>1, <2>3
           DEF ValidateStagedBatch, store, TypeInv, TypeOK, Phases, Merging,
               StudentsOf, StagingStates, NoCounters, CounterStates
    <2> QED
        BY <2>2, <2>3
<1>6. CASE \E u \in Users : MergeStudent(u)
    BY <1>6, MergeStudentTyped
<1>7. CASE MergeCourse
    BY <1>7, MergeCourseTyped
<1>8. CASE \E e \in Enrollments : MergeEnrollment(e)
    BY <1>8, MergeEnrollmentTyped
<1>9. CASE Commit
    <2>1. [status |-> "SUCCESS", read |-> RowsRead(extraction), merged |-> counters]
            \in RunStates
        BY RowsReadType DEF TypeInv, TypeOK, RunStates
    <2>2. runs' \in [RunIds -> RunStates]
        BY <1>9, <2>1 DEF Commit, TypeInv, TypeOK
    <2>3. /\ academic' \in AcademicStates /\ watermark' \in 0..MaxRuns
          /\ raw' \subseteq RunIds /\ staging' \in StagingStates
        BY <1>9 DEF Commit, TypeInv, TypeOK
    <2> QED
        BY <1>9, <2>2, <2>3, LocalTypes DEF Commit
<1>10. CASE MarkSyncRunFailed
    <2>1. [runs[run] EXCEPT !.status = "FAILED", !.read = RowsRead(extraction)]
            \in RunStates
        BY <1>10, RowsReadType DEF MarkSyncRunFailed, TypeInv, TypeOK, RunStates
    <2>2. runs' \in [RunIds -> RunStates]
        BY <1>10, <2>1, RowsReadType DEF MarkSyncRunFailed, TypeInv, TypeOK, RunStates
    <2>3. /\ academic' \in AcademicStates /\ watermark' \in 0..MaxRuns
          /\ raw' \subseteq RunIds /\ staging' \in StagingStates
        BY <1>10 DEF MarkSyncRunFailed, TypeInv, TypeOK
    <2> QED
        BY <1>10, <2>2, <2>3, LocalTypes DEF MarkSyncRunFailed
<1>11. CASE Fault \/ HandlerFault \/ Crash
    BY <1>11, RaiseTyped DEF Fault, HandlerFault, Crash, Down
<1>12. CASE UNCHANGED vars
    BY <1>12 DEF vars, store, worker, TypeInv, TypeOK, Merging
<1> QED
    BY <1>1, <1>2, <1>3, <1>4, <1>5, <1>6, <1>7, <1>8, <1>9, <1>10, <1>11, <1>12
       DEF Next, WorkerStep

LEMMA AlwaysTyped == Spec => []TypeInv
BY InitTyped, NextTyped, PTL DEF Spec

\* Every table, and everything the worker remembers, keeps its type.
THEOREM TypeCorrect == Spec => []TypeOK
<1>1. TypeInv => TypeOK
    BY DEF TypeInv
<1> QED
    BY <1>1, AlwaysTyped, PTL

-------------------------------------------------------------------------------
(* The tables agree with each other *)

LEMMA EmptyConsistent == Consistent(EmptyAcademic)
BY DomainAssumption DEF Consistent, HashFaithful, MappingsDisjoint, AccountsUnique,
   EnrollmentsMapped, EmptyAcademic

\* A new student with a free id and a free account number.
LEMMA InsertedStudentConsistent ==
    ASSUME NEW d \in AcademicStates, Consistent(d),
           NEW u \in Users, d.mapId[u] = None,
           NEW i \in StudentIds, d.student[i] = None,
           NEW c \in Contents, ~AccountTaken(d, i, c)
    PROVE  Consistent(InsertedStudent(d, u, i, c))
<1> DEFINE n == InsertedStudent(d, u, i, c)
<1>1. /\ n.student = [d.student EXCEPT ![i] = c]
      /\ n.mapId = [d.mapId EXCEPT ![u] = i]
      /\ n.mapHash = [d.mapHash EXCEPT ![u] = c]
      /\ n.course = d.course /\ n.courseHash = d.courseHash
      /\ n.enrolled = d.enrolled /\ n.enrollMap = d.enrollMap
    BY DEF InsertedStudent, AcademicStates
<1>2. /\ d.student \in [StudentIds -> Contents \cup {None}]
      /\ d.mapId \in [Users -> StudentIds \cup {None}]
      /\ d.mapHash \in [Users -> Contents \cup {None}]
      /\ d.enrollMap \in [Enrollments -> StudentIds \cup {None}]
    BY DEF AcademicStates
<1>3. c # None /\ \A j \in StudentIds : j # None
    BY NoneAssumption
<1>4. \A v \in Users : d.mapId[v] # i
    BY <1>2, <1>3 DEF Consistent, HashFaithful
<1>5. HashFaithful(n)
    BY <1>1, <1>2, <1>3, <1>4 DEF Consistent, HashFaithful
<1>6. MappingsDisjoint(n)
    <2>1. \A v, w \in Users : n.mapId[v] # None /\ n.mapId[v] = n.mapId[w] => v = w
        BY <1>1, <1>2, <1>4 DEF Consistent, MappingsDisjoint
    <2>2. ASSUME NEW j \in StudentIds, n.student[j] # None
          PROVE  \E v \in Users : n.mapId[v] = j
        <3>1. CASE j = i
            BY <1>1, <1>2, <3>1
        <3>2. CASE j # i
            <4>1. PICK v \in Users : d.mapId[v] = j
                BY <1>1, <1>2, <2>2, <3>2 DEF Consistent, MappingsDisjoint
            <4>2. v # u
                BY <1>3, <4>1
            <4> QED
                BY <1>1, <1>2, <4>1, <4>2
        <3> QED
            BY <3>1, <3>2
    <2> QED
        BY <2>1, <2>2 DEF MappingsDisjoint
<1>7. AccountsUnique(n)
    <2>1. \A j \in StudentIds :
            j # i => n.student[j] = d.student[j] /\
                     (n.student[j] # None => AccountOf[n.student[j]] # AccountOf[c])
        BY <1>1, <1>2, <1>3 DEF AccountTaken
    <2>2. n.student[i] = c
        BY <1>1, <1>2, <1>3
    <2> QED
        BY <2>1, <2>2 DEF Consistent, AccountsUnique
<1>8. EnrollmentsMapped(n)
    BY <1>1, <1>2, DomainAssumption DEF Consistent, EnrollmentsMapped
<1> QED
    BY <1>5, <1>6, <1>7, <1>8 DEF Consistent

\* A mapped student whose new account number is free.
LEMMA UpdatedStudentConsistent ==
    ASSUME NEW d \in AcademicStates, Consistent(d),
           NEW u \in Users, d.mapId[u] # None,
           NEW c \in Contents, ~AccountTaken(d, d.mapId[u], c)
    PROVE  Consistent(UpdatedStudent(d, u, c))
<1> DEFINE n == UpdatedStudent(d, u, c)
           i == d.mapId[u]
<1>1. /\ n.student = [d.student EXCEPT ![i] = c]
      /\ n.mapId = d.mapId
      /\ n.mapHash = [d.mapHash EXCEPT ![u] = c]
      /\ n.course = d.course /\ n.courseHash = d.courseHash
      /\ n.enrolled = d.enrolled /\ n.enrollMap = d.enrollMap
    BY DEF UpdatedStudent, AcademicStates
<1>2. /\ d.student \in [StudentIds -> Contents \cup {None}]
      /\ d.mapId \in [Users -> StudentIds \cup {None}]
      /\ d.mapHash \in [Users -> Contents \cup {None}]
    BY DEF AcademicStates
<1>3. i \in StudentIds /\ c # None
    BY <1>2, NoneAssumption
<1>4. \A v \in Users : v # u => d.mapId[v] # i
    BY DEF Consistent, MappingsDisjoint
<1>5. HashFaithful(n)
    BY <1>1, <1>2, <1>3, <1>4 DEF Consistent, HashFaithful
<1>6. MappingsDisjoint(n)
    BY <1>1, <1>2, <1>3 DEF Consistent, MappingsDisjoint
<1>7. AccountsUnique(n)
    <2>1. \A j \in StudentIds :
            j # i => n.student[j] = d.student[j] /\
                     (n.student[j] # None => AccountOf[n.student[j]] # AccountOf[c])
        BY <1>1, <1>2, <1>3 DEF AccountTaken
    <2>2. n.student[i] = c
        BY <1>1, <1>2, <1>3
    <2> QED
        BY <2>1, <2>2 DEF Consistent, AccountsUnique
<1>8. EnrollmentsMapped(n)
    BY <1>1 DEF Consistent, EnrollmentsMapped
<1> QED
    BY <1>5, <1>6, <1>7, <1>8 DEF Consistent

LEMMA MergedCourseConsistent ==
    ASSUME NEW d \in AcademicStates, Consistent(d), NEW c \in CourseContents
    PROVE  Consistent(MergedCourse(d, c))
BY DEF MergedCourse, AcademicStates, Consistent, HashFaithful, MappingsDisjoint,
       AccountsUnique, EnrollmentsMapped

\* An enrolment not mapped before, given the row of its own user.
LEMMA InsertedEnrollmentConsistent ==
    ASSUME NEW d \in AcademicStates, Consistent(d), NEW e \in Enrollments,
           d.mapId[UserOf[e]] # None
    PROVE  Consistent(InsertedEnrollment(d, e, d.mapId[UserOf[e]]))
BY DEF InsertedEnrollment, AcademicStates, Consistent, HashFaithful,
       MappingsDisjoint, AccountsUnique, EnrollmentsMapped

\* The steps that only take the transaction back to the committed tables.
LEMMA RolledBackConsistent ==
    ASSUME AcademicConsistent, Raise \/ EndOfProcess("idle") \/ EndOfProcess("gone"),
           academic' = academic \/ academic' = tx
    PROVE  AcademicConsistent'
BY DEF AcademicConsistent, Raise, EndOfProcess

LEMMA MergeStudentConsistent ==
    ASSUME TypeInv, AcademicConsistent, NEW u \in Users, MergeStudent(u)
    PROVE  AcademicConsistent'
<1>1. pc = "students" /\ u \in todoStudents
    BY DEF MergeStudent, InsertStudent, UpdateStudent, KeepStudent,
           AccountConflict, Refused
<1>2. /\ staging.students[u] \in Contents /\ tx \in AcademicStates
      /\ Consistent(tx)
    BY <1>1 DEF TypeInv, TypeOK, StudentsOf, StagingStates, AcademicConsistent
<1>3. CASE InsertStudent(u)
    <2>1. PICK i \in StudentIds :
            /\ tx.student[i] = None /\ ~AccountTaken(tx, i, staging.students[u])
            /\ tx' = InsertedStudent(tx, u, i, staging.students[u])
            /\ academic' = academic
        BY <1>3 DEF InsertStudent, StudentDone, store
    <2>2. Consistent(tx')
        BY <1>2, <1>3, <2>1, InsertedStudentConsistent DEF InsertStudent
    <2> QED
        BY <2>1, <2>2 DEF AcademicConsistent
<1>4. CASE UpdateStudent(u)
    <2>1. /\ tx' = UpdatedStudent(tx, u, staging.students[u])
          /\ academic' = academic
        BY <1>4 DEF UpdateStudent, StudentDone, store
    <2>2. Consistent(tx')
        BY <1>2, <1>4, <2>1, UpdatedStudentConsistent DEF UpdateStudent
    <2> QED
        BY <2>1, <2>2 DEF AcademicConsistent
<1>5. CASE KeepStudent(u)
    BY <1>5 DEF KeepStudent, StudentDone, store, AcademicConsistent
<1>6. CASE AccountConflict(u)
    BY <1>6, RolledBackConsistent DEF AccountConflict, store
<1> QED
    BY <1>3, <1>4, <1>5, <1>6 DEF MergeStudent

LEMMA MergeCourseConsistent ==
    ASSUME TypeInv, AcademicConsistent, MergeCourse
    PROVE  AcademicConsistent'
<1>1. /\ academic' = academic
      /\ tx' = tx \/ (staging.course # None /\ tx' = MergedCourse(tx, staging.course))
    BY DEF MergeCourse, NoCourse, InsertCourse, UpdateCourse, KeepCourse, CourseDone, store
<1>2. tx \in AcademicStates /\ staging.course \in CourseContents \cup {None}
    BY DEF TypeInv, TypeOK, StagingStates
<1> QED
    BY <1>1, <1>2, MergedCourseConsistent DEF AcademicConsistent

LEMMA MergeEnrollmentConsistent ==
    ASSUME TypeInv, AcademicConsistent, NEW e \in Enrollments, MergeEnrollment(e)
    PROVE  AcademicConsistent'
<1>1. /\ academic' = academic
      /\ tx' = tx \/ tx' = InsertedEnrollment(tx, e, MergedId(UserOf[e]))
      /\ MergedId(UserOf[e]) # None
    BY DEF MergeEnrollment, InsertEnrollment, KeepEnrollment, EnrollmentDone, store
<1>2. tx \in AcademicStates /\ MergedId(UserOf[e]) = tx.mapId[UserOf[e]]
    BY <1>1 DEF TypeInv, TypeOK, MergedId
<1> QED
    BY <1>1, <1>2, InsertedEnrollmentConsistent DEF AcademicConsistent

LEMMA NextConsistent == TypeInv /\ AcademicConsistent /\ [Next]_vars => AcademicConsistent'
<1> SUFFICES ASSUME TypeInv, AcademicConsistent, [Next]_vars
             PROVE  AcademicConsistent'
    OBVIOUS
<1>1. CASE StartSyncRun \/ WriteRawBatch \/ WriteStagingBatch \/ UNCHANGED vars
    BY <1>1 DEF StartSyncRun, WriteRawBatch, WriteStagingBatch, MovesTo, vars,
                store, worker, AcademicConsistent
<1>2. CASE Extract
    <2>1. academic' = academic /\ (MovesTo("raw") \/ Raise)
        BY <1>2 DEF Extract, store
    <2> QED
        BY <2>1, RolledBackConsistent DEF MovesTo, AcademicConsistent
<1>3. CASE ValidateStagedBatch
    <2>1. academic' = academic /\ (tx' = academic \/ Raise)
        BY <1>3 DEF ValidateStagedBatch, store
    <2> QED
        BY <2>1, RolledBackConsistent DEF AcademicConsistent
<1>4. CASE \E u \in Users : MergeStudent(u)
    BY <1>4, MergeStudentConsistent
<1>5. CASE MergeCourse
    BY <1>5, MergeCourseConsistent
<1>6. CASE \E e \in Enrollments : MergeEnrollment(e)
    BY <1>6, MergeEnrollmentConsistent
<1>7. CASE Commit
    BY <1>7, RolledBackConsistent DEF Commit
<1>8. CASE MarkSyncRunFailed
    BY <1>8, RolledBackConsistent DEF MarkSyncRunFailed
<1>9. CASE Fault \/ HandlerFault \/ Crash
    BY <1>9, RolledBackConsistent DEF Fault, HandlerFault, Crash, Down, store
<1> QED
    BY <1>1, <1>2, <1>3, <1>4, <1>5, <1>6, <1>7, <1>8, <1>9 DEF Next, WorkerStep

\* The hash a mapping stores is the content of the row it points at, in every
\* reachable state of the committed tables and of the open transaction: change
\* detection by hash never skips a row that differs.
THEOREM MappingsStayFaithful == Spec => []AcademicConsistent
<1>1. Init => AcademicConsistent
    BY EmptyConsistent DEF Init, AcademicConsistent
<1> QED
    BY <1>1, NextConsistent, AlwaysTyped, PTL DEF Spec

-------------------------------------------------------------------------------
(* The trail of a batch *)

\* BatchTrail is inductive once it says where in the pipeline the run's RAW rows
\* are committed and since when staging is the staged form of its extraction.
TrailInv ==
    /\ {staging.batch, watermark} \subseteq raw \cup {0}
    /\ pc \in {"stage", "validate", "students", "enrollments"} => run \in raw
    /\ pc \in {"validate", "students", "enrollments"} => staging = Staged(run, extraction)

\* A step that leaves the process failing or ended needs the tables only.
LEMMA EndedTrail ==
    ASSUME TrailInv, Raise \/ EndOfProcess("idle") \/ EndOfProcess("gone"), UNCHANGED <<watermark, raw, staging>>
    PROVE  TrailInv'
BY DEF TrailInv, Raise, EndOfProcess

LEMMA MergeTrail ==
    ASSUME TrailInv,
           \/ \E u \in Users : MergeStudent(u)
           \/ MergeCourse
           \/ \E e \in Enrollments : MergeEnrollment(e)
    PROVE  TrailInv'
<1>1. CASE \E u \in Users : AccountConflict(u)
    BY <1>1, EndedTrail DEF AccountConflict, store
<1>2. CASE ~\E u \in Users : AccountConflict(u)
    <2>1. UNCHANGED <<watermark, raw, staging, run, extraction>>
        BY <1>2 DEF MergeStudent, InsertStudent, UpdateStudent, KeepStudent, StudentDone,
               MergeCourse, NoCourse, InsertCourse, UpdateCourse, KeepCourse, CourseDone,
               MergeEnrollment, InsertEnrollment, KeepEnrollment, EnrollmentDone, store
    <2>2. {pc, pc'} \subseteq {"students", "enrollments"}
        BY <1>2 DEF MergeStudent, InsertStudent, UpdateStudent, KeepStudent, StudentDone,
               MergeCourse, NoCourse, InsertCourse, UpdateCourse, KeepCourse, CourseDone,
               MergeEnrollment, InsertEnrollment, KeepEnrollment, EnrollmentDone
    <2>3. Staged(run, extraction)' = Staged(run, extraction)
        BY <2>1 DEF Staged
    <2> QED
        BY <2>1, <2>2, <2>3 DEF TrailInv
<1> QED
    BY <1>1, <1>2

LEMMA NextTrail == TypeInv /\ TrailInv /\ [Next]_vars => TrailInv'
<1> SUFFICES ASSUME TypeInv, TrailInv, [Next]_vars
             PROVE  TrailInv'
    OBVIOUS
<1>1. CASE StartSyncRun
    BY <1>1 DEF StartSyncRun, TrailInv
<1>2. CASE Extract
    <2>1. UNCHANGED store /\ (MovesTo("raw") \/ Raise)
        BY <1>2 DEF Extract
    <2> QED
        BY <2>1, EndedTrail DEF MovesTo, store, TrailInv
<1>3. CASE WriteRawBatch
    BY <1>3 DEF WriteRawBatch, MovesTo, TrailInv
<1>4. CASE WriteStagingBatch
    <2>1. staging' = Staged(run', extraction') /\ staging'.batch = run
        BY <1>4 DEF WriteStagingBatch, MovesTo, Staged
    <2> QED
        BY <1>4, <2>1 DEF WriteStagingBatch, MovesTo, TrailInv
<1>5. CASE ValidateStagedBatch
    <2>1. CASE Raise
        BY <1>5, <2>1, EndedTrail DEF ValidateStagedBatch, store
    <2>2. CASE ~Raise
        BY <1>5, <2>2 DEF ValidateStagedBatch, store, TrailInv, Staged
    <2> QED
        BY <2>1, <2>2
<1>6. CASE \/ \E u \in Users : MergeStudent(u)
           \/ MergeCourse
           \/ \E e \in Enrollments : MergeEnrollment(e)
    BY <1>6, MergeTrail
<1>7. CASE Commit
    BY <1>7 DEF Commit, TrailInv, Raise, EndOfProcess
<1>8. CASE MarkSyncRunFailed \/ Fault \/ HandlerFault \/ Crash
    BY <1>8, EndedTrail DEF MarkSyncRunFailed, Fault, HandlerFault, Crash, Down, store
<1>9. CASE UNCHANGED vars
    BY <1>9 DEF vars, store, worker, TrailInv, Staged
<1> QED
    BY <1>1, <1>2, <1>3, <1>4, <1>5, <1>6, <1>7, <1>8, <1>9 DEF Next, WorkerStep

\* Whatever fails, and whenever: a batch in staging or behind the watermark is
\* still in RAW, and a merge only ever reads the rows its own worker staged from
\* its own extraction.
THEOREM BatchesTraceable == Spec => []BatchTrail
<1>1. Init => TrailInv
    BY DEF Init, EmptyStaging, TrailInv
<1>2. TrailInv => BatchTrail
    BY DEF TrailInv, BatchTrail, Merging
<1> QED
    BY <1>1, <1>2, NextTrail, AlwaysTyped, PTL DEF Spec

-------------------------------------------------------------------------------
(* Nothing is forgotten *)

\* n keeps every mapping, student, enrollment and course mapping of d.
Extends(n, d) ==
    /\ \A u \in Users : d.mapId[u] # None => n.mapId[u] = d.mapId[u]
    /\ \A i \in StudentIds : d.student[i] # None => n.student[i] # None
    /\ d.enrolled \subseteq n.enrolled
    /\ \A e \in Enrollments : d.enrollMap[e] # None => n.enrollMap[e] = d.enrollMap[e]
    /\ d.courseHash # None => n.courseHash # None

\* The merge transaction only ever adds to the committed tables.
TxExtends == Extends(tx, academic)

LEMMA ExtendsReflexive == \A d : Extends(d, d)
BY DEF Extends

LEMMA ExtendsTransitive ==
    ASSUME NEW a, NEW b, NEW c, Extends(b, a), Extends(c, b)
    PROVE  Extends(c, a)
BY DEF Extends

LEMMA InsertedStudentExtends ==
    ASSUME NEW d \in AcademicStates, NEW u \in Users, d.mapId[u] = None,
           NEW i \in StudentIds, NEW c \in Contents
    PROVE  Extends(InsertedStudent(d, u, i, c), d)
<1>1. c # None
    BY NoneAssumption
<1> QED
    BY <1>1 DEF Extends, InsertedStudent, AcademicStates

LEMMA UpdatedStudentExtends ==
    ASSUME NEW d \in AcademicStates, NEW u \in Users, NEW c \in Contents
    PROVE  Extends(UpdatedStudent(d, u, c), d)
<1>1. c # None
    BY NoneAssumption
<1> QED
    BY <1>1 DEF Extends, UpdatedStudent, AcademicStates

LEMMA MergedCourseExtends ==
    ASSUME NEW d \in AcademicStates, NEW c \in CourseContents
    PROVE  Extends(MergedCourse(d, c), d)
BY NoneAssumption DEF Extends, MergedCourse, AcademicStates

LEMMA InsertedEnrollmentExtends ==
    ASSUME NEW d \in AcademicStates, NEW e \in Enrollments, d.enrollMap[e] = None, NEW i
    PROVE  Extends(InsertedEnrollment(d, e, i), d)
BY DEF Extends, InsertedEnrollment, AcademicStates

LEMMA MergeExtends ==
    ASSUME TypeInv, TxExtends,
           \/ \E u \in Users : MergeStudent(u)
           \/ MergeCourse
           \/ \E e \in Enrollments : MergeEnrollment(e)
    PROVE  TxExtends' /\ academic' = academic
<1>1. tx \in AcademicStates
    BY DEF TypeInv, TypeOK
<1>2. CASE \E u \in Users : AccountConflict(u)
    BY <1>2, ExtendsReflexive DEF AccountConflict, Raise, store, TxExtends
<1>3. ASSUME NEW u \in Users, InsertStudent(u)
      PROVE  Extends(tx', tx) /\ academic' = academic
    <2>1. staging.students[u] \in Contents
        BY <1>3 DEF InsertStudent, TypeInv, TypeOK, StudentsOf, StagingStates
    <2> QED
        BY <1>1, <1>3, <2>1, InsertedStudentExtends DEF InsertStudent, StudentDone, store
<1>4. ASSUME NEW u \in Users, UpdateStudent(u)
      PROVE  Extends(tx', tx) /\ academic' = academic
    <2>1. staging.students[u] \in Contents
        BY <1>4 DEF UpdateStudent, TypeInv, TypeOK, StudentsOf, StagingStates
    <2> QED
        BY <1>1, <1>4, <2>1, UpdatedStudentExtends DEF UpdateStudent, StudentDone, store
<1>5. ASSUME NEW u \in Users, KeepStudent(u)
      PROVE  Extends(tx', tx) /\ academic' = academic
    BY <1>5, ExtendsReflexive DEF KeepStudent, StudentDone, store
<1>6. ASSUME MergeCourse
      PROVE  Extends(tx', tx) /\ academic' = academic
    <2>1. /\ academic' = academic
          /\ \/ tx' = tx
             \/ staging.course # None /\ tx' = MergedCourse(tx, staging.course)
        BY <1>6 DEF MergeCourse, NoCourse, InsertCourse, UpdateCourse, KeepCourse,
                    CourseDone, store
    <2>2. staging.course \in CourseContents \cup {None}
        BY DEF TypeInv, TypeOK, StagingStates
    <2> QED
        BY <1>1, <2>1, <2>2, ExtendsReflexive, MergedCourseExtends
<1>7. ASSUME NEW e \in Enrollments, MergeEnrollment(e)
      PROVE  Extends(tx', tx) /\ academic' = academic
    <2>1. /\ academic' = academic
          /\ \/ tx' = tx
             \/ /\ tx.enrollMap[e] = None
                /\ tx' = InsertedEnrollment(tx, e, MergedId(UserOf[e]))
        BY <1>7 DEF MergeEnrollment, InsertEnrollment, KeepEnrollment, EnrollmentDone, store
    <2> QED
        BY <1>1, <2>1, ExtendsReflexive, InsertedEnrollmentExtends
<1>8. ASSUME Extends(tx', tx), academic' = academic
      PROVE  TxExtends' /\ academic' = academic
    BY <1>8, ExtendsTransitive DEF TxExtends
<1> QED
    BY <1>2, <1>3, <1>4, <1>5, <1>6, <1>7, <1>8 DEF MergeStudent

\* Only the merge and its commit do more than take tx back to academic.
LEMMA NextExtends ==
    TypeInv /\ TxExtends /\ [Next]_vars => TxExtends' /\ Extends(academic', academic)
<1> SUFFICES ASSUME TypeInv, TxExtends, [Next]_vars
             PROVE  TxExtends' /\ Extends(academic', academic)
    OBVIOUS
<1>1. CASE StartSyncRun \/ WriteRawBatch \/ WriteStagingBatch \/ UNCHANGED vars
    BY <1>1, ExtendsReflexive
       DEF StartSyncRun, WriteRawBatch, WriteStagingBatch, MovesTo, vars, store, worker,
           TxExtends
<1>2. CASE Extract \/ ValidateStagedBatch \/ Fault \/ HandlerFault \/ Crash \/ MarkSyncRunFailed
    <2>1. academic' = academic /\ tx' \in {tx, academic'}
        BY <1>2 DEF Extract, ValidateStagedBatch, Fault, HandlerFault, Crash, Down, MarkSyncRunFailed,
                    MovesTo, Raise, EndOfProcess, store
    <2> QED
        BY <2>1, ExtendsReflexive DEF TxExtends
<1>3. CASE \/ \E u \in Users : MergeStudent(u)
           \/ MergeCourse
           \/ \E e \in Enrollments : MergeEnrollment(e)
    BY <1>3, MergeExtends, ExtendsReflexive
<1>4. CASE Commit
    BY <1>4, ExtendsReflexive DEF Commit, Raise, EndOfProcess, TxExtends
<1> QED
    BY <1>1, <1>2, <1>3, <1>4 DEF Next, WorkerStep

\* No failure, rollback, retry or order of the rows ever deletes a student, an
\* enrollment or a mapping, or repoints a mapping: what Moodle stops reporting
\* stays.
THEOREM NothingIsForgotten == Spec => NothingForgotten
<1>1. Init => TxExtends
    BY ExtendsReflexive DEF Init, TxExtends
<1>2. Extends(academic', academic) =>
        /\ \A u \in Users :
            academic.mapId[u] # None => academic'.mapId[u] = academic.mapId[u]
        /\ \A i \in StudentIds : academic.student[i] # None => academic'.student[i] # None
        /\ academic.enrolled \subseteq academic'.enrolled
        /\ \A e \in Enrollments :
            academic.enrollMap[e] # None => academic'.enrollMap[e] = academic.enrollMap[e]
    BY DEF Extends
<1> QED
    BY <1>1, <1>2, NextExtends, AlwaysTyped, PTL DEF Spec, NothingForgotten

-------------------------------------------------------------------------------
(* The promise of SyncLedger *)

\* Which status the newest run has is decided by where its process is: after a
\* lost acknowledgement a failing process finds its run SUCCESS and behind the
\* watermark, and that is the only way it can.
LedgerInv ==
    /\ \A r \in RunIds : r > run <=> runs[r].status = "NONE"
    /\ pc \notin {"idle", "gone", "failing"} => runs[run].status = "RUNNING"
    /\ pc = "failing" => \/ runs[run].status = "RUNNING"
                         \/ runs[run].status = "SUCCESS" /\ watermark = run
    /\ ReturnedRunEnded

statuses == [r \in RunIds |-> runs[r].status]

\* The columns of sync_runs that SyncLedger sees, after one row is written.
LEMMA StatusSet ==
    ASSUME TypeInv, NEW r \in RunIds, NEW s \in RunStates,
           runs' = [runs EXCEPT ![r] = s]
    PROVE  statuses' = [statuses EXCEPT ![r] = s.status]
BY DEF TypeInv, TypeOK, statuses

\* Steps that write no run and no watermark.
LEMMA QuietLedger ==
    ASSUME LedgerInv, UNCHANGED <<runs, watermark, run>>, pc \notin {"idle", "gone"},
           pc' \in {"idle", "gone", "failing"} \/ pc \notin {"idle", "gone", "failing"},
           pc' # "idle"
    PROVE  LedgerInv'
BY DEF LedgerInv, ReturnedRunEnded

LEMMA StartLedger ==
    ASSUME TypeInv, LedgerInv, StartSyncRun
    PROVE  LedgerInv' /\ \E r \in RunIds : Ledger!Begin(r)
<1>1. run \in 0..MaxRuns /\ MaxRuns \in Nat /\ run < MaxRuns /\ run + 1 \in RunIds
    BY DomainAssumption DEF StartSyncRun, TypeInv, TypeOK, RunIds
<1> DEFINE s == [NoRun EXCEPT !.status = "RUNNING"]
<1>2. s \in RunStates /\ s.status = "RUNNING"
    BY DEF NoRun, NoCounters, RunStates, CounterStates
<1>3. /\ runs' = [runs EXCEPT ![run + 1] = s] /\ run' = run + 1
      /\ pc' = "extract" /\ UNCHANGED <<academic, watermark>>
    BY DEF StartSyncRun
<1>4. statuses' = [statuses EXCEPT ![run + 1] = "RUNNING"]
    BY <1>1, <1>2, <1>3, StatusSet
<1>5. \A r \in RunIds : r > run <=> statuses[r] = "NONE"
    BY DEF LedgerInv, statuses
<1>6. \A r \in RunIds : r \in Nat
    BY DEF RunIds
<1>7. LedgerInv'
    <2>1. \A r \in RunIds : statuses'[r] = IF r = run + 1 THEN "RUNNING" ELSE statuses[r]
        BY <1>4 DEF statuses
    <2>2. \A r \in RunIds : r > run + 1 <=> statuses'[r] = "NONE"
        BY <1>1, <1>5, <1>6, <2>1
    <2> QED
        BY <1>1, <1>3, <2>1, <2>2 DEF LedgerInv, ReturnedRunEnded, statuses
<1>8. \E r \in RunIds : Ledger!Begin(r)
    <2>1. PICK r \in RunIds : r = run + 1
        BY <1>1
    <2>2. Ledger!Begin(r)
        BY <1>1, <1>3, <1>4, <1>5, <1>6, <2>1
           DEF Ledger!Begin, Ledger!RunIds, statuses, RunIds
    <2> QED
        BY <2>2
<1> QED
    BY <1>7, <1>8

\* The newest run may act: no later run has been started.
LEMMA NewestIsLatest ==
    ASSUME TypeInv, LedgerInv, pc \notin {"idle", "gone"}
    PROVE  \A r \in RunIds : r = run => Ledger!Latest(r)
<1>1. run \in RunIds /\ \A r \in RunIds : r \in Nat
    BY DEF TypeInv, RunIds
<1>2. \A r \in RunIds : r > run <=> statuses[r] = "NONE"
    BY DEF LedgerInv, statuses
<1> QED
    BY <1>1, <1>2 DEF Ledger!Latest, Ledger!RunIds, RunIds, statuses

LEMMA CommitLedger ==
    ASSUME TypeInv, LedgerInv, Commit
    PROVE  LedgerInv' /\ \E r \in RunIds : Ledger!Merge(r)
<1> DEFINE s == [status |-> "SUCCESS", read |-> RowsRead(extraction), merged |-> counters]
<1>1. s \in RunStates
    BY RowsReadType DEF TypeInv, TypeOK, RunStates
<1>2. /\ pc = "enrollments" /\ runs' = [runs EXCEPT ![run] = s]
      /\ watermark' = run /\ academic' = tx /\ run' = run
      /\ pc' \in {"idle", "gone", "failing"}
    BY DEF Commit, Raise, EndOfProcess
<1>3. run \in RunIds
    BY <1>2 DEF TypeInv
<1>4. statuses' = [statuses EXCEPT ![run] = "SUCCESS"]
    BY <1>1, <1>2, <1>3, StatusSet
<1>5. statuses[run] = "RUNNING"
    BY <1>2, <1>3 DEF LedgerInv, statuses
<1>6. LedgerInv'
    <2>1. \A r \in RunIds : r > run <=> statuses[r] = "NONE"
        BY DEF LedgerInv, statuses
    <2>2. \A r \in RunIds : r > run <=> statuses'[r] = "NONE"
        BY <1>3, <1>4, <1>5, <2>1 DEF statuses
    <2>3. statuses'[run] = "SUCCESS"
        BY <1>3, <1>4 DEF statuses
    <2> QED
        BY <1>2, <1>3, <2>2, <2>3 DEF LedgerInv, ReturnedRunEnded, statuses
<1>7. \E r \in RunIds : Ledger!Merge(r)
    <2>1. PICK r \in RunIds : r = run
        BY <1>3
    <2>2. Ledger!Latest(r)
        BY <2>1, NewestIsLatest, <1>2
    <2>3. Ledger!Merge(r)
        BY <1>2, <1>3, <1>4, <1>5, <2>1, <2>2 DEF Ledger!Merge, statuses, TypeInv, TypeOK
    <2> QED
        BY <2>3
<1> QED
    BY <1>6, <1>7

LEMMA FailedLedger ==
    ASSUME TypeInv, LedgerInv, MarkSyncRunFailed
    PROVE  LedgerInv' /\ \E r \in RunIds : Ledger!Fail(r) \/ Ledger!Disown(r)
<1> DEFINE s == [runs[run] EXCEPT !.status = "FAILED", !.read = RowsRead(extraction)]
<1>1. pc = "failing" /\ run \in RunIds
    BY DEF MarkSyncRunFailed, TypeInv
<1>2. runs[run] \in RunStates /\ RowsRead(extraction) \in Nat
    BY <1>1, RowsReadType DEF TypeInv, TypeOK
<1>3. s \in RunStates /\ s.status = "FAILED"
    BY <1>2 DEF RunStates
<1>4. runs' = [runs EXCEPT ![run] = s]
    BY <1>1, <1>2 DEF MarkSyncRunFailed, TypeInv, TypeOK, RunStates
<1>5. pc' = "idle" /\ UNCHANGED <<academic, watermark, run>>
    BY DEF MarkSyncRunFailed, EndOfProcess
<1>6. statuses' = [statuses EXCEPT ![run] = "FAILED"]
    BY <1>1, <1>3, <1>4, StatusSet
<1>7. \/ statuses[run] = "RUNNING"
      \/ statuses[run] = "SUCCESS" /\ watermark = run
    BY <1>1 DEF LedgerInv, statuses
<1>8. LedgerInv'
    <2>1. \A r \in RunIds : r > run <=> statuses[r] = "NONE"
        BY DEF LedgerInv, statuses
    <2>2. \A r \in RunIds : r > run <=> statuses'[r] = "NONE"
        BY <1>1, <1>6, <1>7, <2>1 DEF statuses
    <2>3. statuses'[run] = "FAILED"
        BY <1>1, <1>6 DEF statuses
    <2> QED
        BY <1>1, <1>5, <2>2, <2>3 DEF LedgerInv, ReturnedRunEnded, statuses
<1>9. \E r \in RunIds : Ledger!Fail(r) \/ Ledger!Disown(r)
    <2>1. PICK r \in RunIds : r = run
        BY <1>1
    <2>2. Ledger!Latest(r)
        BY <1>1, <2>1, NewestIsLatest
    <2>3. Ledger!Fail(r) \/ Ledger!Disown(r)
        BY <1>1, <1>5, <1>6, <1>7, <2>1, <2>2 DEF Ledger!Fail, Ledger!Disown, statuses
    <2> QED
        BY <2>3
<1> QED
    BY <1>8, <1>9

\* Every step is a step of the promise or is not seen by it.
LEMMA NextLedger ==
    TypeInv /\ TxExtends /\ LedgerInv /\ [Next]_vars
    => LedgerInv' /\ [Ledger!Next]_(Ledger!vars)
<1> SUFFICES ASSUME TypeInv, TxExtends, LedgerInv, [Next]_vars
             PROVE  LedgerInv' /\ [Ledger!Next]_(Ledger!vars)
    OBVIOUS
<1>1. CASE StartSyncRun
    BY <1>1, StartLedger DEF Ledger!Next, Ledger!RunIds, RunIds
<1>2. CASE Commit \/ MarkSyncRunFailed
    BY <1>2, CommitLedger, FailedLedger DEF Ledger!Next, Ledger!RunIds, RunIds
<1>3. CASE Extract \/ WriteRawBatch \/ WriteStagingBatch \/ ValidateStagedBatch
            \/ Fault \/ HandlerFault \/ Crash
    <2>1. UNCHANGED <<academic, runs, watermark, run>>
        BY <1>3 DEF Extract, WriteRawBatch, WriteStagingBatch, ValidateStagedBatch,
                    Fault, HandlerFault, Crash, Down, MovesTo, Raise, EndOfProcess, store
    <2>2. /\ pc \notin {"idle", "gone"}
          /\ pc' \in {"idle", "gone", "failing"} \/ pc \notin {"idle", "gone", "failing"}
          /\ pc' # "idle"
        BY <1>3 DEF Extract, WriteRawBatch, WriteStagingBatch, ValidateStagedBatch,
                    Fault, HandlerFault, Crash, Down, MovesTo, Raise, EndOfProcess
    <2> QED
        BY <2>1, <2>2, QuietLedger DEF Ledger!vars
<1>4. CASE \/ \E u \in Users : MergeStudent(u)
           \/ MergeCourse
           \/ \E e \in Enrollments : MergeEnrollment(e)
    <2>1. academic' = academic
        BY <1>4, MergeExtends
    <2>2. /\ UNCHANGED <<runs, watermark, run>> /\ pc \notin {"idle", "gone", "failing"}
          /\ pc' # "idle"
        BY <1>4 DEF MergeStudent, InsertStudent, UpdateStudent, KeepStudent, StudentDone,
               AccountConflict, Refused, Raise,
               MergeCourse, NoCourse, InsertCourse, UpdateCourse, KeepCourse, CourseDone,
               MergeEnrollment, InsertEnrollment, KeepEnrollment, EnrollmentDone, store
    <2> QED
        BY <2>1, <2>2, QuietLedger DEF Ledger!vars
<1>5. CASE UNCHANGED vars
    BY <1>5 DEF vars, store, worker, LedgerInv, ReturnedRunEnded, Ledger!vars
<1> QED
    BY <1>1, <1>2, <1>3, <1>4, <1>5 DEF Next, WorkerStep

\* The pipeline keeps the promise of SyncLedger: data, watermark and SUCCESS
\* become visible in one step, no other step changes the data or the watermark,
\* and a SUCCESS turns into FAILED only for the batch the watermark names.
THEOREM KeepsLedgerPromise == Spec => LedgerPromise
<1>1. Init => TxExtends /\ LedgerInv /\ Ledger!Init
    <2> SUFFICES ASSUME Init PROVE TxExtends /\ LedgerInv /\ Ledger!Init
        OBVIOUS
    <2>1. TxExtends
        BY ExtendsReflexive DEF Init, TxExtends
    <2>2. LedgerInv
        BY DEF Init, LedgerInv, ReturnedRunEnded, NoRun, RunIds
    <2>3. Ledger!Init
        BY EmptyAcademicType DEF Init, Ledger!Init, Ledger!RunIds, RunIds, NoRun
    <2> QED
        BY <2>1, <2>2, <2>3
<1> QED
    BY <1>1, NextExtends, NextLedger, AlwaysTyped, PTL DEF Spec, LedgerPromise, Ledger!Spec

\* Whatever raised, a process that returned has written SUCCESS or FAILED over
\* its run's RUNNING: only a process that died leaves the row as it was.
THEOREM ReturnedRunsEnd == Spec => []ReturnedRunEnded
<1>1. Init => TxExtends /\ LedgerInv
    BY ExtendsReflexive DEF Init, TxExtends, LedgerInv, ReturnedRunEnded, NoRun, RunIds
<1>2. LedgerInv => ReturnedRunEnded
    BY DEF LedgerInv
<1> QED
    BY <1>1, <1>2, NextExtends, NextLedger, AlwaysTyped, PTL DEF Spec

-------------------------------------------------------------------------------
(* The promise of StudentDirectory *)

\* One step, from tables that are consistent to tables that are and extend them.
LEMMA NextDirectory ==
    ASSUME TypeInv, TypeInv', AcademicConsistent', Extends(academic', academic)
    PROVE  Directory!MoodleCommit
<1>1. /\ academic.student \in [StudentIds -> Contents \cup {None}]
      /\ academic'.student \in [StudentIds -> Contents \cup {None}]
    BY DEF TypeInv, TypeOK, AcademicStates
<1> DEFINE old == [i \in StudentIds |-> IF academic.student[i] = None THEN None
                                        ELSE AccountOf[academic.student[i]]]
           new == [i \in StudentIds |-> IF academic'.student[i] = None THEN None
                                        ELSE AccountOf[academic'.student[i]]]
<1>2. new \in Directory!Directories
    BY <1>1 DEF Directory!Directories
<1>3. Directory!UniqueAccounts(new)
    BY <1>1 DEF Directory!UniqueAccounts, AcademicConsistent, Consistent, AccountsUnique
<1>4. \A i \in StudentIds : old[i] # None => new[i] # None
    BY <1>1, AccountAssumption DEF Extends
<1>5. academic.courseHash # None => academic'.courseHash # None
    BY DEF Extends
<1> QED
    BY <1>2, <1>3, <1>4, <1>5 DEF Directory!MoodleCommit

\* What the commits of the Moodle synchronisation do to academic.students and the
\* course mapping, whatever fails in between: students appear, account numbers
\* move and stay unique, nothing goes away.
THEOREM KeepsDirectoryPromise == Spec => DirectoryPromise
<1>1. Init => TxExtends /\ Directory!DirectoryInit
    BY ExtendsReflexive
       DEF Init, TxExtends, EmptyAcademic, Directory!DirectoryInit
<1>2. Init => AcademicConsistent
    BY EmptyConsistent DEF Init, AcademicConsistent
<1> QED
    BY <1>1, <1>2, NextExtends, NextConsistent, NextDirectory, AlwaysTyped, PTL
       DEF Spec, DirectoryPromise, Directory!DirectorySpec

-------------------------------------------------------------------------------
(* The rows already merged *)

\* The students of U are in the tables d as the batch s has them.
StudentsMerged(d, s, U) ==
    \A u \in U : d.mapId[u] # None /\ d.student[d.mapId[u]] = s.students[u]

\* A row of d is a row of the older tables b, or was written for one of U.
RowsExplained(d, b, s, U) ==
    \A j \in StudentIds :
        d.student[j] = b.student[j] \/ \E v \in U : d.student[j] = s.students[v]

MergedStudents == StudentsOf(staging) \ todoStudents
MergedEnrollments == staging.enrollments \ todoEnrollments

\* What the transaction holds while the merge is at work on a validated batch.
MergeInv ==
    /\ Merging =>
        /\ ~StagingIssues(extraction) /\ ~ValidationIssues(staging)
        /\ StudentsMerged(tx, staging, MergedStudents)
        /\ RowsExplained(tx, academic, staging, MergedStudents)
        /\ \A u \in todoStudents : tx.mapId[u] = academic.mapId[u]
        /\ \A e \in MergedEnrollments : tx.enrollMap[e] # None
    /\ pc = "students" => todoEnrollments = staging.enrollments
    /\ pc = "enrollments" => (staging.course # None => tx.course = staging.course)

-------------------------------------------------------------------------------
(* One row *)

\* A new row takes a free id, so it disturbs no row merged before it.
LEMMA InsertedStudentMerged ==
    ASSUME NEW d \in AcademicStates, Consistent(d),
           NEW s \in StagingStates, NEW U \in SUBSET Users,
           NEW u \in Users, s.students[u] # None, d.mapId[u] = None,
           NEW i \in StudentIds, d.student[i] = None,
           StudentsMerged(d, s, U), \A v \in U : s.students[v] # None
    PROVE  StudentsMerged(InsertedStudent(d, u, i, s.students[u]), s, U \cup {u})
<1> DEFINE n == InsertedStudent(d, u, i, s.students[u])
<1>1. /\ n.student = [d.student EXCEPT ![i] = s.students[u]]
      /\ n.mapId = [d.mapId EXCEPT ![u] = i]
    BY DEF InsertedStudent, AcademicStates
<1>2. /\ d.student \in [StudentIds -> Contents \cup {None}]
      /\ d.mapId \in [Users -> StudentIds \cup {None}]
      /\ i # None
    BY NoneAssumption DEF AcademicStates
<1>3. ASSUME NEW v \in U, v # u
      PROVE  n.mapId[v] # None /\ n.student[n.mapId[v]] = s.students[v]
    <2>1. d.mapId[v] \in StudentIds /\ d.student[d.mapId[v]] = s.students[v]
        BY <1>2 DEF StudentsMerged
    <2>2. d.mapId[v] # i
        BY <2>1
    <2> QED
        BY <1>1, <1>2, <1>3, <2>1, <2>2 DEF StudentsMerged
<1>4. n.mapId[u] # None /\ n.student[n.mapId[u]] = s.students[u]
    BY <1>1, <1>2
<1> QED
    BY <1>3, <1>4 DEF StudentsMerged

\* An updated row is the user's own, which no other mapping points at.
LEMMA UpdatedStudentMerged ==
    ASSUME NEW d \in AcademicStates, Consistent(d),
           NEW s \in StagingStates, NEW U \in SUBSET Users,
           NEW u \in Users, d.mapId[u] # None,
           StudentsMerged(d, s, U)
    PROVE  StudentsMerged(UpdatedStudent(d, u, s.students[u]), s, U \cup {u})
<1> DEFINE n == UpdatedStudent(d, u, s.students[u])
<1>1. /\ n.student = [d.student EXCEPT ![d.mapId[u]] = s.students[u]]
      /\ n.mapId = d.mapId
    BY DEF UpdatedStudent, AcademicStates
<1>2. /\ d.student \in [StudentIds -> Contents \cup {None}]
      /\ d.mapId \in [Users -> StudentIds \cup {None}]
      /\ d.mapId[u] \in StudentIds
    BY DEF AcademicStates
<1>3. \A v \in U : v # u => d.mapId[v] # d.mapId[u]
    BY DEF Consistent, MappingsDisjoint
<1> QED
    BY <1>1, <1>2, <1>3 DEF StudentsMerged

\* A row whose hash is the batch's is already what the batch says.
LEMMA KeptStudentMerged ==
    ASSUME NEW d \in AcademicStates, Consistent(d),
           NEW s \in StagingStates, NEW U \in SUBSET Users,
           NEW u \in Users, d.mapId[u] # None, d.mapHash[u] = s.students[u],
           StudentsMerged(d, s, U)
    PROVE  StudentsMerged(d, s, U \cup {u})
BY DEF StudentsMerged, Consistent, HashFaithful

\* Writing the row of u leaves every other row as it was.
LEMMA WrittenRowExplained ==
    ASSUME NEW d, NEW b, NEW s, NEW U \in SUBSET Users, NEW u \in Users,
           NEW i \in StudentIds, NEW n, d.student \in [StudentIds -> Contents \cup {None}],
           n.student = [d.student EXCEPT ![i] = s.students[u]],
           RowsExplained(d, b, s, U)
    PROVE  RowsExplained(n, b, s, U \cup {u})
BY DEF RowsExplained

LEMMA ExplainedByMore ==
    ASSUME NEW d, NEW b, NEW s, NEW U, NEW u, RowsExplained(d, b, s, U)
    PROVE  RowsExplained(d, b, s, U \cup {u})
BY DEF RowsExplained

-------------------------------------------------------------------------------
(* The steps of the merge *)

\* One student leaves todoStudents, its row written or found to be right.
LEMMA StudentDoneMerged ==
    ASSUME TypeInv, MergeInv, pc = "students", NEW u \in todoStudents, NEW d,
           NEW k \in {"inserted", "updated", "unchanged"}, StudentDone(u, d, k),
           StudentsMerged(d, staging, MergedStudents \cup {u}),
           RowsExplained(d, academic, staging, MergedStudents \cup {u}),
           \A v \in todoStudents : v # u => d.mapId[v] = tx.mapId[v],
           d.enrollMap = tx.enrollMap
    PROVE  MergeInv'
<1>1. /\ UNCHANGED <<academic, staging, pc, extraction, todoEnrollments>>
      /\ todoStudents' = todoStudents \ {u} /\ tx' = d
    BY DEF StudentDone, store
<1>2. todoStudents \subseteq StudentsOf(staging)
    BY DEF TypeInv
<1>3. MergedStudents' = MergedStudents \cup {u} /\ MergedEnrollments' = MergedEnrollments
    BY <1>1, <1>2 DEF MergedStudents, MergedEnrollments, StudentsOf
<1>4. /\ StudentsMerged(tx, staging, MergedStudents)'
      /\ RowsExplained(tx, academic, staging, MergedStudents)'
    BY <1>1, <1>3 DEF StudentsMerged, RowsExplained
<1>5. \A v \in todoStudents' : tx'.mapId[v] = academic'.mapId[v]
    BY <1>1 DEF MergeInv, Merging
<1>6. \A e \in MergedEnrollments' : tx'.enrollMap[e] # None
    BY <1>1, <1>3 DEF MergeInv, Merging
<1>7. ~StagingIssues(extraction)' /\ ~ValidationIssues(staging)'
    BY <1>1 DEF MergeInv, Merging, StagingIssues, ValidationIssues, DuplicateAccounts,
                DanglingReferences, StudentsOf
<1> QED
    BY <1>1, <1>4, <1>5, <1>6, <1>7 DEF MergeInv, Merging

LEMMA MergeStudentKeepsMerged ==
    ASSUME TypeInv, AcademicConsistent, MergeInv, NEW u \in Users, MergeStudent(u)
    PROVE  MergeInv'
<1>1. pc = "students" /\ u \in todoStudents
    BY DEF MergeStudent, InsertStudent, UpdateStudent, KeepStudent,
           AccountConflict, Refused
<1>2. /\ staging \in StagingStates /\ staging.students[u] \in Contents
      /\ tx \in AcademicStates /\ Consistent(tx)
      /\ MergedStudents \in SUBSET Users
      /\ \A v \in MergedStudents : staging.students[v] # None
    BY <1>1 DEF TypeInv, TypeOK, StudentsOf, StagingStates, AcademicConsistent,
                MergedStudents
<1>3. /\ StudentsMerged(tx, staging, MergedStudents)
      /\ RowsExplained(tx, academic, staging, MergedStudents)
    BY <1>1 DEF MergeInv, Merging
<1>4. staging.students[u] # None
    BY <1>2, NoneAssumption
<1>5. CASE InsertStudent(u)
    <2>1. PICK i \in StudentIds :
            /\ tx.student[i] = None
            /\ StudentDone(u, InsertedStudent(tx, u, i, staging.students[u]), "inserted")
        BY <1>5 DEF InsertStudent
    <2> DEFINE d == InsertedStudent(tx, u, i, staging.students[u])
    <2>2. /\ d.student = [tx.student EXCEPT ![i] = staging.students[u]]
          /\ d.mapId = [tx.mapId EXCEPT ![u] = i]
          /\ d.enrollMap = tx.enrollMap
        BY <1>2 DEF InsertedStudent, AcademicStates
    <2>3. StudentsMerged(d, staging, MergedStudents \cup {u})
        BY <1>2, <1>3, <1>4, <1>5, <2>1, InsertedStudentMerged DEF InsertStudent
    <2>4. RowsExplained(d, academic, staging, MergedStudents \cup {u})
        BY <1>2, <1>3, <2>2, WrittenRowExplained DEF AcademicStates
    <2>5. \A v \in todoStudents : v # u => d.mapId[v] = tx.mapId[v]
        BY <1>2, <2>2 DEF AcademicStates, TypeInv, TypeOK
    <2>6. StudentDone(u, d, "inserted")
        BY <2>1
    <2>7. d.enrollMap = tx.enrollMap
        BY <2>2
    <2> QED
        BY <1>1, <2>3, <2>4, <2>5, <2>6, <2>7, StudentDoneMerged
<1>6. CASE UpdateStudent(u)
    <2> DEFINE d == UpdatedStudent(tx, u, staging.students[u])
    <2>1. StudentDone(u, d, "updated") /\ tx.mapId[u] # None
        BY <1>6 DEF UpdateStudent
    <2>2. /\ d.student = [tx.student EXCEPT ![tx.mapId[u]] = staging.students[u]]
          /\ d.mapId = tx.mapId /\ d.enrollMap = tx.enrollMap
          /\ tx.mapId[u] \in StudentIds
        BY <1>2, <2>1 DEF UpdatedStudent, AcademicStates
    <2>3. StudentsMerged(d, staging, MergedStudents \cup {u})
        BY <1>2, <1>3, <2>1, UpdatedStudentMerged
    <2>4. RowsExplained(d, academic, staging, MergedStudents \cup {u})
        BY <1>2, <1>3, <2>2, WrittenRowExplained DEF AcademicStates
    <2> QED
        BY <1>1, <2>1, <2>2, <2>3, <2>4, StudentDoneMerged
<1>7. CASE KeepStudent(u)
    <2>1. StudentsMerged(tx, staging, MergedStudents \cup {u})
        BY <1>2, <1>3, <1>7, KeptStudentMerged DEF KeepStudent
    <2>2. RowsExplained(tx, academic, staging, MergedStudents \cup {u})
        BY <1>3, ExplainedByMore
    <2>3. StudentDone(u, tx, "unchanged")
        BY <1>7 DEF KeepStudent
    <2> QED
        BY <1>1, <2>1, <2>2, <2>3, StudentDoneMerged
<1>8. CASE AccountConflict(u)
    BY <1>8 DEF AccountConflict, Raise, MergeInv, Merging
<1> QED
    BY <1>5, <1>6, <1>7, <1>8 DEF MergeStudent

\* The course follows the last student.
LEMMA MergeCourseKeepsMerged ==
    ASSUME TypeInv, AcademicConsistent, MergeInv, MergeCourse
    PROVE  MergeInv'
<1>1. /\ UNCHANGED <<academic, staging, extraction, todoStudents, todoEnrollments>>
      /\ pc = "students" /\ pc' = "enrollments"
    BY DEF MergeCourse, NoCourse, InsertCourse, UpdateCourse, KeepCourse, CourseDone, store
<1>2. \/ tx' = tx /\ (staging.course # None => tx.courseHash = staging.course)
      \/ tx' = MergedCourse(tx, staging.course)
    BY DEF MergeCourse, NoCourse, InsertCourse, UpdateCourse, KeepCourse, CourseDone
<1>3. /\ UNCHANGED <<tx.student, tx.mapId, tx.enrollMap>>
      /\ staging.course # None => tx'.course = staging.course
    BY <1>2 DEF MergedCourse, TypeInv, TypeOK, AcademicStates, AcademicConsistent,
                Consistent, HashFaithful
<1>4. MergedStudents' = MergedStudents /\ MergedEnrollments' = MergedEnrollments
    BY <1>1 DEF MergedStudents, MergedEnrollments, StudentsOf
<1>5. /\ StudentsMerged(tx, staging, MergedStudents)'
      /\ RowsExplained(tx, academic, staging, MergedStudents)'
    BY <1>1, <1>3, <1>4 DEF MergeInv, Merging, StudentsMerged, RowsExplained
<1>6. ~StagingIssues(extraction)' /\ ~ValidationIssues(staging)'
    BY <1>1 DEF MergeInv, Merging, StagingIssues, ValidationIssues, DuplicateAccounts,
                DanglingReferences, StudentsOf
<1> QED
    BY <1>1, <1>3, <1>4, <1>5, <1>6 DEF MergeInv, Merging

LEMMA MergeEnrollmentKeepsMerged ==
    ASSUME TypeInv, MergeInv, NEW e \in Enrollments, MergeEnrollment(e)
    PROVE  MergeInv'
<1>1. /\ UNCHANGED <<academic, staging, extraction, pc, todoStudents>>
      /\ pc = "enrollments" /\ todoEnrollments' = todoEnrollments \ {e}
    BY DEF MergeEnrollment, InsertEnrollment, KeepEnrollment, EnrollmentDone, store
<1>2. \/ tx' = tx /\ tx.enrollMap[e] # None
      \/ /\ tx' = InsertedEnrollment(tx, e, MergedId(UserOf[e]))
         /\ MergedId(UserOf[e]) # None
    BY DEF MergeEnrollment, InsertEnrollment, KeepEnrollment, EnrollmentDone
<1>3. /\ UNCHANGED <<tx.student, tx.mapId, tx.course>>
      /\ tx'.enrollMap[e] # None
      /\ \A f \in Enrollments : f # e => tx'.enrollMap[f] = tx.enrollMap[f]
    <2>1. CASE tx' = tx
        BY <1>2, <2>1 DEF InsertedEnrollment, TypeInv, TypeOK, AcademicStates
    <2>2. CASE tx' # tx
        <3>1. /\ tx' = [tx EXCEPT !.enrolled = @ \cup {MergedId(UserOf[e])},
                                !.enrollMap = [@ EXCEPT ![e] = MergedId(UserOf[e])]]
              /\ MergedId(UserOf[e]) # None
            BY <1>2, <2>2 DEF InsertedEnrollment
        <3>2. tx'.enrollMap = [tx.enrollMap EXCEPT ![e] = MergedId(UserOf[e])]
            BY <3>1 DEF TypeInv, TypeOK, AcademicStates
        <3>3. tx.enrollMap \in [Enrollments -> StudentIds \cup {None}]
            BY DEF TypeInv, TypeOK, AcademicStates
        <3> QED
            BY <3>1, <3>2, <3>3 DEF TypeInv, TypeOK, AcademicStates
    <2> QED
        BY <2>1, <2>2
<1>4. MergedStudents' = MergedStudents
    BY <1>1 DEF MergedStudents, StudentsOf
<1>5. /\ StudentsMerged(tx, staging, MergedStudents)'
      /\ RowsExplained(tx, academic, staging, MergedStudents)'
    BY <1>1, <1>3, <1>4 DEF MergeInv, Merging, StudentsMerged, RowsExplained
<1>6. \A f \in MergedEnrollments' : tx'.enrollMap[f] # None
    <2>1. \A f \in MergedEnrollments' :
            f \in Enrollments /\ (f = e \/ f \in MergedEnrollments)
        BY <1>1 DEF MergedEnrollments, TypeInv, TypeOK, StagingStates
    <2>2. \A f \in MergedEnrollments : tx.enrollMap[f] # None
        BY <1>1 DEF MergeInv, Merging
    <2> QED
        BY <1>3, <2>1, <2>2
<1>7. ~StagingIssues(extraction)' /\ ~ValidationIssues(staging)'
    BY <1>1 DEF MergeInv, Merging, StagingIssues, ValidationIssues, DuplicateAccounts,
                DanglingReferences, StudentsOf
<1> QED
    BY <1>1, <1>3, <1>5, <1>6, <1>7 DEF MergeInv, Merging

\* Opening the transaction establishes the invariant; every other step leaves
\* the merge, or does not touch it.
LEMMA NextMerged == TypeInv /\ AcademicConsistent /\ MergeInv /\ [Next]_vars => MergeInv'
<1> SUFFICES ASSUME TypeInv, AcademicConsistent, MergeInv, [Next]_vars
             PROVE  MergeInv'
    OBVIOUS
<1>1. CASE StartSyncRun \/ Extract \/ WriteRawBatch \/ WriteStagingBatch \/ Commit
            \/ MarkSyncRunFailed \/ Fault \/ HandlerFault \/ Crash
    <2>1. pc' \notin {"students", "enrollments"}
        BY <1>1 DEF StartSyncRun, Extract, WriteRawBatch, WriteStagingBatch, Commit,
                    MarkSyncRunFailed, Fault, HandlerFault, Crash, Down, MovesTo, Raise, EndOfProcess
    <2> QED
        BY <2>1 DEF MergeInv, Merging
<1>2. CASE ValidateStagedBatch
    <2>1. CASE Raise
        BY <2>1 DEF Raise, MergeInv, Merging
    <2>2. CASE ~Raise
        <3>1. /\ UNCHANGED <<academic, staging, extraction>> /\ pc' = "students"
              /\ ~StagingIssues(extraction) /\ ~ValidationIssues(staging)
              /\ tx' = academic
              /\ todoStudents' = StudentsOf(staging)
              /\ todoEnrollments' = staging.enrollments
            BY <1>2, <2>2 DEF ValidateStagedBatch, store
        <3>2. MergedStudents' = {} /\ MergedEnrollments' = {}
            BY <3>1 DEF MergedStudents, MergedEnrollments, StudentsOf
        <3>3. ~StagingIssues(extraction)' /\ ~ValidationIssues(staging)'
            BY <3>1 DEF StagingIssues, ValidationIssues, DuplicateAccounts,
                        DanglingReferences, StudentsOf
        <3> QED
            BY <3>1, <3>2, <3>3 DEF MergeInv, Merging, StudentsMerged, RowsExplained
    <2> QED
        BY <2>1, <2>2
<1>3. CASE \E u \in Users : MergeStudent(u)
    BY <1>3, MergeStudentKeepsMerged
<1>4. CASE MergeCourse
    BY <1>4, MergeCourseKeepsMerged
<1>5. CASE \E e \in Enrollments : MergeEnrollment(e)
    BY <1>5, MergeEnrollmentKeepsMerged
<1>6. CASE UNCHANGED vars
    BY <1>6 DEF vars, store, worker, MergeInv, Merging, MergedStudents,
                MergedEnrollments, StudentsOf, StudentsMerged, RowsExplained,
                StagingIssues, ValidationIssues, DuplicateAccounts, DanglingReferences
<1> QED
    BY <1>1, <1>2, <1>3, <1>4, <1>5, <1>6 DEF Next, WorkerStep

LEMMA AlwaysMerged == Spec => []MergeInv
<1>1. Init => MergeInv
    BY DEF Init, MergeInv, Merging
<1> QED
    BY <1>1, NextMerged, AlwaysTyped, MappingsStayFaithful, PTL DEF Spec

-------------------------------------------------------------------------------
(* What the merge may rely on *)

\* The dictionary lookup by source id in _merge_enrollments never raises
\* KeyError: the validation of the batch covers every row the merge looks up,
\* in every order of the rows.
THEOREM LookupsResolve == Spec => []NoDanglingLookup
<1>1. TypeInv /\ MergeInv => NoDanglingLookup
    <2> SUFFICES ASSUME TypeInv, MergeInv, pc = "enrollments", NEW e \in todoEnrollments
                 PROVE  MergedId(UserOf[e]) # None
        BY DEF NoDanglingLookup
    <2>1. e \in staging.enrollments /\ todoStudents = {}
        BY DEF TypeInv, Merging
    <2>2. UserOf[e] \in StudentsOf(staging)
        BY <2>1 DEF MergeInv, Merging, ValidationIssues, DanglingReferences
    <2>3. tx.mapId[UserOf[e]] # None
        BY <2>1, <2>2 DEF MergeInv, Merging, MergedStudents, StudentsMerged
    <2> QED
        BY <2>2, <2>3 DEF MergedId
<1> QED
    BY <1>1, AlwaysTyped, AlwaysMerged, PTL

\* UNIQUE(account_number) refuses a validated batch only because of an account
\* number that another row held before the merge began: the rows the merge has
\* itself written never stand in the way, whatever the order.
THEOREM RefusalNeedsReuse == Spec => []ConflictNeedsReuse
<1>1. TypeInv /\ MergeInv => ConflictNeedsReuse
    <2> SUFFICES ASSUME TypeInv, MergeInv, NEW u \in Users, Refused(u)
                 PROVE  AccountTaken(academic, academic.mapId[u], staging.students[u])
                        /\ u \in StudentsOf(staging)
        BY DEF ConflictNeedsReuse, ReusesAccount
    <2> DEFINE c == staging.students[u]
    <2>1. pc = "students" /\ u \in todoStudents
        BY DEF Refused
    <2>2. u \in StudentsOf(staging) /\ tx.mapId[u] = academic.mapId[u]
        BY <2>1 DEF TypeInv, MergeInv, Merging
    <2>3. PICK j \in StudentIds :
            j # tx.mapId[u] /\ tx.student[j] # None /\ AccountOf[tx.student[j]] = AccountOf[c]
        BY DEF Refused, AccountTaken
    <2>4. ~\E v \in MergedStudents : tx.student[j] = staging.students[v]
        <3> SUFFICES ASSUME NEW v \in MergedStudents, tx.student[j] = staging.students[v]
                     PROVE  FALSE
            OBVIOUS
        <3>1. v \in StudentsOf(staging) /\ v # u
            BY <2>1 DEF MergedStudents
        <3>2. DuplicateAccounts(staging)
            BY <2>2, <2>3, <3>1 DEF DuplicateAccounts
        <3> QED
            BY <2>1, <3>2 DEF MergeInv, Merging, ValidationIssues
    <2>5. tx.student[j] = academic.student[j]
        BY <2>1, <2>4 DEF MergeInv, Merging, RowsExplained
    <2> QED
        BY <2>2, <2>3, <2>5 DEF AccountTaken
<1> QED
    BY <1>1, AlwaysTyped, AlwaysMerged, PTL

-------------------------------------------------------------------------------
(* The academic tables mirror the batch the watermark names *)

\* A batch in staging is the watermark's only if nothing has been staged since
\* that commit: a working process is always past the watermark.
MirrorInv ==
    /\ WatermarkMirrored
    /\ watermark <= run
    /\ pc \notin {"idle", "gone", "failing"} => watermark < run

LEMMA MergeEndsMirrored ==
    ASSUME TypeInv, MergeInv, pc = "enrollments", todoEnrollments = {}
    PROVE  Mirrors(tx, staging)
<1>1. MergedStudents = StudentsOf(staging) /\ MergedEnrollments = staging.enrollments
    BY DEF MergedStudents, MergedEnrollments, TypeInv
<1> QED
    BY <1>1 DEF Mirrors, MergeInv, Merging, StudentsMerged

LEMMA MirrorKept ==
    ASSUME MirrorInv, UNCHANGED <<academic, watermark, staging, run>>,
           pc' \notin {"idle", "gone", "failing"} => watermark < run
    PROVE  MirrorInv'
BY DEF MirrorInv, WatermarkMirrored, Mirrors, StudentsOf

LEMMA NextMirrored ==
    TypeInv /\ TxExtends /\ MergeInv /\ MirrorInv /\ [Next]_vars => MirrorInv'
<1> SUFFICES ASSUME TypeInv, TxExtends, MergeInv, MirrorInv, [Next]_vars
             PROVE  MirrorInv'
    OBVIOUS
<1>1. watermark \in Nat /\ run \in Nat
    BY DomainAssumption DEF TypeInv, TypeOK
<1>2. CASE StartSyncRun
    <2>1. UNCHANGED <<academic, watermark, staging>> /\ run' = run + 1
        BY <1>2 DEF StartSyncRun
    <2>2. WatermarkMirrored'
        BY <2>1 DEF MirrorInv, WatermarkMirrored, Mirrors, StudentsOf
    <2> QED
        BY <1>1, <2>1, <2>2 DEF MirrorInv
<1>3. CASE Extract \/ WriteRawBatch \/ ValidateStagedBatch \/ Fault \/ HandlerFault \/ Crash
            \/ MarkSyncRunFailed
    <2>1. /\ UNCHANGED <<academic, watermark, staging, run>>
          /\ pc' \in {"idle", "gone", "failing"} \/ pc \notin {"idle", "gone", "failing"}
        BY <1>3 DEF Extract, WriteRawBatch, ValidateStagedBatch, Fault, HandlerFault, Crash, Down,
                    MarkSyncRunFailed, MovesTo, Raise, EndOfProcess, store
    <2> QED
        BY <2>1, MirrorKept DEF MirrorInv
<1>4. CASE WriteStagingBatch
    <2>1. /\ UNCHANGED <<academic, watermark, run>> /\ watermark < run
          /\ staging'.batch = run
        BY <1>4 DEF WriteStagingBatch, MovesTo, Staged, MirrorInv
    <2> QED
        BY <1>1, <2>1 DEF MirrorInv, WatermarkMirrored
<1>5. CASE \/ \E u \in Users : MergeStudent(u)
           \/ MergeCourse
           \/ \E e \in Enrollments : MergeEnrollment(e)
    <2>1. academic' = academic
        BY <1>5, MergeExtends
    <2>2. UNCHANGED <<watermark, staging, run>> /\ pc \notin {"idle", "gone", "failing"}
        BY <1>5 DEF MergeStudent, InsertStudent, UpdateStudent, KeepStudent, StudentDone,
               AccountConflict, Refused, Raise,
               MergeCourse, NoCourse, InsertCourse, UpdateCourse, KeepCourse, CourseDone,
               MergeEnrollment, InsertEnrollment, KeepEnrollment, EnrollmentDone, store
    <2> QED
        BY <2>1, <2>2, MirrorKept DEF MirrorInv
<1>6. CASE Commit
    <2>1. /\ academic' = tx /\ watermark' = run /\ run' = run /\ staging' = staging
          /\ pc' \in {"idle", "gone", "failing"}
          /\ pc = "enrollments" /\ todoEnrollments = {}
        BY <1>6 DEF Commit, Raise, EndOfProcess
    <2>2. Mirrors(academic', staging')
        BY <2>1, MergeEndsMirrored DEF Mirrors, StudentsOf
    <2>3. WatermarkMirrored'
        BY <2>2 DEF WatermarkMirrored, Mirrors, StudentsOf
    <2> QED
        BY <1>1, <2>1, <2>3 DEF MirrorInv
<1>7. CASE UNCHANGED vars
    BY <1>7, MirrorKept DEF vars, store, worker, MirrorInv
<1> QED
    BY <1>2, <1>3, <1>4, <1>5, <1>6, <1>7 DEF Next, WorkerStep

\* As long as the staging tables hold the batch the watermark names, what the
\* academic tables say of every row of that batch is what the batch says.
THEOREM WatermarkBatchMirrored == Spec => []WatermarkMirrored
<1>1. Init => MirrorInv /\ TxExtends
    BY ExtendsReflexive DEF Init, MirrorInv, WatermarkMirrored, TxExtends
<1>2. MirrorInv => WatermarkMirrored
    BY DEF MirrorInv
<1> QED
    BY <1>1, <1>2, NextMirrored, NextExtends, AlwaysTyped, AlwaysMerged, PTL DEF Spec

-------------------------------------------------------------------------------
(* Merging again what is already there *)

\* One merge step over a batch the academic tables mirror finds every row
\* unchanged.
LEMMA MirroredMergeIdles ==
    ASSUME TypeInv, AcademicConsistent, Idempotent, Mirrors(academic, staging), Merging,
           \/ \E u \in Users : MergeStudent(u)
           \/ MergeCourse
           \/ \E e \in Enrollments : MergeEnrollment(e)
    PROVE  Idempotent'
<1>1. /\ counters.inserted = 0 /\ counters.updated = 0 /\ tx = academic
      /\ counters \in CounterStates
    BY DEF Idempotent, TypeInv, TypeOK
<1>2. \A u \in StudentsOf(staging) :
        tx.mapId[u] # None /\ tx.mapHash[u] = staging.students[u]
    BY <1>1 DEF Mirrors, AcademicConsistent, Consistent, HashFaithful, StudentsOf
<1>3. ASSUME NEW u \in Users, MergeStudent(u)
      PROVE  Idempotent'
    <2>1. u \in StudentsOf(staging)
        BY <1>3 DEF MergeStudent, InsertStudent, UpdateStudent, KeepStudent,
                    AccountConflict, Refused, TypeInv
    <2>2. KeepStudent(u)
        BY <1>2, <1>3, <2>1 DEF MergeStudent, InsertStudent, UpdateStudent,
                                AccountConflict, Refused
    <2>3. /\ tx' = tx /\ academic' = academic
          /\ counters' = [counters EXCEPT !.unchanged = @ + 1]
        BY <2>2 DEF KeepStudent, StudentDone, store
    <2> QED
        BY <1>1, <2>3 DEF Idempotent, CounterStates
<1>4. ASSUME MergeCourse
      PROVE  Idempotent'
    <2>1. staging.course # None => tx.courseHash = staging.course
        BY <1>1 DEF Mirrors, AcademicConsistent, Consistent, HashFaithful
    <2>2. NoCourse \/ KeepCourse
        BY <1>4, <2>1 DEF MergeCourse, InsertCourse, UpdateCourse
    <2>3. /\ tx' = tx /\ academic' = academic
          /\ counters' \in {counters, [counters EXCEPT !.unchanged = @ + 1]}
        BY <2>2 DEF NoCourse, KeepCourse, CourseDone, store
    <2> QED
        BY <1>1, <2>3 DEF Idempotent, CounterStates
<1>5. ASSUME NEW e \in Enrollments, MergeEnrollment(e)
      PROVE  Idempotent'
    <2>1. e \in staging.enrollments
        BY <1>5 DEF MergeEnrollment, InsertEnrollment, KeepEnrollment, TypeInv
    <2>2. KeepEnrollment(e)
        BY <1>1, <1>5, <2>1 DEF MergeEnrollment, InsertEnrollment, Mirrors
    <2>3. /\ tx' = tx /\ academic' = academic
          /\ counters' = [counters EXCEPT !.unchanged = @ + 1]
        BY <2>2 DEF KeepEnrollment, EnrollmentDone, store
    <2> QED
        BY <1>1, <2>3 DEF Idempotent, CounterStates
<1> QED
    BY <1>3, <1>4, <1>5

LEMMA NextIdempotent ==
    TypeInv /\ AcademicConsistent /\ TxExtends /\ Idempotent /\ [Next]_vars => Idempotent'
<1> SUFFICES ASSUME TypeInv, AcademicConsistent, TxExtends, Idempotent, [Next]_vars
             PROVE  Idempotent'
    OBVIOUS
<1>1. CASE StartSyncRun \/ Extract \/ WriteRawBatch \/ WriteStagingBatch \/ Commit
            \/ MarkSyncRunFailed \/ Fault \/ HandlerFault \/ Crash
    <2>1. pc' \notin {"students", "enrollments"}
        BY <1>1 DEF StartSyncRun, Extract, WriteRawBatch, WriteStagingBatch, Commit,
                    MarkSyncRunFailed, Fault, HandlerFault, Crash, Down, MovesTo, Raise, EndOfProcess
    <2> QED
        BY <2>1 DEF Idempotent, Merging
<1>2. CASE ValidateStagedBatch
    BY <1>2 DEF ValidateStagedBatch, Raise, EndOfProcess, store, Idempotent, Merging,
                NoCounters
<1>3. CASE \/ \E u \in Users : MergeStudent(u)
           \/ MergeCourse
           \/ \E e \in Enrollments : MergeEnrollment(e)
    <2>1. UNCHANGED <<academic, staging>> /\ Merging
        BY <1>3, MergeExtends
           DEF MergeStudent, InsertStudent, UpdateStudent, KeepStudent, StudentDone,
               AccountConflict, Refused, Merging,
               MergeCourse, NoCourse, InsertCourse, UpdateCourse, KeepCourse, CourseDone,
               MergeEnrollment, InsertEnrollment, KeepEnrollment, EnrollmentDone, store
    <2>2. CASE Mirrors(academic, staging)
        BY <1>3, <2>1, <2>2, MirroredMergeIdles
    <2>3. CASE ~Mirrors(academic, staging)
        <3>1. ~Mirrors(academic, staging)'
            BY <2>1, <2>3 DEF Mirrors, StudentsOf
        <3> QED
            BY <3>1 DEF Idempotent
    <2> QED
        BY <2>2, <2>3
<1>4. CASE UNCHANGED vars
    BY <1>4 DEF vars, store, worker, Idempotent, Merging, Mirrors, StudentsOf
<1> QED
    BY <1>1, <1>2, <1>3, <1>4 DEF Next, WorkerStep

\* Running the same batch again is idle at every row and in every order:
\* nothing is inserted, nothing updated, the transaction never leaves the
\* committed tables.
THEOREM RemergeIsIdle == Spec => []Idempotent
<1>1. Init => Idempotent /\ TxExtends
    BY ExtendsReflexive DEF Init, Idempotent, Merging, TxExtends
<1> QED
    BY <1>1, NextIdempotent, NextExtends, AlwaysTyped, MappingsStayFaithful, PTL DEF Spec

-------------------------------------------------------------------------------
(* Every row is counted *)

\* The rows the merge has still to reach.
Remaining ==
    Cardinality(todoStudents) + Cardinality(todoEnrollments)
        + (IF pc = "students" /\ staging.course # None THEN 1 ELSE 0)

\* While the merge is at work, counted rows and remaining rows are all the rows.
Progress == Merging => Counted(counters) + Remaining = RowsRead(extraction)

LEMMA TodoCounted ==
    ASSUME TypeInv
    PROVE  /\ IsFiniteSet(todoStudents) /\ Cardinality(todoStudents) \in Nat
           /\ IsFiniteSet(todoEnrollments) /\ Cardinality(todoEnrollments) \in Nat
           /\ Counted(counters) \in Nat
<1>1. IsFiniteSet(todoStudents) /\ IsFiniteSet(todoEnrollments)
    BY DomainAssumption, FS_Subset DEF TypeInv, TypeOK
<1>2. Cardinality(todoStudents) \in Nat /\ Cardinality(todoEnrollments) \in Nat
    BY <1>1, FS_CardinalityType
<1>3. Counted(counters) \in Nat
    BY DEF TypeInv, TypeOK, CounterStates, Counted
<1> QED
    BY <1>1, <1>2, <1>3

\* Whichever of the three counters a row goes to, the sum grows by one.
LEMMA CountedOnce ==
    ASSUME TypeInv, NEW k \in {"inserted", "updated", "unchanged"}
    PROVE  Counted([counters EXCEPT ![k] = @ + 1]) = Counted(counters) + 1
<1>1. /\ counters.inserted \in Nat /\ counters.updated \in Nat
      /\ counters.unchanged \in Nat
    BY DEF TypeInv, TypeOK, CounterStates
<1> QED
    BY <1>1 DEF TypeInv, TypeOK, CounterStates, Counted

LEMMA MergeProgress ==
    ASSUME TypeInv, Progress,
           \/ \E u \in Users : MergeStudent(u)
           \/ MergeCourse
           \/ \E e \in Enrollments : MergeEnrollment(e)
    PROVE  Progress'
<1> DEFINE s == Cardinality(todoStudents)
           n == Cardinality(todoEnrollments)
<1>1. /\ IsFiniteSet(todoStudents) /\ s \in Nat
      /\ IsFiniteSet(todoEnrollments) /\ n \in Nat
      /\ Counted(counters) \in Nat
    BY TodoCounted
<1>2. ASSUME NEW u \in Users, MergeStudent(u)
      PROVE  Progress'
    <2>1. CASE AccountConflict(u)
        BY <2>1 DEF AccountConflict, Raise, Progress, Merging
    <2>2. CASE ~AccountConflict(u)
        <3>1. PICK k \in {"inserted", "updated", "unchanged"} :
                counters' = [counters EXCEPT ![k] = @ + 1]
            BY <1>2, <2>2 DEF MergeStudent, InsertStudent, UpdateStudent, KeepStudent,
                              StudentDone
        <3>2. /\ pc = "students" /\ u \in todoStudents
              /\ UNCHANGED <<pc, staging, extraction, todoEnrollments>>
              /\ todoStudents' = todoStudents \ {u}
            BY <1>2, <2>2 DEF MergeStudent, InsertStudent, UpdateStudent, KeepStudent,
                              StudentDone, store
        <3>3. Counted(counters') = Counted(counters) + 1
            BY <3>1, CountedOnce
        <3>4. Cardinality(todoStudents') = s - 1
            BY <1>1, <3>2, FS_RemoveElement
        <3>5. Counted(counters)' = Counted(counters')
            BY DEF Counted
        <3>6. RowsRead(extraction)' = RowsRead(extraction)
            BY <3>2 DEF RowsRead, StudentsOf
        <3> QED
            BY <1>1, <3>2, <3>3, <3>4, <3>5, <3>6 DEF Progress, Merging, Remaining
    <2> QED
        BY <2>1, <2>2
<1>3. ASSUME MergeCourse
      PROVE  Progress'
    <2>1. /\ pc = "students" /\ pc' = "enrollments" /\ todoStudents = {}
          /\ UNCHANGED <<staging, extraction, todoStudents, todoEnrollments>>
        BY <1>3 DEF MergeCourse, NoCourse, InsertCourse, UpdateCourse, KeepCourse,
                    CourseDone, store
    <2>2. Counted(counters)' =
            Counted(counters) + (IF staging.course # None THEN 1 ELSE 0)
        <3>1. CASE NoCourse
            BY <1>1, <3>1 DEF NoCourse, CourseDone, Counted
        <3>2. CASE ~NoCourse
            <4>1. PICK k \in {"inserted", "updated", "unchanged"} :
                    counters' = [counters EXCEPT ![k] = @ + 1]
                BY <1>3, <3>2 DEF MergeCourse, InsertCourse, UpdateCourse, KeepCourse,
                                  CourseDone
            <4>2. staging.course # None
                BY <1>3, <3>2 DEF MergeCourse, InsertCourse, UpdateCourse, KeepCourse
            <4>3. Counted(counters)' = Counted(counters')
                BY DEF Counted
            <4> QED
                BY <4>1, <4>2, <4>3, CountedOnce
        <3> QED
            BY <3>1, <3>2
    <2>3. RowsRead(extraction)' = RowsRead(extraction)
        BY <2>1 DEF RowsRead, StudentsOf
    <2> QED
        BY <1>1, <2>1, <2>2, <2>3 DEF Progress, Merging, Remaining
<1>4. ASSUME NEW e \in Enrollments, MergeEnrollment(e)
      PROVE  Progress'
    <2>1. PICK k \in {"inserted", "updated", "unchanged"} :
            counters' = [counters EXCEPT ![k] = @ + 1]
        BY <1>4 DEF MergeEnrollment, InsertEnrollment, KeepEnrollment, EnrollmentDone
    <2>2. /\ pc = "enrollments" /\ e \in todoEnrollments
          /\ UNCHANGED <<pc, staging, extraction, todoStudents>>
          /\ todoEnrollments' = todoEnrollments \ {e}
        BY <1>4 DEF MergeEnrollment, InsertEnrollment, KeepEnrollment, EnrollmentDone, store
    <2>3. Counted(counters') = Counted(counters) + 1
        BY <2>1, CountedOnce
    <2>4. Cardinality(todoEnrollments') = n - 1
        BY <1>1, <2>2, FS_RemoveElement
    <2>5. Counted(counters)' = Counted(counters')
        BY DEF Counted
    <2>6. RowsRead(extraction)' = RowsRead(extraction)
        BY <2>2 DEF RowsRead, StudentsOf
    <2> QED
        BY <1>1, <2>2, <2>3, <2>4, <2>5, <2>6 DEF Progress, Merging, Remaining
<1> QED
    BY <1>2, <1>3, <1>4

\* A validated batch has been staged row for row.
LEMMA StagedWhole ==
    ASSUME NEW b, NEW x \in Extractions, ~StagingIssues(x)
    PROVE  RowsRead(Staged(b, x)) = RowsRead(x)
<1> DEFINE s == Staged(b, x)
<1>1. StudentsOf(s) = StudentsOf(x)
    BY DEF Staged, StudentsOf, StagingIssues
<1>2. s.enrollments = x.enrollments /\ (s.course = None <=> x.course = None)
    BY DEF Staged, StagingIssues
<1> QED
    BY <1>1, <1>2 DEF RowsRead

LEMMA NextProgress == TypeInv /\ TrailInv /\ Progress /\ [Next]_vars => Progress'
<1> SUFFICES ASSUME TypeInv, TrailInv, Progress, [Next]_vars
             PROVE  Progress'
    OBVIOUS
<1>1. CASE StartSyncRun \/ Extract \/ WriteRawBatch \/ WriteStagingBatch \/ Commit
            \/ MarkSyncRunFailed \/ Fault \/ HandlerFault \/ Crash
    <2>1. pc' \notin {"students", "enrollments"}
        BY <1>1 DEF StartSyncRun, Extract, WriteRawBatch, WriteStagingBatch, Commit,
                    MarkSyncRunFailed, Fault, HandlerFault, Crash, Down, MovesTo, Raise, EndOfProcess
    <2> QED
        BY <2>1 DEF Progress, Merging
<1>2. CASE ValidateStagedBatch
    <2>1. CASE Raise
        BY <2>1 DEF Raise, Progress, Merging
    <2>2. CASE ~Raise
        <3>1. /\ UNCHANGED <<staging, extraction>> /\ pc = "validate" /\ pc' = "students"
              /\ ~StagingIssues(extraction)
              /\ todoStudents' = StudentsOf(staging)
              /\ todoEnrollments' = staging.enrollments
              /\ counters' = NoCounters
            BY <1>2, <2>2 DEF ValidateStagedBatch, store
        <3>2. RowsRead(staging) = RowsRead(extraction)
            BY <3>1, StagedWhole DEF TypeInv, TypeOK, TrailInv
        <3>3. RowsRead(extraction)' = RowsRead(extraction)
            BY <3>1 DEF RowsRead, StudentsOf
        <3>4. RowsRead(extraction) \in Nat
            BY RowsReadType DEF TypeInv, TypeOK
        <3>5. Remaining' = RowsRead(staging)
            <4>1. IsFiniteSet(StudentsOf(staging)) /\ IsFiniteSet(staging.enrollments)
                BY DomainAssumption, FS_Subset DEF StudentsOf, TypeInv, TypeOK, StagingStates
            <4>2. /\ Cardinality(StudentsOf(staging)) \in Nat
                  /\ Cardinality(staging.enrollments) \in Nat
                BY <4>1, FS_CardinalityType
            <4> QED
                BY <3>1, <4>2 DEF Remaining, RowsRead
        <3>6. Counted(counters)' = 0
            BY <3>1 DEF Counted, NoCounters
        <3> QED
            BY <3>2, <3>3, <3>4, <3>5, <3>6 DEF Progress
    <2> QED
        BY <2>1, <2>2
<1>3. CASE \/ \E u \in Users : MergeStudent(u)
           \/ MergeCourse
           \/ \E e \in Enrollments : MergeEnrollment(e)
    BY <1>3, MergeProgress
<1>4. CASE UNCHANGED vars
    BY <1>4 DEF vars, store, worker, Progress, Merging, Remaining, RowsRead, StudentsOf,
                Counted
<1> QED
    BY <1>1, <1>2, <1>3, <1>4 DEF Next, WorkerStep

-------------------------------------------------------------------------------
(* The runs the watermark accounts for *)

\* A run's row says it is complete: everything read was counted.
Complete(row) == Counted(row.merged) = row.read

\* The row the watermark names stays complete even when its run is recorded as
\* FAILED after a lost acknowledgement, because the worker then writes the
\* rows_read it had already written.
SettledInv ==
    /\ \A r \in RunIds : runs[r].status = "SUCCESS" => r <= watermark /\ Complete(runs[r])
    /\ watermark # 0 => /\ runs[watermark].status \in {"SUCCESS", "FAILED"}
                        /\ Complete(runs[watermark])
    /\ pc = "failing" /\ runs[run].status = "SUCCESS"
       => runs[run].read = RowsRead(extraction)

LEMMA SettledKept ==
    ASSUME SettledInv, UNCHANGED <<runs, watermark, run>>,
           \/ pc' # "failing"
           \/ runs[run].status # "SUCCESS"
           \/ pc = "failing" /\ extraction' = extraction
    PROVE  SettledInv'
BY DEF SettledInv, Complete, Counted, RowsRead, StudentsOf

LEMMA CommitSettles ==
    ASSUME TypeInv, MirrorInv, SettledInv, Progress, Commit
    PROVE  SettledInv'
<1> DEFINE s == [status |-> "SUCCESS", read |-> RowsRead(extraction), merged |-> counters]
<1>1. /\ pc = "enrollments" /\ todoEnrollments = {} /\ todoStudents = {}
      /\ run \in RunIds /\ run' = run /\ watermark' = run
      /\ runs' = [runs EXCEPT ![run] = s]
      /\ pc' = "failing" => extraction' = extraction
    BY DEF Commit, Raise, EndOfProcess, TypeInv
<1>2. Complete(s)
    <2>1. Counted(counters) + Remaining = RowsRead(extraction) /\ Remaining = 0
        BY <1>1, FS_EmptySet DEF Progress, Merging, Remaining
    <2>2. Counted(counters) \in Nat
        BY TodoCounted
    <2> QED
        BY <2>1, <2>2 DEF Complete
<1>3. runs'[run] = s /\ \A r \in RunIds : r # run => runs'[r] = runs[r]
    BY <1>1 DEF TypeInv, TypeOK
<1>4. \A r \in RunIds : runs'[r].status = "SUCCESS" => r <= run /\ Complete(runs'[r])
    <2>1. \A r \in RunIds : r \in Nat /\ (r <= watermark => r <= run)
        BY <1>1, DomainAssumption DEF RunIds, MirrorInv, TypeInv, TypeOK
    <2>2. \A r \in RunIds :
            r # run /\ runs'[r].status = "SUCCESS" => r <= watermark /\ Complete(runs'[r])
        BY <1>3 DEF SettledInv
    <2> QED
        BY <1>1, <1>2, <1>3, <2>1, <2>2
<1>5. pc' = "failing" => runs'[run'].read = RowsRead(extraction)'
    BY <1>1, <1>3 DEF RowsRead, StudentsOf
<1>6. /\ \A r \in RunIds : (runs[r].status = "SUCCESS")'
                              => r <= watermark' /\ Complete(runs[r])'
      /\ runs'[watermark'].status = "SUCCESS" /\ Complete(runs[watermark])'
    BY <1>1, <1>2, <1>3, <1>4 DEF Complete, Counted
<1> QED
    BY <1>5, <1>6 DEF SettledInv

LEMMA FailureSettles ==
    ASSUME TypeInv, MirrorInv, LedgerInv, SettledInv, MarkSyncRunFailed
    PROVE  SettledInv'
<1>1. /\ pc = "failing" /\ pc' = "idle" /\ run \in RunIds
      /\ UNCHANGED <<watermark, run>>
      /\ runs' = [runs EXCEPT ![run].status = "FAILED", ![run].read = RowsRead(extraction)]
    BY DEF MarkSyncRunFailed, EndOfProcess, TypeInv
<1>2. /\ \A r \in RunIds : r # run => runs'[r] = runs[r]
      /\ runs'[run].status = "FAILED"
      /\ runs'[run].read = RowsRead(extraction)
      /\ runs'[run].merged = runs[run].merged
    BY <1>1 DEF TypeInv, TypeOK, RunStates
<1>3. watermark # 0 => watermark \in RunIds
    BY DomainAssumption DEF RunIds, TypeInv, TypeOK
<1>4. ASSUME watermark = run
      PROVE  runs[run].status = "SUCCESS"
    <2>1. runs[run].status \in {"SUCCESS", "FAILED"}
        BY <1>1, <1>4 DEF SettledInv, RunIds
    <2> QED
        BY <1>1, <2>1 DEF LedgerInv
<1>5. ASSUME watermark # 0
      PROVE  /\ runs'[watermark].status \in {"SUCCESS", "FAILED"}
             /\ Complete(runs'[watermark])
    <2>1. CASE watermark = run
        BY <1>1, <1>2, <1>4, <1>5, <2>1 DEF SettledInv, Complete
    <2>2. CASE watermark # run
        BY <1>2, <1>3, <1>5, <2>2 DEF SettledInv
    <2> QED
        BY <2>1, <2>2
<1>6. \A r \in RunIds :
        runs'[r].status = "SUCCESS" => r <= watermark /\ Complete(runs'[r])
    BY <1>2 DEF SettledInv
<1>7. /\ \A r \in RunIds : (runs[r].status = "SUCCESS")'
                              => r <= watermark' /\ Complete(runs[r])'
      /\ watermark' # 0 => /\ runs'[watermark'].status \in {"SUCCESS", "FAILED"}
                           /\ Complete(runs[watermark])'
    BY <1>1, <1>5, <1>6 DEF Complete, Counted
<1> QED
    BY <1>1, <1>7 DEF SettledInv

LEMMA StartSettles ==
    ASSUME TypeInv, MirrorInv, SettledInv, StartSyncRun
    PROVE  SettledInv'
<1>1. /\ runs' = [runs EXCEPT ![run + 1] = [NoRun EXCEPT !.status = "RUNNING"]]
      /\ run + 1 \in RunIds /\ watermark' = watermark /\ pc' = "extract"
    BY DomainAssumption DEF StartSyncRun, RunIds, TypeInv, TypeOK
<1>2. watermark # run + 1 /\ (watermark # 0 => watermark \in RunIds)
    BY DomainAssumption DEF MirrorInv, RunIds, TypeInv, TypeOK
<1>3. /\ \A r \in RunIds : r # run + 1 => runs'[r] = runs[r]
      /\ runs'[run + 1].status = "RUNNING"
    BY <1>1 DEF TypeInv, TypeOK, NoRun
<1>4. \A r \in RunIds :
        runs'[r].status = "SUCCESS" => r <= watermark /\ Complete(runs'[r])
    BY <1>3 DEF SettledInv
<1>5. watermark # 0 => runs'[watermark] = runs[watermark]
    BY <1>2, <1>3
<1>6. /\ \A r \in RunIds : (runs[r].status = "SUCCESS")'
                              => r <= watermark' /\ Complete(runs[r])'
      /\ watermark' # 0 => /\ runs'[watermark'].status \in {"SUCCESS", "FAILED"}
                           /\ Complete(runs[watermark])'
    BY <1>1, <1>4, <1>5 DEF SettledInv, Complete, Counted
<1> QED
    BY <1>1, <1>6 DEF SettledInv

LEMMA NextSettled ==
    TypeInv /\ MirrorInv /\ LedgerInv /\ Progress /\ SettledInv /\ [Next]_vars
    => SettledInv'
<1> SUFFICES ASSUME TypeInv, MirrorInv, LedgerInv, Progress, SettledInv, [Next]_vars
             PROVE  SettledInv'
    OBVIOUS
<1>1. CASE StartSyncRun
    BY <1>1, StartSettles
<1>2. CASE Commit
    BY <1>2, CommitSettles
<1>3. CASE MarkSyncRunFailed
    BY <1>3, FailureSettles
<1>4. CASE Extract \/ WriteRawBatch \/ WriteStagingBatch \/ ValidateStagedBatch
            \/ Fault \/ HandlerFault \/ Crash
    <2>1. UNCHANGED <<runs, watermark, run>>
        BY <1>4 DEF Extract, WriteRawBatch, WriteStagingBatch, ValidateStagedBatch,
                    Fault, HandlerFault, Crash, Down, MovesTo, Raise, EndOfProcess, store
    <2>2. pc' # "failing" \/ runs[run].status # "SUCCESS"
        BY <1>4 DEF Extract, WriteRawBatch, WriteStagingBatch, ValidateStagedBatch,
                    Fault, HandlerFault, Crash, Down, MovesTo, Raise, EndOfProcess, LedgerInv
    <2> QED
        BY <2>1, <2>2, SettledKept
<1>5. CASE \/ \E u \in Users : MergeStudent(u)
           \/ MergeCourse
           \/ \E e \in Enrollments : MergeEnrollment(e)
    <2>1. UNCHANGED <<runs, watermark, run>> /\ pc \in {"students", "enrollments"}
        BY <1>5 DEF MergeStudent, InsertStudent, UpdateStudent, KeepStudent, StudentDone,
               AccountConflict, Refused, Raise,
               MergeCourse, NoCourse, InsertCourse, UpdateCourse, KeepCourse, CourseDone,
               MergeEnrollment, InsertEnrollment, KeepEnrollment, EnrollmentDone, store
    <2>2. runs[run].status # "SUCCESS"
        BY <2>1 DEF LedgerInv
    <2> QED
        BY <2>1, <2>2, SettledKept
<1>6. CASE UNCHANGED vars
    BY <1>6, SettledKept DEF vars, store, worker
<1> QED
    BY <1>1, <1>2, <1>3, <1>4, <1>5, <1>6 DEF Next, WorkerStep

LEMMA AlwaysSettled == Spec => [](Progress /\ SettledInv)
<1>1. Init => TxExtends /\ TrailInv /\ LedgerInv /\ MirrorInv /\ Progress /\ SettledInv
    BY ExtendsReflexive
       DEF Init, TxExtends, TrailInv, EmptyStaging, LedgerInv, NoRun, RunIds, MirrorInv,
           ReturnedRunEnded, WatermarkMirrored, Progress, Merging, SettledInv
<1> QED
    BY <1>1, NextExtends, NextTrail, NextLedger, NextMirrored, NextProgress, NextSettled,
       AlwaysTyped, AlwaysMerged, PTL DEF Spec

\* rows_inserted, rows_updated and rows_unchanged account for every row read, at
\* each row of a merge and in every run that reads SUCCESS.
THEOREM EveryRowCounted == Spec => []CountersAddUp
<1>1. TypeInv /\ Progress /\ SettledInv => CountersAddUp
    <2> SUFFICES ASSUME TypeInv, Progress, SettledInv
                 PROVE  CountersAddUp
        OBVIOUS
    <2>1. Cardinality(todoStudents) \in Nat /\ Cardinality(todoEnrollments) \in Nat
          /\ Counted(counters) \in Nat
        BY TodoCounted
    <2> QED
        BY <2>1 DEF Progress, SettledInv, CountersAddUp, Remaining, Complete
<1> QED
    BY <1>1, AlwaysTyped, AlwaysSettled, PTL

\* sync_state never lags behind a run that reads SUCCESS and only ever names a
\* run whose merge committed whole, even when that run is recorded as FAILED.
THEOREM WatermarkFollowsCommits == Spec => []WatermarkIsNewestCommit
<1>1. SettledInv => WatermarkIsNewestCommit
    BY DEF SettledInv, WatermarkIsNewestCommit, Complete
<1> QED
    BY <1>1, AlwaysSettled, PTL
===============================================================================
