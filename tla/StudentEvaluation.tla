--------------------------- MODULE StudentEvaluation ---------------------------
(***************************************************************************)
(* Evaluations read while the course changes.  A student's evaluation      *)
(* (get_student_evaluation) and the course gradebook (get_course_gradebook) *)
(* combine several SELECTs, each with its own READ COMMITTED snapshot, and *)
(* hand what they have read to the same calculation.  The commits of the   *)
(* scheme's PUT, the two synchronisations and the participation routes     *)
(* fall in between.                                                        *)
(***************************************************************************)
EXTENDS EvaluationCalc, Sequences

CONSTANTS
    Students,    \* the roster of the course
    Defs,        \* category definitions: records of weight and blend
    Payloads,    \* schemes a PUT may put in place
    GradeValues, \* student_grades.grade
    MaxGrades,   \* grade_items.max_grade
    Sessions,    \* attendance sessions of the course
    Slots,       \* bound: ids of participation observations
    Readers,     \* GET requests
    Courses,     \* states the course may be in at the start
    MaxCommits   \* bound: commits in one behaviour

\* A category row; its id is the PUT that inserted it, and its definition.
Versions == 0..MaxCommits
CategoryRows ==
    {[weight |-> d.weight, blend |-> d.blend, put |-> v] : d \in Defs, v \in Versions}

Row(d, v) == [weight |-> d.weight, blend |-> d.blend, put |-> v]

\* The committed tables of the course, by what is read of them: the SELECTs on
\* attendance return counts of sessions that are CLOSED.
CourseStates ==
    [scheme : SUBSET CategoryRows,
     assigned : [Items -> [category : CategoryRows, counts : BOOLEAN] \cup {None}],
     maxima : [Items -> MaxGrades],
     grade : [Students \X Items -> GradeValues \cup {None}],
     closed : SUBSET Sessions,
     attended : [Students -> SUBSET Sessions],
     observed : [Students \X Slots -> 0..3 \cup {None}]]

ASSUME CourseAssumption ==
    /\ Courses \subseteq CourseStates /\ GradeValues \subseteq Nat \cup {None}
    /\ MaxGrades \subseteq Nat
    /\ \A d \in Defs : d.weight \in Nat /\ d.blend \in BOOLEAN
    /\ MaxCommits \in Nat
    /\ IsFiniteSet(Defs) /\ IsFiniteSet(Sessions) /\ IsFiniteSet(Slots)

\* At the start, no category comes from a PUT yet to commit; the foreign key of
\* an assignment, at the start and in what a PUT sends.
ASSUME SchemeAssumption ==
    /\ \A x \in Courses :
        /\ \A c \in x.scheme : c.put = 0
        /\ \A i \in Items : x.assigned[i] # None => x.assigned[i].category \in x.scheme
    /\ \A p \in Payloads :
        /\ p.defs \subseteq Defs
        /\ p.assigned \in [Items -> [category : p.defs, counts : BOOLEAN] \cup {None}]

VARIABLES
    course,   \* committed
    commits,  \* commits so far
    reader    \* every request: what it asks, its SELECTs, what it has read

vars == <<course, commits, reader>>

\* The rows each SELECT reads.
StudentPlan ==
    <<{"scheme"}, {"assigned", "maxima", "grade"}, {"closed", "attended"}, {"observed"}>>
GradebookPlan ==
    <<{"scheme"}, {"assigned", "maxima"}, {"grade"}, {"closed"}, {"attended"}, {"observed"}>>

Parts == UNION {StudentPlan[n] : n \in DOMAIN StudentPlan}

\* Mutant: records of OPEN sessions are counted.
ViewOfAll(part, x) ==
    CASE part = "attended" -> [s \in Students |-> Cardinality(x.attended[s])]
      [] part = "closed" -> Cardinality(x.closed)
      [] OTHER -> x[part]

\* What a SELECT returns of a part.
View(part, x) ==
    CASE part = "attended" -> [s \in Students |-> Cardinality(x.attended[s] \cap x.closed)]
      [] part = "closed" -> Cardinality(x.closed)
      [] OTHER -> x[part]

\* asks: a student, or None for the gradebook.  moved: the parts that have
\* changed since the request read them; no code reads it.
Idle == [pc |-> "idle", asks |-> None, selects |-> <<>>, read |-> <<>>, moved |-> {}]

BlendRead(read) == \E c \in read.scheme : c.blend

BlendedScore(read, s) ==
    Blend(AttendanceScore(read.closed, read.attended[s]),
          LET slots == {o \in Slots : read.observed[<<s, o>>] # None} IN
          ParticipationScore([o \in slots |-> read.observed[<<s, o>>]]))

\* The figures of student s from what was read; an item of a category that was
\* not read is grouped under an id nobody looks up.
AnswerFor(read, s) ==
    Evaluation(read.scheme, read.assigned, read.maxima, [i \in Items |-> read.grade[<<s, i>>]],
               IF BlendRead(read) THEN BlendedScore(read, s) ELSE None)

-------------------------------------------------------------------------------

Init ==
    /\ course \in Courses
    /\ commits = 0
    /\ reader = [r \in Readers |-> Idle]

\* The ghost every commit leaves with the requests under way: what it changes of
\* the parts they have read.
Commit(new) ==
    /\ commits < MaxCommits
    /\ commits' = commits + 1
    /\ course' = new
    /\ reader' = [r \in Readers |->
        IF reader[r].pc = "idle" THEN reader[r]
        ELSE [reader[r] EXCEPT !.moved = @ \cup
                {p \in DOMAIN reader[r].read : View(p, new) # View(p, course)}]]

\* A PUT replaces all categories, under new ids, and all assignments.
PutScheme ==
    \E payload \in Payloads :
        Commit([course EXCEPT
            !.scheme = {Row(d, commits + 1) : d \in payload.defs},
            !.assigned = [i \in Items |->
                IF payload.assigned[i] = None THEN None
                ELSE [category |-> Row(payload.assigned[i].category, commits + 1),
                      counts |-> payload.assigned[i].counts]]])

\* What a grades merge may leave in the assignment of an item: what it finds or,
\* of an item without one, a category of grade items whose activity type is the
\* item's; types are left out, so that it may be any.
AfterAutomaticAssignment(i) ==
    IF course.assigned[i] # None THEN {course.assigned[i]}
    ELSE {None} \cup [category : {c \in course.scheme : ~c.blend}, counts : {TRUE}]

\* A grades merge commits, in one transaction, an item's max_grade, its automatic
\* assignment and its grades; no grade is deleted.
MergeGrades ==
    \E s \in Students, i \in Items, g \in GradeValues, m \in MaxGrades :
        \E a \in AfterAutomaticAssignment(i) :
            Commit([course EXCEPT !.assigned[i] = a, !.maxima[i] = m, !.grade[<<s, i>>] = g])

\* An attendance merge opens or closes sessions and adds records.
MergeAttendance ==
    \E closed \in SUBSET Sessions, s \in Students, present \in SUBSET Sessions :
        /\ course.attended[s] \subseteq present
        /\ Commit([course EXCEPT !.closed = closed, !.attended[s] = present])

\* A participation POST or DELETE.
ChangeObservation ==
    \E s \in Students, o \in Slots, v \in 0..3 \cup {None} :
        Commit([course EXCEPT !.observed[<<s, o>>] = v])

Ask(r) ==
    /\ reader[r].pc = "idle"
    /\ \E s \in Students \cup {None} :
        reader' = [reader EXCEPT ![r] = [Idle EXCEPT !.pc = "reading", !.asks = s,
            !.selects = IF s = None THEN GradebookPlan ELSE StudentPlan]]
    /\ UNCHANGED <<course, commits>>

\* All is read.  A student's evaluation leaves attendance and participation out
\* unless the categories have a blend.
Complete(r) ==
    \/ reader[r].selects = <<>>
    \/ Len(reader[r].selects) = 2 /\ reader[r].asks # None /\ ~BlendRead(reader[r].read)

\* Mutant: the SELECT on grades leaves zeros out.
SelectNoZeros(r) ==
    /\ reader[r].pc = "reading" /\ ~Complete(r)
    /\ LET new == Head(reader[r].selects)
           old == DOMAIN reader[r].read
           nonzero == [e \in Students \X Items |->
                        IF course.grade[e] = 0 THEN None ELSE course.grade[e]] IN
       reader' = [reader EXCEPT
        ![r].selects = Tail(@),
        ![r].read = [p \in old \cup new |->
            IF p \notin new THEN reader[r].read[p]
            ELSE IF p = "grade" THEN nonzero ELSE View(p, course)]]
    /\ UNCHANGED <<course, commits>>

\* The next SELECT.
Select(r) ==
    /\ reader[r].pc = "reading" /\ ~Complete(r)
    /\ LET new == Head(reader[r].selects)
           old == DOMAIN reader[r].read IN
       reader' = [reader EXCEPT
        ![r].selects = Tail(@),
        ![r].read = [p \in old \cup new |->
            IF p \in new THEN View(p, course) ELSE reader[r].read[p]]]
    /\ UNCHANGED <<course, commits>>

\* category_position has no entry for the category of an item.
Lost(read) ==
    \E i \in Items :
        read.assigned[i] # None /\ read.assigned[i].category \notin read.scheme

\* The calculation and the answer; the gradebook may fail with KeyError.
Finish(r) ==
    /\ reader[r].pc = "reading" /\ Complete(r)
    /\ reader' = [reader EXCEPT
        ![r].pc = IF reader[r].asks = None /\ Lost(reader[r].read) THEN "failed" ELSE "answered"]
    /\ UNCHANGED <<course, commits>>

Return(r) ==
    /\ reader[r].pc \in {"answered", "failed"}
    /\ reader' = [reader EXCEPT ![r] = Idle]
    /\ UNCHANGED <<course, commits>>

Next ==
    \/ PutScheme
    \/ MergeGrades
    \/ MergeAttendance
    \/ ChangeObservation
    \/ \E r \in Readers : Ask(r) \/ Select(r) \/ Finish(r) \/ Return(r)

Spec == Init /\ [][Next]_vars

-------------------------------------------------------------------------------
(* What the figures ought to be, from the course and not from what was read *)

GradedItems(c, x, s) ==
    {i \in Items : /\ x.assigned[i] # None /\ x.grade[<<s, i>>] # None
                   /\ x.assigned[i].category = c /\ x.assigned[i].counts
                   /\ x.maxima[i] > 0}

Evaluable(c, x, s) ==
    IF c.blend THEN x.closed # {} ELSE GradedItems(c, x, s) # {}

Observed(x, s) == {o \in Slots : x.observed[<<s, o>>] # None}

\* Every graded item, CLOSED session attended and observation brings its share
\* of the category's score.
ExpectedScore(c, x, s) ==
    IF c.blend
    THEN Plus(SumOf([d \in x.attended[s] \cap x.closed |->
                        Fraction(33, Cardinality(x.closed))]),
              SumOf([o \in Observed(x, s) |->
                        Fraction(67 * x.observed[<<s, o>>],
                                 3 * Cardinality(Observed(x, s)))]))
    ELSE SumOf([i \in GradedItems(c, x, s) |->
                    Fraction(100 * x.grade[<<s, i>>],
                             x.maxima[i] * Cardinality(GradedItems(c, x, s)))])

\* r hundredths are q, ties going up.
RoundsTo(q, r) ==
    r # None /\ (2 * r - 1) * q.den <= 200 * q.num /\ 200 * q.num < (2 * r + 1) * q.den

CategoryRight(result, c, x, s) ==
    IF ~Evaluable(c, x, s) THEN result.score = None /\ result.contribution = None
    ELSE /\ RoundsTo(ExpectedScore(c, x, s), result.score)
         /\ RoundsTo(Times(ExpectedScore(c, x, s), Fraction(c.weight, 10000)),
                     result.contribution)

\* The current grade is the mean of the category scores, weighted by what can be
\* evaluated so far.
IsEvaluation(a, x, s) ==
    LET evaluable == {c \in x.scheme : Evaluable(c, x, s)}
        weight == SumOf([c \in evaluable |-> Fraction(c.weight, 1)]).num IN
    /\ DOMAIN a.results = x.scheme
    /\ \A c \in x.scheme : CategoryRight(a.results[c], c, x, s)
    /\ a.weight = weight
    /\ IF weight = 0 THEN a.current = None
       ELSE RoundsTo(SumOf([c \in evaluable |->
                        Times(ExpectedScore(c, x, s), Fraction(c.weight, weight))]),
                     a.current)

-------------------------------------------------------------------------------
(* Properties *)

Asked(r) == IF reader[r].asks = None THEN Students ELSE {reader[r].asks}

PartsOf(c) ==
    IF c.blend THEN {"scheme", "closed", "attended", "observed"}
    ELSE {"scheme", "assigned", "maxima", "grade"}

\* What one statement would read of everything.
Committed(x) == [p \in Parts |-> View(p, x)]

\* evaluation_service.py, "both always produce identical numbers": when nothing
\* changes while a request reads, the student's evaluation and the gradebook
\* answer what the calculation makes of the committed course; a category is
\* right whenever what it depends on did not change once read.  The gradebook
\* fails only when the scheme was replaced after it had read the categories.
QuietAnswers ==
    \A r \in Readers :
        /\ reader[r].pc = "answered" => \A s \in Asked(r) :
            LET shown == AnswerFor(reader[r].read, s)
                now == AnswerFor(Committed(course), s) IN
            /\ reader[r].moved = {} => shown = now
            /\ \A c \in reader[r].read.scheme :
                reader[r].moved \cap PartsOf(c) = {} =>
                    /\ c \in course.scheme
                    /\ shown.results[c].score = now.results[c].score
                    /\ shown.results[c].contribution = now.results[c].contribution
        /\ reader[r].pc = "failed" => "scheme" \in reader[r].moved

\* A request asked now and not disturbed answers figures that are, to the
\* hundredth, what they ought to be.
FiguresRight ==
    \A r \in Readers : reader[r].pc = "idle" =>
        \A s \in Students : IsEvaluation(AnswerFor(Committed(course), s), course, s)

\* Every figure is rounded on its own, from exact values: those of one answer
\* still belong together within the halves they have lost, whatever was read.
FiguresFit(a) ==
    LET scored == {c \in DOMAIN a.results : a.results[c].score # None}
        sum == Total([c \in scored |-> a.results[c].contribution]) IN
    /\ 2 * (a.points - sum) \in -(Cardinality(scored) + 1)..(Cardinality(scored) + 1)
    /\ \A c \in scored : ShareFits(c.weight, a.results[c].score, a.results[c].contribution)
    /\ IF \A c \in scored : c.weight = 0
       THEN a.current = None /\ a.outOfTen = None
       ELSE /\ TenthFits(a.current, a.outOfTen)
            /\ \E c, d \in scored : /\ c.weight # 0 /\ d.weight # 0
                                    /\ a.results[c].score <= a.current
                                    /\ a.current <= a.results[d].score

AnswersFit ==
    \A r \in Readers : reader[r].pc = "answered" =>
        \A s \in Asked(r) : FiguresFit(AnswerFor(reader[r].read, s))

\* A student's evaluation, one SELECT of both counts, never has more sessions
\* attended than CLOSED ones; the gradebook, which counts CLOSED sessions first,
\* has them only when the attendance synchronisation changed that count between
\* its two SELECTs: it must have changed in the very state after the second.
AttendanceAboveNeedsRace ==
    \A r \in Readers : reader[r].pc # "idle" =>
        \A s \in Asked(r) :
            /\ {"closed", "attended"} \subseteq DOMAIN reader[r].read
            /\ reader[r].read.attended[s] > reader[r].read.closed
            => reader[r].asks = None /\ "closed" \in reader[r].moved

CurrentOf(x, s) == AnswerFor(Committed(x), s).current

\* A better grade for an item that already had one never lowers the current
\* grade; None counts as no grade and 0 as a zero.
BetterGradeNeverLowers ==
    [][\A s \in Students, i \in Items :
        LET old == course.grade[<<s, i>>]
            new == course'.grade[<<s, i>>] IN
        /\ course' = [course EXCEPT !.grade[<<s, i>>] = new]
        /\ old # None /\ new # None /\ new > old
        /\ CurrentOf(course, s) # None
        => CurrentOf(course', s) >= CurrentOf(course, s)]_vars
===============================================================================
