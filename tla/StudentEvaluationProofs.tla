----------------------- MODULE StudentEvaluationProofs -----------------------
(***************************************************************************)
(* Theorems about StudentEvaluation, for any number of students, items,    *)
(* sessions, requests and commits: what a request has read in several      *)
(* SELECTs, and what its answer still shares with the course.              *)
(***************************************************************************)
EXTENDS StudentEvaluation, EvaluationCalcProofs

-------------------------------------------------------------------------------
(* The invariant *)

PartNames == {"scheme", "assigned", "maxima", "grade", "closed", "attended", "observed"}

\* The committed course: assignments are to its categories, whose ids are those
\* of PUTs committed by now.
CourseOK(x, n) ==
    /\ x \in CourseStates
    /\ \A i \in Items : x.assigned[i] # None => x.assigned[i].category \in x.scheme
    /\ \A c \in x.scheme : c.put <= n

PlanOf(m) == IF m.asks = None THEN GradebookPlan ELSE StudentPlan

\* The SELECTs to come are the rest of the request's plan, and the parts it has
\* read those of the SELECTs before.
Underway(m) ==
    LET plan == PlanOf(m)
        past == Len(plan) - Len(m.selects) IN
    /\ Len(m.selects) <= Len(plan)
    /\ \A n \in 1..Len(m.selects) : m.selects[n] = plan[past + n]
    /\ DOMAIN m.read = UNION {plan[n] : n \in 1..past}

\* A part that has not changed since it was read was read as it is.
Faithful(m) == \A p \in DOMAIN m.read \ m.moved : m.read[p] = View(p, course)

\* Assignments are read after the categories, and are to them unless the scheme
\* was replaced in between or later.
AssignedToRead(m) ==
    "assigned" \in DOMAIN m.read /\ "scheme" \notin m.moved =>
        "scheme" \in DOMAIN m.read /\ ~Lost(m.read)

\* Both counts of sessions are read in one SELECT, or the CLOSED sessions have not
\* changed between the two.
CountsTogether(m) ==
    /\ {"closed", "attended"} \subseteq DOMAIN m.read
    /\ m.asks # None \/ "closed" \notin m.moved
    =>  /\ m.read["closed"] \in Nat
        /\ \A s \in Students : m.read["attended"][s] \in 0..m.read["closed"]

\* What an answered or failed request had read.
Ended(m) ==
    /\ m.pc \in {"answered", "failed"} =>
        \/ m.selects = <<>>
        \/ Len(m.selects) = 2 /\ m.asks # None /\ ~BlendRead(m.read)
    /\ m.pc = "failed" => m.asks = None /\ Lost(m.read)

RequestShape(m) ==
    /\ m = [pc |-> m.pc, asks |-> m.asks, selects |-> m.selects, read |-> m.read,
            moved |-> m.moved]
    /\ m.pc \in {"idle", "reading", "answered", "failed"}
    /\ m.asks \in Students \cup {None}
    /\ m.selects \in Seq(SUBSET PartNames)
    /\ m.read = [p \in DOMAIN m.read |-> m.read[p]]

RequestOK(m) ==
    /\ RequestShape(m)
    /\ m.pc # "idle" =>
        Underway(m) /\ Faithful(m) /\ AssignedToRead(m) /\ CountsTogether(m)
    /\ Ended(m)

EvaluationInv ==
    /\ commits \in 0..MaxCommits
    /\ CourseOK(course, commits)
    /\ reader = [r \in Readers |-> reader[r]]
    /\ \A r \in Readers : RequestOK(reader[r])

-------------------------------------------------------------------------------
(* Plans and views *)

LEMMA Plans ==
    /\ StudentPlan \in Seq(SUBSET PartNames) /\ Len(StudentPlan) = 4
    /\ GradebookPlan \in Seq(SUBSET PartNames) /\ Len(GradebookPlan) = 6
    /\ \A n \in 1..4 : "closed" \in StudentPlan[n] <=> "attended" \in StudentPlan[n]
    /\ StudentPlan[1] = {"scheme"} /\ GradebookPlan[1] = {"scheme"}
    /\ \A n \in 1..4, k \in 1..4 :
        k < n /\ "attended" \in StudentPlan[k] => "closed" \notin StudentPlan[n]
    /\ \A n \in 1..6, k \in 1..6 :
        k < n /\ "attended" \in GradebookPlan[k] => "closed" \notin GradebookPlan[n]
    /\ UNION {StudentPlan[n] : n \in 1..4} = PartNames
    /\ UNION {StudentPlan[n] : n \in 1..2} = {"scheme", "assigned", "maxima", "grade"}
    /\ UNION {GradebookPlan[n] : n \in 1..6} = PartNames
    /\ Parts = PartNames
<1>1. StudentPlan \in Seq(SUBSET PartNames) /\ GradebookPlan \in Seq(SUBSET PartNames)
    BY DEF StudentPlan, GradebookPlan, PartNames
<1>2. Len(StudentPlan) = 4 /\ Len(GradebookPlan) = 6
    BY DEF StudentPlan, GradebookPlan
<1>3. /\ StudentPlan[1] = {"scheme"} /\ StudentPlan[2] = {"assigned", "maxima", "grade"}
      /\ StudentPlan[3] = {"closed", "attended"} /\ StudentPlan[4] = {"observed"}
    BY DEF StudentPlan
<1>4. /\ GradebookPlan[1] = {"scheme"} /\ GradebookPlan[2] = {"assigned", "maxima"}
      /\ GradebookPlan[3] = {"grade"} /\ GradebookPlan[4] = {"closed"}
      /\ GradebookPlan[5] = {"attended"} /\ GradebookPlan[6] = {"observed"}
    BY DEF GradebookPlan
<1>5. 1..4 = {1, 2, 3, 4} /\ 1..2 = {1, 2} /\ 1..6 = {1, 2, 3, 4, 5, 6}
    OBVIOUS
<1>6. \A n \in 1..4 : "closed" \in StudentPlan[n] <=> "attended" \in StudentPlan[n]
    BY <1>3, <1>5
<1>7. /\ UNION {StudentPlan[n] : n \in 1..4} = PartNames
      /\ UNION {StudentPlan[n] : n \in 1..2} = {"scheme", "assigned", "maxima", "grade"}
    BY <1>3, <1>5 DEF PartNames
<1>8. UNION {GradebookPlan[n] : n \in 1..6} = PartNames
    BY <1>4, <1>5 DEF PartNames
<1>9. DOMAIN StudentPlan = 1..4
    BY <1>1, <1>2
<1>10. \A n \in 1..4, k \in 1..4 :
        k < n /\ "attended" \in StudentPlan[k] => "closed" \notin StudentPlan[n]
    BY <1>3, <1>5
<1>11. \A n \in 1..6, k \in 1..6 :
        k < n /\ "attended" \in GradebookPlan[k] => "closed" \notin GradebookPlan[n]
    BY <1>4, <1>5
<1> QED
    BY <1>1, <1>2, <1>3, <1>4, <1>6, <1>7, <1>8, <1>9, <1>10, <1>11 DEF Parts

\* Everything but the attendance is read as it is stored.
LEMMA Views ==
    ASSUME NEW x
    PROVE  /\ View("scheme", x) = x.scheme /\ View("assigned", x) = x.assigned
           /\ View("grade", x) = x.grade /\ View("observed", x) = x.observed
           /\ View("maxima", x) = x.maxima
           /\ View("closed", x) = Cardinality(x.closed)
           /\ View("attended", x) = [s \in Students |-> Cardinality(x.attended[s] \cap x.closed)]
BY DEF View

\* Nobody attended more CLOSED sessions than there are.
LEMMA AttendedAreClosed ==
    ASSUME NEW x \in CourseStates
    PROVE  /\ View("closed", x) \in Nat
           /\ \A s \in Students : View("attended", x)[s] \in 0..View("closed", x)
<1>1. IsFiniteSet(x.closed)
    BY CourseAssumption, FS_Subset DEF CourseStates
<1>2. ASSUME NEW s \in Students
      PROVE  Cardinality(x.attended[s] \cap x.closed) \in 0..Cardinality(x.closed)
    <2>1. /\ IsFiniteSet(x.attended[s] \cap x.closed)
          /\ Cardinality(x.attended[s] \cap x.closed) <= Cardinality(x.closed)
        BY <1>1, FS_Subset
    <2> QED
        BY <1>1, <2>1, FS_CardinalityType
<1> QED
    BY <1>1, <1>2, FS_CardinalityType, Views

-------------------------------------------------------------------------------
(* Requests *)

LEMMA PlanLaws ==
    ASSUME NEW m
    PROVE  /\ PlanOf(m) \in Seq(SUBSET PartNames) /\ Len(PlanOf(m)) \in {4, 6}
           /\ UNION {PlanOf(m)[n] : n \in 1..Len(PlanOf(m))} = PartNames
           /\ PlanOf(m)[1] = {"scheme"}
           /\ \A n, k \in 1..Len(PlanOf(m)) :
                k < n /\ "attended" \in PlanOf(m)[k] => "closed" \notin PlanOf(m)[n]
<1>1. \A plan \in {GradebookPlan, StudentPlan} :
        /\ plan \in Seq(SUBSET PartNames) /\ Len(plan) \in {4, 6}
        /\ UNION {plan[n] : n \in 1..Len(plan)} = PartNames
        /\ plan[1] = {"scheme"}
        /\ \A n, k \in 1..Len(plan) :
            k < n /\ "attended" \in plan[k] => "closed" \notin plan[n]
    <2>1. UNION {StudentPlan[n] : n \in 1..Len(StudentPlan)} = PartNames
        BY Plans
    <2>2. UNION {GradebookPlan[n] : n \in 1..Len(GradebookPlan)} = PartNames
        BY Plans
    <2>3. \A n, k \in 1..Len(StudentPlan) :
            k < n /\ "attended" \in StudentPlan[k] => "closed" \notin StudentPlan[n]
        <3>1. Len(StudentPlan) = 4
            BY Plans
        <3> QED
            BY <3>1, Plans
    <2>4. \A n, k \in 1..Len(GradebookPlan) :
            k < n /\ "attended" \in GradebookPlan[k] => "closed" \notin GradebookPlan[n]
        <3>1. Len(GradebookPlan) = 6
            BY Plans
        <3> QED
            BY <3>1, Plans
    <2>5. \A plan \in {GradebookPlan, StudentPlan} :
            /\ plan \in Seq(SUBSET PartNames) /\ Len(plan) \in {4, 6}
            /\ plan[1] = {"scheme"}
        BY Plans
    <2> QED
        BY <2>1, <2>2, <2>3, <2>4, <2>5
<1>2. PlanOf(m) \in {GradebookPlan, StudentPlan}
    BY DEF PlanOf
<1> HIDE DEF PlanOf
<1> QED
    BY <1>1, <1>2

\* What a request has read, by the SELECTs it has left.
LEMMA ReadSoFar ==
    ASSUME NEW m, m.selects \in Seq(SUBSET PartNames), Underway(m)
    PROVE  /\ Len(m.selects) \in 0..Len(PlanOf(m))
           /\ DOMAIN m.read \subseteq PartNames
           /\ m.selects = <<>> => DOMAIN m.read = PartNames
           /\ Len(m.selects) = 2 /\ m.asks # None
                => DOMAIN m.read = {"scheme", "assigned", "maxima", "grade"}
<1> DEFINE plan == PlanOf(m)
           past == Len(plan) - Len(m.selects)
<1>1. Len(m.selects) \in Nat /\ Len(plan) \in {4, 6}
    BY PlanLaws
<1>2. /\ Len(m.selects) <= Len(plan)
      /\ DOMAIN m.read = UNION {plan[n] : n \in 1..past}
    BY DEF Underway
<1>3. past \in 0..Len(plan)
    BY <1>1, <1>2
<1>4. DOMAIN m.read \subseteq PartNames
    <2>1. \A n \in 1..past : plan[n] \subseteq PartNames
        BY <1>1, <1>3, PlanLaws
    <2> HIDE DEF plan, past
    <2> QED
        BY <1>2, <2>1
<1>5. m.selects = <<>> => DOMAIN m.read = PartNames
    <2>1. m.selects = <<>> => past = Len(plan)
        BY <1>1
    <2> QED
        BY <1>2, <2>1, PlanLaws
<1>6. Len(m.selects) = 2 /\ m.asks # None => DOMAIN m.read = {"scheme", "assigned", "maxima", "grade"}
    <2>1. m.asks # None => plan = StudentPlan
        BY DEF PlanOf
    <2>2. m.asks # None /\ Len(m.selects) = 2 => past = 2
        BY <2>1, Plans
    <2>3. UNION {StudentPlan[n] : n \in 1..2} = {"scheme", "assigned", "maxima", "grade"}
        BY Plans
    <2> HIDE DEF plan, past
    <2> QED
        BY <1>2, <2>1, <2>2, <2>3
<1> QED
    BY <1>1, <1>2, <1>4, <1>5, <1>6

-------------------------------------------------------------------------------
(* Commits *)

\* What a commit has to keep for the requests under way.
LEMMA CommitKeeps ==
    ASSUME EvaluationInv, NEW new, Commit(new), CourseOK(new, commits + 1)
    PROVE  EvaluationInv'
<1>1. /\ commits < MaxCommits /\ commits' = commits + 1 /\ course' = new
      /\ commits' \in 0..MaxCommits
    BY CourseAssumption DEF Commit, EvaluationInv
<1>2. \A r \in Readers :
        reader'[r] = IF reader[r].pc = "idle" THEN reader[r]
                     ELSE [reader[r] EXCEPT !.moved = @ \cup
                            {p \in DOMAIN reader[r].read : View(p, new) # View(p, course)}]
    BY DEF Commit
<1>3. reader' = [r \in Readers |-> reader'[r]]
    BY DEF Commit
<1>4. ASSUME NEW r \in Readers
      PROVE  RequestOK(reader[r])'
    <2> DEFINE m == reader[r]
    <2>1. RequestOK(m)
        BY DEF EvaluationInv
    <2>2. CASE m.pc = "idle"
        BY <1>2, <2>1, <2>2 DEF RequestOK, RequestShape, Ended
    <2>3. CASE m.pc # "idle"
        <3> DEFINE changed == {p \in DOMAIN m.read : View(p, new) # View(p, course)}
        <3>1. /\ reader'[r] = [pc |-> m.pc, asks |-> m.asks, selects |-> m.selects,
                               read |-> m.read, moved |-> m.moved \cup changed]
              /\ reader'[r].pc = m.pc /\ reader'[r].asks = m.asks
              /\ reader'[r].selects = m.selects /\ reader'[r].read = m.read
              /\ reader'[r].moved = m.moved \cup changed
            BY <1>2, <2>1, <2>3 DEF RequestOK, RequestShape
        <3>2. Faithful(m)'
            <4>1. ASSUME NEW p \in DOMAIN m.read, p \notin m.moved \cup changed
                  PROVE  m.read[p] = View(p, new)
                BY <2>1, <2>3, <4>1 DEF RequestOK, Faithful
            <4> HIDE DEF changed
            <4> QED
                BY <1>1, <3>1, <4>1 DEF Faithful
        <3> HIDE DEF changed
        <3> DEFINE n == [pc |-> m.pc, asks |-> m.asks, selects |-> m.selects,
                         read |-> m.read, moved |-> m.moved \cup changed]
        <3>3. /\ RequestShape(n) /\ Underway(n) /\ AssignedToRead(n)
              /\ CountsTogether(n) /\ Ended(n)
            <4>1. RequestShape(n)
                BY <2>1, <2>3 DEF RequestOK, RequestShape
            <4>2. Underway(n)
                BY <2>1, <2>3 DEF RequestOK, Underway, PlanOf
            <4>3. CountsTogether(n)
                BY <2>1, <2>3 DEF RequestOK, CountsTogether
            <4>4. Ended(n)
                BY <2>1, <2>3 DEF RequestOK, Ended
            <4>5. AssignedToRead(n)
                BY <2>1, <2>3 DEF RequestOK, AssignedToRead
            <4> QED
                BY <4>1, <4>2, <4>3, <4>4, <4>5
        <3> QED
            <4>1. reader'[r] = n
                BY <3>1
            <4> HIDE DEF n
            <4>2. /\ RequestShape(reader[r])' /\ Underway(reader[r])'
                  /\ AssignedToRead(reader[r])' /\ CountsTogether(reader[r])'
                  /\ Ended(reader[r])'
                BY <3>3, <4>1
            <4> QED
                BY <3>2, <4>2 DEF RequestOK
    <2> QED
        BY <2>2, <2>3
<1> QED
    BY <1>1, <1>3, <1>4 DEF EvaluationInv

\* A replaced scheme has new ids, and its assignments are to them.
LEMMA PutSchemeKeeps ==
    ASSUME EvaluationInv, PutScheme
    PROVE  EvaluationInv'
<1>1. PICK payload \in Payloads :
        Commit([course EXCEPT
            !.scheme = {Row(d, commits + 1) : d \in payload.defs},
            !.assigned = [i \in Items |->
                IF payload.assigned[i] = None THEN None
                ELSE [category |-> Row(payload.assigned[i].category, commits + 1),
                      counts |-> payload.assigned[i].counts]]])
    BY DEF PutScheme
<1> DEFINE scheme == {Row(d, commits + 1) : d \in payload.defs}
           assigned == [i \in Items |->
                IF payload.assigned[i] = None THEN None
                ELSE [category |-> Row(payload.assigned[i].category, commits + 1),
                      counts |-> payload.assigned[i].counts]]
           new == [course EXCEPT !.scheme = scheme, !.assigned = assigned]
<1>2. /\ course \in CourseStates /\ commits \in Nat /\ commits + 1 \in Versions
    <2>1. commits < MaxCommits
        BY <1>1 DEF Commit
    <2> QED
        BY <2>1, CourseAssumption DEF EvaluationInv, CourseOK, Versions
<1>3. /\ payload.defs \subseteq Defs
      /\ payload.assigned \in [Items -> [category : payload.defs, counts : BOOLEAN]
                                            \cup {None}]
    BY SchemeAssumption
<1>4. \A d \in Defs : Row(d, commits + 1) \in CategoryRows
    BY <1>2 DEF Row, CategoryRows
<1>5. scheme \subseteq CategoryRows
    BY <1>3, <1>4
<1>6. \A i \in Items : payload.assigned[i] # None =>
        /\ payload.assigned[i].category \in payload.defs
        /\ payload.assigned[i].counts \in BOOLEAN
    BY <1>3
<1>7. assigned \in [Items -> [category : CategoryRows, counts : BOOLEAN] \cup {None}]
    BY <1>3, <1>4, <1>6
<1>8. \A i \in Items : assigned[i] # None => assigned[i].category \in scheme
    BY <1>6
<1>9. \A c \in scheme : c.put = commits + 1
    BY DEF Row
<1> HIDE DEF scheme, assigned
<1>10. new \in CourseStates /\ new.scheme = scheme /\ new.assigned = assigned
    BY <1>2, <1>5, <1>7 DEF CourseStates
<1>11. CourseOK(new, commits + 1)
    BY <1>2, <1>8, <1>9, <1>10 DEF CourseOK
<1> QED
    BY <1>1, <1>11, CommitKeeps DEF scheme, assigned

\* The other commits leave the categories alone, and assign items to them.
LEMMA OtherCommitKeeps ==
    ASSUME EvaluationInv, MergeGrades \/ MergeAttendance \/ ChangeObservation
    PROVE  EvaluationInv'
<1>1. course \in CourseStates /\ CourseOK(course, commits) /\ commits \in Int
    BY CourseAssumption DEF EvaluationInv, CourseOK
<1>2. ASSUME NEW new \in CourseStates, Commit(new),
             new.scheme = course.scheme,
             \A i \in Items : new.assigned[i] # None =>
                                new.assigned[i].category \in course.scheme
      PROVE  EvaluationInv'
    <2>1. \A c \in course.scheme : c.put \in Nat
        BY <1>1 DEF CourseStates, CategoryRows, Versions
    <2>2. CourseOK(new, commits + 1)
        BY <1>1, <1>2, <2>1 DEF CourseOK
    <2> QED
        BY <1>2, <2>2, CommitKeeps
<1>3. CASE MergeGrades
    <2>1. PICK s \in Students, i \in Items, g \in GradeValues, m \in MaxGrades :
            \E a \in AfterAutomaticAssignment(i) :
                Commit([course EXCEPT !.assigned[i] = a, !.maxima[i] = m,
                                      !.grade[<<s, i>>] = g])
        BY <1>3 DEF MergeGrades
    <2>2. PICK a \in AfterAutomaticAssignment(i) :
            Commit([course EXCEPT !.assigned[i] = a, !.maxima[i] = m, !.grade[<<s, i>>] = g])
        BY <2>1
    <2>3. /\ a \in [category : CategoryRows, counts : BOOLEAN] \cup {None}
          /\ a # None => a.category \in course.scheme
        <3>1. /\ course.scheme \subseteq CategoryRows
              /\ course.assigned[i] \in [category : CategoryRows, counts : BOOLEAN] \cup {None}
              /\ course.assigned[i] # None => course.assigned[i].category \in course.scheme
            BY <1>1 DEF CourseOK, CourseStates
        <3>2. CASE course.assigned[i] # None
            BY <3>1, <3>2 DEF AfterAutomaticAssignment
        <3>3. CASE course.assigned[i] = None
            BY <3>1, <3>3 DEF AfterAutomaticAssignment
        <3> QED
            BY <3>2, <3>3
    <2> DEFINE new == [course EXCEPT !.assigned[i] = a, !.maxima[i] = m,
                                     !.grade[<<s, i>>] = g]
    <2>4. new \in CourseStates /\ new.scheme = course.scheme
        BY <1>1, <2>3 DEF CourseStates
    <2>5. \A j \in Items : new.assigned[j] = IF j = i THEN a ELSE course.assigned[j]
        BY <1>1 DEF CourseStates
    <2> HIDE DEF new
    <2>6. \A j \in Items : new.assigned[j] # None =>
                                new.assigned[j].category \in course.scheme
        BY <1>1, <2>3, <2>5 DEF CourseOK
    <2> QED
        BY <1>2, <2>2, <2>4, <2>6 DEF new
<1>4. CASE MergeAttendance
    <2>1. PICK closed \in SUBSET Sessions, s \in Students, present \in SUBSET Sessions :
            Commit([course EXCEPT !.closed = closed, !.attended[s] = present])
        BY <1>4 DEF MergeAttendance
    <2> DEFINE new == [course EXCEPT !.closed = closed, !.attended[s] = present]
    <2>2. new \in CourseStates /\ new.scheme = course.scheme /\ new.assigned = course.assigned
        BY <1>1 DEF CourseStates
    <2> QED
        BY <1>1, <1>2, <2>1, <2>2 DEF CourseOK
<1>5. CASE ChangeObservation
    <2>1. PICK s \in Students, o \in Slots, v \in 0..3 \cup {None} :
            Commit([course EXCEPT !.observed[<<s, o>>] = v])
        BY <1>5 DEF ChangeObservation
    <2> DEFINE new == [course EXCEPT !.observed[<<s, o>>] = v]
    <2>2. new \in CourseStates /\ new.scheme = course.scheme /\ new.assigned = course.assigned
        BY <1>1 DEF CourseStates
    <2> QED
        BY <1>1, <1>2, <2>1, <2>2 DEF CourseOK
<1> QED
    BY <1>3, <1>4, <1>5

-------------------------------------------------------------------------------
(* Steps of a request *)

LEMMA RequestKeeps ==
    ASSUME EvaluationInv, UNCHANGED <<course, commits>>, NEW r \in Readers, NEW n,
           reader' = [reader EXCEPT ![r] = n], RequestOK(n)
    PROVE  EvaluationInv'
<1>1. reader' = [q \in Readers |-> IF q = r THEN n ELSE reader[q]]
    BY DEF EvaluationInv
<1>2. ASSUME NEW q \in Readers
      PROVE  RequestOK(reader[q])'
    <2>1. RequestOK(reader'[q])
        BY <1>1 DEF EvaluationInv
    <2>2. UNCHANGED course
        OBVIOUS
    <2>3. Faithful(reader'[q]) <=> Faithful(reader[q])'
        BY <2>2 DEF Faithful
    <2> QED
        BY <2>1, <2>3 DEF RequestOK
<1> QED
    BY <1>1, <1>2 DEF EvaluationInv

\* A request starts with all of its plan before it.
LEMMA AskKeeps ==
    ASSUME EvaluationInv, NEW r \in Readers, Ask(r)
    PROVE  EvaluationInv'
<1>1. PICK s \in Students \cup {None} :
        reader' = [reader EXCEPT ![r] = [Idle EXCEPT !.pc = "reading", !.asks = s,
            !.selects = IF s = None THEN GradebookPlan ELSE StudentPlan]]
    BY DEF Ask
<1> DEFINE n == [Idle EXCEPT !.pc = "reading", !.asks = s,
                    !.selects = IF s = None THEN GradebookPlan ELSE StudentPlan]
<1>2. n = [pc |-> "reading", asks |-> s,
           selects |-> IF s = None THEN GradebookPlan ELSE StudentPlan,
           read |-> <<>>, moved |-> {}]
    <2>1. DOMAIN n = {"pc", "asks", "selects", "read", "moved"} /\ n = [f \in DOMAIN n |-> n[f]]
        BY DEF Idle
    <2>2. /\ n.pc = "reading" /\ n.asks = s /\ n.read = <<>> /\ n.moved = {}
          /\ n.selects = IF s = None THEN GradebookPlan ELSE StudentPlan
        BY DEF Idle
    <2> HIDE DEF n
    <2> QED
        BY <2>1, <2>2
<1>3. /\ n.pc = "reading" /\ n.asks = s /\ n.selects = PlanOf(n) /\ n.read = <<>>
      /\ n.moved = {} /\ n = [pc |-> n.pc, asks |-> n.asks, selects |-> n.selects,
                              read |-> n.read, moved |-> n.moved]
    <2> HIDE DEF n
    <2> QED
        BY <1>2 DEF PlanOf
<1> HIDE DEF n
<1>4. DOMAIN n.read = {} /\ n.read = [p \in DOMAIN n.read |-> n.read[p]]
    BY <1>3
<1>5. RequestShape(n)
    BY <1>3, <1>4, PlanLaws DEF RequestShape
<1>6. Underway(n)
    <2>1. Len(n.selects) \in Nat /\ Len(PlanOf(n)) = Len(n.selects)
        BY <1>3, PlanLaws
    <2>2. \A k \in 1..Len(n.selects) : n.selects[k] = PlanOf(n)[0 + k]
        BY <1>3
    <2>3. Len(PlanOf(n)) - Len(n.selects) = 0 /\ 1..0 = {}
        BY <2>1
    <2> QED
        BY <1>4, <2>1, <2>2, <2>3 DEF Underway
<1>7. Faithful(n) /\ AssignedToRead(n) /\ CountsTogether(n) /\ Ended(n)
    BY <1>3, <1>4 DEF Faithful, AssignedToRead, CountsTogether, Ended
<1>8. RequestOK(n)
    BY <1>5, <1>6, <1>7 DEF RequestOK
<1>9. reader' = [reader EXCEPT ![r] = n] /\ UNCHANGED <<course, commits>>
    BY <1>1 DEF Ask, n
<1> QED
    BY <1>8, <1>9, RequestKeeps

\* The plan of a request, one SELECT later.
LEMMA PlanMoves ==
    ASSUME NEW plan \in Seq(SUBSET PartNames), NEW selects \in Seq(SUBSET PartNames),
           selects # <<>>, Len(selects) <= Len(plan),
           \A k \in 1..Len(selects) : selects[k] = plan[Len(plan) - Len(selects) + k]
    PROVE  LET past == Len(plan) - Len(selects) IN
           /\ past + 1 \in 1..Len(plan)
           /\ Head(selects) = plan[past + 1] /\ Head(selects) \subseteq PartNames
           /\ Tail(selects) \in Seq(SUBSET PartNames)
           /\ Len(Tail(selects)) <= Len(plan)
           /\ Len(plan) - Len(Tail(selects)) = past + 1
           /\ \A k \in 1..Len(Tail(selects)) : Tail(selects)[k] = plan[past + 1 + k]
           /\ (UNION {plan[k] : k \in 1..past}) \cup Head(selects)
                = UNION {plan[k] : k \in 1..past + 1}
<1> DEFINE past == Len(plan) - Len(selects)
<1>1. Len(plan) \in Nat /\ Len(selects) \in Nat /\ Len(selects) >= 1 /\ past \in Nat
    OBVIOUS
<1>2. Len(Tail(selects)) = Len(selects) - 1 /\ Tail(selects) \in Seq(SUBSET PartNames)
    OBVIOUS
<1>3. past + 1 \in 1..Len(plan) /\ Len(plan) - Len(Tail(selects)) = past + 1
    BY <1>1, <1>2
<1>4. Head(selects) = selects[1] /\ Head(selects) \subseteq PartNames
    OBVIOUS
<1>5. selects[1] = plan[past + 1]
    BY <1>1
<1>6. ASSUME NEW k \in 1..Len(Tail(selects))
      PROVE  Tail(selects)[k] = plan[past + 1 + k]
    <2>1. Tail(selects)[k] = selects[k + 1] /\ k + 1 \in 1..Len(selects)
        BY <1>1, <1>2
    <2>2. selects[k + 1] = plan[past + (k + 1)]
        BY <2>1
    <2>3. past + (k + 1) = past + 1 + k
        BY <1>1
    <2> QED
        BY <2>1, <2>2, <2>3
<1>7. 1..past + 1 = (1..past) \cup {past + 1}
    BY <1>1
<1>8. (UNION {plan[k] : k \in 1..past}) \cup plan[past + 1] = UNION {plan[k] : k \in 1..past + 1}
    <2> HIDE DEF past
    <2> QED
        BY <1>7
<1> QED
    BY <1>1, <1>2, <1>3, <1>4, <1>5, <1>6, <1>8

\* A SELECT reads the next parts of the plan from the course of its own snapshot.
LEMMA SelectKeeps ==
    ASSUME EvaluationInv, NEW r \in Readers, Select(r)
    PROVE  EvaluationInv'
<1> DEFINE m == reader[r]
           new == Head(m.selects)
           old == DOMAIN m.read
           got == [p \in old \cup new |-> IF p \in new THEN View(p, course) ELSE m.read[p]]
           n == [pc |-> m.pc, asks |-> m.asks, selects |-> Tail(m.selects),
                 read |-> got, moved |-> m.moved]
           plan == PlanOf(m)
           past == Len(plan) - Len(m.selects)
<1>1. /\ RequestOK(m) /\ m.pc = "reading" /\ m.selects # <<>>
      /\ RequestShape(m) /\ Underway(m) /\ Faithful(m)
      /\ AssignedToRead(m) /\ CountsTogether(m)
      /\ m.selects \in Seq(SUBSET PartNames)
    BY DEF EvaluationInv, Select, Complete, RequestOK, RequestShape
<1>2. reader' = [reader EXCEPT ![r] = n] /\ UNCHANGED <<course, commits>>
    <2>1. reader' = [reader EXCEPT ![r].selects = Tail(@), ![r].read = got]
        BY DEF Select
    <2>2. reader = [q \in Readers |-> reader[q]]
        BY DEF EvaluationInv
    <2>3. reader' = [reader EXCEPT ![r] = [m EXCEPT !.selects = Tail(m.selects), !.read = got]]
        BY <2>1, <2>2
    <2>4. [m EXCEPT !.selects = Tail(m.selects), !.read = got] = n
        <3>1. m = [pc |-> m.pc, asks |-> m.asks, selects |-> m.selects, read |-> m.read,
                   moved |-> m.moved]
            BY <1>1 DEF RequestShape
        <3> DEFINE e == [m EXCEPT !.selects = Tail(m.selects), !.read = got]
        <3> HIDE DEF m, got
        <3>2. DOMAIN e = {"pc", "asks", "selects", "read", "moved"} /\ e = [f \in DOMAIN e |-> e[f]]
            BY <3>1
        <3>3. /\ e.pc = m.pc /\ e.asks = m.asks /\ e.selects = Tail(m.selects)
              /\ e.read = got /\ e.moved = m.moved
            BY <3>1
        <3> HIDE DEF e
        <3>4. e = n
            BY <3>2, <3>3
        <3> QED
            BY <3>4 DEF e
    <2> HIDE DEF n, got
    <2> QED
        BY <2>3, <2>4 DEF Select
<1>3. /\ n.pc = m.pc /\ n.asks = m.asks /\ n.selects = Tail(m.selects) /\ n.read = got
      /\ n.moved = m.moved /\ PlanOf(n) = plan
      /\ n = [pc |-> n.pc, asks |-> n.asks, selects |-> n.selects, read |-> n.read,
              moved |-> n.moved]
    BY DEF PlanOf
<1>4. /\ past + 1 \in 1..Len(plan) /\ new = plan[past + 1] /\ new \subseteq PartNames
      /\ Tail(m.selects) \in Seq(SUBSET PartNames)
      /\ Len(Tail(m.selects)) <= Len(plan) /\ Len(plan) - Len(Tail(m.selects)) = past + 1
      /\ \A k \in 1..Len(Tail(m.selects)) : Tail(m.selects)[k] = plan[past + 1 + k]
      /\ old \cup new = UNION {plan[k] : k \in 1..past + 1}
    <2>1. /\ Len(m.selects) <= Len(plan) /\ plan \in Seq(SUBSET PartNames)
          /\ \A k \in 1..Len(m.selects) : m.selects[k] = plan[past + k]
          /\ old = UNION {plan[k] : k \in 1..past}
        BY <1>1, PlanLaws DEF Underway
    <2> HIDE DEF m, plan, old
    <2> QED
        BY <1>1, <2>1, PlanMoves
<1>5. DOMAIN got = old \cup new
    OBVIOUS
<1>6. \A p \in new : got[p] = View(p, course)
    OBVIOUS
<1>7. \A p \in old : p \notin new => got[p] = m.read[p]
    OBVIOUS
<1>8. RequestShape(n)
    <2>1. got = [p \in DOMAIN got |-> got[p]]
        OBVIOUS
    <2> HIDE DEF n, got, new, old
    <2> QED
        BY <1>1, <1>3, <1>4, <2>1 DEF RequestShape
<1>9. Underway(n)
    <2> HIDE DEF n, got, new, old, plan, past
    <2> QED
        BY <1>3, <1>4, <1>5 DEF Underway
<1>10. Faithful(n)
    <2> HIDE DEF n, got, new
    <2> QED
        BY <1>1, <1>3, <1>5, <1>6, <1>7 DEF Faithful
<1>11. CountsTogether(n)
    <2>1. SUFFICES ASSUME {"closed", "attended"} \subseteq old \cup new,
                          m.asks # None \/ "closed" \notin m.moved
                   PROVE  /\ got["closed"] \in Nat
                          /\ \A s \in Students : got["attended"][s] \in 0..got["closed"]
        BY <1>3, <1>5 DEF CountsTogether
    <2>2. m.asks # None /\ "attended" \in new => "closed" \in new
        <3>1. m.asks # None => plan = StudentPlan /\ Len(plan) = 4
            BY Plans DEF PlanOf
        <3> HIDE DEF new, past, plan
        <3> QED
            BY <1>4, <3>1, Plans
    <2>3. "attended" \in old => "closed" \notin new
        <3>1. SUFFICES ASSUME "attended" \in old
                       PROVE  "closed" \notin new
            OBVIOUS
        <3>2. PICK k \in 1..past : "attended" \in plan[k]
            <4>1. old = UNION {plan[k] : k \in 1..past}
                BY <1>1 DEF Underway
            <4> HIDE DEF old, plan, past
            <4> QED
                BY <3>1, <4>1
        <3>3. k \in 1..Len(plan) /\ k < past + 1
            <4>1. Len(plan) \in Int /\ Len(m.selects) \in Int
                BY <1>1, PlanLaws
            <4>2. past \in Int /\ past + 1 \in 1..Len(plan)
                BY <1>4, <4>1
            <4> HIDE DEF plan, past
            <4> QED
                BY <3>2, <4>1, <4>2
        <3>4. \A j, i \in 1..Len(plan) :
                i < j /\ "attended" \in plan[i] => "closed" \notin plan[j]
            BY PlanLaws
        <3>5. past + 1 \in 1..Len(plan) /\ new = plan[past + 1]
            BY <1>4
        <3> HIDE DEF new, past, plan
        <3> QED
            BY <3>2, <3>3, <3>4, <3>5
    <2>4. CASE "attended" \in new
        <3>1. got["closed"] = View("closed", course) /\ got["attended"] = View("attended", course)
            <4> HIDE DEF got, new, old, m
            <4>1. "closed" \notin new => "closed" \in old /\ "closed" \notin m.moved
                BY <2>1, <2>2, <2>4
            <4> QED
                BY <1>1, <1>6, <1>7, <2>4, <4>1 DEF Faithful, old
        <3>2. course \in CourseStates
            BY DEF EvaluationInv, CourseOK
        <3> HIDE DEF got
        <3> QED
            BY <3>1, <3>2, AttendedAreClosed
    <2>5. CASE "attended" \notin new
        <3>1. "attended" \in old /\ "closed" \in old /\ "closed" \notin new
            BY <2>1, <2>3, <2>5
        <3> HIDE DEF got, new
        <3> QED
            BY <1>1, <1>7, <2>1, <2>5, <3>1 DEF CountsTogether
    <2> QED
        BY <2>4, <2>5
<1>12. Ended(n)
    BY <1>1, <1>3 DEF Ended
<1>13. AssignedToRead(n)
    <2>1. SUFFICES ASSUME "assigned" \in old \cup new, "scheme" \notin m.moved
                   PROVE  "scheme" \in old \cup new /\ ~Lost(got)
        BY <1>3, <1>5 DEF AssignedToRead
    <2>2. "scheme" \in old \cup new
        <3>1. 1 \in 1..past + 1 /\ plan[1] = {"scheme"}
            BY <1>4, PlanLaws
        <3> HIDE DEF old, new, plan, past
        <3> QED
            BY <1>4, <3>1
    <2>3. got["scheme"] = course.scheme
        <3>1. View("scheme", course) = course.scheme
            BY Views
        <3>2. "scheme" \notin new => m.read["scheme"] = View("scheme", course)
            BY <1>1, <2>1, <2>2 DEF Faithful
        <3> HIDE DEF got, new, old, m
        <3> QED
            BY <1>6, <1>7, <2>2, <3>1, <3>2
    <2>4. CASE "assigned" \in new
        <3>1. got["assigned"] = course.assigned
            <4> HIDE DEF got, new
            <4> QED
                BY <1>6, <2>4, Views
        <3> HIDE DEF got
        <3> QED
            BY <2>2, <2>3, <3>1 DEF Lost, EvaluationInv, CourseOK
    <2>5. CASE "assigned" \notin new
        <3>1. "scheme" \in old /\ ~Lost(m.read)
            BY <1>1, <2>1, <2>5 DEF AssignedToRead
        <3>2. m.read["scheme"] = course.scheme
            BY <1>1, <2>1, <3>1, Views DEF Faithful
        <3>3. got["assigned"] = m.read["assigned"]
            BY <2>1, <2>5
        <3> HIDE DEF got, m
        <3> QED
            BY <2>2, <2>3, <3>1, <3>2, <3>3 DEF Lost
    <2> QED
        BY <2>4, <2>5
<1> HIDE DEF n, got, new, old, plan, past, m
<1> QED
    BY <1>1, <1>2, <1>8, <1>9, <1>10, <1>11, <1>12, <1>13, RequestKeeps DEF RequestOK

LEMMA FinishKeeps ==
    ASSUME EvaluationInv, NEW r \in Readers, Finish(r)
    PROVE  EvaluationInv'
<1> DEFINE m == reader[r]
           label == IF m.asks = None /\ Lost(m.read) THEN "failed" ELSE "answered"
           n == [pc |-> label, asks |-> m.asks, selects |-> m.selects, read |-> m.read,
                 moved |-> m.moved]
<1>1. /\ m.pc = "reading" /\ Complete(r) /\ RequestShape(m) /\ RequestOK(m)
      /\ Underway(m) /\ Faithful(m) /\ AssignedToRead(m) /\ CountsTogether(m)
    BY DEF EvaluationInv, Finish, RequestOK
<1>2. reader' = [reader EXCEPT ![r] = n] /\ UNCHANGED <<course, commits>>
    <2>1. reader' = [reader EXCEPT ![r].pc = label]
        BY DEF Finish
    <2>2. [m EXCEPT !.pc = label] = n
        BY <1>1 DEF RequestShape
    <2>3. reader' = [reader EXCEPT ![r] = [m EXCEPT !.pc = label]]
        BY <2>1 DEF EvaluationInv
    <2> HIDE DEF n, label
    <2> QED
        BY <2>2, <2>3 DEF Finish
<1>3. /\ RequestShape(n) /\ Underway(n) /\ Faithful(n)
      /\ AssignedToRead(n) /\ CountsTogether(n)
    <2>1. n.pc \in {"failed", "answered"} /\ RequestShape(n)
        BY <1>1 DEF RequestShape
    <2>2. Underway(n)
        BY <1>1 DEF Underway, PlanOf
    <2> QED
        BY <1>1, <2>1, <2>2 DEF Faithful, AssignedToRead, CountsTogether
<1>4. Ended(n)
    BY <1>1 DEF Ended, Complete
<1> QED
    BY <1>2, <1>3, <1>4, RequestKeeps DEF RequestOK

LEMMA ReturnKeeps ==
    ASSUME EvaluationInv, NEW r \in Readers, Return(r)
    PROVE  EvaluationInv'
<1>1. RequestOK(Idle)
    BY DEF Idle, RequestOK, RequestShape, Ended
<1> QED
    BY <1>1, RequestKeeps DEF Return

-------------------------------------------------------------------------------
(* The theorems *)

LEMMA InitHolds == Init => EvaluationInv
<1> SUFFICES ASSUME Init PROVE EvaluationInv
    OBVIOUS
<1>1. commits = 0 /\ course \in Courses /\ reader = [r \in Readers |-> Idle]
    BY DEF Init
<1>2. course \in CourseStates
    BY <1>1, CourseAssumption
<1>3. CourseOK(course, commits)
    <2>1. \A c \in course.scheme : c.put \in Versions
        BY <1>2 DEF CourseStates, CategoryRows
    <2>2. \A c \in CategoryRows : c.put \in Versions
        BY DEF CategoryRows
    <2> QED
        BY <1>1, <1>2, SchemeAssumption DEF CourseOK
<1>4. RequestOK(Idle)
    BY DEF Idle, RequestOK, RequestShape, Ended
<1> QED
    BY <1>1, <1>3, <1>4, CourseAssumption DEF EvaluationInv

LEMMA NextHolds == EvaluationInv /\ [Next]_vars => EvaluationInv'
<1> SUFFICES ASSUME EvaluationInv, [Next]_vars PROVE EvaluationInv'
    OBVIOUS
<1>1. CASE PutScheme
    BY <1>1, PutSchemeKeeps
<1>2. CASE MergeGrades \/ MergeAttendance \/ ChangeObservation
    BY <1>2, OtherCommitKeeps
<1>3. ASSUME NEW r \in Readers, Ask(r) \/ Select(r) \/ Finish(r) \/ Return(r)
      PROVE  EvaluationInv'
    BY <1>3, AskKeeps, SelectKeeps, FinishKeeps, ReturnKeeps
<1>4. CASE UNCHANGED vars
    <2>1. UNCHANGED course /\ UNCHANGED commits /\ UNCHANGED reader
        BY <1>4 DEF vars
    <2>2. ASSUME NEW r \in Readers
          PROVE  RequestOK(reader[r])'
        <3>1. RequestOK(reader'[r])
            BY <2>1 DEF EvaluationInv
        <3>2. Faithful(reader'[r]) <=> Faithful(reader[r])'
            BY <2>1 DEF Faithful
        <3> QED
            BY <3>1, <3>2 DEF RequestOK
    <2> QED
        BY <2>1, <2>2 DEF EvaluationInv
<1> QED
    BY <1>1, <1>2, <1>3, <1>4 DEF Next

\* The invariant: a request has read what its plan says, each part as the course
\* had it or has it, and only an answer or a failure ends it.
THEOREM AlwaysHolds == Spec => []EvaluationInv
<1> QED
    BY InitHolds, NextHolds, PTL DEF Spec

\* A student's own evaluation never has more sessions attended than CLOSED ones
\* (one SELECT counts both), and the gradebook has them only when the attendance
\* synchronisation changed the CLOSED sessions between its two SELECTs: in the
\* state the second SELECT leaves behind, they have changed since the first.
THEOREM AttendanceNeedsRace == Spec => []AttendanceAboveNeedsRace
<1>1. EvaluationInv => AttendanceAboveNeedsRace
    <2> SUFFICES ASSUME EvaluationInv, NEW r \in Readers, reader[r].pc # "idle",
                        NEW s \in Asked(r), {"closed", "attended"} \subseteq DOMAIN reader[r].read,
                        reader[r].read["attended"][s] > reader[r].read["closed"]
                 PROVE  reader[r].asks = None /\ "closed" \in reader[r].moved
        BY DEF AttendanceAboveNeedsRace
    <2> DEFINE m == reader[r]
    <2>1. RequestShape(m) /\ CountsTogether(m)
        BY DEF EvaluationInv, RequestOK
    <2>2. s \in Students
        BY <2>1 DEF Asked, RequestShape
    <2>3. ASSUME m.read["closed"] \in Nat, m.read["attended"][s] \in 0..m.read["closed"]
          PROVE  FALSE
        BY <2>3
    <2> QED
        BY <2>1, <2>2, <2>3 DEF CountsTogether
<1> QED
    BY <1>1, AlwaysHolds, PTL

-------------------------------------------------------------------------------
(* Answers *)

\* The figures of a category, from its score.
LEMMA ResultOf ==
    ASSUME NEW categories, NEW assigned, NEW maxima, NEW grade, NEW blended, NEW c \in categories
    PROVE  LET result == Evaluation(categories, assigned, maxima, grade, blended).results[c]
               score == CategoryScore(c, assigned, maxima, grade, blended) IN
           /\ result.score = Round2OrNone(score)
           /\ result.contribution =
                IF score # None THEN Round2(Times(score, Fraction(c.weight, 10000))) ELSE None
<1> DEFINE score == [d \in categories |-> CategoryScore(d, assigned, maxima, grade, blended)]
           evaluated == {d \in categories : score[d] # None}
           contribution == [d \in evaluated |-> Times(score[d], Fraction(d.weight, 10000))]
           results == [d \in categories |->
                [score |-> Round2OrNone(score[d]),
                 contribution |-> IF d \in evaluated THEN Round2(contribution[d]) ELSE None,
                 counted |-> Cardinality(Counted(d, assigned)),
                 graded |-> Cardinality(Graded(d, assigned, grade))]]
<1>1. Evaluation(categories, assigned, maxima, grade, blended).results = results
    BY DEF Evaluation
<1>2. score[c] = CategoryScore(c, assigned, maxima, grade, blended)
    OBVIOUS
<1>3. c \in evaluated <=> score[c] # None
    OBVIOUS
<1>4. c \in evaluated => contribution[c] = Times(score[c], Fraction(c.weight, 10000))
    OBVIOUS
<1> HIDE DEF score, evaluated, contribution
<1>5. /\ results[c].score = Round2OrNone(score[c])
      /\ results[c].contribution = IF c \in evaluated THEN Round2(contribution[c]) ELSE None
    OBVIOUS
<1> HIDE DEF results
<1> QED
    BY <1>1, <1>2, <1>3, <1>4, <1>5

\* A request that is done has read everything, or has no blended category and
\* everything but attendance and participation; what has not moved is as it is.
LEMMA DoneReads ==
    ASSUME EvaluationInv, NEW r \in Readers, reader[r].pc \in {"answered", "failed"}
    PROVE  LET read == reader[r].read IN
           /\ read = [p \in DOMAIN read |-> read[p]]
           /\ {"scheme", "assigned", "maxima", "grade"} \subseteq DOMAIN read
           /\ DOMAIN read = PartNames \/ ~BlendRead(read)
           /\ \A p \in DOMAIN read \ reader[r].moved : read[p] = Committed(course)[p]
<1> DEFINE m == reader[r]
<1>1. /\ RequestShape(m) /\ Underway(m) /\ Faithful(m) /\ Ended(m)
      /\ m.selects \in Seq(SUBSET PartNames) /\ m.read = [p \in DOMAIN m.read |-> m.read[p]]
    BY DEF EvaluationInv, RequestOK, RequestShape
<1>2. \/ DOMAIN m.read = PartNames
      \/ DOMAIN m.read = {"scheme", "assigned", "maxima", "grade"} /\ ~BlendRead(m.read)
    BY <1>1, ReadSoFar DEF Ended
<1>3. \A p \in DOMAIN m.read \ m.moved : m.read[p] = Committed(course)[p]
    <2>1. DOMAIN m.read \subseteq Parts
        BY <1>1, ReadSoFar, Plans
    <2> HIDE DEF m
    <2> QED
        BY <1>1, <2>1 DEF Faithful, Committed
<1>4. {"scheme", "assigned", "maxima", "grade"} \subseteq DOMAIN m.read
    BY <1>2 DEF PartNames
<1> QED
    BY <1>1, <1>2, <1>3, <1>4

\* Nothing moved: the answer is that of the committed course.
LEMMA UnmovedAnswers ==
    ASSUME NEW read, NEW x, NEW s,
           read = [p \in DOMAIN read |-> read[p]],
           {"scheme", "assigned", "maxima", "grade"} \subseteq DOMAIN read,
           DOMAIN read = PartNames \/ ~BlendRead(read),
           \A p \in DOMAIN read : read[p] = Committed(x)[p]
    PROVE  AnswerFor(read, s) = AnswerFor(Committed(x), s)
<1>1. CASE DOMAIN read = PartNames
    <2>1. DOMAIN Committed(x) = PartNames /\ Committed(x) = [p \in PartNames |-> Committed(x)[p]]
        BY Plans DEF Committed
    <2>2. read = Committed(x)
        BY <1>1, <2>1
    <2> QED
        BY <2>2
<1>2. CASE ~BlendRead(read)
    <2>1. /\ read.scheme = Committed(x).scheme /\ read.assigned = Committed(x).assigned
          /\ read.grade = Committed(x).grade /\ read.maxima = Committed(x).maxima
        OBVIOUS
    <2>2. ~BlendRead(Committed(x))
        BY <1>2, <2>1 DEF BlendRead
    <2> QED
        BY <1>2, <2>1, <2>2 DEF AnswerFor
<1> QED
    BY <1>1, <1>2

\* What a category depends on has not moved: its score is that of the committed
\* course.
LEMMA UnmovedScore ==
    ASSUME NEW read, NEW x, NEW s, NEW c, c \in read.scheme,
           {"scheme", "assigned", "maxima", "grade"} \subseteq DOMAIN read,
           DOMAIN read = PartNames \/ ~BlendRead(read),
           \A p \in DOMAIN read \cap PartsOf(c) : read[p] = Committed(x)[p]
    PROVE  /\ c \in Committed(x).scheme
           /\ AnswerFor(read, s).results[c].score
                = AnswerFor(Committed(x), s).results[c].score
           /\ AnswerFor(read, s).results[c].contribution
                = AnswerFor(Committed(x), s).results[c].contribution
<1> DEFINE now == Committed(x)
           gradeOf(t) == [i \in Items |-> t.grade[<<s, i>>]]
           blendOf(t) == IF BlendRead(t) THEN BlendedScore(t, s) ELSE None
           scoreOf(t) == CategoryScore(c, t.assigned, t.maxima, gradeOf(t), blendOf(t))
<1>1. read.scheme = now.scheme
    BY DEF PartsOf
<1>2. c \in now.scheme
    BY <1>1
<1>3. scoreOf(read) = scoreOf(now)
    <2>1. CASE c.blend
        <3>1. BlendRead(read) /\ BlendRead(now)
            BY <1>2, <2>1 DEF BlendRead
        <3>2. /\ read.closed = now.closed /\ read.attended = now.attended
              /\ read.observed = now.observed
            BY <2>1, <3>1 DEF PartsOf, PartNames
        <3>3. BlendedScore(read, s) = BlendedScore(now, s)
            BY <3>2 DEF BlendedScore
        <3>4. scoreOf(read) = blendOf(read) /\ scoreOf(now) = blendOf(now)
            BY <2>1 DEF CategoryScore
        <3> QED
            BY <3>1, <3>3, <3>4
    <2>2. CASE ~c.blend
        <3>1. /\ read.assigned = now.assigned /\ read.maxima = now.maxima
              /\ read.grade = now.grade
            BY <2>2 DEF PartsOf
        <3>2. gradeOf(read) = gradeOf(now)
            BY <3>1
        <3>3. ASSUME NEW assigned, NEW maxima, NEW grade, NEW one, NEW other
              PROVE  CategoryScore(c, assigned, maxima, grade, one)
                        = CategoryScore(c, assigned, maxima, grade, other)
            BY <2>2 DEF CategoryScore
        <3> HIDE DEF now, gradeOf, blendOf
        <3>4. CategoryScore(c, read.assigned, read.maxima, gradeOf(read), blendOf(read))
                = CategoryScore(c, now.assigned, now.maxima, gradeOf(now), blendOf(read))
            BY <3>1, <3>2
        <3> QED
            BY <3>3, <3>4
    <2> QED
        BY <2>1, <2>2
<1>4. ASSUME NEW t, c \in t.scheme
      PROVE  /\ AnswerFor(t, s).results[c].score = Round2OrNone(scoreOf(t))
             /\ AnswerFor(t, s).results[c].contribution =
                    IF scoreOf(t) # None
                    THEN Round2(Times(scoreOf(t), Fraction(c.weight, 10000))) ELSE None
    <2>1. AnswerFor(t, s) = Evaluation(t.scheme, t.assigned, t.maxima, gradeOf(t), blendOf(t))
        BY DEF AnswerFor
    <2> HIDE DEF gradeOf, blendOf
    <2> QED
        BY <1>4, <2>1, ResultOf
<1> HIDE DEF now, scoreOf
<1> QED
    BY <1>2, <1>3, <1>4 DEF now

\* When nothing changes while a request reads, the student's evaluation and the
\* gradebook answer the same figures, those of the committed course; a category
\* is right whenever what it depends on did not change once read; and the
\* gradebook fails only when the scheme was replaced after it had read the
\* categories.
THEOREM AnswersAgree == Spec => []QuietAnswers
<1>1. EvaluationInv => QuietAnswers
    <2> SUFFICES ASSUME EvaluationInv, NEW r \in Readers
                 PROVE  /\ reader[r].pc = "answered" => \A s \in Asked(r) :
                            LET shown == AnswerFor(reader[r].read, s)
                                now == AnswerFor(Committed(course), s) IN
                            /\ reader[r].moved = {} => shown = now
                            /\ \A c \in reader[r].read.scheme :
                                reader[r].moved \cap PartsOf(c) = {} =>
                                    /\ c \in course.scheme
                                    /\ shown.results[c].score = now.results[c].score
                                    /\ shown.results[c].contribution = now.results[c].contribution
                        /\ reader[r].pc = "failed" => "scheme" \in reader[r].moved
        BY DEF QuietAnswers
    <2> DEFINE read == reader[r].read
               moved == reader[r].moved
    <2>1. Committed(course).scheme = course.scheme /\ Committed(course).assigned = course.assigned
        BY Plans, Views DEF Committed, PartNames
    <2>2. ASSUME reader[r].pc \in {"answered", "failed"}
          PROVE  /\ read = [p \in DOMAIN read |-> read[p]]
                 /\ {"scheme", "assigned", "maxima", "grade"} \subseteq DOMAIN read
                 /\ DOMAIN read = PartNames \/ ~BlendRead(read)
                 /\ \A p \in DOMAIN read \ moved : read[p] = Committed(course)[p]
        BY <2>2, DoneReads
    <2>3. ASSUME reader[r].pc = "answered", moved = {}, NEW s
          PROVE  AnswerFor(read, s) = AnswerFor(Committed(course), s)
        <3> HIDE DEF read, moved
        <3> QED
            BY <2>2, <2>3, UnmovedAnswers
    <2>4. ASSUME reader[r].pc = "answered", NEW s, NEW c \in read.scheme,
                 moved \cap PartsOf(c) = {}
          PROVE  /\ c \in course.scheme
                 /\ AnswerFor(read, s).results[c].score
                        = AnswerFor(Committed(course), s).results[c].score
                 /\ AnswerFor(read, s).results[c].contribution
                        = AnswerFor(Committed(course), s).results[c].contribution
        <3> HIDE DEF read, moved
        <3>1. \A p \in DOMAIN read \cap PartsOf(c) : read[p] = Committed(course)[p]
            BY <2>2, <2>4
        <3> QED
            BY <2>1, <2>2, <2>4, <3>1, UnmovedScore
    <2>5. ASSUME reader[r].pc = "failed", "scheme" \notin moved
          PROVE  FALSE
        <3>1. Lost(read) /\ AssignedToRead(reader[r])
            BY <2>5 DEF EvaluationInv, RequestOK, Ended
        <3> QED
            BY <2>2, <2>5, <3>1 DEF AssignedToRead
    <2> QED
        BY <2>3, <2>4, <2>5
<1> QED
    BY <1>1, AlwaysHolds, PTL

-------------------------------------------------------------------------------
(* What the calculation is given *)

TypedRead(read) ==
    /\ "scheme" \in DOMAIN read => read["scheme"] \subseteq CategoryRows
    /\ "maxima" \in DOMAIN read => read["maxima"] \in [Items -> Nat]
    /\ "grade" \in DOMAIN read => read["grade"] \in [Students \X Items -> Nat \cup {None}]
    /\ "closed" \in DOMAIN read => read["closed"] \in Nat
    /\ "attended" \in DOMAIN read => read["attended"] \in [Students -> Nat]
    /\ "observed" \in DOMAIN read => read["observed"] \in [Students \X Slots -> 0..3 \cup {None}]

ReadsTyped == \A r \in Readers : TypedRead(reader[r].read)

LEMMA Constants ==
    /\ GradeValues \subseteq Nat \cup {None} /\ MaxGrades \subseteq Nat
    /\ IsFiniteSet(Defs) /\ IsFiniteSet(Slots) /\ IsFiniteSet(Sessions)
    /\ \A d \in Defs : d.weight \in Nat
BY CourseAssumption, Zenon

LEMMA ViewsTyped ==
    ASSUME NEW x \in CourseStates
    PROVE  /\ View("scheme", x) \subseteq CategoryRows
           /\ View("maxima", x) \in [Items -> Nat]
           /\ View("grade", x) \in [Students \X Items -> Nat \cup {None}]
           /\ View("closed", x) \in Nat
           /\ View("attended", x) \in [Students -> Nat]
           /\ View("observed", x) \in [Students \X Slots -> 0..3 \cup {None}]
<1>1. /\ x.scheme \subseteq CategoryRows
      /\ x.grade \in [Students \X Items -> GradeValues \cup {None}]
      /\ x.maxima \in [Items -> MaxGrades]
      /\ x.observed \in [Students \X Slots -> 0..3 \cup {None}]
    BY DEF CourseStates
<1>2. GradeValues \cup {None} \subseteq Nat \cup {None}
    BY Constants
<1>3. x.grade \in [Students \X Items -> Nat \cup {None}] /\ x.maxima \in [Items -> Nat]
    BY <1>1, <1>2, Constants
<1>4. /\ View("closed", x) \in Nat
      /\ \A s \in Students : View("attended", x)[s] \in 0..View("closed", x)
    BY AttendedAreClosed
<1>5. View("attended", x) = [s \in Students |-> View("attended", x)[s]]
    BY Views
<1>6. View("attended", x) \in [Students -> Nat]
    BY <1>4, <1>5
<1> QED
    BY <1>1, <1>3, <1>4, <1>6, Views

LEMMA TypedStep ==
    ASSUME EvaluationInv, ReadsTyped, [Next]_vars
    PROVE  ReadsTyped'
<1> SUFFICES ASSUME NEW r \in Readers
             PROVE  TypedRead(reader'[r].read)
    BY DEF ReadsTyped
<1>1. TypedRead(reader[r].read) /\ course \in CourseStates /\ RequestShape(reader[r])
    BY DEF ReadsTyped, EvaluationInv, CourseOK, RequestOK
<1>2. TypedRead(Idle.read)
    BY DEF Idle, TypedRead
<1>3. ASSUME NEW new, Commit(new)
      PROVE  reader'[r].read = reader[r].read
    <2>1. \/ reader'[r] = reader[r]
          \/ \E moved : reader'[r] = [reader[r] EXCEPT !.moved = moved]
        BY <1>3 DEF Commit
    <2>2. DOMAIN reader[r] = {"pc", "asks", "selects", "read", "moved"}
        BY <1>1 DEF RequestShape
    <2> QED
        BY <2>1, <2>2
<1>4. CASE PutScheme \/ MergeGrades \/ MergeAttendance \/ ChangeObservation
    <2>1. \E new : Commit(new)
        BY <1>4 DEF PutScheme, MergeGrades, MergeAttendance, ChangeObservation
    <2> QED
        BY <1>1, <1>3, <2>1
<1>5. ASSUME NEW q \in Readers, Ask(q)
      PROVE  TypedRead(reader'[r].read)
    <2>1. PICK s \in Students \cup {None} :
            reader' = [reader EXCEPT ![q] = [Idle EXCEPT !.pc = "reading", !.asks = s,
                !.selects = IF s = None THEN GradebookPlan ELSE StudentPlan]]
        BY <1>5 DEF Ask
    <2> DEFINE n == [Idle EXCEPT !.pc = "reading", !.asks = s,
                        !.selects = IF s = None THEN GradebookPlan ELSE StudentPlan]
    <2>2. n.read = Idle.read
        BY DEF Idle
    <2> HIDE DEF n
    <2>3. reader' = [reader EXCEPT ![q] = n] /\ reader = [k \in Readers |-> reader[k]]
        BY <2>1 DEF n, EvaluationInv
    <2>4. reader'[r] = IF r = q THEN n ELSE reader[r]
        BY <2>3
    <2> QED
        BY <1>1, <1>2, <2>2, <2>4
<1>6. ASSUME NEW q \in Readers, Select(q)
      PROVE  TypedRead(reader'[r].read)
    <2> DEFINE old == reader[q].read
               new == Head(reader[q].selects)
               got == [p \in DOMAIN old \cup new |-> IF p \in new THEN View(p, course) ELSE old[p]]
               n == [reader[q] EXCEPT !.selects = Tail(@), !.read = got]
    <2>1. reader' = [reader EXCEPT ![q] = n] /\ reader = [k \in Readers |-> reader[k]]
        BY <1>6 DEF Select, EvaluationInv
    <2>2. reader'[r] = IF r = q THEN n ELSE reader[r]
        <3> HIDE DEF n
        <3> QED
            BY <2>1
    <2>3. CASE r # q
        BY <1>1, <2>2, <2>3
    <2>4. CASE r = q
        <3>1. n.read = got
            BY <1>1, <2>4 DEF RequestShape
        <3>2. TypedRead(old)
            BY <1>1, <2>4
        <3>3. DOMAIN got = DOMAIN old \cup new
            OBVIOUS
        <3>4. ASSUME NEW p \in DOMAIN got
              PROVE  got[p] = IF p \in new THEN View(p, course) ELSE old[p]
            OBVIOUS
        <3> HIDE DEF got, new, old
        <3>5. TypedRead(got)
            <4>1. ASSUME NEW p \in DOMAIN got
                  PROVE  got[p] = View(p, course) \/ (p \in DOMAIN old /\ got[p] = old[p])
                BY <3>3, <3>4
            <4> QED
                BY <1>1, <3>2, <4>1, ViewsTyped DEF TypedRead
        <3> HIDE DEF n
        <3> QED
            BY <2>2, <2>4, <3>1, <3>5
    <2> QED
        BY <2>3, <2>4
<1>7. ASSUME NEW q \in Readers, Finish(q) \/ Return(q)
      PROVE  TypedRead(reader'[r].read)
    <2>1. \/ reader' = [reader EXCEPT ![q] = Idle]
          \/ \E label : reader' = [reader EXCEPT ![q] = [reader[q] EXCEPT !.pc = label]]
        BY <1>7 DEF Finish, Return, EvaluationInv
    <2>2. reader = [k \in Readers |-> reader[k]]
        BY DEF EvaluationInv
    <2>3. \/ reader'[r] = reader[r]
          \/ reader'[r] = Idle
          \/ \E label : reader'[r] = [reader[r] EXCEPT !.pc = label]
        BY <2>1, <2>2
    <2>4. reader'[r].read \in {reader[r].read, Idle.read}
        BY <1>1, <2>3 DEF RequestShape
    <2> QED
        BY <1>1, <1>2, <2>4
<1>8. CASE UNCHANGED vars
    BY <1>1, <1>8 DEF vars
<1> QED
    BY <1>4, <1>5, <1>6, <1>7, <1>8 DEF Next

TypedInv == EvaluationInv /\ ReadsTyped

LEMMA TypedHolds == Spec => []TypedInv
<1>1. Init => TypedInv
    <2> SUFFICES ASSUME Init PROVE ReadsTyped
        BY InitHolds DEF TypedInv
    <2> QED
        BY DEF Init, ReadsTyped, TypedRead, Idle
<1>2. TypedInv /\ [Next]_vars => TypedInv'
    BY NextHolds, TypedStep DEF TypedInv
<1> QED
    BY <1>1, <1>2, PTL DEF Spec

\* What the calculation makes student s's figures from.
InputFor(read, s) ==
    [categories |-> read.scheme, assigned |-> read.assigned, maxima |-> read.maxima,
     grade |-> [i \in Items |-> read.grade[<<s, i>>]],
     blended |-> IF BlendRead(read) THEN BlendedScore(read, s) ELSE None]

LEMMA AnswerOfInput ==
    ASSUME NEW read, NEW s
    PROVE  AnswerFor(read, s) = EvaluationOf(InputFor(read, s))
BY DEF AnswerFor, EvaluationOf, InputFor

LEMMA RowsFinite ==
    ASSUME NEW S \in SUBSET CategoryRows
    PROVE  /\ IsFiniteSet(S)
           /\ \A c \in S : c.weight \in Nat
<1> DEFINE row == [p \in Defs \X Versions |->
                    [weight |-> p[1].weight, blend |-> p[1].blend, put |-> p[2]]]
<1>1. IsFiniteSet(Versions)
    BY CourseAssumption, FS_Interval DEF Versions
<1>2. IsFiniteSet(Defs \X Versions)
    BY <1>1, Constants, FS_Product
<1>3. row \in Surjection(Defs \X Versions, CategoryRows)
    <2>1. ASSUME NEW p \in Defs \X Versions
          PROVE  row[p] \in CategoryRows
        <3>1. PICK d \in Defs, v \in Versions : p = <<d, v>>
            OBVIOUS
        <3> QED
            BY <3>1 DEF CategoryRows
    <2>2. ASSUME NEW c \in CategoryRows
          PROVE  \E p \in Defs \X Versions : row[p] = c
        <3>1. PICK d \in Defs, v \in Versions :
                c = [weight |-> d.weight, blend |-> d.blend, put |-> v]
            BY DEF CategoryRows
        <3>2. <<d, v>> \in Defs \X Versions /\ row[<<d, v>>] = c
            BY <3>1
        <3> QED
            BY <3>2
    <2>3. row = [p \in Defs \X Versions |-> row[p]]
        OBVIOUS
    <2> HIDE DEF row
    <2> QED
        BY <2>1, <2>2, <2>3 DEF Surjection
<1> HIDE DEF row
<1>4. IsFiniteSet(CategoryRows)
    BY <1>2, <1>3, FS_Surjection
<1>5. ASSUME NEW c \in CategoryRows
      PROVE  c.weight \in Nat
    <2>1. PICK d \in Defs, v \in Versions :
            c = [weight |-> d.weight, blend |-> d.blend, put |-> v]
        BY DEF CategoryRows
    <2>2. d.weight \in Nat
        BY Constants
    <2> QED
        BY <2>1, <2>2
<1> QED
    BY <1>4, <1>5, FS_Subset

\* The blend of a student, from typed reads.
LEMMA BlendRight ==
    ASSUME NEW closed \in Nat, NEW present \in Nat, NEW S \in SUBSET Slots,
           NEW values \in [S -> Nat]
    PROVE  LET blend == Blend(AttendanceScore(closed, present), ParticipationScore(values))
               shares == [o \in S |-> Fraction(67 * values[o], 3 * Cardinality(S))] IN
           /\ IsFiniteSet(S)
           /\ closed = 0 => blend = None
           /\ closed # 0 => /\ blend \in Fractions
                            /\ SumOf(shares) \in Fractions
                            /\ Same(blend, Plus(Raw(33 * present, closed), SumOf(shares)))
<1>1. IsFiniteSet(S)
    BY CourseAssumption, FS_Subset
<1>2. DOMAIN values = S
    OBVIOUS
<1> QED
    BY <1>1, BlendLaws

\* A student's observations, as they are averaged.
LEMMA ObservedValues ==
    ASSUME NEW observed \in [Students \X Slots -> 0..3 \cup {None}], NEW s \in Students
    PROVE  LET S == {o \in Slots : observed[<<s, o>>] # None} IN
           /\ S \in SUBSET Slots
           /\ [o \in S |-> observed[<<s, o>>]] \in [S -> Nat]
<1>1. \A o \in Slots : observed[<<s, o>>] \in 0..3 \cup {None}
    OBVIOUS
<1> QED
    BY <1>1

LEMMA BlendedTyped ==
    ASSUME NEW read, NEW s \in Students, TypedRead(read),
           {"closed", "attended", "observed"} \subseteq DOMAIN read
    PROVE  /\ BlendedScore(read, s) \in Fractions \cup {None}
           /\ BlendedScore(read, s) = None <=> read.closed = 0
<1> DEFINE S == {o \in Slots : read.observed[<<s, o>>] # None}
           values == [o \in S |-> read.observed[<<s, o>>]]
           present == read.attended[s]
           closed == read.closed
<1>1. closed \in Nat /\ present \in Nat
    BY DEF TypedRead
<1>2. S \in SUBSET Slots /\ values \in [S -> Nat]
    BY ObservedValues DEF TypedRead
<1>3. BlendedScore(read, s) = Blend(AttendanceScore(closed, present), ParticipationScore(values))
    BY DEF BlendedScore
<1> HIDE DEF S, values, present, closed
<1>4. /\ closed = 0 => BlendedScore(read, s) = None
      /\ closed # 0 => BlendedScore(read, s) \in Fractions
    BY <1>1, <1>2, <1>3, BlendRight
<1> QED
    BY <1>4, NoFraction DEF closed

LEMMA InputTyped ==
    ASSUME NEW read, NEW s \in Students, TypedRead(read),
           {"scheme", "assigned", "maxima", "grade"} \subseteq DOMAIN read,
           DOMAIN read = PartNames \/ ~BlendRead(read)
    PROVE  IsInput(InputFor(read, s))
<1>1. /\ read.scheme \in SUBSET CategoryRows /\ read.maxima \in [Items -> Nat]
      /\ read.grade \in [Students \X Items -> Nat \cup {None}]
    BY DEF TypedRead
<1>2. IsFiniteSet(read.scheme) /\ \A c \in read.scheme : c.weight \in Nat
    BY <1>1, RowsFinite
<1>3. [i \in Items |-> read.grade[<<s, i>>]] \in [Items -> Nat \cup {None}]
    BY <1>1
<1>4. (IF BlendRead(read) THEN BlendedScore(read, s) ELSE None) \in Fractions \cup {None}
    BY BlendedTyped DEF PartNames
<1> QED
    BY <1>1, <1>2, <1>3, <1>4 DEF IsInput, InputFor

LEMMA AllFit ==
    ASSUME NEW e, IsInput(e)
    PROVE  FiguresFit(EvaluationOf(e))
<1> DEFINE a == EvaluationOf(e)
           D == Evaluated(e)
           scored == {c \in DOMAIN a.results : a.results[c].score # None}
           parts == [c \in scored |-> a.results[c].contribution]
           sum == Total(parts)
<1>1. /\ a.points = Round2(Points(e))
      /\ a.current = IF Weight(e).num = 0 THEN None ELSE Round2(Current(e))
      /\ a.outOfTen = IF Weight(e).num = 0 THEN None
                      ELSE Round2(Times(Current(e), Fraction(1, 10)))
      /\ DOMAIN a.results = e.categories
      /\ \A c \in e.categories :
            /\ a.results[c].score = Round2OrNone(ScoreIn(e, c))
            /\ a.results[c].contribution =
                IF c \in D THEN Round2(Contributions(e)[c]) ELSE None
    BY FiguresOf
<1>2. /\ D \subseteq e.categories /\ IsFiniteSet(D)
      /\ \A c \in D : ScoreIn(e, c) \in Fractions /\ c.weight \in Nat
      /\ Weight(e).num = 0 <=> \A c \in D : c.weight = 0
      /\ Weight(e).num # 0 => Current(e) \in Fractions
    BY EvaluationLaws
<1> HIDE DEF a
<1>3. \A c \in D : /\ Round2(ScoreIn(e, c)) \in Nat
                   /\ a.results[c].score = Round2(ScoreIn(e, c))
                   /\ a.results[c].contribution = Round2(Contributions(e)[c])
    BY <1>1, <1>2, Round2Rounds, NoFraction DEF Round2OrNone
<1>4. scored = D
    <2>1. \A c \in e.categories \ D : a.results[c].score = None
        BY <1>1 DEF Evaluated, Round2OrNone
    <2>2. \A c \in D : a.results[c].score # None
        BY <1>3, NoFraction
    <2> QED
        BY <1>1, <1>2, <2>1, <2>2
<1>5. parts = [c \in D |-> Round2(Contributions(e)[c])]
    <2> HIDE DEF scored
    <2> QED
        BY <1>3, <1>4
<1> HIDE DEF D, scored, parts
<1>6. /\ 2 * (a.points - sum) \in -(Cardinality(scored) + 1)..(Cardinality(scored) + 1)
      /\ \A c \in scored :
            ShareFits(c.weight, a.results[c].score, a.results[c].contribution)
      /\ Weight(e).num # 0 => TenthFits(a.current, a.outOfTen)
    <2>1. 2 * (a.points - sum) \in -(Cardinality(scored) + 1)..(Cardinality(scored) + 1)
        BY <1>1, <1>4, <1>5, FiguresBelong DEF D
    <2>2. ASSUME NEW c \in scored
          PROVE  ShareFits(c.weight, a.results[c].score, a.results[c].contribution)
        <3>1. ShareFits(c.weight, Round2(ScoreIn(e, c)), Round2(Contributions(e)[c]))
            BY <1>4, FiguresBelong DEF D
        <3> QED
            BY <1>3, <1>4, <3>1
    <2>3. Weight(e).num # 0 => TenthFits(a.current, a.outOfTen)
        BY <1>1, FiguresBelong
    <2> QED
        BY <2>1, <2>2, <2>3
<1>7. ASSUME Weight(e).num # 0
      PROVE  \E c, d \in scored : /\ c.weight # 0 /\ d.weight # 0
                                  /\ a.results[c].score <= a.current
                                  /\ a.current <= a.results[d].score
    <2>1. PICK c \in D, d \in D :
            /\ c.weight # 0 /\ d.weight # 0
            /\ AtMost(ScoreIn(e, c), Current(e)) /\ AtMost(Current(e), ScoreIn(e, d))
        BY <1>7, CurrentIsBetween DEF D
    <2>2. /\ Round2(ScoreIn(e, c)) <= Round2(Current(e))
          /\ Round2(Current(e)) <= Round2(ScoreIn(e, d))
        BY <1>2, <1>7, <2>1, RoundingMonotone
    <2>3. a.current = Round2(Current(e))
        BY <1>1, <1>7
    <2> QED
        BY <1>3, <1>4, <2>1, <2>2, <2>3
<1>8. Weight(e).num = 0 => a.current = None /\ a.outOfTen = None
    BY <1>1
<1>9. (Weight(e).num = 0) <=> \A c \in scored : c.weight = 0
    BY <1>2, <1>4
<1>10. FiguresFit(a)
    BY <1>6, <1>7, <1>8, <1>9 DEF FiguresFit, scored, sum, parts
<1> QED
    BY <1>10 DEF a

\* The figures of every answer belong together within the halves of a hundredth
\* that rounding each of them has lost.
THEOREM AnswersBelong == Spec => []AnswersFit
<1>1. TypedInv => AnswersFit
    <2> SUFFICES ASSUME TypedInv, NEW r \in Readers, reader[r].pc = "answered",
                        NEW s \in Asked(r)
                 PROVE  FiguresFit(AnswerFor(reader[r].read, s))
        BY DEF AnswersFit
    <2>1. s \in Students
        BY DEF TypedInv, EvaluationInv, RequestOK, RequestShape, Asked
    <2>2. TypedRead(reader[r].read)
        BY DEF TypedInv, ReadsTyped
    <2>3. /\ {"scheme", "assigned", "maxima", "grade"} \subseteq DOMAIN reader[r].read
          /\ DOMAIN reader[r].read = PartNames \/ ~BlendRead(reader[r].read)
        BY DoneReads DEF TypedInv
    <2>4. IsInput(InputFor(reader[r].read, s))
        BY <2>1, <2>2, <2>3, InputTyped
    <2> QED
        BY <2>4, AllFit, AnswerOfInput
<1> QED
    BY <1>1, TypedHolds, PTL

\* The committed course, as the calculation is given it.
LEMMA CommittedTyped ==
    ASSUME NEW x \in CourseStates
    PROVE  LET read == Committed(x) IN
           /\ TypedRead(read) /\ DOMAIN read = PartNames
           /\ {"scheme", "assigned", "maxima", "grade"} \subseteq DOMAIN read
           /\ read.scheme = x.scheme /\ read.assigned = x.assigned /\ read.grade = x.grade
           /\ read.maxima = x.maxima
           /\ read.closed = Cardinality(x.closed) /\ read.observed = x.observed
           /\ read.attended = [s \in Students |-> Cardinality(x.attended[s] \cap x.closed)]
           /\ \A s \in Students : IsInput(InputFor(read, s))
<1> DEFINE read == Committed(x)
<1>1. DOMAIN read = PartNames /\ \A p \in PartNames : read[p] = View(p, x)
    BY Plans DEF Committed
<1> HIDE DEF read
<1>2. /\ read.scheme = View("scheme", x) /\ read.assigned = View("assigned", x)
      /\ read.grade = View("grade", x) /\ read.maxima = View("maxima", x)
      /\ read.closed = View("closed", x)
      /\ read.attended = View("attended", x) /\ read.observed = View("observed", x)
    BY <1>1 DEF PartNames
<1>3. TypedRead(read)
    BY <1>2, ViewsTyped DEF TypedRead
<1>4. {"scheme", "assigned", "maxima", "grade"} \subseteq DOMAIN read
    BY <1>1 DEF PartNames
<1>5. \A s \in Students : IsInput(InputFor(read, s))
    BY <1>1, <1>3, <1>4, InputTyped
<1> QED
    BY <1>1, <1>2, <1>3, <1>4, <1>5, Views DEF read

\* A better grade for an item that already had one never lowers the current grade.
THEOREM BetterGradesNeverLower == Spec => BetterGradeNeverLowers
<1>1. ASSUME EvaluationInv, EvaluationInv', NEW s \in Students, NEW i \in Items,
             course' = [course EXCEPT !.grade[<<s, i>>] = course'.grade[<<s, i>>]],
             course.grade[<<s, i>>] # None, course'.grade[<<s, i>>] # None,
             course'.grade[<<s, i>>] > course.grade[<<s, i>>],
             CurrentOf(course, s) # None
      PROVE  CurrentOf(course', s) >= CurrentOf(course, s)
    <2> DEFINE new == course'.grade[<<s, i>>]
               x == course
               y == course'
               e == InputFor(Committed(x), s)
               h == InputFor(Committed(y), s)
    <2>1. x \in CourseStates /\ y \in CourseStates
        BY <1>1 DEF EvaluationInv, CourseOK
    <2>2. y = [x EXCEPT !.grade = [x.grade EXCEPT ![<<s, i>>] = new]]
        BY <1>1
    <2> HIDE DEF new
    <2>3. /\ y.scheme = x.scheme /\ y.assigned = x.assigned /\ y.closed = x.closed
          /\ y.maxima = x.maxima
          /\ y.attended = x.attended /\ y.observed = x.observed
          /\ y.grade = [x.grade EXCEPT ![<<s, i>>] = new]
        BY <2>1, <2>2 DEF CourseStates
    <2>4. x.grade \in [Students \X Items -> Nat \cup {None}]
        BY <2>1, CommittedTyped DEF TypedRead
    <2> HIDE DEF x, y
    <2>5. IsInput(e) /\ IsInput(h)
        BY <2>1, CommittedTyped
    <2>6. /\ h.categories = e.categories /\ h.assigned = e.assigned /\ h.maxima = e.maxima
        BY <2>1, <2>3, CommittedTyped DEF InputFor
    <2>7. h.blended = e.blended
        <3>1. BlendRead(Committed(y)) = BlendRead(Committed(x))
            BY <2>1, <2>3, CommittedTyped DEF BlendRead
        <3>2. BlendedScore(Committed(y), s) = BlendedScore(Committed(x), s)
            <4>1. /\ Committed(y).closed = Committed(x).closed
                  /\ Committed(y).attended = Committed(x).attended
                  /\ Committed(y).observed = Committed(x).observed
                <5>1. ASSUME NEW z \in CourseStates
                      PROVE  /\ Committed(z).closed = Cardinality(z.closed)
                             /\ Committed(z).observed = z.observed
                             /\ Committed(z).attended
                                    = [t \in Students |-> Cardinality(z.attended[t] \cap z.closed)]
                    BY CommittedTyped
                <5>2. /\ Committed(y).closed = Cardinality(y.closed)
                      /\ Committed(x).closed = Cardinality(x.closed)
                      /\ Committed(y).observed = y.observed
                      /\ Committed(x).observed = x.observed
                    BY <2>1, <5>1
                <5>3. Committed(y).attended = Committed(x).attended
                    <6>1. /\ Committed(y).attended
                                = [t \in Students |-> Cardinality(y.attended[t] \cap y.closed)]
                          /\ Committed(x).attended
                                = [t \in Students |-> Cardinality(x.attended[t] \cap x.closed)]
                        BY <2>1, <5>1
                    <6> QED
                        BY <2>3, <6>1
                <5> QED
                    BY <2>3, <5>2, <5>3
            <4> QED
                BY <4>1 DEF BlendedScore
        <3> QED
            BY <3>1, <3>2 DEF InputFor
    <2>8. ASSUME NEW j \in Items
          PROVE  /\ e.grade[j] = None <=> h.grade[j] = None
                 /\ e.grade[j] # None => e.grade[j] <= h.grade[j]
        <3>1. /\ Committed(x).grade = x.grade /\ Committed(y).grade = y.grade
            BY <2>1, CommittedTyped
        <3>2. e.grade[j] = x.grade[<<s, j>>] /\ h.grade[j] = y.grade[<<s, j>>]
            BY <3>1 DEF InputFor
        <3>3. y.grade[<<s, j>>] = IF j = i THEN new ELSE x.grade[<<s, j>>]
            BY <2>3, <2>4
        <3>4. x.grade[<<s, j>>] \in Nat \cup {None}
            BY <2>4
        <3>5. /\ x.grade[<<s, i>>] # None /\ new # None /\ new > x.grade[<<s, i>>]
            BY <1>1 DEF x, new
        <3>6. y.grade[<<s, j>>] \in Nat \cup {None}
            <4>1. y.grade \in [Students \X Items -> Nat \cup {None}]
                BY <2>1, CommittedTyped DEF TypedRead
            <4> QED
                BY <4>1
        <3> HIDE DEF e, h
        <3> QED
            BY <3>2, <3>3, <3>4, <3>5, <3>6
    <2>9. BetterGrades(e, h)
        BY <2>6, <2>7, <2>8 DEF BetterGrades
    <2>10. CurrentOf(x, s) = EvaluationOf(e).current /\ CurrentOf(y, s) = EvaluationOf(h).current
        BY AnswerOfInput DEF CurrentOf
    <2> HIDE DEF e, h
    <2>11. EvaluationOf(e).current # None =>
            /\ EvaluationOf(e).current \in Nat /\ EvaluationOf(h).current \in Nat
            /\ EvaluationOf(e).current <= EvaluationOf(h).current
        BY <2>5, <2>9, BetterGradesHelp
    <2>12. CurrentOf(x, s) # None
        BY <1>1 DEF x
    <2>13. CurrentOf(y, s) >= CurrentOf(x, s)
        BY <2>10, <2>11, <2>12
    <2> QED
        BY <2>13 DEF x, y
<1>2. EvaluationInv /\ EvaluationInv' /\ [Next]_vars =>
        [\A s \in Students, i \in Items :
            LET old == course.grade[<<s, i>>]
                new == course'.grade[<<s, i>>] IN
            /\ course' = [course EXCEPT !.grade[<<s, i>>] = new]
            /\ old # None /\ new # None /\ new > old
            /\ CurrentOf(course, s) # None
            => CurrentOf(course', s) >= CurrentOf(course, s)]_vars
    BY <1>1
<1> QED
    BY <1>2, AlwaysHolds, PTL DEF Spec, BetterGradeNeverLowers

\* The blend of the committed course is a share for every CLOSED session attended
\* and one for every observation.
LEMMA BlendIsExpected ==
    ASSUME NEW x \in CourseStates, NEW s \in Students, NEW c \in x.scheme, c.blend
    PROVE  LET score == BlendedScore(Committed(x), s) IN
           /\ x.closed # {} <=> score # None
           /\ x.closed # {} => /\ ExpectedScore(c, x, s) \in Fractions
                               /\ Same(score, ExpectedScore(c, x, s))
<1> DEFINE read == Committed(x)
           score == BlendedScore(read, s)
           n == Cardinality(x.closed)
           A == x.attended[s] \cap x.closed
           S == Observed(x, s)
           values == [o \in S |-> x.observed[<<s, o>>]]
           sessions == [d \in A |-> Fraction(33, n)]
           shares == [o \in S |-> Fraction(67 * x.observed[<<s, o>>], 3 * Cardinality(S))]
<1>1. /\ read.closed = n /\ read.observed = x.observed
      /\ read.attended = [t \in Students |-> Cardinality(x.attended[t] \cap x.closed)]
      /\ x.observed \in [Students \X Slots -> 0..3 \cup {None}]
      /\ x.closed \in SUBSET Sessions
    BY CommittedTyped DEF CourseStates
<1>2. /\ IsFiniteSet(x.closed) /\ IsFiniteSet(A)
      /\ n \in Nat /\ Cardinality(A) \in Nat
      /\ n = 0 <=> x.closed = {}
    BY <1>1, Constants, FS_Subset, FS_CardinalityType, FS_EmptySet
<1>3. S \in SUBSET Slots /\ values \in [S -> Nat]
    BY <1>1, ObservedValues DEF Observed
<1>4. score = Blend(AttendanceScore(n, Cardinality(A)), ParticipationScore(values))
    BY <1>1 DEF BlendedScore, Observed
<1>5. [o \in S |-> Fraction(67 * values[o], 3 * Cardinality(S))] = shares
    OBVIOUS
<1>6. ExpectedScore(c, x, s) = Plus(SumOf(sessions), SumOf(shares))
    BY DEF ExpectedScore
<1> HIDE DEF n, A, S, values, shares, score
<1>7. /\ n = 0 => score = None
      /\ n # 0 => /\ score \in Fractions /\ SumOf(shares) \in Fractions
                  /\ Same(score, Plus(Raw(33 * Cardinality(A), n), SumOf(shares)))
    BY <1>2, <1>3, <1>4, <1>5, BlendRight
<1>8. ASSUME n # 0
      PROVE  /\ ExpectedScore(c, x, s) \in Fractions
             /\ Same(score, ExpectedScore(c, x, s))
    <2>1. Fraction(33, n) \in Fractions /\ Fraction(33, n).num * n = 33 * Fraction(33, n).den
        BY <1>2, <1>8, FractionValue
    <2>2. sessions \in [A -> Fractions] /\ \A d \in A : Same(sessions[d], Fraction(33, n))
        BY <2>1, FractionValue DEF Same, Fractions
    <2> HIDE DEF sessions
    <2>3. /\ SumOf(sessions) \in Fractions
          /\ Same(SumOf(sessions), [num |-> Cardinality(A) * Fraction(33, n).num,
                                    den |-> Fraction(33, n).den])
        BY <1>2, <2>1, <2>2, SumConstant, SumsAreFractions
    <2>4. Raw(33 * Cardinality(A), n) \in Fractions
        BY <1>2, <1>8 DEF Raw, Fractions
    <2>5. Same(Raw(33 * Cardinality(A), n), SumOf(sessions))
        <3> DEFINE q == Fraction(33, n)
                   m == Cardinality(A)
        <3>1. /\ q.num \in Nat /\ q.den \in Nat \ {0} /\ m \in Nat
              /\ q.num * n = 33 * q.den
            BY <1>2, <2>1 DEF Fractions
        <3> HIDE DEF q, m
        <3>2. [num |-> m * q.num, den |-> q.den] \in Fractions
            BY <3>1 DEF Fractions
        <3>3. Same(Raw(33 * m, n), [num |-> m * q.num, den |-> q.den])
            <4>1. (m * q.num) * n = m * (q.num * n) /\ (33 * m) * q.den = m * (33 * q.den)
                BY <1>2, <3>1
            <4>2. (33 * m) * q.den = (m * q.num) * n
                BY <3>1, <4>1
            <4> QED
                BY <4>2 DEF Same, Raw
        <3>4. Same([num |-> m * q.num, den |-> q.den], SumOf(sessions))
            BY <2>3 DEF Same, q, m
        <3> QED
            BY <2>3, <2>4, <3>2, <3>3, <3>4, SameTransitive DEF m
    <2>6. Same(Plus(Raw(33 * Cardinality(A), n), SumOf(shares)),
               Plus(SumOf(sessions), SumOf(shares)))
        BY <1>7, <1>8, <2>3, <2>4, <2>5, SameArguments DEF Same
    <2>7. /\ Plus(Raw(33 * Cardinality(A), n), SumOf(shares)) \in Fractions
          /\ Plus(SumOf(sessions), SumOf(shares)) \in Fractions
        BY <1>7, <1>8, <2>3, <2>4, PlusValue
    <2> QED
        BY <1>6, <1>7, <1>8, <2>6, <2>7, SameTransitive DEF sessions
<1> QED
    BY <1>2, <1>7, <1>8, NoFraction DEF n, score

\* What the calculation scores a category of the committed course is what it
\* ought to score, and it scores the categories that can be evaluated.
LEMMA ScoresAreExpected ==
    ASSUME NEW x \in CourseStates, NEW s \in Students, NEW c \in x.scheme
    PROVE  LET score == ScoreIn(InputFor(Committed(x), s), c) IN
           /\ Evaluable(c, x, s) <=> score # None
           /\ Evaluable(c, x, s) => /\ ExpectedScore(c, x, s) \in Fractions
                                    /\ Same(score, ExpectedScore(c, x, s))
<1> DEFINE read == Committed(x)
           e == InputFor(read, s)
<1>1. /\ IsInput(e) /\ e.categories = x.scheme /\ e.assigned = x.assigned
      /\ e.maxima = x.maxima /\ e.grade = [i \in Items |-> x.grade[<<s, i>>]] /\ read.scheme = x.scheme
    BY CommittedTyped DEF InputFor
<1>2. CASE c.blend
    <2>1. e.blended = BlendedScore(read, s)
        BY <1>1, <1>2 DEF InputFor, BlendRead
    <2> HIDE DEF e
    <2>2. ScoreIn(e, c) = BlendedScore(read, s)
        BY <1>1, <1>2, <2>1, ScoreLaws
    <2> QED
        BY <1>2, <2>2, BlendIsExpected DEF Evaluable, e
<1>3. CASE ~c.blend
    <2> DEFINE S == GradedItems(c, x, s)
    <2>1. ScoredItems(e, c) = S
        <3> HIDE DEF e
        <3> QED
            BY <1>1 DEF ScoredItems, Graded, Counted, GradedItems
    <2>2. [i \in S |-> Fraction(100 * e.grade[i], e.maxima[i] * Cardinality(S))]
            = [i \in S |-> Fraction(100 * x.grade[<<s, i>>], x.maxima[i] * Cardinality(S))]
        <3> HIDE DEF e
        <3> QED
            BY <1>1 DEF GradedItems
    <2>3. Evaluable(c, x, s) <=> S # {}
        BY <1>3 DEF Evaluable
    <2>4. ExpectedScore(c, x, s)
            = SumOf([i \in S |-> Fraction(100 * x.grade[<<s, i>>],
                                          x.maxima[i] * Cardinality(S))])
        BY <1>3 DEF ExpectedScore
    <2> HIDE DEF e, S
    <2>5. S # {} => /\ ExpectedScore(c, x, s) \in Fractions
                    /\ Same(ScoreIn(e, c), ExpectedScore(c, x, s))
        <3> SUFFICES ASSUME S # {}
                     PROVE  /\ ExpectedScore(c, x, s) \in Fractions
                            /\ Same(ScoreIn(e, c), ExpectedScore(c, x, s))
            OBVIOUS
        <3> DEFINE shares == [i \in S |-> Fraction(100 * e.grade[i],
                                                   e.maxima[i] * Cardinality(S))]
        <3>1. SumOf(shares) \in Fractions /\ Same(ScoreIn(e, c), SumOf(shares))
            BY <1>1, <1>3, <2>1, MeanOfItems
        <3> QED
            BY <2>2, <2>4, <3>1
    <2>6. ScoreIn(e, c) = None <=> S = {}
        BY <1>1, <1>3, <2>1, ScoreLaws
    <2> QED
        BY <2>3, <2>5, <2>6 DEF e
<1> QED
    BY <1>2, <1>3

LEMMA RoundsAsRounded ==
    ASSUME NEW p \in Fractions, NEW q \in Fractions, Same(p, q)
    PROVE  RoundsTo(q, Round2(p))
<1>1. Round2(p) # None
    BY RoundedSame, NoFraction
<1> QED
    BY <1>1, RoundedSame DEF RoundsTo, Rounded

\* The answer made from a committed course has the figures it ought to have.
LEMMA CommittedIsRight ==
    ASSUME NEW x \in CourseStates, NEW s \in Students
    PROVE  IsEvaluation(AnswerFor(Committed(x), s), x, s)
<1> DEFINE e == InputFor(Committed(x), s)
           a == AnswerFor(Committed(x), s)
           D == {c \in x.scheme : Evaluable(c, x, s)}
           q == [c \in D |-> ExpectedScore(c, x, s)]
           n == SumOf([c \in D |-> Fraction(c.weight, 1)]).num
           mean == SumOf([c \in D |-> Times(ExpectedScore(c, x, s), Fraction(c.weight, n))])
<1>1. IsInput(e) /\ e.categories = x.scheme /\ a = EvaluationOf(e)
    BY CommittedTyped, AnswerOfInput DEF InputFor
<1> HIDE DEF a
<1>2. \A c \in x.scheme :
        /\ Evaluable(c, x, s) <=> ScoreIn(e, c) # None
        /\ Evaluable(c, x, s) => /\ ExpectedScore(c, x, s) \in Fractions
                                 /\ Same(ScoreIn(e, c), ExpectedScore(c, x, s))
    BY ScoresAreExpected
<1> HIDE DEF e
<1>3. D = Evaluated(e)
    BY <1>1, <1>2 DEF Evaluated
<1>4. [c \in D |-> Fraction(c.weight, 1)] = [c \in D |-> Fraction(Weights(e)[c], 1)]
    BY <1>1, <1>3, EvaluationLaws
<1>5. n = Weight(e).num
    BY <1>3, <1>4 DEF Weight
<1>6. q \in [D -> Fractions] /\ \A c \in D : Same(ScoreIn(e, c), q[c])
    BY <1>2
<1>7. [c \in D |-> Times(q[c], Fraction(c.weight, n))]
        = [c \in D |-> Times(ExpectedScore(c, x, s), Fraction(c.weight, n))]
    <2> HIDE DEF D, n
    <2> QED
        OBVIOUS
<1>8. a.weight = n /\ DOMAIN a.results = x.scheme
    BY <1>1, <1>5, FiguresOf
<1>9. IF n = 0 THEN a.current = None ELSE RoundsTo(mean, a.current)
    <2>1. ASSUME n # 0
          PROVE  mean \in Fractions /\ Same(Current(e), mean)
        <3> DEFINE sum == SumOf([c \in D |-> Times(q[c], Fraction(c.weight, n))])
        <3>1. sum = mean
            BY <1>7
        <3> HIDE DEF D, q, n, mean
        <3>2. sum \in Fractions /\ Same(Current(e), sum)
            BY <1>1, <1>3, <1>5, <1>6, <2>1, CurrentIsMean
        <3> QED
            BY <3>1, <3>2
    <2> HIDE DEF n, mean
    <2>2. n = 0 => a.current = None
        BY <1>1, <1>5, FiguresOf
    <2>3. n # 0 => a.current = Round2(Current(e)) /\ Current(e) \in Fractions
        BY <1>1, <1>5, FiguresOf, EvaluationLaws
    <2> QED
        BY <2>1, <2>2, <2>3, RoundsAsRounded
<1>10. ASSUME NEW c \in x.scheme
       PROVE  CategoryRight(a.results[c], c, x, s)
    <2>1. /\ a.results[c].score = Round2OrNone(ScoreIn(e, c))
          /\ a.results[c].contribution =
                IF c \in Evaluated(e) THEN Round2(Contributions(e)[c]) ELSE None
        BY <1>1, FiguresOf
    <2>2. CASE ~Evaluable(c, x, s)
        <3>1. ScoreIn(e, c) = None /\ c \notin Evaluated(e)
            BY <1>2, <2>2 DEF Evaluated
        <3> QED
            BY <2>1, <2>2, <3>1 DEF CategoryRight, Round2OrNone
    <2>3. CASE Evaluable(c, x, s)
        <3> DEFINE p == ScoreIn(e, c)
                   r == ExpectedScore(c, x, s)
                   k == Fraction(c.weight, 10000)
        <3>1. c \in Evaluated(e) /\ p # None /\ r \in Fractions /\ Same(p, r)
            BY <1>2, <1>3, <2>3
        <3>2. p \in Fractions /\ k \in Fractions
            BY <1>1, <3>1, EvaluationLaws
        <3>3. Contributions(e)[c] = Times(p, k)
            BY <3>1 DEF Contributions
        <3> HIDE DEF p, r, k
        <3>4. RoundsTo(r, Round2(p))
            BY <3>1, <3>2, RoundsAsRounded
        <3>5. RoundsTo(Times(r, k), Round2(Times(p, k)))
            <4>1. Same(Times(p, k), Times(r, k))
                BY <3>1, <3>2, SameArguments DEF Same
            <4> QED
                BY <3>1, <3>2, <4>1, TimesValue, RoundsAsRounded
        <3>6. a.results[c].score = Round2(p) /\ a.results[c].contribution = Round2(Times(p, k))
            BY <2>1, <3>1, <3>3 DEF Round2OrNone, p
        <3> QED
            BY <2>3, <3>4, <3>5, <3>6 DEF CategoryRight, r, k
    <2> QED
        BY <2>2, <2>3
<1> QED
    BY <1>8, <1>9, <1>10 DEF IsEvaluation, a

\* A request asked now and not disturbed answers, to the hundredth, the figures
\* that follow from the course item by item and session by session.
THEOREM FiguresAreRight == Spec => []FiguresRight
<1>1. EvaluationInv => FiguresRight
    BY CommittedIsRight DEF EvaluationInv, CourseOK, FiguresRight
<1> QED
    BY <1>1, AlwaysHolds, PTL
===============================================================================
