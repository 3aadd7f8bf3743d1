---------------------------- MODULE EvaluationCalc ----------------------------
(***************************************************************************)
(* The evaluation of one student in one course, a calculation without      *)
(* state: calculate_student_evaluation of                                  *)
(* app/services/evaluation_service.py and the scores it is made from.      *)
(*                                                                         *)
(* Decimals are exact fractions: a grade, a maximum and a weight are       *)
(* non-negative, and every figure shown is rounded to hundredths once, at  *)
(* the end.  Python's Decimal keeps 28 digits of a quotient instead.       *)
(***************************************************************************)
EXTENDS Integers, FiniteSets, Functions

CONSTANTS
    Items,     \* the grade items of the course
    None       \* NULL

ASSUME ItemsAssumption == IsFiniteSet(Items)

ASSUME NoneAssumption == None \notin Int \cup [num : Int, den : Int]

-------------------------------------------------------------------------------
(* Fractions *)

Gcd[p \in Nat \X Nat] == IF p[2] = 0 THEN p[1] ELSE Gcd[<<p[2], p[1] % p[2]>>]

Fraction(m, n) ==
    [num |-> m \div Gcd[<<m, n>>], den |-> n \div Gcd[<<m, n>>]]

Zero == Fraction(0, 1)

Plus(p, q) ==
    LET l == p.den * (q.den \div Gcd[<<p.den, q.den>>]) IN
    Fraction(p.num * (l \div p.den) + q.num * (l \div q.den), l)

Times(p, q) ==
    LET a == Fraction(p.num, q.den)
        b == Fraction(q.num, p.den) IN
    [num |-> a.num * b.num, den |-> a.den * b.den]

SumOf(f) == FoldFunction(Plus, Zero, f)

\* Mutant: half a hundredth is cut off.
Truncated(q) == (100 * q.num) \div q.den

\* Hundredths, ROUND_HALF_UP.
Round2(q) == (200 * q.num + q.den) \div (2 * q.den)

Round2OrNone(q) == IF q = None THEN None ELSE Round2(q)

-------------------------------------------------------------------------------
(* Scores *)

NormalizeScore(grade, max) ==
    IF grade = None \/ max <= 0 THEN None ELSE Fraction(100 * grade, max)

\* compute_attendance_score: None without a CLOSED session.
AttendanceScore(closed, present) ==
    IF closed > 0 THEN Fraction(100 * present, closed) ELSE None

\* summarize_participation: nobody observed is a zero.
ParticipationScore(values) ==
    IF DOMAIN values = {} THEN Zero
    ELSE Times(SumOf([o \in DOMAIN values |->
                        Fraction(values[o], Cardinality(DOMAIN values))]),
               Fraction(100, 3))

\* blend_attendance_participation: 33 to 67, and None when either is.
Blend(attendance, participation) ==
    IF attendance = None \/ participation = None THEN None
    ELSE Plus(Times(attendance, Fraction(33, 100)),
              Times(participation, Fraction(67, 100)))

-------------------------------------------------------------------------------
(* The evaluation.  categories: records with weight, in hundredths of a      *)
(* percent, and blend; assigned: for every item its category and whether it  *)
(* counts, or None; maxima: for every item its max_grade; grade: for every   *)
(* item the student's grade, or None.                                        *)

Counted(c, assigned) ==
    {i \in Items : assigned[i] # None /\ assigned[i].category = c /\ assigned[i].counts}

\* Mutant: a zero is taken for a missing grade.
GradedNotZero(c, assigned, grade) ==
    {i \in Counted(c, assigned) : grade[i] # None /\ grade[i] # 0}

Graded(c, assigned, grade) ==
    {i \in Counted(c, assigned) : grade[i] # None}

\* Mutant: counted items without a grade lower the mean.
ScoreOfCounted(c, assigned, maxima, grade, blended) ==
    IF c.blend THEN blended
    ELSE LET scored == {i \in Graded(c, assigned, grade) : maxima[i] > 0} IN
         IF scored = {} THEN None
         ELSE Times(SumOf([i \in scored |-> NormalizeScore(grade[i], maxima[i])]),
                    Fraction(1, Cardinality(Counted(c, assigned))))

\* The mean of the category's graded items, or the blend.
CategoryScore(c, assigned, maxima, grade, blended) ==
    IF c.blend THEN blended
    ELSE LET scored == {i \in Graded(c, assigned, grade) :
                            NormalizeScore(grade[i], maxima[i]) # None} IN
         IF scored = {} THEN None
         ELSE Times(SumOf([i \in scored |-> NormalizeScore(grade[i], maxima[i])]),
                    Fraction(1, Cardinality(scored)))

\* calculate_student_evaluation; every figure in hundredths.
Evaluation(categories, assigned, maxima, grade, blended) ==
    LET score == [c \in categories |-> CategoryScore(c, assigned, maxima, grade, blended)]
        evaluated == {c \in categories : score[c] # None}
        contribution == [c \in evaluated |->
            Times(score[c], Fraction(c.weight, 10000))]
        points == SumOf(contribution)
        weight == SumOf([c \in evaluated |-> Fraction(c.weight, 1)])
        current == IF weight = Zero THEN None
                   ELSE Times(points, Fraction(10000, weight.num))
        outOfTen == IF current = None THEN None ELSE Times(current, Fraction(1, 10))
    IN [points |-> Round2(points), weight |-> weight.num,
        current |-> Round2OrNone(current), outOfTen |-> Round2OrNone(outOfTen),
        results |-> [c \in categories |->
            [score |-> Round2OrNone(score[c]),
             contribution |-> IF c \in evaluated THEN Round2(contribution[c]) ELSE None,
             counted |-> Cardinality(Counted(c, assigned)),
             graded |-> Cardinality(Graded(c, assigned, grade))]]]

-------------------------------------------------------------------------------
(* What the figures of one evaluation owe to each other once each is rounded *)

Total(f) == FoldFunction(+, 0, f)

\* A contribution and the score it is a share of; a grade out of ten and one out
\* of a hundred.
ShareFits(w, r, t) == 2 * (10000 * t - w * r) \in -(10000 + w)..(10000 + w)
TenthFits(r, t) == 2 * (10 * t - r) \in -11..11
===============================================================================
