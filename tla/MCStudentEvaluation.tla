-------------------------- MODULE MCStudentEvaluation --------------------------
(* One student, two items, two sessions and two observations, for TLC. *)
EXTENDS StudentEvaluation, TLC

CONSTANTS s1, quiz, essay, d1, d2

Def(weight, blend) == [weight |-> weight, blend |-> blend]
Tasks == Def(3750, FALSE)
Exams == Def(6250, FALSE)
Class == Def(6250, TRUE)
Extra == Def(0, FALSE)
MCDefs == {Tasks, Exams, Class, Extra}

In(d, counts) == [category |-> d, counts |-> counts]
Scheme(defs, a, b) == [defs |-> defs, assigned |-> (quiz :> a) @@ (essay :> b)]

MCPayloads ==
    {Scheme({Tasks, Exams}, In(Tasks, TRUE), In(Exams, TRUE)),
     Scheme({Tasks, Class}, In(Tasks, TRUE), In(Tasks, TRUE)),
     Scheme({Tasks, Class}, In(Tasks, FALSE), None),
     Scheme({Exams, Tasks, Extra}, In(Extra, TRUE), In(Tasks, TRUE))}

\* Courses whose scheme is the one of a payload, put in place before.
MCCourses ==
    {[scheme |-> {Row(d, 0) : d \in p.defs},
      assigned |-> [i \in Items |-> IF p.assigned[i] = None THEN None
                                    ELSE In(Row(p.assigned[i].category, 0),
                                            p.assigned[i].counts)],
      maxima |-> (quiz :> 3) @@ (essay :> 8),
      grade |-> (<<s1, quiz>> :> g) @@ (<<s1, essay>> :> h),
      closed |-> c, attended |-> s1 :> {d1},
      observed |-> (<<s1, 1>> :> v) @@ (<<s1, 2>> :> None)] :
        p \in MCPayloads, g \in {None, 0, 1}, h \in {None, 5},
        c \in {{}, {d1, d2}}, v \in {None, 1}}
===============================================================================
