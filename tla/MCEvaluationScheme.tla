-------------------------- MODULE MCEvaluationScheme --------------------------
(* Instances of EvaluationScheme for TLC: two items, one of each type. *)
EXTENDS EvaluationScheme, TLC

CONSTANTS essay, quiz, p1, p2, p3

MCItems == {essay, quiz}
MCTypeOf == (essay :> "assign") @@ (quiz :> "quiz")

Category(name, order, weight, blend, mtype) ==
    [name |-> name, order |-> order, weight |-> 1000 * weight, blend |-> blend,
     mtype |-> mtype]

Tasks == Category("tasks", 1, 100, FALSE, "assign")
Tests == Category("tests", 1, 40, FALSE, "quiz")
Talk == Category("talk", 2, 60, TRUE, None)
Exam == Category("exam", 3, 100, FALSE, None)
Short == Category("short", 1, 90, FALSE, None)
Debate == Category("debate", 4, 100, TRUE, None)
Third == [Category("tasks", 1, 0, FALSE, "assign") EXCEPT !.weight = 33335]
Rest == [Category("exam", 2, 0, FALSE, None) EXCEPT !.weight = 66665]
Excess == Category("tasks", 1, 110, FALSE, "assign")
Discount == Category("exam", 2, -10, FALSE, None)
MCDefs == {Tasks, Tests, Talk, Debate, Exam, Short, Third, Rest, Excess, Discount}

Unconfigured == [d \in {} |-> {}]
Homework == Tasks :> {essay}
EmptyTasks == Tasks :> {}
WithTalk == (Tests :> {essay}) @@ (Talk :> {})
Final == Exam :> {quiz}
Debating == Debate :> {}

\* Valid and refused payloads, one after the other.
SerialPayloads ==
    {Homework, WithTalk, Final, Short :> {}, (Tests :> {quiz}) @@ (Talk :> {quiz}),
     (Third :> {}) @@ (Rest :> {essay}), (Excess :> {}) @@ (Discount :> {})}
SerialInitials == {Unconfigured, Homework}

\* Valid payloads that clash in some categories, items or in nothing.
ConcurrentPayloads == {Homework, WithTalk, Final, Debating}
ConcurrentInitials == {Unconfigured, Homework, EmptyTasks}
===============================================================================
