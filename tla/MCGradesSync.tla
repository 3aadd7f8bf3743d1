----------------------------- MODULE MCGradesSync -----------------------------
(* Two users' grades on one item, and a grade row entered anew, for TLC. *)
EXTENDS GradesSync, TLC

CONSTANTS u1, u2, essay, g1, g2, g3, nobody, Ungraded

MCItemForms == {"essay", " essay", "paper", ""}
MCItemContents == {"essay", "paper"}
MCClean == [f \in MCItemForms |->
    CASE f = " essay" -> "essay" [] f = "" -> None [] OTHER -> f]
\* g3 is another row of the user of g2.
MCUserOf == (g1 :> u1) @@ (g2 :> u2) @@ (g3 :> u2) @@ (nobody :> None)
MCItemOf == [g \in DOMAIN MCUserOf |-> essay]

Row(value, hidden) == [value |-> value, hidden |-> hidden]

\* f, h: the item and its hidden flag at time 5; a, b, c, n: the grades.
Gradebook(f, h, a, b, c, n) ==
    [time |-> 5, items |-> essay :> [form |-> f, hidden |-> h],
     grades |-> (g1 :> a) @@ (g2 :> b) @@ (g3 :> c) @@ (nobody :> n)]

Ordinary ==
    {Gradebook(f, h, Row(Ungraded, 0), b, None, None) :
        f \in {"essay", "paper"}, h \in {0, 1, 5, 6},
        b \in {Row(0, 0), Row(Ungraded, 0), Row(8, 1), Row(8, 5), Row(8, 6), None}}

Odd ==
    {Gradebook(" essay", 0, None, None, Row(0, 0), None),
     Gradebook("essay", 0, None, Row(0, 0), Row(8, 0), None),
     Gradebook("essay", 0, None, Row(0, 1), Row(8, 0), None),
     Gradebook("", 0, None, None, None, None),
     Gradebook("", 1, Row(8, 0), None, None, None),
     Gradebook("essay", 0, None, None, None, Row(8, 0)),
     [NoExtraction EXCEPT !.time = 5]}

MCSnapshots == Ordinary \cup Odd

StudentSymmetry == Permutations(Students)
===============================================================================
