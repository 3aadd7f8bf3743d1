--------------------------- MODULE MCAttendanceSync ---------------------------
(* Two Attendance students and two records of one session, for TLC. *)
EXTENDS AttendanceSync, TLC

CONSTANTS t1, t2, r1, r2, day

MCNumbers == {"1", "2"}
MCAccounts == {"1", "_1", "2", ""}
MCClean == [a \in MCAccounts |-> CASE a = "_1" -> "1" [] a = "" -> None [] OTHER -> a]
MCSessionContents == {"open", "closed"}
MCSessionForms == {"open", "closed", "undated"}

At(p, time) == [pupil |-> p, session |-> day, time |-> time]

\* a, b: account numbers of t1 and t2; y: the session; q, r: the records.
Attendance(a, b, y, q, r) ==
    [students |-> (t1 :> a) @@ (t2 :> b), sessions |-> day :> y,
     records |-> (r1 :> q) @@ (r2 :> r)]

\* Nobody, one or both students present; r2 is recorded later, or again.
Ordinary ==
    {Attendance("1", "2", y, At(t1, "am"), r) :
        y \in MCSessionContents, r \in {At(t2, "am"), At(t2, "pm"), None}}
    \cup {Attendance("1", None, "open", At(t1, "am"), None)}

\* Account numbers exchanged, a student entered anew, a record moved or entered
\* anew.
Moved ==
    {Attendance("2", "1", "closed", At(t1, "am"), At(t2, "am")),
     Attendance(None, "_1", "closed", None, At(t2, "am")),
     Attendance("1", "2", "open", At(t2, "pm"), None),
     Attendance("1", None, "open", None, At(t1, "am"))}

\* Refused at extraction, staging or validation.
Malformed ==
    {Attendance("1", "1", "open", None, None),
     Attendance("1", "_1", "open", At(t1, "am"), At(t2, "am")),
     Attendance("1", "", "open", At(t1, "am"), None),
     Attendance("1", "2", "undated", None, None),
     Attendance("1", None, "open", At(t2, "am"), None),
     Attendance("1", "2", "open", At(t1, "am"), At(t1, "pm"))}

MCSnapshots == Ordinary \cup Moved \cup Malformed

StudentSymmetry == Permutations(Students)
===============================================================================
