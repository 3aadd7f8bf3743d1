----------------------------- MODULE MCMoodleSync -----------------------------
(* Instances of MoodleSync for TLC. *)
EXTENDS MoodleSync, TLC

CONSTANTS u1, u2

\* Two enrolment methods for u1, one for every other user.
MCEnrollments ==
    {<<u, 1>> : u \in Users} \cup {<<u1, 2>>}
MCUserOf == [e \in MCEnrollments |-> e[1]]

\* A normalised student is an account number and a name; a profile is the
\* text before normalisation, "_" being padding.
MCContents == {"1/ann", "1/bob", "2/bob"}
MCAccountOf ==
    [c \in MCContents |-> IF c = "2/bob" THEN "2" ELSE "1"]
MCProfiles == {"1/ann", "1/bob", "_1/bob", "2/bob", "/ann"}
MCRawAccount ==
    [p \in MCProfiles |-> CASE p \in {"1/ann", "1/bob"} -> "1" [] p = "_1/bob" -> "_1"
                            [] p = "2/bob" -> "2" [] OTHER -> ""]
MCClean ==
    [p \in MCProfiles |-> CASE p = "/ann" -> None [] p = "_1/bob" -> "1/bob" [] OTHER -> p]

MCCourseProfiles == {"logic", "_logic", "sets", ""}
MCCourseContents == {"logic", "sets"}
MCCleanCourse ==
    [p \in MCCourseProfiles |-> CASE p = "" -> None [] p = "_logic" -> "logic" [] OTHER -> p]

\* One snapshot of Moodle: the profiles of u1 and of every other user, the
\* course and the active enrolments.
OneState(p1, p2, c, es) ==
    [profile |-> [u \in Users |-> IF u = u1 THEN p1 ELSE p2], course |-> c,
     enrolled |-> es]

\* Two account numbers handed around between the users, who come and go; u1
\* alone through two enrolment methods.
AccountStates ==
    {OneState(p1, p2, "logic", es) :
        p1 \in {"1/ann", "2/bob"}, p2 \in {"1/ann", "2/bob"},
        es \in SUBSET {<<u, 1>> : u \in Users} \cup {{<<u1, 1>>, <<u1, 2>>}}}

\* A padded account number beside the same one unpadded, a renamed student with
\* a padded course, a blank account number, a missing one, a renamed course, a
\* course without a name, no course.
MalformedStates ==
    LET Both == {<<u, 1>> : u \in Users}
        First == {<<u1, 1>>}
    IN {OneState("1/ann", "_1/bob", "logic", Both),
        OneState("_1/bob", "2/bob", "_logic", Both),
        OneState("/ann", "2/bob", "logic", Both),
        OneState(None, "2/bob", "logic", Both),
        OneState("1/ann", "2/bob", "sets", First),
        OneState("1/ann", "2/bob", "", First),
        OneState("1/ann", "2/bob", None, {})}

MCSnapshots == AccountStates \cup MalformedStates
===============================================================================
