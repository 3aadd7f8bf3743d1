--------------------------- MODULE StudentDirectory ---------------------------
(***************************************************************************)
(* What the other pipelines may rely on while the primary Moodle           *)
(* synchronisation works beside them: academic.students and the course     *)
(* mapping, as its commits leave them.  MoodleSync implements this         *)
(* specification (its property DirectoryPromise); AttendanceSync takes     *)
(* MoodleCommit as its environment.                                        *)
(***************************************************************************)

CONSTANTS
    Students,   \* ids of academic.students
    Numbers,    \* normalised account numbers
    None        \* no row

VARIABLES
    accounts,       \* the account number of each academic.students row
    courseMapped    \* course_sources has the configured Moodle course

directory == <<accounts, courseMapped>>

Directories == [Students -> Numbers \cup {None}]

\* UNIQUE(account_number) of academic.students.
UniqueAccounts(a) ==
    \A i, j \in Students : a[i] # None /\ a[i] = a[j] => i = j

DirectoryInit ==
    /\ accounts = [i \in Students |-> None]
    /\ courseMapped = FALSE

\* One commit of the primary synchronisation: students appear, account numbers
\* move, nothing is deleted.
MoodleCommit ==
    /\ accounts' \in Directories
    /\ UniqueAccounts(accounts')
    /\ \A i \in Students : accounts[i] # None => accounts'[i] # None
    /\ courseMapped' \in BOOLEAN
    /\ courseMapped => courseMapped'

DirectorySpec == DirectoryInit /\ [][MoodleCommit]_directory
===============================================================================
