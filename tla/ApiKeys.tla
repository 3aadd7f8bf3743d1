-------------------------------- MODULE ApiKeys --------------------------------
(***************************************************************************)
(* The API keys of app/auth/api_keys.py and the command line that issues,  *)
(* rotates and revokes them (app/auth/manage_api_keys.py).  Any number of  *)
(* operators may run commands at once; each command is one transaction     *)
(* under READ COMMITTED, and a partial unique index allows a student one   *)
(* active key.  The plaintext of a key exists only in the command that     *)
(* made it, which prints it after its COMMIT.                              *)
(*                                                                         *)
(* A command for an unknown account number or course ends at its first     *)
(* SELECT, as a stuttering step does, and is left out; so is list.         *)
(***************************************************************************)

CONSTANTS
    Commands,  \* runs of the command line; a command names the key it makes
    Students,  \* ids of academic.students
    Courses,   \* ids of academic.courses
    None       \* no row, no owner

ASSUME KeysAssumption == None \notin Students \cup Courses \cup Commands

VARIABLES
    keys,  \* auth.api_keys, committed
    cmd    \* every command: what it was asked, its step, its open transaction

keyVars == <<keys, cmd>>

\* A row of api_keys with the CHECK of its role and owner.
KeyRows ==
    [role : {"student"}, owner : Students, active : BOOLEAN]
    \cup [role : {"admin"}, owner : {None}, active : BOOLEAN]
    \cup [role : {"bot"}, owner : Courses, active : BOOLEAN]

\* What can be asked, and the first step of it; revoke names a key.
Invocations ==
    [op : {"issue_student", "rotate"}, target : Students]
    \cup [op : {"issue_admin"}, target : {None}]
    \cup [op : {"issue_bot"}, target : Courses]
    \cup [op : {"revoke"}, target : Commands]

ASSUME RowsAssumption == None \notin KeyRows \cup Invocations

FirstStep(op) ==
    CASE op = "issue_student" -> "check"
      [] op \in {"rotate", "revoke"} -> "scan"
      [] OTHER -> "insert"

\* The steps of a command; ended: with an error message, a traceback or a kill.
Steps == {"new", "check", "scan", "update", "insert", "commit", "report",
          "reported", "ended"}

\* found: the rows the snapshot of UPDATE shows; revoked, made: its writes, open
\* or committed.
CommandStates ==
    [pc : Steps, asked : Invocations \cup {None}, found : SUBSET Commands,
     revoked : SUBSET Commands, made : BOOLEAN]

NewCommand ==
    [pc |-> "new", asked |-> None, found |-> {}, revoked |-> {}, made |-> FALSE]

Key(role, owner) == [role |-> role, owner |-> owner, active |-> TRUE]

\* The row a command inserts.
KeyOf(asked) ==
    CASE asked.op = "issue_admin" -> Key("admin", None)
      [] asked.op = "issue_bot" -> Key("bot", asked.target)
      [] OTHER -> Key("student", asked.target)

Active(k) == keys[k] # None /\ keys[k].active

ActiveKeysOf(s) ==
    {k \in Commands : Active(k) /\ keys[k].role = "student" /\ keys[k].owner = s}

\* A command inside its transaction, holding the locks of its writes.
Open(c) == cmd[c].pc \in {"insert", "commit"}

InsertsStudentKey(c) == cmd[c].asked.op \in {"issue_student", "rotate"}

\* p has an uncommitted row lock on a row c's UPDATE found.
UpdateWaitsFor(c, p) ==
    /\ cmd[c].pc = "update"
    /\ p # c /\ Open(p) /\ cmd[c].found \cap cmd[p].revoked # {}

\* p has inserted or revoked, uncommitted, an entry of uq_api_keys_active_student
\* for c's student.
InsertWaitsFor(c, p) ==
    /\ cmd[c].pc = "insert" /\ InsertsStudentKey(c)
    /\ p # c /\ Open(p)
    /\ \/ cmd[p].made /\ InsertsStudentKey(p)
          /\ cmd[p].asked.target = cmd[c].asked.target
       \/ cmd[p].revoked \cap ActiveKeysOf(cmd[c].asked.target) # {}

WaitsFor(c, p) == UpdateWaitsFor(c, p) \/ InsertWaitsFor(c, p)

\* The unique index refuses a second active key of the student.
Conflicts(c) ==
    /\ InsertsStudentKey(c)
    /\ \E k \in ActiveKeysOf(cmd[c].asked.target) : k \notin cmd[c].revoked

-------------------------------------------------------------------------------

KeysInit ==
    /\ keys = [k \in Commands |-> None]
    /\ cmd = [c \in Commands |-> NewCommand]

\* The command ends and reports nothing; what was not committed is rolled back.
Ends(c) == cmd' = [cmd EXCEPT ![c] = [NewCommand EXCEPT !.pc = "ended"]]

Begin(c, asked) ==
    /\ cmd[c].pc = "new"
    /\ cmd' = [cmd EXCEPT ![c] = [NewCommand EXCEPT !.pc = FirstStep(asked.op),
                                                    !.asked = asked]]
    /\ UNCHANGED keys

\* issue_student_key looks for an active key first.
CheckActive(c) ==
    /\ cmd[c].pc = "check"
    /\ IF ActiveKeysOf(cmd[c].asked.target) = {}
       THEN cmd' = [cmd EXCEPT ![c].pc = "insert"]
       ELSE Ends(c)
    /\ UNCHANGED keys

\* The rows UPDATE ... WHERE revoked_at IS NULL finds in its own snapshot.
Scan(c) ==
    /\ cmd[c].pc = "scan"
    /\ cmd' = [cmd EXCEPT
        ![c].found = IF cmd[c].asked.op = "rotate" THEN ActiveKeysOf(cmd[c].asked.target)
                     ELSE {k \in {cmd[c].asked.target} : Active(k)},
        ![c].pc = "update"]
    /\ UNCHANGED keys

\* Mutant: rotate commits the revocation before the INSERT.
UpdateAndCommit(c) ==
    /\ cmd[c].pc = "update"
    /\ \A p \in Commands : ~UpdateWaitsFor(c, p)
    /\ cmd' = [cmd EXCEPT
        ![c].revoked = {k \in cmd[c].found : Active(k)},
        ![c].pc = IF cmd[c].asked.op = "rotate" THEN "insert" ELSE "commit"]
    /\ keys' = [k \in Commands |-> IF k \in cmd[c].found
                                   THEN [keys[k] EXCEPT !.active = FALSE] ELSE keys[k]]

\* Mutant: the rows found are not waited for.
UpdateAtOnce(c) ==
    /\ cmd[c].pc = "update"
    /\ cmd' = [cmd EXCEPT
        ![c].revoked = {k \in cmd[c].found : Active(k)},
        ![c].pc = IF cmd[c].asked.op = "rotate" THEN "insert" ELSE "commit"]
    /\ UNCHANGED keys

\* UPDATE waits for other writers of these rows and looks at them again; a key
\* made since its snapshot is not among them.
Update(c) ==
    /\ cmd[c].pc = "update"
    /\ \A p \in Commands : ~UpdateWaitsFor(c, p)
    /\ cmd' = [cmd EXCEPT
        ![c].revoked = {k \in cmd[c].found : Active(k)},
        ![c].pc = IF cmd[c].asked.op = "rotate" THEN "insert" ELSE "commit"]
    /\ UNCHANGED keys

\* Mutant: the index has no entry of a transaction still open.
InsertUnawares(c) ==
    /\ cmd[c].pc = "insert"
    /\ IF Conflicts(c) THEN Ends(c)
       ELSE cmd' = [cmd EXCEPT ![c].made = TRUE, ![c].pc = "commit"]
    /\ UNCHANGED keys

\* _insert_key.  A conflict is ActiveStudentKeyExistsError after issue_student,
\* a traceback after rotate; either way nothing is written.
Insert(c) ==
    /\ cmd[c].pc = "insert"
    /\ \A p \in Commands : ~InsertWaitsFor(c, p)
    /\ IF Conflicts(c) THEN Ends(c)
       ELSE cmd' = [cmd EXCEPT ![c].made = TRUE, ![c].pc = "commit"]
    /\ UNCHANGED keys

Commit(c) ==
    /\ cmd[c].pc = "commit"
    /\ keys' = [k \in Commands |->
        CASE k = c /\ cmd[c].made -> KeyOf(cmd[c].asked)
          [] k \in cmd[c].revoked -> [keys[k] EXCEPT !.active = FALSE]
          [] OTHER -> keys[k]]
    /\ cmd' = [cmd EXCEPT ![c].pc = "report"]

\* _print_issued, or "revoked key".
Report(c) ==
    /\ cmd[c].pc = "report"
    /\ cmd' = [cmd EXCEPT ![c].pc = "reported"]
    /\ UNCHANGED keys

\* The process is killed or a statement raises: the open transaction is rolled
\* back; after the COMMIT only the report is missing, and with it the key.
Abort(c) ==
    /\ cmd[c].pc \notin {"new", "reported", "ended"}
    /\ Ends(c)
    /\ UNCHANGED keys

CommandNext ==
    \E c \in Commands :
        \/ \E asked \in Invocations : Begin(c, asked)
        \/ CheckActive(c)
        \/ Scan(c)
        \/ Update(c)
        \/ Insert(c)
        \/ Commit(c)
        \/ Report(c)
        \/ Abort(c)

KeysSpec == KeysInit /\ [][CommandNext]_keyVars

-------------------------------------------------------------------------------
(* Properties *)

\* Keys that have been printed: all a client can hold.
Printed == {k \in Commands : cmd[k].pc = "reported" /\ cmd[k].made}

KeysTypeOK ==
    /\ keys \in [Commands -> KeyRows \cup {None}]
    /\ cmd \in [Commands -> CommandStates]

\* models.py, uq_api_keys_active_student: however commands overlap, a student
\* has one active key at most.
OneActiveKey ==
    \A s \in Students : \A k, l \in ActiveKeysOf(s) : k = l

\* api_keys.py, "leaves the previous key active rather than locking the student
\* out": whatever fails, only a revoke takes a student's last active key; a
\* rotation that does away with one puts its own in its place in the same step.
NeverLockedOut ==
    [][\A s \in Students : ActiveKeysOf(s) # {} /\ ActiveKeysOf(s)' = {} =>
        \E c \in Commands : cmd[c].pc = "commit" /\ cmd[c].asked.op = "revoke"
                            /\ ActiveKeysOf(s) \subseteq cmd[c].revoked]_keyVars

\* Locks are waited for, but never in a chain: the command one waits for can
\* always go on, so every wait of two rotations, revocations and issues ends.
WaitsAreShort ==
    \A c, p \in Commands : WaitsFor(c, p) => \A q \in Commands : ~WaitsFor(p, q)
===============================================================================
