-------------------------- MODULE ParticipationProofs --------------------------
(***************************************************************************)
(* Theorems about ApiKeys and Participation, for any number of commands,   *)
(* students and requests: what the row locks and the partial unique index  *)
(* achieve between commands that read their own snapshots, what a request  *)
(* authenticated once may still do beside them, and what appended and      *)
(* deleted observations amount to however requests overlap, fail, or lose  *)
(* their answers.                                                          *)
(***************************************************************************)
EXTENDS Participation, TLAPS

-------------------------------------------------------------------------------
(* The key commands: the invariant *)

\* What a command has in memory at each of its steps.
CommandOK(m) ==
    /\ m.pc \in {"new", "ended"} => m.revoked = {}
    /\ m.pc \notin {"new", "ended"} => m.asked \in Invocations
    /\ m.made => m.pc \in {"commit", "report", "reported"} /\ m.asked.op # "revoke"
    /\ m.pc = "check" => m.asked.op = "issue_student"
    /\ m.pc \in {"scan", "update"} => m.asked.op \in {"rotate", "revoke"}
    /\ m.pc = "insert" => m.asked.op # "revoke"
    /\ m.pc = "commit" => m.made \/ m.asked.op = "revoke"
    /\ m.pc \in {"check", "scan", "update"} => m.revoked = {}
    /\ m.revoked # {} => m.asked.op \in {"rotate", "revoke"}

RowsOf(s) ==
    {k \in Commands : keys[k] # None /\ keys[k].role = "student" /\ keys[k].owner = s}

\* A command's key appears with its COMMIT, and a rotation touches keys of its
\* own student only.
CommandInv ==
    \A c \in Commands :
        /\ CommandOK(cmd[c])
        /\ keys[c] # None => cmd[c].pc \in {"report", "reported", "ended"}
        /\ cmd[c].pc \in {"update", "insert", "commit"} /\ cmd[c].asked.op = "rotate"
            => cmd[c].found \cup cmd[c].revoked \subseteq RowsOf(cmd[c].asked.target)

\* An open transaction has revoked active keys, and no other has revoked them.
RowLocks ==
    /\ \A c \in Commands : Open(c) => \A k \in cmd[c].revoked : Active(k)
    /\ \A c, p \in Commands :
        c # p /\ Open(c) /\ Open(p) => cmd[c].revoked \cap cmd[p].revoked = {}

\* A key inserted and not yet committed is the only one of its student that
\* will be active.
Entry(c) == Open(c) /\ cmd[c].made /\ InsertsStudentKey(c)

IndexEntries ==
    /\ \A c \in Commands :
        Entry(c) => ActiveKeysOf(cmd[c].asked.target) \subseteq cmd[c].revoked
    /\ \A c, p \in Commands :
        c # p /\ Entry(c) /\ Entry(p) => cmd[c].asked.target # cmd[p].asked.target

KeysInv ==
    KeysTypeOK /\ CommandInv /\ RowLocks /\ IndexEntries /\ OneActiveKey

-------------------------------------------------------------------------------

\* What a command can be asked names a step to begin with.
LEMMA FirstSteps ==
    ASSUME NEW a \in Invocations
    PROVE  /\ FirstStep(a.op) \in {"check", "scan", "insert"}
           /\ FirstStep(a.op) = "check" => a.op = "issue_student"
           /\ FirstStep(a.op) = "scan" => a.op \in {"rotate", "revoke"}
           /\ FirstStep(a.op) = "insert" => a.op # "revoke"
BY DEF Invocations, FirstStep

\* The row a command inserts is active, and a student's exactly when the index
\* has an entry for it.
LEMMA KeyRow ==
    ASSUME NEW a \in Invocations, a.op # "revoke"
    PROVE  /\ KeyOf(a) \in KeyRows /\ KeyOf(a) # None /\ KeyOf(a).active
           /\ KeyOf(a).role = "student" <=> a.op \in {"issue_student", "rotate"}
           /\ a.op \in {"issue_student", "rotate"} => KeyOf(a).owner = a.target
<1>1. CASE a.op = "issue_admin"
  <2>1. KeyOf(a) = [role |-> "admin", owner |-> None, active |-> TRUE]
    BY <1>1 DEF KeyOf, Key
  <2>2. KeyOf(a) \in KeyRows
    BY <2>1 DEF KeyRows
  <2>3. KeyOf(a).active
    BY <2>1
  <2>4. KeyOf(a).role # "student" /\ a.op \notin {"issue_student", "rotate"}
    BY <1>1, <2>1
  <2> QED BY <2>2, <2>3, <2>4, RowsAssumption, Zenon
<1>2. CASE a.op = "issue_bot"
  <2>1. KeyOf(a) = [role |-> "bot", owner |-> a.target, active |-> TRUE]
    BY <1>2 DEF KeyOf, Key
  <2>2. a.target \in Courses
    BY <1>2 DEF Invocations
  <2>3. KeyOf(a) \in KeyRows
    BY <2>1, <2>2 DEF KeyRows
  <2>4. KeyOf(a).active
    BY <2>1
  <2>5. KeyOf(a).role # "student" /\ a.op \notin {"issue_student", "rotate"}
    BY <1>2, <2>1
  <2> QED BY <2>3, <2>4, <2>5, RowsAssumption, Zenon
<1>3. CASE a.op \in {"issue_student", "rotate"}
  <2>1. KeyOf(a) = [role |-> "student", owner |-> a.target, active |-> TRUE]
    BY <1>3 DEF KeyOf, Key
  <2>2. a.target \in Students
    BY <1>3 DEF Invocations
  <2>3. KeyOf(a) \in KeyRows
    BY <2>1, <2>2 DEF KeyRows
  <2>4. KeyOf(a).active
    BY <2>1
  <2>5. KeyOf(a).role = "student" /\ KeyOf(a).owner = a.target
    BY <2>1
  <2> QED BY <1>3, <2>3, <2>4, <2>5, RowsAssumption, Zenon
<1> QED BY <1>1, <1>2, <1>3 DEF Invocations

\* A step of one command that leaves the table alone keeps the invariant if what
\* the command holds afterwards is its own.
LEMMA LocalStep ==
    ASSUME KeysInv, NEW c \in Commands, NEW m \in CommandStates,
           keys' = keys, cmd' = [cmd EXCEPT ![c] = m], CommandOK(m),
           keys[c] # None => m.pc \in {"report", "reported", "ended"},
           m.pc \in {"update", "insert", "commit"} /\ m.asked.op = "rotate"
                => m.found \cup m.revoked \subseteq RowsOf(m.asked.target),
           m.pc \in {"insert", "commit"} =>
                /\ \A k \in m.revoked : Active(k)
                /\ \A p \in Commands :
                    p # c /\ Open(p) => m.revoked \cap cmd[p].revoked = {},
           m.pc \in {"insert", "commit"} /\ m.made
           /\ m.asked.op \in {"issue_student", "rotate"} =>
                /\ ActiveKeysOf(m.asked.target) \subseteq m.revoked
                /\ \A p \in Commands :
                    p # c /\ Entry(p) => m.asked.target # cmd[p].asked.target
    PROVE  KeysInv'
<1>1. cmd'[c] = m /\ \A p \in Commands : p # c => cmd'[p] = cmd[p]
  BY DEF KeysInv, KeysTypeOK
<1>2. KeysTypeOK'
  BY DEF KeysInv, KeysTypeOK
<1>3. \A p \in Commands : p # c => (Open(p)' <=> Open(p)) /\ (Entry(p)' <=> Entry(p))
  BY <1>1 DEF Open, Entry, InsertsStudentKey
<1>4. Open(c)' <=> m.pc \in {"insert", "commit"}
  BY <1>1 DEF Open
<1>5. Entry(c)' <=> /\ m.pc \in {"insert", "commit"} /\ m.made
                    /\ m.asked.op \in {"issue_student", "rotate"}
  BY <1>1 DEF Open, Entry, InsertsStudentKey
<1>6. /\ \A k : Active(k)' <=> Active(k)
      /\ \A s : RowsOf(s)' = RowsOf(s) /\ ActiveKeysOf(s)' = ActiveKeysOf(s)
  BY DEF Active, RowsOf, ActiveKeysOf
<1>7. CommandInv'
  <2> SUFFICES ASSUME NEW p \in Commands
               PROVE  /\ CommandOK(cmd'[p])
                      /\ keys'[p] # None => cmd'[p].pc \in {"report", "reported", "ended"}
                      /\ cmd'[p].pc \in {"update", "insert", "commit"}
                         /\ cmd'[p].asked.op = "rotate"
                         => cmd'[p].found \cup cmd'[p].revoked
                                \subseteq RowsOf(cmd'[p].asked.target)
    BY DEF CommandInv, CommandOK, RowsOf
  <2>1. CASE p = c
    BY <2>1, <1>1
  <2>2. CASE p # c
    BY <2>2, <1>1 DEF KeysInv, CommandInv
  <2> QED BY <2>1, <2>2
<1>8. RowLocks'
  BY <1>1, <1>3, <1>4, <1>6 DEF KeysInv, RowLocks
<1>9. IndexEntries'
  BY <1>1, <1>3, <1>5, <1>6 DEF KeysInv, IndexEntries
<1>10. OneActiveKey'
  BY <1>6 DEF KeysInv, OneActiveKey
<1> QED BY <1>2, <1>7, <1>8, <1>9, <1>10 DEF KeysInv

-------------------------------------------------------------------------------

LEMMA InitHolds == KeysInit => KeysInv
<1> SUFFICES ASSUME KeysInit PROVE KeysInv
  OBVIOUS
<1>1. KeysTypeOK
  BY DEF KeysInit, KeysTypeOK, NewCommand, CommandStates, Steps
<1>2. \A c \in Commands : cmd[c] = NewCommand /\ keys[c] = None
  BY DEF KeysInit
<1>21. NewCommand.pc = "new" /\ NewCommand.revoked = {} /\ ~NewCommand.made
  BY DEF NewCommand
<1>22. CommandOK(NewCommand)
  BY <1>21 DEF CommandOK
<1>3. \A c \in Commands : CommandOK(cmd[c]) /\ ~Open(c) /\ ~Active(c)
  BY <1>2, <1>21, <1>22 DEF Open, Active
<1>4. CommandInv
  BY <1>2, <1>21, <1>22 DEF CommandInv
<1>5. RowLocks /\ IndexEntries
  BY <1>3 DEF RowLocks, IndexEntries, Entry
<1>6. OneActiveKey
  BY <1>3 DEF OneActiveKey, ActiveKeysOf
<1> QED BY <1>1, <1>4, <1>5, <1>6 DEF KeysInv

\* A command that holds no lock after its step disturbs nobody.
LEMMA EndsQuietly ==
    ASSUME KeysInv, NEW c \in Commands, Ends(c), keys' = keys
    PROVE  KeysInv'
<1> DEFINE m == [NewCommand EXCEPT !.pc = "ended"]
<1>1. m \in CommandStates /\ m.pc = "ended" /\ m.revoked = {} /\ ~m.made
  BY DEF NewCommand, CommandStates, Steps
<1>2. CommandOK(m)
  BY <1>1 DEF CommandOK
<1>3. cmd' = [cmd EXCEPT ![c] = m]
  BY DEF Ends
<1> HIDE DEF m
<1> QED BY <1>1, <1>2, <1>3, LocalStep

LEMMA BeginHolds ==
    ASSUME KeysInv, NEW c \in Commands, NEW a \in Invocations, Begin(c, a)
    PROVE  KeysInv'
<1> DEFINE m == [NewCommand EXCEPT !.pc = FirstStep(a.op), !.asked = a]
<1>1. /\ m \in CommandStates /\ m.pc = FirstStep(a.op) /\ m.asked = a
      /\ m.found = {} /\ m.revoked = {} /\ ~m.made
  BY FirstSteps DEF NewCommand, CommandStates, Steps
<1>2. CommandOK(m)
  BY <1>1, FirstSteps DEF CommandOK
<1>3. cmd' = [cmd EXCEPT ![c] = m] /\ keys' = keys
  BY DEF Begin
<1>4. keys[c] = None
  BY DEF Begin, KeysInv, CommandInv
<1> HIDE DEF m
<1> QED BY <1>1, <1>2, <1>3, <1>4, LocalStep

LEMMA CheckActiveHolds ==
    ASSUME KeysInv, NEW c \in Commands, CheckActive(c)
    PROVE  KeysInv'
<1>1. CASE Ends(c)
  BY <1>1, EndsQuietly DEF CheckActive
<1>2. CASE ~Ends(c)
  <2> DEFINE m == [cmd[c] EXCEPT !.pc = "insert"]
  <2>1. cmd[c] \in CommandStates /\ CommandOK(cmd[c]) /\ cmd[c].pc = "check"
        /\ keys[c] = None
    BY DEF CheckActive, KeysInv, KeysTypeOK, CommandInv
  <2>2. /\ m \in CommandStates /\ m.pc = "insert" /\ m.asked = cmd[c].asked
        /\ m.revoked = {} /\ m.found = cmd[c].found /\ m.made = cmd[c].made
        /\ ~m.made /\ m.asked.op = "issue_student" /\ m.asked \in Invocations
    BY <2>1 DEF CommandStates, Steps, CommandOK
  <2>3. CommandOK(m)
    BY <2>2 DEF CommandOK
  <2>4. cmd' = [cmd EXCEPT ![c] = m] /\ keys' = keys
    BY <1>2 DEF CheckActive
  <2> HIDE DEF m
  <2> QED BY <2>1, <2>2, <2>3, <2>4, LocalStep
<1> QED BY <1>1, <1>2

LEMMA ScanHolds ==
    ASSUME KeysInv, NEW c \in Commands, Scan(c)
    PROVE  KeysInv'
<1> DEFINE rows == IF cmd[c].asked.op = "rotate" THEN ActiveKeysOf(cmd[c].asked.target)
                   ELSE {k \in {cmd[c].asked.target} : Active(k)}
<1> DEFINE m == [cmd[c] EXCEPT !.found = rows, !.pc = "update"]
<1>1. /\ cmd[c] \in CommandStates /\ CommandOK(cmd[c]) /\ cmd[c].pc = "scan"
      /\ keys[c] = None /\ cmd[c].asked \in Invocations
      /\ cmd[c].asked.op \in {"rotate", "revoke"} /\ cmd[c].revoked = {}
  BY DEF Scan, KeysInv, KeysTypeOK, CommandInv, CommandOK
<1>2. cmd[c].asked.op = "revoke" => cmd[c].asked.target \in Commands
  BY <1>1 DEF Invocations
<1>3. rows \subseteq Commands
  BY <1>1, <1>2 DEF ActiveKeysOf
<1>4. cmd[c].asked.op = "rotate" => rows \subseteq RowsOf(cmd[c].asked.target)
  BY DEF ActiveKeysOf, Active, RowsOf
<1>5. cmd' = [cmd EXCEPT ![c] = m] /\ keys' = keys
  BY DEF Scan
<1> HIDE DEF rows
<1>6. /\ m \in CommandStates /\ m.pc = "update" /\ m.asked = cmd[c].asked
      /\ m.revoked = {} /\ m.found = rows /\ m.made = cmd[c].made
  BY <1>1, <1>3 DEF CommandStates, Steps
<1>7. ~cmd[c].made
  BY <1>1 DEF CommandOK
<1>8. CommandOK(m)
  BY <1>1, <1>6, <1>7 DEF CommandOK
<1> HIDE DEF m
<1> QED BY <1>1, <1>4, <1>5, <1>6, <1>8, LocalStep

\* Nobody else has an uncommitted lock on the rows found.
LEMMA UpdateHolds ==
    ASSUME KeysInv, NEW c \in Commands, Update(c)
    PROVE  KeysInv'
<1> DEFINE revoked == {k \in cmd[c].found : Active(k)}
<1> DEFINE step == IF cmd[c].asked.op = "rotate" THEN "insert" ELSE "commit"
<1> DEFINE m == [cmd[c] EXCEPT !.revoked = revoked, !.pc = step]
<1>1. /\ cmd[c] \in CommandStates /\ CommandOK(cmd[c]) /\ cmd[c].pc = "update"
      /\ keys[c] = None /\ cmd[c].asked \in Invocations
      /\ cmd[c].asked.op \in {"rotate", "revoke"}
      /\ cmd[c].asked.op = "rotate" => cmd[c].found \subseteq RowsOf(cmd[c].asked.target)
  BY DEF Update, KeysInv, KeysTypeOK, CommandInv, CommandOK
<1>2. revoked \subseteq cmd[c].found /\ \A k \in revoked : Active(k)
  OBVIOUS
<1>3. \A p \in Commands : p # c /\ Open(p) => revoked \cap cmd[p].revoked = {}
  BY <1>1, <1>2 DEF Update, UpdateWaitsFor
<1>4. cmd' = [cmd EXCEPT ![c] = m] /\ keys' = keys
  BY DEF Update
<1>5. cmd[c].found \subseteq Commands
  BY <1>1 DEF CommandStates
<1> HIDE DEF revoked
<1>6. /\ m \in CommandStates /\ m.pc = step /\ m.asked = cmd[c].asked
      /\ m.revoked = revoked /\ m.found = cmd[c].found /\ m.made = cmd[c].made
  BY <1>1, <1>2, <1>5 DEF CommandStates, Steps
<1>7. ~cmd[c].made
  BY <1>1 DEF CommandOK
<1>8. CommandOK(m)
  BY <1>1, <1>6, <1>7 DEF CommandOK
<1>9. m.asked.op = "rotate" => m.found \cup m.revoked \subseteq RowsOf(m.asked.target)
  BY <1>1, <1>2, <1>6
<1> HIDE DEF m
<1> QED BY <1>1, <1>2, <1>3, <1>4, <1>6, <1>7, <1>8, <1>9, LocalStep

\* The unique index has no entry of the student, committed or not, but those c
\* has revoked itself.
LEMMA InsertHolds ==
    ASSUME KeysInv, NEW c \in Commands, Insert(c)
    PROVE  KeysInv'
<1>1. CASE Conflicts(c)
  BY <1>1, EndsQuietly DEF Insert
<1>2. CASE ~Conflicts(c)
  <2> DEFINE m == [cmd[c] EXCEPT !.made = TRUE, !.pc = "commit"]
  <2>1. /\ cmd[c] \in CommandStates /\ CommandOK(cmd[c]) /\ cmd[c].pc = "insert"
        /\ keys[c] = None /\ cmd[c].asked \in Invocations /\ cmd[c].asked.op # "revoke"
        /\ cmd[c].asked.op = "rotate"
            => cmd[c].found \cup cmd[c].revoked \subseteq RowsOf(cmd[c].asked.target)
    BY DEF Insert, KeysInv, KeysTypeOK, CommandInv, CommandOK
  <2>2. cmd' = [cmd EXCEPT ![c] = m] /\ keys' = keys
    BY <1>2 DEF Insert
  <2>3. /\ m \in CommandStates /\ m.pc = "commit" /\ m.asked = cmd[c].asked
        /\ m.revoked = cmd[c].revoked /\ m.found = cmd[c].found
    BY <2>1 DEF CommandStates, Steps
  <2>4. m.made
    BY <2>1 DEF CommandStates
  <2>5. CommandOK(m)
    BY <2>1, <2>3, <2>4 DEF CommandOK
  <2>6. Open(c)
    BY <2>1 DEF Open
  <2>7. /\ \A k \in m.revoked : Active(k)
        /\ \A p \in Commands : p # c /\ Open(p) => m.revoked \cap cmd[p].revoked = {}
    BY <2>3, <2>6 DEF KeysInv, RowLocks
  <2>8. m.asked.op \in {"issue_student", "rotate"} =>
            /\ ActiveKeysOf(m.asked.target) \subseteq m.revoked
            /\ \A p \in Commands :
                p # c /\ Entry(p) => m.asked.target # cmd[p].asked.target
    BY <1>2, <2>1, <2>3
       DEF Insert, Conflicts, InsertsStudentKey, InsertWaitsFor, Entry
  <2> HIDE DEF m
  <2> QED BY <2>1, <2>2, <2>3, <2>5, <2>7, <2>8, LocalStep
<1> QED BY <1>1, <1>2

LEMMA ReportHolds ==
    ASSUME KeysInv, NEW c \in Commands, Report(c)
    PROVE  KeysInv'
<1> DEFINE m == [cmd[c] EXCEPT !.pc = "reported"]
<1>1. cmd[c] \in CommandStates /\ CommandOK(cmd[c]) /\ cmd[c].pc = "report"
  BY DEF Report, KeysInv, KeysTypeOK, CommandInv
<1>2. /\ m \in CommandStates /\ m.pc = "reported" /\ m.asked = cmd[c].asked
      /\ m.revoked = cmd[c].revoked /\ m.made = cmd[c].made
  BY <1>1 DEF CommandStates, Steps
<1>3. CommandOK(m)
  BY <1>1, <1>2 DEF CommandOK
<1>4. cmd' = [cmd EXCEPT ![c] = m] /\ keys' = keys
  BY DEF Report
<1> HIDE DEF m
<1> QED BY <1>2, <1>3, <1>4, LocalStep

-------------------------------------------------------------------------------

\* What a COMMIT does to the rows: c's key appears, the keys it has revoked are
\* inactive, and no other row changes.
LEMMA CommitRows ==
    ASSUME KeysInv, NEW c \in Commands, Commit(c)
    PROVE  /\ cmd[c] \in CommandStates /\ CommandOK(cmd[c]) /\ cmd[c].pc = "commit"
           /\ Open(c) /\ cmd[c].asked \in Invocations /\ keys[c] = None
           /\ c \notin cmd[c].revoked
           /\ cmd[c].made => keys'[c] = KeyOf(cmd[c].asked)
           /\ ~cmd[c].made => keys'[c] = None
           /\ \A k \in cmd[c].revoked : /\ keys[k] \in KeyRows
                                        /\ keys'[k] = [keys[k] EXCEPT !.active = FALSE]
           /\ \A k \in Commands \ cmd[c].revoked : k # c => keys'[k] = keys[k]
<1>1. /\ cmd[c] \in CommandStates /\ CommandOK(cmd[c]) /\ cmd[c].pc = "commit"
      /\ Open(c) /\ cmd[c].asked \in Invocations /\ keys[c] = None
  BY DEF Commit, Open, KeysInv, KeysTypeOK, CommandInv, CommandOK
<1>2. \A k \in cmd[c].revoked : k \in Commands /\ keys[k] # None
  BY <1>1 DEF CommandStates, KeysInv, RowLocks, Active
<1>3. c \notin cmd[c].revoked
  BY <1>1, <1>2
<1>4. \A k \in cmd[c].revoked : keys[k] \in KeyRows
  BY <1>2 DEF KeysInv, KeysTypeOK
<1> QED BY <1>1, <1>2, <1>3, <1>4 DEF Commit

\* Hence which keys are active afterwards, and whose.
LEMMA CommitActive ==
    ASSUME KeysInv, NEW c \in Commands, Commit(c)
    PROVE  /\ \A k \in Commands \ {c} :
                /\ Active(k)' <=> Active(k) /\ k \notin cmd[c].revoked
                /\ keys'[k] = None <=> keys[k] = None
                /\ keys[k] # None => keys'[k].role = keys[k].role
                                      /\ keys'[k].owner = keys[k].owner
           /\ Active(c)' <=> cmd[c].made
           /\ cmd[c].made =>
                /\ keys'[c].role = "student" <=> InsertsStudentKey(c)
                /\ InsertsStudentKey(c) => keys'[c].owner = cmd[c].asked.target
<1>1. cmd[c].made => cmd[c].asked.op # "revoke"
  BY CommitRows DEF CommandOK
<1>2. cmd[c].made => keys'[c] # None /\ keys'[c].active
  BY <1>1, CommitRows, KeyRow
<1>3. Active(c)' <=> cmd[c].made
  BY <1>2, CommitRows DEF Active
<1>4. cmd[c].made =>
        /\ keys'[c].role = "student" <=> InsertsStudentKey(c)
        /\ InsertsStudentKey(c) => keys'[c].owner = cmd[c].asked.target
  BY <1>1, CommitRows, KeyRow DEF InsertsStudentKey
<1>5. ASSUME NEW k \in Commands \ {c}
      PROVE  /\ Active(k)' <=> Active(k) /\ k \notin cmd[c].revoked
             /\ keys'[k] = None <=> keys[k] = None
             /\ keys[k] # None => keys'[k].role = keys[k].role
                                   /\ keys'[k].owner = keys[k].owner
  <2>1. CASE k \notin cmd[c].revoked
    <3>1. keys'[k] = keys[k]
      BY <2>1, CommitRows
    <3> QED BY <2>1, <3>1 DEF Active
  <2>2. CASE k \in cmd[c].revoked
    <3>1. keys[k] \in KeyRows /\ keys'[k] = [keys[k] EXCEPT !.active = FALSE]
      BY <2>2, CommitRows
    <3>2. keys'[k] \in KeyRows /\ keys'[k].role = keys[k].role
          /\ keys'[k].owner = keys[k].owner
      BY <3>1 DEF KeyRows
    <3>3. ~keys'[k].active
      BY <3>1 DEF KeyRows
    <3>4. keys[k] # None /\ keys'[k] # None
      BY <3>1, <3>2, RowsAssumption
    <3> QED BY <2>2, <3>2, <3>3, <3>4 DEF Active
  <2> QED BY <2>1, <2>2
<1> QED BY <1>3, <1>4, <1>5

LEMMA CommitHolds ==
    ASSUME KeysInv, NEW c \in Commands, Commit(c)
    PROVE  KeysInv'
<1> DEFINE m == [cmd[c] EXCEPT !.pc = "report"]
<1>1. /\ m \in CommandStates /\ m.pc = "report" /\ m.asked = cmd[c].asked
      /\ m.revoked = cmd[c].revoked /\ m.made = cmd[c].made
  BY CommitRows DEF CommandStates, Steps
<1>2. CommandOK(m)
  BY <1>1, CommitRows DEF CommandOK
<1>3. cmd'[c] = m /\ \A p \in Commands : p # c => cmd'[p] = cmd[p]
  BY DEF Commit, KeysInv, KeysTypeOK
<1> HIDE DEF m
<1>4. KeysTypeOK'
  <2>1. cmd' \in [Commands -> CommandStates]
    BY <1>1, <1>3 DEF Commit, KeysInv, KeysTypeOK
  <2>2. \A k \in Commands : keys'[k] \in KeyRows \cup {None}
    <3> TAKE k \in Commands
    <3>1. CASE k = c
      BY <3>1, CommitRows, KeyRow DEF CommandOK
    <3>2. CASE k \in cmd[c].revoked
      BY <3>2, CommitRows DEF KeyRows
    <3>3. CASE k # c /\ k \notin cmd[c].revoked
      BY <3>3, CommitRows DEF KeysInv, KeysTypeOK
    <3> QED BY <3>1, <3>2, <3>3
  <2>3. keys' = [k \in Commands |-> keys'[k]]
    BY DEF Commit
  <2> QED BY <2>1, <2>2, <2>3 DEF KeysTypeOK
<1>5. \A p \in Commands : Open(p)' => p # c /\ Open(p)
  BY <1>1, <1>3 DEF Open
<1>6. \A p \in Commands : Entry(p)' => p # c /\ Entry(p)
  BY <1>3, <1>5 DEF Entry, InsertsStudentKey
<1>7. CommandInv'
  <2> SUFFICES ASSUME NEW p \in Commands
               PROVE  /\ CommandOK(cmd'[p])
                      /\ keys'[p] # None => cmd'[p].pc \in {"report", "reported", "ended"}
                      /\ cmd'[p].pc \in {"update", "insert", "commit"}
                         /\ cmd'[p].asked.op = "rotate"
                         => \A k \in cmd'[p].found \cup cmd'[p].revoked :
                                /\ k \in Commands /\ keys'[k] # None
                                /\ keys'[k].role = "student"
                                /\ keys'[k].owner = cmd'[p].asked.target
    BY DEF CommandInv, CommandOK, RowsOf
  <2>1. CASE p = c
    BY <2>1, <1>1, <1>2, <1>3
  <2>2. CASE p # c
    <3>1. cmd'[p] = cmd[p] /\ CommandOK(cmd[p])
          /\ (keys'[p] # None => cmd[p].pc \in {"report", "reported", "ended"})
      BY <2>2, <1>3, CommitActive DEF KeysInv, CommandInv
    <3>2. ASSUME NEW k \in RowsOf(cmd[p].asked.target)
          PROVE  /\ k \in Commands /\ keys'[k] # None
                 /\ keys'[k].role = "student"
                 /\ keys'[k].owner = cmd[p].asked.target
      <4>1. k \in Commands \ {c} /\ keys[k] # None /\ keys[k].role = "student"
            /\ keys[k].owner = cmd[p].asked.target
        BY CommitRows DEF RowsOf
      <4> QED BY <4>1, CommitActive
    <3> QED BY <3>1, <3>2 DEF KeysInv, CommandInv
  <2> QED BY <2>1, <2>2
<1>8. RowLocks'
  <2>1. ASSUME NEW p \in Commands, Open(p)', NEW k \in cmd'[p].revoked
        PROVE  Active(k)'
    <3>1. p # c /\ Open(p) /\ cmd'[p] = cmd[p]
      BY <2>1, <1>3, <1>5
    <3>2. k \in Commands /\ Active(k) /\ k # c
      BY <2>1, <3>1, CommitRows DEF KeysInv, KeysTypeOK, CommandStates, RowLocks, Active
    <3>3. k \notin cmd[c].revoked
      BY <2>1, <3>1, CommitRows DEF KeysInv, RowLocks
    <3> QED BY <3>2, <3>3, CommitActive
  <2>2. \A p, q \in Commands :
            p # q /\ Open(p)' /\ Open(q)' => cmd'[p].revoked \cap cmd'[q].revoked = {}
    BY <1>3, <1>5 DEF KeysInv, RowLocks
  <2> QED BY <2>1, <2>2 DEF RowLocks
<1>9. ASSUME NEW s, ~(Entry(c) /\ cmd[c].asked.target = s)
      PROVE  ActiveKeysOf(s)' \subseteq ActiveKeysOf(s)
  <2> SUFFICES ASSUME NEW k \in Commands, Active(k)',
                      keys'[k].role = "student", keys'[k].owner = s
               PROVE  k \in ActiveKeysOf(s)
    BY DEF ActiveKeysOf
  <2>1. k # c
    BY <1>9, CommitActive, CommitRows DEF Entry
  <2> QED BY <2>1, CommitActive DEF ActiveKeysOf, Active
<1>10. IndexEntries'
  <2>1. ASSUME NEW p \in Commands, Entry(p)'
        PROVE  /\ cmd'[p].asked = cmd[p].asked /\ cmd'[p].revoked = cmd[p].revoked
               /\ ActiveKeysOf(cmd[p].asked.target)' \subseteq cmd[p].revoked
    <3>1. p # c /\ Entry(p) /\ cmd'[p] = cmd[p]
      BY <2>1, <1>3, <1>6
    <3>2. PICK s : s = cmd[p].asked.target
      OBVIOUS
    <3>3. ~(Entry(c) /\ cmd[c].asked.target = s) /\ ActiveKeysOf(s) \subseteq cmd[p].revoked
      BY <3>1, <3>2 DEF KeysInv, IndexEntries
    <3>4. ActiveKeysOf(s)' \subseteq cmd[p].revoked
      BY <1>9, <3>3
    <3> QED BY <3>1, <3>2, <3>4 DEF ActiveKeysOf
  <2>2. \A p, q \in Commands :
            p # q /\ Entry(p)' /\ Entry(q)' => cmd'[p].asked.target # cmd'[q].asked.target
    BY <1>3, <1>6 DEF KeysInv, IndexEntries
  <2> QED BY <2>1, <2>2 DEF IndexEntries
<1>11. OneActiveKey'
  <2> SUFFICES ASSUME NEW s \in Students, NEW k \in ActiveKeysOf(s)', NEW l \in ActiveKeysOf(s)'
               PROVE  k = l
    BY DEF OneActiveKey
  <2>1. CASE ~(Entry(c) /\ cmd[c].asked.target = s)
    BY <2>1, <1>9 DEF KeysInv, OneActiveKey
  <2>2. CASE Entry(c) /\ cmd[c].asked.target = s
    <3>1. ActiveKeysOf(s) \subseteq cmd[c].revoked
      BY <2>2 DEF KeysInv, IndexEntries
    <3>2. ASSUME NEW j \in ActiveKeysOf(s)', j # c
          PROVE  FALSE
      <4>1. j \in Commands /\ Active(j)' /\ keys'[j].role = "student" /\ keys'[j].owner = s
        BY DEF ActiveKeysOf
      <4>2. Active(j) /\ j \notin cmd[c].revoked /\ j \in ActiveKeysOf(s)
        BY <3>2, <4>1, CommitActive DEF ActiveKeysOf, Active
      <4> QED BY <3>1, <4>2
    <3> QED BY <3>2
  <2> QED BY <2>1, <2>2
<1> QED BY <1>4, <1>7, <1>8, <1>10, <1>11 DEF KeysInv

-------------------------------------------------------------------------------

LEMMA StepHolds == KeysInv /\ [CommandNext]_keyVars => KeysInv'
<1> SUFFICES ASSUME KeysInv, [CommandNext]_keyVars PROVE KeysInv'
  OBVIOUS
<1>1. ASSUME NEW c \in Commands, NEW a \in Invocations, Begin(c, a) PROVE KeysInv'
  BY <1>1, BeginHolds
<1>2. ASSUME NEW c \in Commands, CheckActive(c) PROVE KeysInv'
  BY <1>2, CheckActiveHolds
<1>3. ASSUME NEW c \in Commands, Scan(c) PROVE KeysInv'
  BY <1>3, ScanHolds
<1>4. ASSUME NEW c \in Commands, Update(c) PROVE KeysInv'
  BY <1>4, UpdateHolds
<1>5. ASSUME NEW c \in Commands, Insert(c) PROVE KeysInv'
  BY <1>5, InsertHolds
<1>6. ASSUME NEW c \in Commands, Commit(c) PROVE KeysInv'
  BY <1>6, CommitHolds
<1>7. ASSUME NEW c \in Commands, Report(c) PROVE KeysInv'
  BY <1>7, ReportHolds
<1>8. ASSUME NEW c \in Commands, Abort(c) PROVE KeysInv'
  BY <1>8, EndsQuietly DEF Abort
<1>9. CASE UNCHANGED keyVars
  BY <1>9 DEF keyVars, KeysInv, KeysTypeOK, CommandInv, CommandOK, RowsOf, RowLocks,
              IndexEntries, Entry, Open, InsertsStudentKey, OneActiveKey, ActiveKeysOf,
              Active
<1> QED BY <1>1, <1>2, <1>3, <1>4, <1>5, <1>6, <1>7, <1>8, <1>9 DEF CommandNext

\* The invariant of the commands, for every interleaving and failure.
THEOREM KeysInvariant == KeysSpec => []KeysInv
BY InitHolds, StepHolds, PTL DEF KeysSpec

\* Every reachable state is a state of the table and of its commands.
THEOREM TypeCorrect == KeysSpec => []KeysTypeOK
<1>1. KeysInv => KeysTypeOK
  BY DEF KeysInv
<1> QED BY <1>1, KeysInvariant, PTL

\* A student never has two active keys, however commands overlap or fail: the
\* invariant is inductive only with what open transactions hold.
THEOREM StudentsHaveOneKey == KeysSpec => []OneActiveKey
<1>1. KeysInv => OneActiveKey
  BY DEF KeysInv
<1> QED BY <1>1, KeysInvariant, PTL

\* No step but the COMMIT of a revoke leaves a student without an active key: a
\* rotation commits its own key with the revocation.
THEOREM RotationNeverLocksOut == KeysSpec => NeverLockedOut
<1> DEFINE Step == \A s \in Students : ActiveKeysOf(s) # {} /\ ActiveKeysOf(s)' = {} =>
        \E c \in Commands : cmd[c].pc = "commit" /\ cmd[c].asked.op = "revoke"
                            /\ ActiveKeysOf(s) \subseteq cmd[c].revoked
<1>1. KeysInv /\ [CommandNext]_keyVars => [Step]_keyVars
  <2> SUFFICES ASSUME KeysInv, CommandNext, NEW s \in Students,
                      ActiveKeysOf(s) # {}, ActiveKeysOf(s)' = {}
               PROVE  \E c \in Commands : /\ cmd[c].pc = "commit"
                                          /\ cmd[c].asked.op = "revoke"
                                          /\ ActiveKeysOf(s) \subseteq cmd[c].revoked
    OBVIOUS
  <2>1. CASE keys' = keys
    BY <2>1 DEF ActiveKeysOf, Active
  <2>2. ASSUME NEW c \in Commands, Commit(c)
        PROVE  cmd[c].pc = "commit" /\ cmd[c].asked.op = "revoke"
               /\ ActiveKeysOf(s) \subseteq cmd[c].revoked
    <3>1. ActiveKeysOf(s) \subseteq cmd[c].revoked
      <4> SUFFICES ASSUME NEW k \in ActiveKeysOf(s), k \notin cmd[c].revoked
                   PROVE  k \in ActiveKeysOf(s)'
        OBVIOUS
      <4>1. k \in Commands \ {c} /\ Active(k) /\ keys[k] # None
            /\ keys[k].role = "student" /\ keys[k].owner = s
        BY <2>2, CommitRows DEF ActiveKeysOf, Active
      <4> QED BY <2>2, <4>1, CommitActive DEF ActiveKeysOf
    <3>2. PICK k : k \in ActiveKeysOf(s) /\ k \in cmd[c].revoked
      BY <3>1
    <3>3. cmd[c].pc = "commit" /\ cmd[c].asked.op \in {"rotate", "revoke"}
      BY <2>2, <3>2, CommitRows DEF CommandOK
    <3>4. CASE cmd[c].asked.op = "rotate"
      <4>1. cmd[c].made /\ InsertsStudentKey(c)
        BY <2>2, <3>4, CommitRows DEF CommandOK, InsertsStudentKey
      <4>2. cmd[c].asked.target = s
        BY <3>2, <3>3, <3>4 DEF KeysInv, CommandInv, RowsOf, ActiveKeysOf
      <4>3. Active(c)' /\ keys'[c].role = "student" /\ keys'[c].owner = s
        BY <2>2, <4>1, <4>2, CommitActive
      <4>4. c \in ActiveKeysOf(s)'
        BY <4>3 DEF ActiveKeysOf
      <4> QED BY <4>4
    <3> QED BY <3>1, <3>3, <3>4
  <2>3. keys' = keys \/ \E c \in Commands : Commit(c)
    BY DEF CommandNext, Begin, CheckActive, Scan, Update, Insert, Report, Abort
  <2> QED BY <2>1, <2>2, <2>3
<1>2. KeysSpec => [][Step]_keyVars
  BY <1>1, KeysInvariant, PTL DEF KeysSpec
<1> QED BY <1>2 DEF NeverLockedOut

\* Whoever a command waits for waits for nobody: a rotation that holds the lock
\* of the student's one active key meets no other entry of the index.
THEOREM NoChainOfWaits == KeysSpec => []WaitsAreShort
<1>1. KeysInv => WaitsAreShort
  <2> SUFFICES ASSUME KeysInv, NEW c \in Commands, NEW p \in Commands, NEW q \in Commands,
                      WaitsFor(c, p), WaitsFor(p, q)
               PROVE  FALSE
    BY DEF WaitsAreShort
  <2>1. Open(p) /\ cmd[p].pc = "insert" /\ InsertsStudentKey(p) /\ p # q /\ Open(q)
    BY DEF WaitsFor, UpdateWaitsFor, InsertWaitsFor, Open
  <2>2. CommandOK(cmd[p]) /\ ~cmd[p].made
    BY <2>1 DEF KeysInv, CommandInv, CommandOK
  <2>3. cmd[p].revoked # {}
    BY <2>2 DEF WaitsFor, UpdateWaitsFor, InsertWaitsFor
  <2>4. cmd[p].asked.op = "rotate"
    BY <2>1, <2>2, <2>3 DEF CommandOK, InsertsStudentKey
  <2>5. PICK s : s = cmd[p].asked.target
    OBVIOUS
  <2>6. cmd[p].revoked \subseteq ActiveKeysOf(s) /\ s \in Students
    <3>1. cmd[p].asked \in Invocations
      BY <2>1, <2>2 DEF CommandOK
    <3>2. s \in Students
      BY <2>4, <2>5, <3>1 DEF Invocations
    <3>3. cmd[p].revoked \subseteq RowsOf(s)
      BY <2>1, <2>4, <2>5 DEF KeysInv, CommandInv
    <3>4. \A k \in cmd[p].revoked : Active(k)
      BY <2>1 DEF KeysInv, RowLocks
    <3> QED BY <3>2, <3>3, <3>4 DEF RowsOf, ActiveKeysOf
  <2>7. cmd[p].revoked \cap cmd[q].revoked = {}
    BY <2>1 DEF KeysInv, RowLocks
  <2>8. CASE cmd[q].made /\ InsertsStudentKey(q) /\ cmd[q].asked.target = s
    <3>1. ActiveKeysOf(s) \subseteq cmd[q].revoked
      BY <2>1, <2>8 DEF KeysInv, IndexEntries, Entry
    <3> QED BY <2>3, <2>6, <2>7, <3>1
  <2>9. CASE cmd[q].revoked \cap ActiveKeysOf(s) # {}
    <3>1. \A k, l \in ActiveKeysOf(s) : k = l
      BY <2>6 DEF KeysInv, OneActiveKey
    <3> QED BY <2>3, <2>6, <2>7, <2>9, <3>1
  <2>10. \/ cmd[q].made /\ InsertsStudentKey(q) /\ cmd[q].asked.target = s
         \/ cmd[q].revoked \cap ActiveKeysOf(s) # {}
    BY <2>1, <2>5 DEF WaitsFor, UpdateWaitsFor, InsertWaitsFor
  <2> QED BY <2>8, <2>9, <2>10
<1> QED BY <1>1, KeysInvariant, PTL

-------------------------------------------------------------------------------
(* The requests: the invariant *)

RequestSteps == {"new", "authenticate", "write", "summarise", "commit", "answer",
                 "answered", "refused", "failed"}

RequestStates ==
    [pc : RequestSteps, asks : Questions \cup {None}, seen : SUBSET Requests,
     changed : SUBSET Requests, before : SUBSET (Commands \cup Requests)]

ApiTypeOK ==
    /\ observations \in [Requests -> Students \cup {None}]
    /\ req \in [Requests -> RequestStates]

\* What request r has in memory at each of its steps.
RequestOK(r, m) ==
    /\ m.pc \in {"authenticate", "write", "summarise", "commit", "answer"}
        => m.asks \in Questions
    /\ m.pc \in {"summarise", "commit"} \/ m.changed # {} =>
        /\ m.asks \in Questions /\ m.asks.route \in {"post", "delete"}
        /\ m.asks.route = "post" => m.changed = {r}
        /\ m.asks.route = "delete" => m.changed = {m.asks.observation}
    /\ m.changed # {} => m.pc \in {"summarise", "commit", "answer", "answered", "failed"}

\* Whatever ended before a request was sent stays ended as it was.
RequestsInv ==
    \A r \in Requests : RequestOK(r, req[r]) /\ req[r].before \subseteq Known

\* The keys a committed command has revoked are rows, and inactive for good.
RevokedRows ==
    \A c \in Commands : cmd[c].pc \in {"report", "reported"} =>
        \A k \in cmd[c].revoked : keys[k] # None /\ ~keys[k].active

\* A DELETE that is under way has locked a row of its student, and no other has.
Deletions ==
    /\ \A r \in Requests : \A o \in Deleting(r) : observations[o] = req[r].asks.student
    /\ \A r, p \in Requests : r # p => Deleting(r) \cap Deleting(p) = {}

\* An observation is its POST's, and only what was appended is deleted.
Origins ==
    \A o \in Requests :
        /\ observations[o] # None => observations[o] = req[o].asks.student
        /\ Deleters(o) # {} => o \in Appended

ApiInv ==
    /\ ApiTypeOK /\ RequestsInv /\ RevokedRows /\ RevokedStaysOut
    /\ Deletions /\ Origins /\ ObservationsAddUp /\ AnswersAreUpToDate

\* What the answer of request r has to show, were m all it has in memory.
UpToDate(r, m) ==
    /\ \A p \in m.before \cap Appended :
        \/ p \in m.seen \/ Deleters(p) # {}
        \/ req[p].asks.student # m.asks.student
        \/ m.asks.route = "delete" /\ p \in m.changed
    /\ \A o \in m.seen : Deleters(o) \cap m.before = {}
    /\ m.asks.route = "post" => r \in m.seen
    /\ m.asks.route = "delete" => m.changed \cap m.seen = {}

-------------------------------------------------------------------------------

\* Requests use no table of the commands: what holds of ApiKeys alone holds of
\* it beside any number of requests.
THEOREM KeysUndisturbed == ParticipationSpec => KeysSpec
<1>1. ParticipationInit => KeysInit
  BY DEF ParticipationInit
<1>2. [ParticipationNext]_apiVars => [CommandNext]_keyVars
  BY DEF ParticipationNext, apiVars, keyVars
<1> QED BY <1>1, <1>2, PTL DEF ParticipationSpec, KeysSpec

LEMMA ApiInitHolds == ParticipationInit => ApiInv
<1> SUFFICES ASSUME ParticipationInit PROVE ApiInv
  OBVIOUS
<1>1. /\ NewRequest.pc = "new" /\ NewRequest.asks = None /\ NewRequest.seen = {}
      /\ NewRequest.changed = {} /\ NewRequest.before = {}
  BY DEF NewRequest
<1>2. \A r \in Requests : req[r] = NewRequest /\ observations[r] = None
  BY DEF ParticipationInit
<1>3. ApiTypeOK
  BY DEF ParticipationInit, ApiTypeOK, NewRequest, RequestStates, RequestSteps
<1>4. RequestsInv
  BY <1>1, <1>2 DEF RequestsInv, RequestOK
<1>5. \A c \in Commands : cmd[c].pc = "new"
  BY DEF ParticipationInit, KeysInit, NewCommand
<1>6. RevokedRows
  BY <1>5 DEF RevokedRows
<1>7. Committed = {} /\ Appended = {} /\ \A o : Deleters(o) = {}
  BY <1>1, <1>2 DEF Committed, Appended, Deleters
<1>8. \A r \in Requests : Deleting(r) = {}
  BY <1>1, <1>2 DEF Deleting
<1>9. RevokedStaysOut /\ Deletions /\ AnswersAreUpToDate
  BY <1>1, <1>2, <1>8 DEF RevokedStaysOut, Deletions, AnswersAreUpToDate
<1>10. Origins /\ ObservationsAddUp
  BY <1>2, <1>7 DEF Origins, ObservationsAddUp
<1> QED BY <1>3, <1>4, <1>6, <1>9, <1>10 DEF ApiInv

\* A step of one request that commits nothing keeps the invariant if what the
\* request has afterwards is its own.
LEMMA RequestStep ==
    ASSUME ApiInv, NEW r \in Requests, NEW m \in RequestStates,
           keys' = keys, cmd' = cmd, observations' = observations,
           req' = [req EXCEPT ![r] = m],
           req[r].pc # "answered", RequestOK(r, m), m.before \subseteq Known,
           m.pc \in {"answer", "answered", "failed"} /\ m.changed # {} <=> r \in Committed,
           r \in Committed => m.asks = req[r].asks /\ m.changed = req[r].changed,
           m.pc \in {"write", "summarise", "commit", "answer"} =>
                \A c \in m.before \cap Commands : m.asks.key \notin cmd[c].revoked,
           m.pc \in {"summarise", "commit"} /\ m.asks.route = "delete" =>
                \A o \in m.changed :
                    /\ observations[o] = m.asks.student
                    /\ \A p \in Requests \ {r} : o \notin Deleting(p),
           m.pc \in {"commit", "answer"} => UpToDate(r, m)
    PROVE  ApiInv'
<1>1. req'[r] = m /\ \A p \in Requests : p # r => req'[p] = req[p]
  BY DEF ApiInv, ApiTypeOK
<1>2. ApiTypeOK'
  BY DEF ApiInv, ApiTypeOK
<1>3. /\ Committed' = Committed
      /\ \A p \in Committed : req'[p].asks = req[p].asks /\ req'[p].changed = req[p].changed
  BY <1>1 DEF Committed
<1>4. Appended' = Appended /\ \A o : Deleters(o)' = Deleters(o)
  BY <1>3 DEF Appended, Deleters
<1>5. Known \subseteq Known' /\ \A p \in Known \cap Requests : p # r
  BY <1>1, RequestsAssumption DEF Known
<1>6. RequestsInv'
  <2> SUFFICES ASSUME NEW p \in Requests
               PROVE  RequestOK(p, req'[p]) /\ req'[p].before \subseteq Known'
    BY DEF RequestsInv, RequestOK
  <2> QED BY <1>1, <1>5 DEF ApiInv, RequestsInv
<1>7. RevokedRows'
  BY DEF ApiInv, RevokedRows
<1>8. RevokedStaysOut'
  BY <1>1 DEF ApiInv, RevokedStaysOut
<1>9. \A p \in Requests : p # r => Deleting(p)' = Deleting(p)
  BY <1>1 DEF Deleting
<1>10. Deleting(r)' = IF m.pc \in {"summarise", "commit"} /\ m.asks.route = "delete"
                      THEN m.changed ELSE {}
  BY <1>1 DEF Deleting
<1>11. Deletions'
  BY <1>1, <1>9, <1>10 DEF ApiInv, Deletions
<1>12. Origins'
  <2>1. observations[r] # None => r \in Committed
    BY DEF ApiInv, ObservationsAddUp, Appended
  <2> QED BY <2>1, <1>1, <1>4 DEF ApiInv, Origins
<1>13. ObservationsAddUp'
  BY <1>4 DEF ApiInv, ObservationsAddUp
<1>14. AnswersAreUpToDate'
  <2> SUFFICES ASSUME NEW p \in Requests, req'[p].pc \in {"commit", "answer"}
               PROVE  /\ \A q \in req'[p].before \cap Appended :
                            \/ q \in req'[p].seen \/ Deleters(q) # {}
                            \/ req'[q].asks.student # req'[p].asks.student
                            \/ req'[p].asks.route = "delete" /\ q \in req'[p].changed
                      /\ \A o \in req'[p].seen : Deleters(o) \cap req'[p].before = {}
                      /\ req'[p].asks.route = "post" => p \in req'[p].seen
                      /\ req'[p].asks.route = "delete"
                            => req'[p].changed \cap req'[p].seen = {}
    BY <1>4 DEF AnswersAreUpToDate
  <2>1. \A q \in Appended : req'[q].asks = req[q].asks
    BY <1>3 DEF Appended
  <2>2. CASE p = r
    BY <2>1, <2>2, <1>1 DEF UpToDate
  <2>3. CASE p # r
    BY <2>1, <2>3, <1>1 DEF ApiInv, AnswersAreUpToDate
  <2> QED BY <2>2, <2>3
<1> QED BY <1>2, <1>6, <1>7, <1>8, <1>11, <1>12, <1>13, <1>14 DEF ApiInv

\* A request that ends keeps what it has committed, and nothing else.
LEMMA FinishesHolds ==
    ASSUME ApiInv, NEW r \in Requests, NEW end \in {"answered", "refused", "failed"},
           keys' = keys, cmd' = cmd, observations' = observations,
           req[r].pc \notin {"new", "answered", "refused", "failed"},
           end = "refused" => req[r].pc # "answer",
           Finishes(r, end)
    PROVE  ApiInv'
<1> DEFINE m == IF req[r].pc = "answer" /\ req[r].changed # {}
                THEN [NewRequest EXCEPT !.pc = end, !.asks = req[r].asks,
                                        !.changed = req[r].changed]
                ELSE [NewRequest EXCEPT !.pc = end]
<1>1. req[r] \in RequestStates /\ RequestOK(r, req[r])
  BY DEF ApiInv, ApiTypeOK, RequestsInv
<1>2. req' = [req EXCEPT ![r] = m]
  BY DEF Finishes
<1>3. CASE req[r].pc = "answer" /\ req[r].changed # {}
  <2>1. m = [NewRequest EXCEPT !.pc = end, !.asks = req[r].asks,
                               !.changed = req[r].changed]
    BY <1>3
  <2>2. /\ m \in RequestStates /\ m.pc = end /\ m.asks = req[r].asks
        /\ m.changed = req[r].changed /\ m.before = {} /\ m.seen = {}
    BY <1>1, <2>1 DEF NewRequest, RequestStates, RequestSteps
  <2>3. r \in Committed /\ end # "refused"
    BY <1>3 DEF Committed
  <2>4. RequestOK(r, m)
    BY <1>1, <1>3, <2>2, <2>3 DEF RequestOK
  <2> HIDE DEF m
  <2> QED BY <1>2, <1>3, <2>2, <2>3, <2>4, RequestStep
<1>4. CASE ~(req[r].pc = "answer" /\ req[r].changed # {})
  <2>1. m = [NewRequest EXCEPT !.pc = end]
    BY <1>4
  <2>2. /\ m \in RequestStates /\ m.pc = end /\ m.changed = {} /\ m.before = {}
        /\ m.seen = {}
    BY <2>1 DEF NewRequest, RequestStates, RequestSteps
  <2>3. r \notin Committed
    BY <1>4 DEF Committed
  <2>4. RequestOK(r, m)
    BY <2>2 DEF RequestOK
  <2> HIDE DEF m
  <2> QED BY <1>2, <2>2, <2>3, <2>4, RequestStep
<1> QED BY <1>3, <1>4

LEMMA SendHolds ==
    ASSUME ApiInv, NEW r \in Requests, NEW asks \in Questions, Send(r, asks),
           keys' = keys, cmd' = cmd
    PROVE  ApiInv'
<1> DEFINE m == [NewRequest EXCEPT !.pc = "authenticate", !.asks = asks, !.before = Known]
<1>1. Known \subseteq Commands \cup Requests
  BY DEF Known
<1>2. /\ m \in RequestStates /\ m.pc = "authenticate" /\ m.asks = asks
      /\ m.changed = {} /\ m.seen = {} /\ m.before = Known
  BY <1>1 DEF NewRequest, RequestStates, RequestSteps
<1>3. RequestOK(r, m)
  BY <1>2 DEF RequestOK
<1>4. req' = [req EXCEPT ![r] = m] /\ observations' = observations /\ req[r].pc = "new"
  BY DEF Send
<1>5. r \notin Committed
  BY <1>4 DEF Committed
<1> HIDE DEF m
<1> QED BY <1>2, <1>3, <1>4, <1>5, RequestStep

\* The key is active, so no command known to have ended has revoked it.
LEMMA AuthenticateHolds ==
    ASSUME ApiInv, NEW r \in Requests, Authenticate(r), keys' = keys, cmd' = cmd
    PROVE  ApiInv'
<1>1. CASE Finishes(r, "refused")
  BY <1>1, FinishesHolds DEF Authenticate
<1>2. CASE ~Finishes(r, "refused")
  <2> DEFINE m == [req[r] EXCEPT !.pc = "write"]
  <2>1. /\ req[r] \in RequestStates /\ RequestOK(r, req[r])
        /\ req[r].pc = "authenticate" /\ req[r].before \subseteq Known
    BY DEF Authenticate, ApiInv, ApiTypeOK, RequestsInv
  <2>2. req' = [req EXCEPT ![r] = m] /\ observations' = observations
    BY <1>2 DEF Authenticate
  <2>3. Active(req[r].asks.key)
    BY <1>2 DEF Authenticate
  <2>4. /\ m \in RequestStates /\ m.pc = "write" /\ m.asks = req[r].asks
        /\ m.changed = req[r].changed /\ m.seen = req[r].seen /\ m.before = req[r].before
    BY <2>1 DEF RequestStates, RequestSteps
  <2>5. m.changed = {} /\ RequestOK(r, m) /\ r \notin Committed
    BY <2>1, <2>4 DEF RequestOK, Committed
  <2>6. \A c \in m.before \cap Commands : m.asks.key \notin cmd[c].revoked
    BY <2>1, <2>3, <2>4, RequestsAssumption DEF ApiInv, RevokedRows, Known, Active
  <2> HIDE DEF m
  <2> QED BY <2>1, <2>2, <2>4, <2>5, <2>6, RequestStep
<1> QED BY <1>1, <1>2

\* What is known of a request before it writes.
LEMMA Writing ==
    ASSUME ApiInv, NEW r \in Requests, req[r].pc = "write"
    PROVE  /\ req[r] \in RequestStates /\ req[r].asks \in Questions
           /\ req[r].changed = {} /\ r \notin Committed /\ req[r].before \subseteq Known
           /\ \A c \in req[r].before \cap Commands : req[r].asks.key \notin cmd[c].revoked
BY DEF ApiInv, ApiTypeOK, RequestsInv, RequestOK, Committed, RevokedStaysOut

LEMMA AppendHolds ==
    ASSUME ApiInv, NEW r \in Requests, Append(r), keys' = keys, cmd' = cmd
    PROVE  ApiInv'
<1>1. CASE Finishes(r, "refused")
  BY <1>1, FinishesHolds DEF Append
<1>2. CASE ~Finishes(r, "refused")
  <2> DEFINE m == [req[r] EXCEPT !.changed = {r}, !.pc = "summarise"]
  <2>1. req' = [req EXCEPT ![r] = m] /\ observations' = observations
        /\ req[r].pc = "write" /\ req[r].asks.route = "post"
    BY <1>2 DEF Append
  <2>2. /\ m \in RequestStates /\ m.pc = "summarise" /\ m.asks = req[r].asks
        /\ m.changed = {r} /\ m.before = req[r].before
    BY <2>1, Writing DEF RequestStates, RequestSteps
  <2>3. RequestOK(r, m)
    BY <2>1, <2>2, Writing DEF RequestOK
  <2> HIDE DEF m
  <2> QED BY <2>1, <2>2, <2>3, Writing, RequestStep
<1> QED BY <1>1, <1>2

\* The row is there, and no other DELETE holds it.
LEMMA DeleteHolds ==
    ASSUME ApiInv, NEW r \in Requests, Delete(r), keys' = keys, cmd' = cmd
    PROVE  ApiInv'
<1>1. CASE Finishes(r, "refused")
  BY <1>1, FinishesHolds DEF Delete
<1>2. CASE ~Finishes(r, "refused")
  <2>1. PICK o : o = req[r].asks.observation
    OBVIOUS
  <2> DEFINE m == [req[r] EXCEPT !.changed = {o}, !.pc = "summarise"]
  <2>2. /\ req' = [req EXCEPT ![r] = m] /\ observations' = observations
        /\ req[r].pc = "write" /\ req[r].asks.route = "delete"
        /\ o \in Requests /\ observations[o] = req[r].asks.student
        /\ \A p \in Requests \ {r} : o \notin Deleting(p)
    BY <1>2, <2>1 DEF Delete, ObservationsOf
  <2>3. /\ m \in RequestStates /\ m.pc = "summarise" /\ m.asks = req[r].asks
        /\ m.changed = {o} /\ m.before = req[r].before
    BY <2>2, Writing DEF RequestStates, RequestSteps
  <2>4. RequestOK(r, m)
    BY <2>1, <2>2, <2>3, Writing DEF RequestOK
  <2> HIDE DEF m
  <2> QED BY <2>2, <2>3, <2>4, Writing, RequestStep
<1> QED BY <1>1, <1>2

\* Whatever is known to have ended shows in the rows a SELECT returns.
LEMMA RowsShowKnown ==
    ASSUME ApiInv, NEW s \in Students
    PROVE  /\ \A p \in Appended : \/ p \in ObservationsOf(s) \/ Deleters(p) # {}
                                  \/ req[p].asks.student # s
           /\ \A o \in ObservationsOf(s) : Deleters(o) = {}
<1>1. \A o \in Requests :
        /\ observations[o] # None <=> o \in Appended /\ Deleters(o) = {}
        /\ observations[o] # None => observations[o] = req[o].asks.student
  BY DEF ApiInv, ObservationsAddUp, Origins
<1>2. \A p \in Appended : p \in Requests
  BY DEF Appended, Committed
<1> QED BY <1>1, <1>2, KeysAssumption DEF ObservationsOf

LEMMA QuestionFields ==
    ASSUME NEW q \in Questions
    PROVE  /\ q.route \in {"post", "list", "me", "bot", "delete"} /\ q.student \in Students
           /\ q.route = "delete" => q.observation \in Requests
BY DEF Questions

LEMMA ReadHolds ==
    ASSUME ApiInv, NEW r \in Requests, Read(r), keys' = keys, cmd' = cmd
    PROVE  ApiInv'
<1>1. CASE Finishes(r, "refused")
  BY <1>1, FinishesHolds DEF Read
<1>2. CASE ~Finishes(r, "refused")
  <2>1. PICK rows : rows = ObservationsOf(req[r].asks.student)
    OBVIOUS
  <2> DEFINE m == [req[r] EXCEPT !.seen = rows, !.pc = "answer"]
  <2>2. /\ req' = [req EXCEPT ![r] = m] /\ observations' = observations
        /\ req[r].pc = "write" /\ req[r].asks.route \in {"list", "me", "bot"}
    BY <1>2, <2>1 DEF Read
  <2>3. rows \subseteq Requests
    BY <2>1 DEF ObservationsOf
  <2>4. /\ m \in RequestStates /\ m.pc = "answer" /\ m.asks = req[r].asks
        /\ m.changed = {} /\ m.before = req[r].before /\ m.seen = rows
    BY <2>2, <2>3, Writing DEF RequestStates, RequestSteps
  <2>5. RequestOK(r, m)
    BY <2>2, <2>4, Writing DEF RequestOK
  <2>6. req[r].asks.student \in Students
    BY <2>2, Writing, QuestionFields
  <2> HIDE DEF m
  <2>7. UpToDate(r, m)
    BY <2>1, <2>2, <2>4, <2>6, RowsShowKnown DEF UpToDate
  <2> QED BY <2>2, <2>4, <2>5, <2>7, Writing, RequestStep
<1> QED BY <1>1, <1>2

\* The transaction sees its own change on top of what others have committed.
LEMMA SummariseHolds ==
    ASSUME ApiInv, NEW r \in Requests, Summarise(r), keys' = keys, cmd' = cmd
    PROVE  ApiInv'
<1>1. PICK rows : rows = ObservationsOf(req[r].asks.student)
  OBVIOUS
<1>2. PICK seen : seen = IF req[r].asks.route = "post" THEN rows \cup req[r].changed
                         ELSE rows \ req[r].changed
  OBVIOUS
<1> DEFINE m == [req[r] EXCEPT !.seen = seen, !.pc = "commit"]
<1>3. /\ req[r] \in RequestStates /\ RequestOK(r, req[r]) /\ req[r].pc = "summarise"
      /\ req[r].before \subseteq Known /\ req[r].asks \in Questions
      /\ req[r].asks.route \in {"post", "delete"} /\ req[r].changed \subseteq Requests
      /\ r \notin Committed
  BY DEF Summarise, ApiInv, ApiTypeOK, RequestsInv, RequestOK, RequestStates, Committed
<1>4. req' = [req EXCEPT ![r] = m] /\ observations' = observations
  BY <1>1, <1>2 DEF Summarise
<1>5. seen \subseteq Requests
  BY <1>1, <1>2, <1>3 DEF ObservationsOf
<1>6. /\ m \in RequestStates /\ m.pc = "commit" /\ m.asks = req[r].asks
      /\ m.changed = req[r].changed /\ m.before = req[r].before /\ m.seen = seen
  BY <1>3, <1>5 DEF RequestStates, RequestSteps
<1> HIDE DEF m
<1>7. RequestOK(r, m)
  BY <1>3, <1>6 DEF RequestOK
<1>8. \A c \in m.before \cap Commands : m.asks.key \notin cmd[c].revoked
  BY <1>3, <1>6 DEF ApiInv, RevokedStaysOut
<1>9. m.asks.route = "delete" =>
        \A o \in m.changed : /\ observations[o] = m.asks.student
                             /\ \A p \in Requests \ {r} : o \notin Deleting(p)
  <2> HAVE m.asks.route = "delete"
  <2>1. Deleting(r) = m.changed
    BY <1>3, <1>6 DEF Deleting
  <2> QED BY <1>6, <2>1 DEF ApiInv, Deletions
<1>10. UpToDate(r, m)
  <2>1. /\ \A p \in Appended : \/ p \in rows \/ Deleters(p) # {}
                                \/ req[p].asks.student # m.asks.student
        /\ \A o \in rows : Deleters(o) = {}
    BY <1>1, <1>3, <1>6, QuestionFields, RowsShowKnown
  <2>2. CASE m.asks.route = "post"
    <3>1. seen = rows \cup {r}
      BY <1>2, <1>3, <1>6, <2>2 DEF RequestOK
    <3>2. Deleters(r) = {}
      BY <1>3 DEF ApiInv, Origins, Appended
    <3> QED BY <1>6, <2>1, <2>2, <3>1, <3>2 DEF UpToDate
  <2>3. CASE m.asks.route = "delete"
    <3>1. seen = rows \ m.changed
      BY <1>2, <1>6, <2>3
    <3> QED BY <1>6, <2>1, <2>3, <3>1 DEF UpToDate
  <2> QED BY <1>3, <1>6, <2>2, <2>3
<1> QED BY <1>3, <1>4, <1>6, <1>7, <1>8, <1>9, <1>10, RequestStep

\* The COMMIT of a POST makes its observation, that of a DELETE takes the one
\* row it holds; no answer given or due is out of date by it.
LEMMA CommitRequestHolds ==
    ASSUME ApiInv, NEW r \in Requests, CommitRequest(r), keys' = keys, cmd' = cmd
    PROVE  ApiInv'
<1> DEFINE m == [req[r] EXCEPT !.pc = "answer"]
<1>1. /\ req[r] \in RequestStates /\ RequestOK(r, req[r]) /\ req[r].pc = "commit"
      /\ req[r].before \subseteq Known /\ req[r].asks \in Questions
      /\ req[r].asks.route \in {"post", "delete"} /\ r \notin Committed
      /\ req[r].changed # {} /\ req[r].changed \subseteq Requests
  BY DEF CommitRequest, ApiInv, ApiTypeOK, RequestsInv, RequestOK, RequestStates, Committed
<1>2. req' = [req EXCEPT ![r] = m]
  BY DEF CommitRequest
<1>3. /\ m \in RequestStates /\ m.pc = "answer" /\ m.asks = req[r].asks
      /\ m.changed = req[r].changed /\ m.before = req[r].before /\ m.seen = req[r].seen
  BY <1>1 DEF RequestStates, RequestSteps
<1>4. req'[r] = m /\ \A p \in Requests : p # r => req'[p] = req[p]
  BY <1>2 DEF ApiInv, ApiTypeOK
<1> HIDE DEF m
<1>5. RequestOK(r, m)
  BY <1>1, <1>3 DEF RequestOK
<1>6. /\ \A o \in Requests \ m.changed : observations'[o] = observations[o]
      /\ m.asks.route = "post" => \A o \in m.changed : observations'[o] = m.asks.student
      /\ m.asks.route = "delete" => \A o \in m.changed : observations'[o] = None
  BY <1>1, <1>3 DEF CommitRequest
<1>7. m.asks.student \in Students
  BY <1>1, <1>3, QuestionFields
<1>8. ApiTypeOK'
  <2>1. req' \in [Requests -> RequestStates]
    BY <1>2, <1>3 DEF ApiInv, ApiTypeOK
  <2>2. observations' \in [Requests -> Students \cup {None}]
    BY <1>1, <1>7, <1>3 DEF ApiInv, ApiTypeOK, CommitRequest
  <2> QED BY <2>1, <2>2 DEF ApiTypeOK
<1>9. Known \subseteq Known' /\ r \notin Known
  BY <1>1, <1>4, RequestsAssumption DEF Known
<1>10. RequestsInv'
  <2> SUFFICES ASSUME NEW p \in Requests
               PROVE  RequestOK(p, req'[p]) /\ req'[p].before \subseteq Known'
    BY DEF RequestsInv, RequestOK
  <2> QED BY <1>1, <1>3, <1>4, <1>5, <1>9 DEF ApiInv, RequestsInv
<1>11. RevokedRows'
  BY DEF ApiInv, RevokedRows
<1>12. RevokedStaysOut'
  BY <1>1, <1>3, <1>4 DEF ApiInv, RevokedStaysOut
<1>13. Committed' = Committed \cup {r} /\ \A p \in Committed : p # r /\ req'[p] = req[p]
  BY <1>1, <1>3, <1>4 DEF Committed
<1>14. Appended' = IF m.asks.route = "post" THEN Appended \cup {r} ELSE Appended
  BY <1>4, <1>13 DEF Appended
<1>15. \A o : Deleters(o)' = IF m.asks.route = "delete" /\ o \in m.changed
                             THEN Deleters(o) \cup {r} ELSE Deleters(o)
  BY <1>4, <1>13 DEF Deleters
<1>16. m.asks.route = "post" => m.changed = {r} /\ Deleters(r) = {} /\ observations[r] = None
  BY <1>1, <1>3 DEF RequestOK, ApiInv, Origins, Appended, ObservationsAddUp
<1>17. m.asks.route = "delete" =>
        \A o \in m.changed : /\ o \in Appended /\ Deleters(o) = {}
                             /\ \A p \in Requests \ {r} : o \notin Deleting(p)
  <2> SUFFICES ASSUME m.asks.route = "delete", NEW o \in m.changed
               PROVE  /\ o \in Appended /\ Deleters(o) = {}
                      /\ \A p \in Requests \ {r} : o \notin Deleting(p)
    OBVIOUS
  <2>1. Deleting(r) = m.changed
    BY <1>1, <1>3 DEF Deleting
  <2>2. observations[o] = m.asks.student /\ \A p \in Requests \ {r} : o \notin Deleting(p)
    BY <1>3, <2>1 DEF ApiInv, Deletions
  <2>3. o \in Requests /\ observations[o] # None
    BY <1>1, <1>3, <1>7, <2>2, KeysAssumption
  <2> QED BY <2>2, <2>3 DEF ApiInv, ObservationsAddUp
<1>18. Deletions'
  <2>1. Deleting(r)' = {} /\ \A p \in Requests : p # r => Deleting(p)' = Deleting(p)
    BY <1>3, <1>4 DEF Deleting
  <2>2. ASSUME NEW p \in Requests, p # r, NEW o \in Deleting(p)
        PROVE  observations'[o] = observations[o]
    <3>1. o \in Requests /\ observations[o] # None
      <4>1. o \in req[p].changed /\ req[p] \in RequestStates /\ RequestOK(p, req[p])
            /\ req[p].pc \in {"summarise", "commit"}
        BY <2>2 DEF Deleting, ApiInv, ApiTypeOK, RequestsInv
      <4>2. o \in Requests /\ req[p].asks \in Questions
        BY <4>1 DEF RequestStates, RequestOK
      <4>3. observations[o] = req[p].asks.student
        BY <2>2 DEF ApiInv, Deletions
      <4> QED BY <4>2, <4>3, QuestionFields, KeysAssumption
    <3>2. o \notin m.changed
      BY <1>1, <1>3, <1>16, <1>17, <2>2, <3>1
    <3> QED BY <1>6, <3>1, <3>2
  <2> QED BY <1>4, <2>1, <2>2 DEF ApiInv, Deletions
<1>19. Origins'
  <2>1. ASSUME NEW o \in Requests, observations'[o] # None
        PROVE  observations'[o] = req'[o].asks.student
    <3>1. CASE o \in m.changed
      BY <1>1, <1>3, <1>4, <1>6, <1>16, <2>1, <3>1
    <3>2. CASE o \notin m.changed
      BY <1>3, <1>4, <1>6, <2>1, <3>2 DEF ApiInv, Origins
    <3> QED BY <3>1, <3>2
  <2>2. \A o \in Requests : Deleters(o)' # {} => o \in Appended'
    BY <1>14, <1>15, <1>17 DEF ApiInv, Origins
  <2> QED BY <2>1, <2>2 DEF Origins
<1>20. ObservationsAddUp'
  <2> SUFFICES ASSUME NEW o \in Requests
               PROVE  /\ \A d, e \in Deleters(o)' : d = e
                      /\ observations'[o] # None <=> o \in Appended' /\ Deleters(o)' = {}
    BY DEF ObservationsAddUp
  <2>1. /\ \A d, e \in Deleters(o) : d = e
        /\ observations[o] # None <=> o \in Appended /\ Deleters(o) = {}
    BY DEF ApiInv, ObservationsAddUp
  <2>2. CASE o \notin m.changed
    BY <1>1, <1>3, <1>6, <1>14, <1>15, <1>16, <2>1, <2>2
  <2>3. CASE o \in m.changed /\ m.asks.route = "post"
    BY <1>6, <1>7, <1>14, <1>15, <1>16, <2>3, KeysAssumption
  <2>4. CASE o \in m.changed /\ m.asks.route = "delete"
    BY <1>6, <1>14, <1>15, <1>17, <2>4
  <2> QED BY <1>1, <1>3, <2>2, <2>3, <2>4
<1>21. AnswersAreUpToDate'
  <2> SUFFICES ASSUME NEW p \in Requests, req'[p].pc \in {"commit", "answer"}
               PROVE  /\ \A q \in req'[p].before \cap Appended' :
                            \/ q \in req'[p].seen \/ Deleters(q)' # {}
                            \/ req'[q].asks.student # req'[p].asks.student
                            \/ req'[p].asks.route = "delete" /\ q \in req'[p].changed
                      /\ \A o \in req'[p].seen : Deleters(o)' \cap req'[p].before = {}
                      /\ req'[p].asks.route = "post" => p \in req'[p].seen
                      /\ req'[p].asks.route = "delete"
                            => req'[p].changed \cap req'[p].seen = {}
    BY DEF AnswersAreUpToDate, Deleters
  <2>1. /\ req'[p].before = req[p].before /\ req'[p].seen = req[p].seen
        /\ req'[p].asks = req[p].asks /\ req'[p].changed = req[p].changed
        /\ req[p].pc \in {"commit", "answer"} /\ req[p].before \subseteq Known
    BY <1>1, <1>3, <1>4 DEF ApiInv, RequestsInv
  <2>2. UpToDate(p, req[p])
    BY <2>1 DEF ApiInv, AnswersAreUpToDate, UpToDate
  <2>3. \A q \in req[p].before \cap Appended' : q \in Appended /\ req'[q] = req[q]
    BY <1>9, <1>13, <1>14, <2>1 DEF Appended
  <2>4. \A o : Deleters(o) \subseteq Deleters(o)'
               /\ Deleters(o)' \cap req[p].before \subseteq Deleters(o)
    BY <1>9, <1>15, <2>1
  <2> QED BY <2>1, <2>2, <2>3, <2>4 DEF UpToDate
<1> QED BY <1>8, <1>10, <1>11, <1>12, <1>18, <1>19, <1>20, <1>21 DEF ApiInv

-------------------------------------------------------------------------------

\* A step of a request keeps the invariant.
LEMMA RequestStepHolds ==
    ASSUME ApiInv, RequestNext, keys' = keys, cmd' = cmd
    PROVE  ApiInv'
<1>1. ASSUME NEW r \in Requests, NEW asks \in Questions, Send(r, asks) PROVE ApiInv'
  BY <1>1, SendHolds
<1>2. ASSUME NEW r \in Requests, Authenticate(r) PROVE ApiInv'
  BY <1>2, AuthenticateHolds
<1>3. ASSUME NEW r \in Requests, Append(r) PROVE ApiInv'
  BY <1>3, AppendHolds
<1>4. ASSUME NEW r \in Requests, Delete(r) PROVE ApiInv'
  BY <1>4, DeleteHolds
<1>5. ASSUME NEW r \in Requests, Read(r) PROVE ApiInv'
  BY <1>5, ReadHolds
<1>6. ASSUME NEW r \in Requests, Summarise(r) PROVE ApiInv'
  BY <1>6, SummariseHolds
<1>7. ASSUME NEW r \in Requests, CommitRequest(r) PROVE ApiInv'
  BY <1>7, CommitRequestHolds
<1>8. ASSUME NEW r \in Requests, Answer(r) PROVE ApiInv'
  BY <1>8, FinishesHolds DEF Answer
<1>9. ASSUME NEW r \in Requests, Fail(r) PROVE ApiInv'
  BY <1>9, FinishesHolds DEF Fail
<1> QED BY <1>1, <1>2, <1>3, <1>4, <1>5, <1>6, <1>7, <1>8, <1>9 DEF RequestNext

\* What a step of a command leaves of the others' rows and of its own past: a
\* revoked key stays revoked, and a command that has reported is over.
LEMMA CommandsPast ==
    ASSUME KeysInv, CommandNext
    PROVE  /\ \A c \in Commands : cmd[c].pc = "reported" => cmd'[c] = cmd[c]
           /\ \A k \in Commands : keys[k] # None /\ ~keys[k].active
                                    => keys'[k] # None /\ ~keys'[k].active
           /\ \A c \in Commands : cmd'[c].pc \in {"report", "reported"} =>
                \/ Commit(c) /\ cmd'[c].revoked = cmd[c].revoked
                \/ cmd[c].pc \in {"report", "reported"} /\ cmd'[c].revoked = cmd[c].revoked
<1>1. PICK c \in Commands :
        \/ \E a \in Invocations : Begin(c, a)
        \/ CheckActive(c) \/ Scan(c) \/ Update(c) \/ Insert(c) \/ Commit(c) \/ Report(c)
        \/ Abort(c)
  BY DEF CommandNext
<1>2. \A p \in Commands : p # c => cmd'[p] = cmd[p]
  BY <1>1 DEF KeysInv, KeysTypeOK, Begin, CheckActive, Scan, Update, Insert, Commit, Report,
              Abort, Ends
<1>3. cmd[c].pc # "reported"
  BY <1>1 DEF Begin, CheckActive, Scan, Update, Insert, Commit, Report, Abort
<1>4. \A k \in Commands : keys[k] # None /\ ~keys[k].active
                            => keys'[k] # None /\ ~keys'[k].active
  <2>1. CASE Commit(c)
    BY <2>1, CommitRows, CommitActive DEF Active
  <2>2. CASE ~Commit(c)
    BY <1>1, <2>2 DEF Begin, CheckActive, Scan, Update, Insert, Report, Abort
  <2> QED BY <2>1, <2>2
<1>5. cmd'[c].pc \in {"report", "reported"} =>
        \/ Commit(c) /\ cmd'[c].revoked = cmd[c].revoked
        \/ cmd[c].pc \in {"report", "reported"} /\ cmd'[c].revoked = cmd[c].revoked
  <2>1. cmd[c] \in CommandStates /\ cmd \in [Commands -> CommandStates]
    BY DEF KeysInv, KeysTypeOK
  <2>2. CASE Commit(c) \/ Report(c)
    BY <2>1, <2>2 DEF Commit, Report, CommandStates
  <2>3. CASE \E a \in Invocations : Begin(c, a)
    <3>1. cmd'[c].pc \in {"check", "scan", "insert"}
      BY <2>1, <2>3, FirstSteps DEF Begin, NewCommand
    <3> QED BY <3>1
  <2>4. CASE CheckActive(c) \/ Insert(c) \/ Abort(c)
    BY <2>1, <2>4 DEF CheckActive, Insert, Abort, Ends, NewCommand, CommandStates
  <2>5. CASE Scan(c)
    BY <2>1, <2>5 DEF Scan, CommandStates
  <2>6. CASE Update(c)
    BY <2>1, <2>6 DEF Update, CommandStates
  <2> QED BY <1>1, <2>2, <2>3, <2>4, <2>5, <2>6
<1> QED BY <1>2, <1>3, <1>4, <1>5

\* A step of a command keeps the invariant.
LEMMA CommandStepHolds ==
    ASSUME KeysInv, ApiInv, CommandNext, observations' = observations, req' = req
    PROVE  ApiInv'
<1>1. ApiTypeOK' /\ Deletions' /\ Origins' /\ ObservationsAddUp' /\ AnswersAreUpToDate'
  BY DEF ApiInv, ApiTypeOK, Deletions, Deleting, Origins, ObservationsAddUp,
         AnswersAreUpToDate, Appended, Deleters, Committed
<1>2. Known \subseteq Known'
  BY CommandsPast DEF Known
<1>3. RequestsInv'
  BY <1>2 DEF ApiInv, RequestsInv, RequestOK
<1>4. RevokedRows'
  <2> SUFFICES ASSUME NEW c \in Commands, cmd'[c].pc \in {"report", "reported"},
                      NEW k \in cmd'[c].revoked
               PROVE  keys'[k] # None /\ ~keys'[k].active
    BY DEF RevokedRows
  <2>1. CASE Commit(c) /\ cmd'[c].revoked = cmd[c].revoked
    <3>1. k \in Commands \ {c} /\ Active(k)
      BY <2>1, CommitRows DEF KeysInv, RowLocks, CommandStates
    <3> QED BY <2>1, <3>1, CommitActive DEF Active
  <2>2. CASE cmd[c].pc \in {"report", "reported"} /\ cmd'[c].revoked = cmd[c].revoked
    <3>1. keys[k] # None /\ ~keys[k].active /\ k \in Commands
      BY <2>2 DEF ApiInv, RevokedRows, KeysInv, KeysTypeOK, CommandStates
    <3> QED BY <3>1, CommandsPast
  <2> QED BY <2>1, <2>2, CommandsPast
<1>5. RevokedStaysOut'
  <2>1. \A r \in Requests : \A c \in req[r].before \cap Commands : cmd'[c] = cmd[c]
    BY CommandsPast, RequestsAssumption DEF ApiInv, RequestsInv, Known
  <2> QED BY <2>1 DEF ApiInv, RevokedStaysOut
<1> QED BY <1>1, <1>3, <1>4, <1>5 DEF ApiInv

LEMMA ApiStepHolds == KeysInv /\ ApiInv /\ [ParticipationNext]_apiVars => ApiInv'
<1> SUFFICES ASSUME KeysInv, ApiInv, [ParticipationNext]_apiVars PROVE ApiInv'
  OBVIOUS
<1>1. CASE CommandNext /\ UNCHANGED <<observations, req>>
  BY <1>1, CommandStepHolds
<1>2. CASE RequestNext /\ UNCHANGED keyVars
  BY <1>2, RequestStepHolds DEF keyVars
<1>3. CASE UNCHANGED apiVars
  <2>1. ApiTypeOK' /\ Deletions' /\ Origins' /\ ObservationsAddUp' /\ AnswersAreUpToDate'
    BY <1>3 DEF apiVars, ApiInv, ApiTypeOK, Deletions, Deleting, Origins, ObservationsAddUp,
                AnswersAreUpToDate, Appended, Deleters, Committed
  <2>2. RequestsInv' /\ RevokedRows' /\ RevokedStaysOut'
    BY <1>3 DEF apiVars, ApiInv, RequestsInv, RequestOK, Known, RevokedRows, RevokedStaysOut
  <2> QED BY <2>1, <2>2 DEF ApiInv
<1> QED BY <1>1, <1>2, <1>3 DEF ParticipationNext

\* The invariant of requests and commands together, for any number of both.
THEOREM ApiInvariant == ParticipationSpec => []ApiInv
<1>1. ParticipationSpec => []KeysInv
  BY KeysUndisturbed, KeysInvariant, PTL
<1> QED BY <1>1, ApiInitHolds, ApiStepHolds, PTL DEF ParticipationSpec

\* Nothing a request may do once it is authenticated outlives what its sender
\* knew of the key: a key revoked before the request was sent never lets it in.
THEOREM RevokedKeysStayOut == ParticipationSpec => []RevokedStaysOut
<1>1. ApiInv => RevokedStaysOut
  BY DEF ApiInv
<1> QED BY <1>1, ApiInvariant, PTL

\* Every observation that was appended is there or was deleted by one request,
\* however requests overlap, fail or lose their answers.
THEOREM ObservationsAlwaysAddUp == ParticipationSpec => []ObservationsAddUp
<1>1. ApiInv => ObservationsAddUp
  BY DEF ApiInv
<1> QED BY <1>1, ApiInvariant, PTL

\* No answer leaves out what was recorded, or shows what was deleted, before it
\* was asked for.
THEOREM AnswersStayUpToDate == ParticipationSpec => []AnswersAreUpToDate
<1>1. ApiInv => AnswersAreUpToDate
  BY DEF ApiInv
<1> QED BY <1>1, ApiInvariant, PTL
===============================================================================
