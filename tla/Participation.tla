----------------------------- MODULE Participation -----------------------------
(***************************************************************************)
(* HTTP requests of app/api/routes beside the commands of ApiKeys: every   *)
(* request is authenticated once, at its start, by its X-API-Key, and then *)
(* runs in the session that looked the key up.  The three participation    *)
(* routes of admin.py append, list and delete a student's observations of  *)
(* one course (app/services/participation_service.py); /me and /bot stand  *)
(* for the reading routes of students and of the bot.                      *)
(*                                                                         *)
(* A request may fail at every step, and its answer may be lost.  The      *)
(* average and the score of an answer are functions of the observations it *)
(* has counted, which is what is kept here.                                *)
(***************************************************************************)
EXTENDS ApiKeys

CONSTANTS
    Requests,  \* HTTP requests; a POST names the observation it appends
    Enrolled   \* students enrolled in the course

ASSUME RequestsAssumption ==
    /\ Enrolled \subseteq Students
    /\ Requests \cap Commands = {}

VARIABLES
    observations,  \* academic.participation_observations, committed
    req            \* every request: what it asks, its step, its open transaction

apiVars == <<keys, cmd, observations, req>>

\* key: a printed key, revoked since or not, or None for an unknown one.
Questions ==
    [route : {"post", "list", "me", "bot"}, student : Students,
     key : Commands \cup {None}]
    \cup [route : {"delete"}, student : Students, key : Commands \cup {None},
          observation : Requests]

\* The role a route's dependency requires.
RequiredRole(route) ==
    CASE route = "me" -> "student" [] route = "bot" -> "bot" [] OTHER -> "admin"

\* A request: its step, what it asks, the observations its SELECT returned
\* (seen), the one it appended or deleted (changed), and the commands and
\* requests whose end was known to their callers when it was sent (before),
\* which no code reads.
NewRequest ==
    [pc |-> "new", asks |-> None, seen |-> {}, changed |-> {}, before |-> {}]

Known ==
    {c \in Commands : cmd[c].pc = "reported" /\ cmd[c].revoked # {}}
    \cup {r \in Requests : req[r].pc = "answered" /\ req[r].changed # {}}

\* The rows of a student that are committed.
ObservationsOf(s) == {r \in Requests : observations[r] = s}

\* r's transaction is open and holds the lock of the row it deletes.
Deleting(r) ==
    IF req[r].pc \in {"summarise", "commit"} /\ req[r].asks.route = "delete"
    THEN req[r].changed ELSE {}

-------------------------------------------------------------------------------

ParticipationInit ==
    /\ KeysInit
    /\ observations = [r \in Requests |-> None]
    /\ req = [r \in Requests |-> NewRequest]

\* The session is closed and rolls back what was not committed; of the request
\* remains what it has changed.
Finishes(r, answer) ==
    req' = [req EXCEPT ![r] =
        IF req[r].pc = "answer" /\ req[r].changed # {}
        THEN [NewRequest EXCEPT !.pc = answer, !.asks = req[r].asks,
                                !.changed = req[r].changed]
        ELSE [NewRequest EXCEPT !.pc = answer]]

Send(r, asks) ==
    /\ req[r].pc = "new"
    /\ asks.key \in Printed \cup {None}
    /\ req' = [req EXCEPT ![r] = [NewRequest EXCEPT
        !.pc = "authenticate", !.asks = asks, !.before = Known]]
    /\ UNCHANGED observations

\* Mutant: a revoked key still counts.
AuthenticateAny(r) ==
    /\ req[r].pc = "authenticate"
    /\ LET k == req[r].asks.key IN
       CASE k = None -> Finishes(r, "refused")
         [] k # None /\ keys[k].role # RequiredRole(req[r].asks.route) -> Finishes(r, "refused")
         [] OTHER -> req' = [req EXCEPT ![r].pc = "write"]
    /\ UNCHANGED observations

\* require_admin, require_student or require_bot.
Authenticate(r) ==
    /\ req[r].pc = "authenticate"
    /\ LET k == req[r].asks.key IN
       CASE k = None \/ (k # None /\ ~Active(k)) -> Finishes(r, "refused")
         [] k # None /\ Active(k) /\ keys[k].role # RequiredRole(req[r].asks.route) ->
                Finishes(r, "refused")
         [] OTHER -> req' = [req EXCEPT ![r].pc = "write"]
    /\ UNCHANGED observations

\* _ensure_enrolled and the INSERT.
Append(r) ==
    /\ req[r].pc = "write" /\ req[r].asks.route = "post"
    /\ IF req[r].asks.student \notin Enrolled THEN Finishes(r, "refused")
       ELSE req' = [req EXCEPT ![r].changed = {r}, ![r].pc = "summarise"]
    /\ UNCHANGED observations

\* Mutant: the row is looked up, and not locked.
DeleteUnlocked(r) ==
    /\ req[r].pc = "write" /\ req[r].asks.route = "delete"
    /\ LET o == req[r].asks.observation IN
       IF o \in ObservationsOf(req[r].asks.student)
       THEN req' = [req EXCEPT ![r].changed = {o}, ![r].pc = "summarise"]
       ELSE Finishes(r, "refused")
    /\ UNCHANGED observations

\* DELETE ... RETURNING waits for another DELETE of the row and then finds none,
\* or finds it still there after a rollback.
Delete(r) ==
    /\ req[r].pc = "write" /\ req[r].asks.route = "delete"
    /\ LET o == req[r].asks.observation IN
       /\ \A p \in Requests \ {r} : o \notin Deleting(p)
       /\ IF o \in ObservationsOf(req[r].asks.student)
          THEN req' = [req EXCEPT ![r].changed = {o}, ![r].pc = "summarise"]
          ELSE Finishes(r, "refused")
    /\ UNCHANGED observations

\* get_participation, and the reading routes of the other roles.
Read(r) ==
    /\ req[r].pc = "write" /\ req[r].asks.route \in {"list", "me", "bot"}
    /\ IF req[r].asks.route = "list" /\ req[r].asks.student \notin Enrolled
       THEN Finishes(r, "refused")
       ELSE req' = [req EXCEPT ![r].seen = ObservationsOf(req[r].asks.student),
                               ![r].pc = "answer"]
    /\ UNCHANGED observations

\* Mutant: the summary was read before the change.
SummariseBefore(r) ==
    /\ req[r].pc = "summarise"
    /\ req' = [req EXCEPT ![r].seen = ObservationsOf(req[r].asks.student),
                          ![r].pc = "commit"]
    /\ UNCHANGED observations

\* _current_summary: committed rows and the transaction's own change.
Summarise(r) ==
    /\ req[r].pc = "summarise"
    /\ LET rows == ObservationsOf(req[r].asks.student) IN
       req' = [req EXCEPT
        ![r].seen = IF req[r].asks.route = "post" THEN rows \cup req[r].changed
                    ELSE rows \ req[r].changed,
        ![r].pc = "commit"]
    /\ UNCHANGED observations

CommitRequest(r) ==
    /\ req[r].pc = "commit"
    /\ observations' = [o \in Requests |->
        IF o \notin req[r].changed THEN observations[o]
        ELSE IF req[r].asks.route = "post" THEN req[r].asks.student ELSE None]
    /\ req' = [req EXCEPT ![r].pc = "answer"]

Answer(r) ==
    /\ req[r].pc = "answer"
    /\ Finishes(r, "answered")
    /\ UNCHANGED observations

\* An exception, a killed worker, or an answer that never arrives.
Fail(r) ==
    /\ req[r].pc \notin {"new", "answered", "refused", "failed"}
    /\ Finishes(r, "failed")
    /\ UNCHANGED observations

RequestNext ==
    \E r \in Requests :
        \/ \E asks \in Questions : Send(r, asks)
        \/ Authenticate(r)
        \/ Append(r)
        \/ Delete(r)
        \/ Read(r)
        \/ Summarise(r)
        \/ CommitRequest(r)
        \/ Answer(r)
        \/ Fail(r)

ParticipationNext ==
    \/ CommandNext /\ UNCHANGED <<observations, req>>
    \/ RequestNext /\ UNCHANGED keyVars

ParticipationSpec == ParticipationInit /\ [][ParticipationNext]_apiVars

-------------------------------------------------------------------------------
(* Properties *)

\* Once the operator has been told that a key is revoked or rotated away, no
\* request sent later is let in by it, whatever was under way at the time.
RevokedStaysOut ==
    \A r \in Requests :
        req[r].pc \in {"write", "summarise", "commit", "answer"} =>
            \A c \in req[r].before \cap Commands : req[r].asks.key \notin cmd[c].revoked

\* The requests whose change of the observations is committed.
Committed == {r \in Requests : /\ req[r].pc \in {"answer", "answered", "failed"}
                               /\ req[r].changed # {}}
Appended == {r \in Committed : req[r].asks.route = "post"}
Deleters(o) ==
    {r \in Committed : req[r].asks.route = "delete" /\ o \in req[r].changed}

\* Every observation a client was told of is there until a DELETE takes it, and
\* of the DELETEs that overlap on it exactly one does; the others answer 404.
ObservationsAddUp ==
    \A o \in Requests :
        /\ \A d, e \in Deleters(o) : d = e
        /\ observations[o] # None <=> o \in Appended /\ Deleters(o) = {}

\* The list or summary of an answer has what was answered before the request
\* was sent: each observation recorded then and not deleted since, its own, and
\* none that was deleted then.
AnswersAreUpToDate ==
    \A r \in Requests :
        req[r].pc \in {"commit", "answer"} =>
            /\ \A p \in req[r].before \cap Appended :
                \/ p \in req[r].seen \/ Deleters(p) # {}
                \/ req[p].asks.student # req[r].asks.student
                \/ req[r].asks.route = "delete" /\ p \in req[r].changed
            /\ \A o \in req[r].seen : Deleters(o) \cap req[r].before = {}
            /\ req[r].asks.route = "post" => r \in req[r].seen
            /\ req[r].asks.route = "delete" => req[r].changed \cap req[r].seen = {}
===============================================================================
