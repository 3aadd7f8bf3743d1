--------------------------- MODULE EvaluationScheme ---------------------------
(***************************************************************************)
(* The evaluation scheme of one course under concurrent use: whole-scheme  *)
(* PUTs (replace_evaluation_scheme), the automatic assignments of the      *)
(* Moodle grades sync, and readers that combine two SELECTs.               *)
(*                                                                         *)
(* Every transaction runs at PostgreSQL's READ COMMITTED, the isolation    *)
(* app/db/session.py leaves in place: each SQL statement sees the rows     *)
(* committed when it starts, a write waits for the transaction that holds  *)
(* the row or the unique key, and foreign keys are checked at the end of   *)
(* the statement.  Rows are visited in any order.  A transaction may fail  *)
(* at every step, and one that is part of a deadlock is made to fail.      *)
(***************************************************************************)
EXTENDS SchemeRules

CONSTANTS
    Puts,      \* PUT requests: at most one behaviour each
    Readers,   \* GET gradebook requests: at most one behaviour each
    Sync,      \* the grades sync: one process, one transaction at a time
    Seed,      \* owner of the categories configured at the start
    Payloads,  \* what administrators send
    Initials,  \* the schemes that may be configured at the start
    MaxActive, \* PUTs in progress at once
    MaxSyncs   \* bound: merge transactions of the grades sync

Txns == Puts \cup {Sync}
Owners == Puts \cup {Seed}

\* A category row carries the request that inserted it: ids are never reused.
Rows == [owner : Owners, def : {Stored(d) : d \in Defs}]
Assignments == [item : Items, row : Rows]

IsScheme(s) == DOMAIN s \subseteq Defs /\ s \in [DOMAIN s -> SUBSET Items]

ASSUME OwnersAssumption ==
    Sync \notin Puts /\ Seed \notin Puts /\ Sync # Seed /\ Readers \cap Txns = {}

ASSUME SchemeAssumption ==
    /\ \A s \in Payloads \cup Initials : IsScheme(s)
    /\ \A s \in Initials : DOMAIN s = {} \/ WellFormed(s)
    /\ \A s \in Initials : \A d \in DOMAIN s : Stored(d) = d /\ Storable(d)
    /\ MaxActive \in Nat /\ MaxSyncs \in Nat

VARIABLES
    rows,       \* committed academic.grade_categories of the course
    assigned,   \* committed academic.grade_item_evaluation
    dropped,    \* categories a transaction has deleted, uncommitted
    added,      \* categories a transaction has inserted, uncommitted
    unassigned, \* assignments a transaction has deleted, uncommitted
    assigning,  \* assignments a transaction has inserted, uncommitted
    shared,     \* categories the sync's foreign keys hold FOR KEY SHARE
    pc,         \* where each transaction or reader is
    payload,    \* the scheme a request carries
    ids,        \* existing_category_ids of a request
    left,       \* rows the running statement has not visited
    seen,       \* what a request or a reader has read for its answer
    syncs       \* merge transactions the sync has started

committed == <<rows, assigned>>
writes == <<dropped, added, unassigned, assigning, shared>>
vars == <<committed, writes, pc, payload, ids, left, seen, syncs>>

InTransaction == {"selecting", "clearing", "unassigning", "dropping", "inserting",
                  "assigning", "sharing"}
Active == {p \in Puts : pc[p] \in InTransaction \cup {"answering", "listing"}}

Row(p, d) == [owner |-> p, def |-> Stored(d)]
AssignmentsOf(p) ==
    UNION {{[item |-> i, row |-> Row(p, d)] : i \in payload[p][d]} :
                d \in DOMAIN payload[p]}

-------------------------------------------------------------------------------
(* Locks: the transactions other than t that keep t waiting *)

Others(t) == Txns \ {t}

\* DELETE of an assignment, or the foreign key check of RESTRICT meeting it.
AssignmentHolders(t, a) == {o \in Others(t) : a \in unassigned[o]}

\* DELETE of a category, or FOR KEY SHARE on it.
RowHolders(t, r) ==
    {o \in Others(t) : r \in dropped[o] \/ (o = Sync /\ r \in shared)}

\* The primary key grade_item_id.
ItemHolders(t, i) ==
    {o \in Others(t) : \E a \in unassigned[o] \cup assigning[o] : a.item = i}

\* Mutant: the partial unique index on ATTENDANCE_PARTICIPATION is missing.
ClashWithoutPartialIndex(d, e) ==
    \/ d.name = e.name
    \/ d.order = e.order
    \/ d.mtype # None /\ d.mtype = e.mtype

\* The unique constraints of grade_categories.
UniqueClash(d, e) == Clash(d, e)

UniqueHolders(t, d) ==
    {o \in Others(t) : \E r \in dropped[o] \cup added[o] : UniqueClash(r.def, d)}

\* Insertions of a request that are still to come, in the order of the loop.
MissingDefs(p) == {d \in DOMAIN payload[p] : Row(p, d) \notin added[p]}
\* Mutant: the PUT inserts its items ON CONFLICT DO NOTHING.
MissingUnlessAssigned(p) ==
    {a \in AssignmentsOf(p) :
        /\ a.row \in added[p] /\ a \notin assigning[p]
        /\ \A b \in assigned \ unassigned[p] : b.item # a.item}

MissingAssignments(p) ==
    {a \in AssignmentsOf(p) : a.row \in added[p] /\ a \notin assigning[p]}

\* Committed assignments that still refer to a category t has deleted.
References(t) == {a \in assigned \ unassigned[t] : a.row \in dropped[t]}

\* For each thing t may do next, whom it waits for.
Waits(t) ==
    CASE pc[t] = "unassigning" -> {AssignmentHolders(t, a) : a \in left[t]}
      [] pc[t] = "dropping" /\ left[t] # {} -> {RowHolders(t, r) : r \in left[t]}
      [] pc[t] = "dropping" /\ left[t] = {} ->
            {AssignmentHolders(t, a) : a \in References(t)}
      [] pc[t] = "inserting" /\ MissingAssignments(t) # {} ->
            {ItemHolders(t, a.item) : a \in MissingAssignments(t)}
      [] pc[t] = "inserting" /\ MissingAssignments(t) = {} ->
            {UniqueHolders(t, d) : d \in MissingDefs(t)}
      [] pc[t] = "assigning" -> {ItemHolders(t, a.item) : a \in left[t]}
      [] pc[t] = "sharing" -> {RowHolders(t, r) : r \in left[t]}
      [] OTHER -> {}

Waiting(t) == Waits(t) # {} /\ {} \notin Waits(t)

\* t is in a set of transactions that all wait, and only for each other.
Deadlocked(t) ==
    \E S \in SUBSET Txns :
        /\ t \in S
        /\ \A s \in S : Waiting(s) /\ UNION Waits(s) \subseteq S

-------------------------------------------------------------------------------
(* Steps *)

NoRows == [rows |-> {}, assigned |-> {}]

Init ==
    /\ payload \in {[p \in Owners |-> s] : s \in Initials}
    /\ rows = {Row(Seed, d) : d \in DOMAIN payload[Seed]}
    /\ assigned = AssignmentsOf(Seed)
    /\ dropped = [t \in Txns |-> {}]
    /\ added = [t \in Txns |-> {}]
    /\ unassigned = [t \in Txns |-> {}]
    /\ assigning = [t \in Txns |-> {}]
    /\ shared = {}
    /\ pc = [a \in Txns \cup Readers |-> IF a = Sync THEN "idle" ELSE "new"]
    /\ ids = [p \in Puts |-> {}]
    /\ left = [t \in Txns |-> {}]
    /\ seen = [a \in Puts \cup Readers |-> NoRows]
    /\ syncs = 0

Goto(a, label) == pc' = [pc EXCEPT ![a] = label]

\* The transaction of t is over: its writes are gone or committed, its locks free.
EndTransaction(t) ==
    /\ dropped' = [dropped EXCEPT ![t] = {}]
    /\ added' = [added EXCEPT ![t] = {}]
    /\ unassigned' = [unassigned EXCEPT ![t] = {}]
    /\ assigning' = [assigning EXCEPT ![t] = {}]
    /\ shared' = IF t = Sync THEN {} ELSE shared
    /\ left' = [left EXCEPT ![t] = {}]

\* Mutant: the session is not closed, and its connection keeps the transaction.
FailWithoutClose(t) ==
    /\ Goto(t, IF t = Sync THEN "idle" ELSE "error")
    /\ UNCHANGED <<committed, writes, left, payload, ids, seen, syncs>>

\* An exception: the session closes without a commit, a request is answered
\* 500, the sync records its run as FAILED.
Fail(t) ==
    /\ EndTransaction(t)
    /\ Goto(t, IF t = Sync THEN "idle" ELSE "error")
    /\ UNCHANGED <<committed, payload, ids, seen, syncs>>

CommitWrites(t) ==
    /\ rows' = (rows \ dropped[t]) \cup added[t]
    /\ assigned' = (assigned \ unassigned[t]) \cup assigning[t]
    /\ EndTransaction(t)

\* Mutant: the course's blend category is not looked for.
ValidateWithoutCourse(p) ==
    /\ pc[p] = "new" /\ Cardinality(Active) < MaxActive
    /\ \E scheme \in Payloads :
        /\ payload' = [payload EXCEPT ![p] = scheme]
        /\ Goto(p, IF WellFormed(scheme) THEN "selecting" ELSE "rejected")
    /\ UNCHANGED <<committed, writes, ids, left, seen, syncs>>

\* A request arrives and _validate_evaluation_scheme looks at its payload and
\* at the course's blend category; a refused payload is answered 400.
Validate(p) ==
    /\ pc[p] = "new" /\ Cardinality(Active) < MaxActive
    /\ \E scheme \in Payloads :
        /\ payload' = [payload EXCEPT ![p] = scheme]
        /\ IF /\ WellFormed(scheme)
              /\ Blends({r.def : r \in rows}) = {} \/ Blends(DOMAIN scheme) # {}
           THEN Goto(p, "selecting")
           ELSE Goto(p, "rejected")
    /\ UNCHANGED <<committed, writes, ids, left, seen, syncs>>

\* Mutant: the categories the request replaces are left in place.
SelectNothing(p) ==
    /\ pc[p] = "selecting"
    /\ Goto(p, "inserting")
    /\ UNCHANGED <<committed, writes, payload, ids, left, seen, syncs>>

\* existing_category_ids; without one, neither DELETE is issued.
SelectCategories(p) ==
    /\ pc[p] = "selecting"
    /\ ids' = [ids EXCEPT ![p] = rows]
    /\ Goto(p, IF rows = {} THEN "inserting" ELSE "clearing")
    /\ UNCHANGED <<committed, writes, payload, left, seen, syncs>>

\* DELETE FROM grade_item_evaluation WHERE category_id IN ids starts.
DeleteAssignments(p) ==
    /\ pc[p] = "clearing"
    /\ left' = [left EXCEPT ![p] = {a \in assigned : a.row \in ids[p]}]
    /\ Goto(p, "unassigning")
    /\ UNCHANGED <<committed, writes, payload, ids, seen, syncs>>

\* A row another transaction has deleted meanwhile is skipped.
DeleteAssignment(p) ==
    /\ pc[p] = "unassigning"
    /\ \E a \in left[p] :
        /\ AssignmentHolders(p, a) = {}
        /\ unassigned' = [unassigned EXCEPT ![p] = @ \cup ({a} \cap assigned)]
        /\ left' = [left EXCEPT ![p] = @ \ {a}]
    /\ UNCHANGED <<committed, dropped, added, assigning, shared, pc, payload,
                   ids, seen, syncs>>

\* DELETE FROM grade_categories WHERE course_id = ... starts: it is not
\* restricted to ids and has a snapshot of its own.
DeleteCategories(p) ==
    /\ pc[p] = "unassigning" /\ left[p] = {}
    /\ left' = [left EXCEPT ![p] = rows]
    /\ Goto(p, "dropping")
    /\ UNCHANGED <<committed, writes, payload, ids, seen, syncs>>

DeleteCategory(p) ==
    /\ pc[p] = "dropping"
    /\ \E r \in left[p] :
        /\ RowHolders(p, r) = {}
        /\ dropped' = [dropped EXCEPT ![p] = @ \cup ({r} \cap rows)]
        /\ left' = [left EXCEPT ![p] = @ \ {r}]
    /\ UNCHANGED <<committed, added, unassigned, assigning, shared, pc, payload,
                   ids, seen, syncs>>

\* ON DELETE RESTRICT looks for assignments committed by now.
CheckReferences(p) ==
    /\ pc[p] = "dropping" /\ left[p] = {}
    /\ \/ /\ References(p) = {}
          /\ Goto(p, "inserting")
          /\ UNCHANGED <<committed, writes, payload, ids, left, seen, syncs>>
       \/ /\ \E a \in References(p) : AssignmentHolders(p, a) = {}
          /\ Fail(p)

\* One INSERT of a category: its weight must be in range and its row must not
\* clash with a committed one.
InsertCategory(p) ==
    /\ pc[p] = "inserting" /\ MissingAssignments(p) = {}
    /\ \E d \in MissingDefs(p) :
        /\ UniqueHolders(p, d) = {}
        /\ IF ~Storable(d) \/ \E r \in rows \ dropped[p] : UniqueClash(r.def, d)
           THEN Fail(p)
           ELSE /\ added' = [added EXCEPT ![p] = @ \cup {Row(p, d)}]
                /\ UNCHANGED <<committed, dropped, unassigned, assigning, shared,
                               pc, payload, ids, left, seen, syncs>>

\* One row of the INSERT of a category's items; grade_item_id is the key.
InsertAssignment(p) ==
    /\ pc[p] = "inserting"
    /\ \E a \in MissingAssignments(p) :
        /\ ItemHolders(p, a.item) = {}
        /\ IF \E b \in assigned \ unassigned[p] : b.item = a.item
           THEN Fail(p)
           ELSE /\ assigning' = [assigning EXCEPT ![p] = @ \cup {a}]
                /\ UNCHANGED <<committed, dropped, added, unassigned, shared,
                               pc, payload, ids, left, seen, syncs>>

\* db.commit(); the request goes on to its answer, or never hears of it.
Commit(p) ==
    /\ pc[p] = "inserting" /\ MissingDefs(p) = {} /\ MissingAssignments(p) = {}
    /\ CommitWrites(p)
    /\ Goto(p, "answering") \/ Goto(p, "error")
    /\ UNCHANGED <<payload, ids, seen, syncs>>

\* list_categories_for_course, for the answer to a PUT or for a gradebook.
ReadCategories(a) ==
    /\ pc[a] = IF a \in Puts THEN "answering" ELSE "new"
    /\ seen' = [seen EXCEPT ![a].rows = rows]
    /\ Goto(a, "listing")
    /\ UNCHANGED <<committed, writes, payload, ids, left, syncs>>

\* list_all_grade_item_assignments_for_course: assignments to categories the
\* first SELECT did not return are left out of the answer.
AnswerPut(p) ==
    /\ pc[p] = "listing"
    /\ seen' = [seen EXCEPT ![p].assigned = {a \in assigned : a.row \in seen[p].rows}]
    /\ Goto(p, "ok")
    /\ UNCHANGED <<committed, writes, payload, ids, left, syncs>>

\* Mutant: category_position.get(...), so that an unknown category is no error.
AnswerWithUnknown(g) ==
    /\ pc[g] = "listing"
    /\ seen' = [seen EXCEPT ![g].assigned = assigned]
    /\ Goto(g, "ok")
    /\ UNCHANGED <<committed, writes, payload, ids, left, syncs>>

\* list_course_grade_items: category_position[...] raises KeyError for an
\* assignment to a category the first SELECT did not return.
AnswerGradebook(g) ==
    /\ pc[g] = "listing"
    /\ seen' = [seen EXCEPT ![g].assigned = assigned]
    /\ Goto(g, IF \A a \in assigned : a.row \in seen[g].rows THEN "ok" ELSE "error")
    /\ UNCHANGED <<committed, writes, payload, ids, left, syncs>>

\* The SELECT of the sync's INSERT ... SELECT, for one batch of items.
Candidates(batch) ==
    {a \in [item : batch, row : rows] :
        ~a.row.def.blend /\ a.row.def.mtype = TypeOf[a.item]}

\* The merge of a batch reaches _sync_grade_item_evaluations_by_activity_type.
StartAssigning ==
    /\ pc[Sync] = "idle" /\ syncs < MaxSyncs
    /\ syncs' = syncs + 1
    /\ \E batch \in SUBSET Items :
        left' = [left EXCEPT ![Sync] = Candidates(batch)]
    /\ Goto(Sync, "assigning")
    /\ UNCHANGED <<committed, writes, payload, ids, seen>>

\* Mutant: ON CONFLICT DO UPDATE.
AutoAssignOrMove ==
    /\ pc[Sync] = "assigning"
    /\ \E a \in left[Sync] :
        /\ ItemHolders(Sync, a.item) = {}
        /\ unassigned' = [unassigned EXCEPT
                            ![Sync] = @ \cup {b \in assigned : b.item = a.item}]
        /\ assigning' = [assigning EXCEPT ![Sync] = @ \cup {a}]
        /\ left' = [left EXCEPT ![Sync] = @ \ {a}]
    /\ UNCHANGED <<committed, dropped, added, shared, pc, payload, ids, seen, syncs>>

\* One row of it: ON CONFLICT DO NOTHING waits for whoever holds the key.
AutoAssign ==
    /\ pc[Sync] = "assigning"
    /\ \E a \in left[Sync] :
        /\ ItemHolders(Sync, a.item) = {}
        /\ IF \E b \in assigned \cup assigning[Sync] : b.item = a.item
           THEN UNCHANGED assigning
           ELSE assigning' = [assigning EXCEPT ![Sync] = @ \cup {a}]
        /\ left' = [left EXCEPT ![Sync] = @ \ {a}]
    /\ UNCHANGED <<committed, dropped, added, unassigned, shared, pc, payload,
                   ids, seen, syncs>>

\* The statement ends and its foreign keys are checked, category by category.
StartSharing ==
    /\ pc[Sync] = "assigning" /\ left[Sync] = {}
    /\ left' = [left EXCEPT ![Sync] = {a.row : a \in assigning[Sync]}]
    /\ Goto(Sync, "sharing")
    /\ UNCHANGED <<committed, writes, payload, ids, seen, syncs>>

ShareCategory ==
    /\ pc[Sync] = "sharing"
    /\ \E r \in left[Sync] :
        /\ RowHolders(Sync, r) = {}
        /\ IF r \notin rows
           THEN Fail(Sync)
           ELSE /\ shared' = shared \cup {r}
                /\ left' = [left EXCEPT ![Sync] = @ \ {r}]
                /\ UNCHANGED <<committed, dropped, added, unassigned, assigning,
                               pc, payload, ids, seen, syncs>>

\* The grades are merged and the merge transaction commits.
CommitSync ==
    /\ pc[Sync] = "sharing" /\ left[Sync] = {}
    /\ CommitWrites(Sync)
    /\ Goto(Sync, "idle")
    /\ UNCHANGED <<payload, ids, seen, syncs>>

\* PostgreSQL cancels one transaction of a deadlock.
Cancel(t) == Deadlocked(t) /\ Fail(t)

\* Any other failure: a lost connection, a killed process.
Fault(t) == pc[t] \in InTransaction /\ Fail(t)

PutStep(p) ==
    \/ SelectCategories(p)
    \/ DeleteAssignments(p)
    \/ DeleteAssignment(p)
    \/ DeleteCategories(p)
    \/ DeleteCategory(p)
    \/ CheckReferences(p)
    \/ InsertCategory(p)
    \/ InsertAssignment(p)
    \/ Commit(p)
    \/ ReadCategories(p)
    \/ AnswerPut(p)
    \/ Cancel(p)

SyncStep ==
    \/ AutoAssign
    \/ StartSharing
    \/ ShareCategory
    \/ CommitSync
    \/ Cancel(Sync)

ReaderStep(g) == ReadCategories(g) \/ AnswerGradebook(g)

Next ==
    \/ \E p \in Puts : Validate(p) \/ PutStep(p)
    \/ StartAssigning
    \/ SyncStep
    \/ \E t \in Txns : Fault(t)
    \/ \E g \in Readers : ReaderStep(g)

Spec == Init /\ [][Next]_vars

\* Fairness: the server keeps executing a request or a sync it has accepted,
\* and breaks deadlocks.  Nothing makes requests arrive.
FairSpec == Spec /\ (\A p \in Puts : WF_vars(PutStep(p))) /\ WF_vars(SyncStep)

-------------------------------------------------------------------------------
(* Properties *)

Labels == InTransaction \cup
    {"new", "idle", "answering", "listing", "ok", "rejected", "error"}

TypeOK ==
    /\ rows \subseteq Rows
    /\ assigned \subseteq Assignments
    /\ dropped \in [Txns -> SUBSET Rows]
    /\ added \in [Txns -> SUBSET Rows]
    /\ unassigned \in [Txns -> SUBSET Assignments]
    /\ assigning \in [Txns -> SUBSET Assignments]
    /\ shared \subseteq Rows
    /\ pc \in [Txns \cup Readers -> Labels]
    /\ DOMAIN payload = Owners /\ \A p \in Owners : IsScheme(payload[p])
    /\ ids \in [Puts -> SUBSET Rows]
    /\ left \in [Txns -> SUBSET (Assignments \cup Rows)]
    /\ seen \in [Puts \cup Readers ->
                    [rows : SUBSET Rows, assigned : SUBSET Assignments]]
    /\ syncs \in 0..MaxSyncs

\* Whatever PUTs and syncs overlap, the committed tables hold no two clashing
\* categories, no item twice, no assignment to a category that is gone and
\* none to the attendance/participation category.
SchemeIntact ==
    /\ \A r, s \in rows : r # s => ~Clash(r.def, s.def)
    /\ \A a, b \in assigned : a.item = b.item => a = b
    /\ \A a \in assigned : a.row \in rows /\ ~a.row.def.blend

\* A PUT that left any category behind left all of them, with every item its
\* payload assigns; what else is assigned to its categories is what the sync
\* adds by activity type.  Requests answered 400 leave nothing.
WholeSchemes ==
    \A p \in Owners :
        LET mine == {r \in rows : r.owner = p}
            items == {a \in assigned : a.row \in mine} IN
        \/ mine = {} /\ items = {}
        \/ /\ mine = {Row(p, d) : d \in DOMAIN payload[p]}
           /\ AssignmentsOf(p) \subseteq items
           /\ \A a \in items \ AssignmentsOf(p) : a.row.def.mtype = TypeOf[a.item]
           /\ p # Seed => pc[p] \notin InTransaction \cup {"new", "rejected"}

\* README, "It never changes an existing assignment": the commit of the grades
\* sync keeps every assignment and every category that is committed by then.
SyncKeepsDecisions ==
    [][pc[Sync] = "sharing" /\ pc'[Sync] = "idle"
       => assigned \subseteq assigned' /\ rows = rows']_vars

\* With one administrator at a time, every PUT is one atomic replacement by a
\* well-formed scheme and every sync one addition (admin.py: "either the whole
\* update succeeds or nothing changes").
Promise == INSTANCE SchemePromise WITH
    defs <- {r.def : r \in rows},
    assigned <- {[item |-> a.item, def |-> a.row.def] : a \in assigned}

ReplacedAtomically == Promise!Spec

\* With one administrator at a time, a PUT answered 200 shows the scheme it
\* wrote, whatever the sync did between its SELECTs.
AnswerShowsPayload ==
    \A p \in Puts :
        pc[p] = "ok" => /\ seen[p].rows = {Row(p, d) : d \in DOMAIN payload[p]}
                        /\ AssignmentsOf(p) \subseteq seen[p].assigned

\* With one administrator at a time, each of the two SELECTs of a gradebook sees
\* one scheme, whole: all the categories of one PUT (or of the start), and every
\* item one PUT assigned, to that PUT's categories.  A gradebook that is answered
\* shows one and the same scheme, or none of its items when a PUT of a scheme
\* without items came between the SELECTs; one that fails met two schemes.
GradebookReadsWholeSchemes ==
    \A g \in Readers :
        pc[g] \in {"ok", "error"} =>
            \E p, q \in Owners :
                /\ seen[g].rows = {Row(p, d) : d \in DOMAIN payload[p]}
                /\ AssignmentsOf(q) \subseteq seen[g].assigned
                /\ {a.row : a \in seen[g].assigned}
                        \subseteq {Row(q, d) : d \in DOMAIN payload[q]}
                /\ pc[g] = "ok" => p = q \/ seen[g].assigned = {}
                /\ pc[g] = "error" => p # q

\* Every request whose transaction is running is answered: waiting for another
\* PUT or for the sync ends, and so does waiting for each other.
RequestsAnswered ==
    \A p \in Puts :
        pc[p] \in InTransaction ~> pc[p] \in {"ok", "error"}

\* README, "A course's category weights must sum to exactly 100".
WeightsTotal100 == rows # {} => Weight({r.def : r \in rows}) = Whole

\* README: "PUT replaces the entire scheme atomically", so the categories of
\* two requests are never configured side by side.
OneSchemeOnly == \A r, s \in rows : r.owner = s.owner

\* README: "if the course already has an ATTENDANCE_PARTICIPATION category and
\* the payload contains none, the PUT is rejected with 400 before anything is
\* written", so no step takes that category away from a course that has one.
BlendKept ==
    [][Blends({r.def : r \in rows}) # {} => Blends({r.def : r \in rows'}) # {}]_vars

\* README: the gradebook evaluates every student in memory from a constant
\* number of queries "so the two always agree"; it has an answer to give.
GradebookAnswers == \A g \in Readers : pc[g] # "error"
===============================================================================
