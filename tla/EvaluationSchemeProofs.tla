------------------------ MODULE EvaluationSchemeProofs ------------------------
(***************************************************************************)
(* Theorems about EvaluationScheme, for every number of requests, every    *)
(* payload and every item.  The invariant relates what a transaction has   *)
(* written and not committed to the locks its writes hold.                 *)
(***************************************************************************)
EXTENDS EvaluationScheme, TLAPS

-------------------------------------------------------------------------------
(* The invariant *)

\* A request that has not started, or a sync between two batches, has written
\* nothing; a statement visits rows of its own table; a running request carries
\* a scheme that passed validation.
PhaseInv ==
    /\ pc[Sync] \in {"idle", "assigning", "sharing"}
    /\ \A p \in Puts :
        /\ pc[p] \notin {"idle", "assigning", "sharing"}
        /\ pc[p] \in InTransaction => WellFormed(payload[p])
        /\ pc[p] # "inserting" => added[p] = {} /\ assigning[p] = {}
        /\ pc[p] \in {"new", "selecting"} => dropped[p] = {} /\ unassigned[p] = {}
        /\ pc[p] = "unassigning" => left[p] \subseteq Assignments
        /\ pc[p] = "dropping" => left[p] \subseteq Rows
    /\ pc[Sync] = "assigning" =>
        left[Sync] \subseteq {a \in Assignments : ~a.row.def.blend}
    /\ pc[Sync] = "sharing" => left[Sync] \subseteq Rows
    /\ pc[Sync] = "idle" => assigning[Sync] = {}

\* Deletions hit committed rows, insertions come from the payload, and the sync
\* only inserts assignments; a foreign key already checked holds its category.
WriteInv ==
    /\ \A t \in Txns : dropped[t] \subseteq rows /\ unassigned[t] \subseteq assigned
    /\ dropped[Sync] = {} /\ added[Sync] = {} /\ unassigned[Sync] = {}
    /\ \A p \in Puts :
        /\ added[p] \subseteq {Row(p, d) : d \in DOMAIN payload[p]}
        /\ assigning[p] \subseteq {a \in AssignmentsOf(p) : a.row \in added[p]}
    /\ \A a \in assigning[Sync] : ~a.row.def.blend
    /\ shared \subseteq rows
    /\ pc[Sync] = "sharing" =>
        \A a \in assigning[Sync] : a.row \in left[Sync] \cup shared

\* Two transactions never hold the same row, or keys that clash.
LockInv ==
    \A t \in Txns :
        /\ dropped[t] \cap shared = {}
        /\ \A o \in Others(t) :
            /\ dropped[t] \cap dropped[o] = {}
            /\ unassigned[t] \cap unassigned[o] = {}
            /\ \A r \in added[t] : \A s \in added[o] \cup dropped[o] : ~Clash(r.def, s.def)
            /\ \A a \in assigning[t] : \A b \in assigning[o] \cup unassigned[o] :
                a.item # b.item

\* What a transaction has inserted fits what it will find committed, and what
\* it will find no longer refers to what it has deleted.
FitInv ==
    /\ \A t \in Txns :
        /\ \A r \in added[t] : \A s \in (rows \ dropped[t]) \cup added[t] :
            r # s => ~Clash(r.def, s.def)
        /\ \A r \in added[t] : r \notin rows \ dropped[t]
        /\ \A a \in assigning[t] : \A b \in assigned \ unassigned[t] : a.item # b.item
        /\ \A a \in assigning[t] : \A b \in assigning[t] : a.item = b.item => a = b
    /\ \A p \in Puts : pc[p] = "inserting" => References(p) = {}

SchemeInv ==
    TypeOK /\ PhaseInv /\ WriteInv /\ LockInv /\ FitInv /\ SchemeIntact

-------------------------------------------------------------------------------
(* Definitions, rows and assignments *)

\* Rounding changes the weight of a definition and nothing else.
LEMMA StoredFields ==
    ASSUME NEW d \in Defs
    PROVE  /\ Stored(d).name = d.name /\ Stored(d).order = d.order
           /\ Stored(d).mtype = d.mtype /\ Stored(d).blend = d.blend
BY DefsAssumption DEF Stored

LEMMA ClashStored ==
    ASSUME NEW c, NEW d \in Defs
    PROVE  /\ Clash(c, Stored(d)) <=> Clash(c, d)
           /\ Clash(Stored(d), c) <=> Clash(d, c)
BY StoredFields DEF Clash

LEMMA ClashLaws ==
    ASSUME NEW c, NEW d
    PROVE  Clash(c, c) /\ (Clash(c, d) <=> Clash(d, c))
BY DEF Clash

LEMMA RowType ==
    ASSUME NEW p \in Owners, NEW d \in Defs
    PROVE  Row(p, d) \in Rows
BY DEF Row, Rows

LEMMA AssignmentsType ==
    ASSUME NEW p \in Owners, IsScheme(payload[p])
    PROVE  AssignmentsOf(p) \subseteq Assignments
<1> SUFFICES ASSUME NEW d \in DOMAIN payload[p], NEW i \in payload[p][d]
             PROVE  [item |-> i, row |-> Row(p, d)] \in Assignments
    BY DEF AssignmentsOf
<1>1. d \in Defs /\ i \in Items
    BY DEF IsScheme
<1> QED
    BY <1>1, RowType DEF Assignments

\* A validated scheme gives its items to one category each, and none to the
\* attendance/participation category.
LEMMA AssignmentsWellFormed ==
    ASSUME NEW p \in Owners, IsScheme(payload[p]), WellFormed(payload[p])
    PROVE  /\ \A a, b \in AssignmentsOf(p) : a.item = b.item => a = b
           /\ \A a \in AssignmentsOf(p) : ~a.row.def.blend
<1> DEFINE s == payload[p]
<1>1. \A a \in AssignmentsOf(p) :
        \E d \in DOMAIN s : a = [item |-> a.item, row |-> Row(p, d)] /\ a.item \in s[d]
    BY DEF AssignmentsOf
<1>2. DOMAIN s \subseteq Defs
    BY DEF IsScheme
<1>3. ASSUME NEW a \in AssignmentsOf(p), NEW b \in AssignmentsOf(p), a.item = b.item
      PROVE  a = b
    <2>1. PICK d \in DOMAIN s :
            a = [item |-> a.item, row |-> Row(p, d)] /\ a.item \in s[d]
        BY <1>1
    <2>2. PICK e \in DOMAIN s :
            b = [item |-> b.item, row |-> Row(p, e)] /\ b.item \in s[e]
        BY <1>1
    <2>3. d = e
        BY <1>3, <2>1, <2>2 DEF WellFormed
    <2> QED
        BY <1>3, <2>1, <2>2, <2>3
<1>4. ASSUME NEW a \in AssignmentsOf(p)
      PROVE  ~a.row.def.blend
    <2>1. PICK d \in DOMAIN s :
            a = [item |-> a.item, row |-> Row(p, d)] /\ a.item \in s[d]
        BY <1>1
    <2>2. ~d.blend
        BY <2>1 DEF WellFormed, Blends
    <2>3. a.row.def = Stored(d)
        BY <2>1 DEF Row
    <2> QED
        BY <1>2, <2>2, <2>3, StoredFields
<1> QED
    BY <1>3, <1>4

\* Two rows of one validated scheme do not clash.
LEMMA RowsWellFormed ==
    ASSUME NEW p \in Owners, IsScheme(payload[p]), WellFormed(payload[p]),
           NEW d \in DOMAIN payload[p], NEW e \in DOMAIN payload[p],
           Row(p, d) # Row(p, e)
    PROVE  ~Clash(Row(p, d).def, Row(p, e).def)
<1>1. d # e /\ d \in Defs /\ e \in Defs
    BY DEF IsScheme
<1>2. ~Clash(d, e)
    BY <1>1 DEF WellFormed
<1>3. Row(p, d).def = Stored(d) /\ Row(p, e).def = Stored(e)
    BY DEF Row
<1> QED
    BY <1>1, <1>2, <1>3, ClashStored

-------------------------------------------------------------------------------
(* Types *)

LEMMA InitTyped == Init => TypeOK
<1> SUFFICES ASSUME Init PROVE TypeOK
    OBVIOUS
<1>1. PICK s \in Initials : payload = [p \in Owners |-> s]
    BY DEF Init
<1>2. Seed \in Owners /\ payload[Seed] = s /\ IsScheme(s)
    BY <1>1, SchemeAssumption DEF Owners
<1>3. rows \subseteq Rows
    BY <1>2, RowType DEF Init, IsScheme
<1>4. assigned \subseteq Assignments
    BY <1>2, AssignmentsType DEF Init
<1>5. DOMAIN payload = Owners /\ \A p \in Owners : IsScheme(payload[p])
    BY <1>1, <1>2
<1>6. pc \in [Txns \cup Readers -> Labels]
    BY DEF Init, Labels
<1>7. syncs \in 0..MaxSyncs
    BY SchemeAssumption DEF Init
<1>8. /\ dropped \in [Txns -> SUBSET Rows] /\ added \in [Txns -> SUBSET Rows]
      /\ unassigned \in [Txns -> SUBSET Assignments]
      /\ assigning \in [Txns -> SUBSET Assignments]
      /\ shared \subseteq Rows
      /\ ids \in [Puts -> SUBSET Rows]
      /\ left \in [Txns -> SUBSET (Assignments \cup Rows)]
      /\ seen \in [Puts \cup Readers ->
                      [rows : SUBSET Rows, assigned : SUBSET Assignments]]
    BY DEF Init, NoRows
<1> QED
    BY <1>3, <1>4, <1>5, <1>6, <1>7, <1>8 DEF TypeOK

\* A transaction that fails leaves typed tables.
LEMMA FailTyped ==
    ASSUME TypeOK, NEW t \in Txns, Fail(t)
    PROVE  TypeOK'
BY DEF Fail, EndTransaction, Goto, committed, TypeOK, Labels

LEMMA CommitTyped ==
    ASSUME TypeOK, NEW t \in Txns, CommitWrites(t), UNCHANGED <<payload, ids, seen, syncs>>,
           pc' \in [Txns \cup Readers -> Labels]
    PROVE  TypeOK'
<1>1. rows' \subseteq Rows /\ assigned' \subseteq Assignments
    BY DEF CommitWrites, TypeOK
<1> QED
    BY <1>1 DEF CommitWrites, EndTransaction, TypeOK

\* Steps that write nothing: what they read is typed.
LEMMA ReadingTyped ==
    ASSUME TypeOK, NEW p \in Puts,
           \/ Validate(p) \/ SelectCategories(p) \/ DeleteAssignments(p)
           \/ DeleteCategories(p) \/ ReadCategories(p) \/ AnswerPut(p)
    PROVE  TypeOK'
<1>1. p \in Owners /\ p \in Txns /\ p \in Puts \cup Readers
    BY DEF Owners, Txns
<1>2. CASE Validate(p)
    <2>1. PICK s \in Payloads : payload' = [payload EXCEPT ![p] = s]
        BY <1>2 DEF Validate
    <2>2. DOMAIN payload' = Owners /\ \A q \in Owners : IsScheme(payload'[q])
        BY <1>1, <2>1, SchemeAssumption DEF TypeOK
    <2>3. pc' \in [Txns \cup Readers -> Labels]
        BY <1>2 DEF Validate, Goto, TypeOK, Labels, InTransaction
    <2> QED
        BY <1>2, <2>2, <2>3 DEF Validate, TypeOK, committed, writes
<1>3. CASE SelectCategories(p) \/ DeleteAssignments(p) \/ DeleteCategories(p)
    <2>1. pc' \in [Txns \cup Readers -> Labels]
        BY <1>3 DEF SelectCategories, DeleteAssignments, DeleteCategories, Goto, TypeOK,
                    Labels, InTransaction
    <2>2. /\ ids' \in [Puts -> SUBSET Rows]
          /\ left' \in [Txns -> SUBSET (Assignments \cup Rows)]
        BY <1>1, <1>3 DEF SelectCategories, DeleteAssignments, DeleteCategories, TypeOK
    <2> QED
        BY <1>3, <2>1, <2>2 DEF SelectCategories, DeleteAssignments, DeleteCategories,
                                TypeOK, committed, writes
<1>4. CASE ReadCategories(p) \/ AnswerPut(p)
    <2>1. pc' \in [Txns \cup Readers -> Labels]
        BY <1>4 DEF ReadCategories, AnswerPut, Goto, TypeOK, Labels
    <2>2. seen' \in [Puts \cup Readers ->
                        [rows : SUBSET Rows, assigned : SUBSET Assignments]]
        BY <1>1, <1>4 DEF ReadCategories, AnswerPut, TypeOK
    <2> QED
        BY <1>4, <2>1, <2>2 DEF ReadCategories, AnswerPut, TypeOK, committed, writes
<1> QED
    BY <1>2, <1>3, <1>4

LEMMA ReaderTyped ==
    ASSUME TypeOK, NEW g \in Readers, ReaderStep(g)
    PROVE  TypeOK'
<1>1. pc' \in [Txns \cup Readers -> Labels]
    BY DEF ReaderStep, ReadCategories, AnswerGradebook, Goto, TypeOK, Labels
<1>2. seen' \in [Puts \cup Readers ->
                    [rows : SUBSET Rows, assigned : SUBSET Assignments]]
    BY DEF ReaderStep, ReadCategories, AnswerGradebook, TypeOK
<1> QED
    BY <1>1, <1>2 DEF ReaderStep, ReadCategories, AnswerGradebook, TypeOK, committed, writes

\* The statements of a PUT that write.
LEMMA WritingTyped ==
    ASSUME TypeOK, NEW p \in Puts,
           \/ DeleteAssignment(p) \/ DeleteCategory(p) \/ CheckReferences(p)
           \/ InsertCategory(p) \/ InsertAssignment(p) \/ Commit(p)
    PROVE  TypeOK'
<1>1. p \in Owners /\ p \in Txns
    BY DEF Owners, Txns
<1>2. CASE DeleteAssignment(p) \/ DeleteCategory(p)
    BY <1>1, <1>2 DEF DeleteAssignment, DeleteCategory, TypeOK, committed
<1>3. CASE Fail(p)
    BY <1>1, <1>3, FailTyped
<1>4. CASE CheckReferences(p) /\ ~Fail(p)
    <2>1. Goto(p, "inserting") /\ UNCHANGED <<committed, writes, payload, ids, left, seen, syncs>>
        BY <1>4 DEF CheckReferences
    <2> QED
        BY <2>1 DEF Goto, TypeOK, committed, writes, Labels, InTransaction
<1>5. CASE InsertCategory(p) /\ ~Fail(p)
    <2>1. PICK d \in MissingDefs(p) : added' = [added EXCEPT ![p] = @ \cup {Row(p, d)}]
        BY <1>5 DEF InsertCategory
    <2>2. Row(p, d) \in Rows
        BY <1>1, <2>1, RowType DEF MissingDefs, TypeOK, IsScheme
    <2>3. added' \in [Txns -> SUBSET Rows]
        BY <1>1, <2>1, <2>2 DEF TypeOK
    <2> QED
        BY <1>5, <2>3 DEF InsertCategory, TypeOK, committed
<1>6. CASE InsertAssignment(p) /\ ~Fail(p)
    <2>1. PICK a \in MissingAssignments(p) : assigning' = [assigning EXCEPT ![p] = @ \cup {a}]
        BY <1>6 DEF InsertAssignment
    <2>2. a \in Assignments
        BY <1>1, <2>1, AssignmentsType DEF MissingAssignments, TypeOK
    <2>3. assigning' \in [Txns -> SUBSET Assignments]
        BY <1>1, <2>1, <2>2 DEF TypeOK
    <2> QED
        BY <1>6, <2>3 DEF InsertAssignment, TypeOK, committed
<1>7. CASE Commit(p)
    <2>1. pc' \in [Txns \cup Readers -> Labels]
        BY <1>7 DEF Commit, Goto, TypeOK, Labels
    <2> QED
        BY <1>1, <1>7, <2>1, CommitTyped DEF Commit
<1> QED
    BY <1>2, <1>3, <1>4, <1>5, <1>6, <1>7

LEMMA SyncTyped ==
    ASSUME TypeOK, PhaseInv,
           \/ StartAssigning \/ AutoAssign \/ StartSharing \/ ShareCategory \/ CommitSync
    PROVE  TypeOK'
<1>1. Sync \in Txns
    BY DEF Txns
<1>2. CASE StartAssigning
    <2>1. PICK batch \in SUBSET Items : left' = [left EXCEPT ![Sync] = Candidates(batch)]
        BY <1>2 DEF StartAssigning
    <2>2. Candidates(batch) \subseteq Assignments
        BY DEF Candidates, Assignments, TypeOK
    <2>3. left' \in [Txns -> SUBSET (Assignments \cup Rows)]
        BY <1>1, <2>1, <2>2 DEF TypeOK
    <2>4. syncs' \in 0..MaxSyncs
        BY <1>2, SchemeAssumption DEF StartAssigning, TypeOK
    <2>5. pc' \in [Txns \cup Readers -> Labels]
        BY <1>2 DEF StartAssigning, Goto, TypeOK, Labels, InTransaction
    <2> QED
        BY <1>2, <2>3, <2>4, <2>5 DEF StartAssigning, TypeOK, committed, writes
<1>3. CASE AutoAssign
    <2>1. PICK a \in left[Sync] :
            /\ assigning' \in {assigning, [assigning EXCEPT ![Sync] = @ \cup {a}]}
            /\ left' = [left EXCEPT ![Sync] = @ \ {a}]
        BY <1>3 DEF AutoAssign
    <2>2. a \in Assignments
        BY <1>3, <2>1 DEF AutoAssign, PhaseInv
    <2>3. /\ assigning' \in [Txns -> SUBSET Assignments]
          /\ left' \in [Txns -> SUBSET (Assignments \cup Rows)]
        BY <1>1, <2>1, <2>2 DEF TypeOK
    <2> QED
        BY <1>3, <2>3 DEF AutoAssign, TypeOK, committed
<1>4. CASE StartSharing
    <2>1. {a.row : a \in assigning[Sync]} \subseteq Rows
        BY <1>1 DEF TypeOK, Assignments
    <2>2. left' \in [Txns -> SUBSET (Assignments \cup Rows)]
        BY <1>1, <1>4, <2>1 DEF StartSharing, TypeOK
    <2>3. pc' \in [Txns \cup Readers -> Labels]
        BY <1>4 DEF StartSharing, Goto, TypeOK, Labels, InTransaction
    <2> QED
        BY <1>4, <2>2, <2>3 DEF StartSharing, TypeOK, committed, writes
<1>5. CASE ShareCategory
    <2>1. CASE Fail(Sync)
        BY <1>1, <2>1, FailTyped
    <2>2. CASE ~Fail(Sync)
        <3>1. /\ shared' \subseteq Rows
              /\ left' \in [Txns -> SUBSET (Assignments \cup Rows)]
            BY <1>1, <1>5, <2>2 DEF ShareCategory, TypeOK
        <3> QED
            BY <1>5, <2>2, <3>1 DEF ShareCategory, TypeOK, committed
    <2> QED
        BY <2>1, <2>2
<1>6. CASE CommitSync
    <2>1. pc' \in [Txns \cup Readers -> Labels]
        BY <1>6 DEF CommitSync, Goto, TypeOK, Labels
    <2> QED
        BY <1>1, <1>6, <2>1, CommitTyped DEF CommitSync
<1> QED
    BY <1>2, <1>3, <1>4, <1>5, <1>6

LEMMA NextTyped == TypeOK /\ PhaseInv /\ [Next]_vars => TypeOK'
<1> SUFFICES ASSUME TypeOK, PhaseInv, [Next]_vars
             PROVE  TypeOK'
    OBVIOUS
<1>1. ASSUME NEW p \in Puts, Validate(p) \/ PutStep(p)
      PROVE  TypeOK'
    BY <1>1, ReadingTyped, WritingTyped, FailTyped DEF PutStep, Cancel, Txns
<1>2. CASE StartAssigning \/ SyncStep
    BY <1>2, SyncTyped, FailTyped DEF SyncStep, Cancel, Txns
<1>3. ASSUME NEW t \in Txns, Fault(t)
      PROVE  TypeOK'
    BY <1>3, FailTyped DEF Fault
<1>4. ASSUME NEW g \in Readers, ReaderStep(g)
      PROVE  TypeOK'
    BY <1>4, ReaderTyped
<1>5. CASE UNCHANGED vars
    BY <1>5 DEF vars, committed, writes, TypeOK
<1> QED
    BY <1>1, <1>2, <1>3, <1>4, <1>5 DEF Next

-------------------------------------------------------------------------------
(* The end of a transaction *)

LEMMA TxnsApart ==
    /\ Puts \subseteq Txns /\ Sync \in Txns /\ Sync \notin Puts
    /\ \A t \in Txns : t \in Puts \/ t = Sync
    /\ \A t \in Txns : \A o \in Others(t) : o \in Txns /\ o # t
    /\ Puts \subseteq Owners /\ Readers \cap Txns = {}
BY OwnersAssumption DEF Txns, Owners, Others

\* What the end of t does to the writes of every transaction.
LEMMA EndWrites ==
    ASSUME TypeOK, NEW t \in Txns, EndTransaction(t)
    PROVE  \A o \in Txns :
            /\ dropped'[o] = IF o = t THEN {} ELSE dropped[o]
            /\ added'[o] = IF o = t THEN {} ELSE added[o]
            /\ unassigned'[o] = IF o = t THEN {} ELSE unassigned[o]
            /\ assigning'[o] = IF o = t THEN {} ELSE assigning[o]
            /\ left'[o] = IF o = t THEN {} ELSE left[o]
BY DEF EndTransaction, TypeOK

\* A label outside the transaction asks nothing of a request, and "idle" nothing
\* of the sync, once its writes are gone.
LEMMA EndPhase ==
    ASSUME TypeOK, PhaseInv, NEW t \in Txns, EndTransaction(t), UNCHANGED payload,
           NEW label \in {"idle", "error", "answering"}, Goto(t, label),
           t = Sync <=> label = "idle"
    PROVE  PhaseInv'
<1>1. \A o \in Txns :
        /\ added'[o] = IF o = t THEN {} ELSE added[o]
        /\ assigning'[o] = IF o = t THEN {} ELSE assigning[o]
        /\ dropped'[o] = IF o = t THEN {} ELSE dropped[o]
        /\ unassigned'[o] = IF o = t THEN {} ELSE unassigned[o]
        /\ left'[o] = IF o = t THEN {} ELSE left[o]
        /\ pc'[o] = IF o = t THEN label ELSE pc[o]
    BY EndWrites DEF Goto, TypeOK
<1>2. ASSUME NEW p \in Puts
      PROVE  /\ pc'[p] \notin {"idle", "assigning", "sharing"}
             /\ pc'[p] \in InTransaction => WellFormed(payload[p])
             /\ pc'[p] # "inserting" => added'[p] = {} /\ assigning'[p] = {}
             /\ pc'[p] \in {"new", "selecting"} => dropped'[p] = {} /\ unassigned'[p] = {}
             /\ pc'[p] = "unassigning" => left'[p] \subseteq Assignments
             /\ pc'[p] = "dropping" => left'[p] \subseteq Rows
    <2>1. CASE p = t
        BY <1>1, <2>1, TxnsApart DEF InTransaction
    <2>2. CASE p # t
        BY <1>1, <2>2, TxnsApart DEF PhaseInv
    <2> QED
        BY <2>1, <2>2
<1>3. /\ pc'[Sync] \in {"idle", "assigning", "sharing"}
      /\ pc'[Sync] = "assigning" =>
            left'[Sync] \subseteq {a \in Assignments : ~a.row.def.blend}
      /\ pc'[Sync] = "sharing" => left'[Sync] \subseteq Rows
      /\ pc'[Sync] = "idle" => assigning'[Sync] = {}
    <2>1. CASE t = Sync
        BY <1>1, <2>1, TxnsApart
    <2>2. CASE t # Sync
        BY <1>1, <2>2, TxnsApart DEF PhaseInv
    <2> QED
        BY <2>1, <2>2
<1> QED
    BY <1>2, <1>3 DEF PhaseInv

\* A rollback takes locks and uncommitted rows away and touches nothing else.
LEMMA FailKeeps ==
    ASSUME SchemeInv, NEW t \in Txns, Fail(t)
    PROVE  SchemeInv'
<1> USE DEF SchemeInv
<1>1. /\ EndTransaction(t) /\ UNCHANGED <<rows, assigned, payload>>
      /\ Goto(t, IF t = Sync THEN "idle" ELSE "error")
    BY DEF Fail, committed
<1>2. TypeOK'
    BY FailTyped
<1>3. PhaseInv'
    BY <1>1, EndPhase
<1>4. \A o \in Txns :
        /\ dropped'[o] = IF o = t THEN {} ELSE dropped[o]
        /\ added'[o] = IF o = t THEN {} ELSE added[o]
        /\ unassigned'[o] = IF o = t THEN {} ELSE unassigned[o]
        /\ assigning'[o] = IF o = t THEN {} ELSE assigning[o]
        /\ left'[o] = IF o = t THEN {} ELSE left[o]
    BY <1>1, EndWrites
<1>5. shared' = IF t = Sync THEN {} ELSE shared
    BY <1>1 DEF EndTransaction
<1>6. \A o \in Txns : pc'[o] = IF o = t THEN IF t = Sync THEN "idle" ELSE "error"
                                        ELSE pc[o]
    BY <1>1 DEF Goto, TypeOK
<1>7. WriteInv'
    <2>1. \A p \in Puts : AssignmentsOf(p)' = AssignmentsOf(p)
        BY <1>1 DEF AssignmentsOf
    <2>2. /\ \A o \in Txns : dropped'[o] \subseteq rows' /\ unassigned'[o] \subseteq assigned'
          /\ dropped'[Sync] = {} /\ added'[Sync] = {} /\ unassigned'[Sync] = {}
        BY <1>1, <1>4, TxnsApart DEF WriteInv
    <2>3. \A p \in Puts :
            /\ added'[p] \subseteq {Row(p, d) : d \in DOMAIN payload[p]}
            /\ assigning'[p] \subseteq {a \in AssignmentsOf(p) : a.row \in added'[p]}
        BY <1>4, TxnsApart DEF WriteInv
    <2>4. /\ \A a \in assigning'[Sync] : ~a.row.def.blend
          /\ shared' \subseteq rows'
          /\ pc'[Sync] = "sharing" =>
                \A a \in assigning'[Sync] : a.row \in left'[Sync] \cup shared'
        BY <1>1, <1>4, <1>5, <1>6, TxnsApart DEF WriteInv
    <2> QED
        BY <1>1, <2>1, <2>2, <2>3, <2>4 DEF WriteInv
<1>8. LockInv'
    BY <1>4, <1>5, TxnsApart DEF LockInv, Others
<1>9. FitInv'
    <2>1. \A o \in Txns :
            /\ \A r \in added'[o] : \A s \in (rows' \ dropped'[o]) \cup added'[o] :
                r # s => ~Clash(r.def, s.def)
            /\ \A r \in added'[o] : r \notin rows' \ dropped'[o]
            /\ \A a \in assigning'[o] : \A b \in assigned' \ unassigned'[o] :
                a.item # b.item
            /\ \A a \in assigning'[o] : \A b \in assigning'[o] : a.item = b.item => a = b
        BY <1>1, <1>4 DEF FitInv
    <2>2. \A p \in Puts : pc'[p] = "inserting" => References(p)' = {}
        BY <1>1, <1>4, <1>6, TxnsApart DEF FitInv, References
    <2> QED
        BY <2>1, <2>2 DEF FitInv
<1>10. SchemeIntact'
    BY <1>1 DEF SchemeIntact
<1> QED
    BY <1>2, <1>3, <1>7, <1>8, <1>9, <1>10

\* A commit puts the writes of t in the committed tables: its own deletions are
\* referred to by nobody, and every other transaction's writes were kept apart
\* from them by the locks.
LEMMA CommitKeeps ==
    ASSUME SchemeInv, NEW t \in Txns, CommitWrites(t), References(t) = {},
           \A a \in assigning[t] : ~a.row.def.blend /\ a.row \in added[t] \cup shared,
           UNCHANGED <<payload, ids, seen, syncs>>,
           NEW label \in {"idle", "error", "answering"}, Goto(t, label),
           t = Sync <=> label = "idle"
    PROVE  SchemeInv'
<1> USE DEF SchemeInv
<1>1. /\ rows' = (rows \ dropped[t]) \cup added[t]
      /\ assigned' = (assigned \ unassigned[t]) \cup assigning[t]
      /\ EndTransaction(t)
    BY DEF CommitWrites
<1>2. TypeOK'
    <2>1. pc' \in [Txns \cup Readers -> Labels]
        BY DEF Goto, TypeOK, Labels
    <2> QED
        BY <2>1, CommitTyped
<1>3. PhaseInv'
    BY <1>1, EndPhase
<1>4. \A o \in Txns :
        /\ dropped'[o] = IF o = t THEN {} ELSE dropped[o]
        /\ added'[o] = IF o = t THEN {} ELSE added[o]
        /\ unassigned'[o] = IF o = t THEN {} ELSE unassigned[o]
        /\ assigning'[o] = IF o = t THEN {} ELSE assigning[o]
        /\ left'[o] = IF o = t THEN {} ELSE left[o]
    BY <1>1, EndWrites
<1>5. shared' = IF t = Sync THEN {} ELSE shared
    BY <1>1 DEF EndTransaction
<1>6. \A o \in Txns : pc'[o] = IF o = t THEN label ELSE pc[o]
    BY DEF Goto, TypeOK
<1>7. \A o \in Txns : o # t =>
        /\ dropped[o] \cap dropped[t] = {} /\ dropped[o] \cap added[t] = {}
        /\ unassigned[o] \cap unassigned[t] = {}
    <2> SUFFICES ASSUME NEW o \in Txns, o # t
                 PROVE  /\ dropped[o] \cap dropped[t] = {} /\ dropped[o] \cap added[t] = {}
                        /\ unassigned[o] \cap unassigned[t] = {}
        OBVIOUS
    <2>1. o \in Others(t) /\ t \in Others(o)
        BY DEF Others
    <2>2. \A r \in added[t] : \A s \in dropped[o] : ~Clash(r.def, s.def)
        BY <2>1 DEF LockInv
    <2>3. dropped[o] \cap added[t] = {}
        BY <2>2, ClashLaws
    <2> QED
        BY <2>1, <2>3 DEF LockInv
<1>8. dropped[t] \cap shared = {} /\ (t # Sync \/ dropped[t] = {})
    BY DEF LockInv, WriteInv
<1>9. WriteInv'
    <2>1. \A p \in Puts : AssignmentsOf(p)' = AssignmentsOf(p)
        BY DEF AssignmentsOf
    <2>2. \A o \in Txns : dropped'[o] \subseteq rows' /\ unassigned'[o] \subseteq assigned'
        BY <1>1, <1>4, <1>7 DEF WriteInv
    <2>3. dropped'[Sync] = {} /\ added'[Sync] = {} /\ unassigned'[Sync] = {}
        BY <1>4, TxnsApart DEF WriteInv
    <2>4. \A p \in Puts :
            /\ added'[p] \subseteq {Row(p, d) : d \in DOMAIN payload[p]}
            /\ assigning'[p] \subseteq {a \in AssignmentsOf(p) : a.row \in added'[p]}
        BY <1>4, TxnsApart DEF WriteInv
    <2>5. shared' \subseteq rows'
        BY <1>1, <1>5, <1>8 DEF WriteInv
    <2>6. /\ \A a \in assigning'[Sync] : ~a.row.def.blend
          /\ pc'[Sync] = "sharing" =>
                \A a \in assigning'[Sync] : a.row \in left'[Sync] \cup shared'
        BY <1>4, <1>5, <1>6, TxnsApart DEF WriteInv
    <2> QED
        BY <2>1, <2>2, <2>3, <2>4, <2>5, <2>6 DEF WriteInv
<1>10. LockInv'
    BY <1>4, <1>5, TxnsApart DEF LockInv, Others
<1>11. FitInv'
    <2>1. ASSUME NEW o \in Txns
          PROVE  /\ \A r \in added'[o] : \A s \in (rows' \ dropped'[o]) \cup added'[o] :
                        r # s => ~Clash(r.def, s.def)
                 /\ \A r \in added'[o] : r \notin rows' \ dropped'[o]
                 /\ \A a \in assigning'[o] : \A b \in assigned' \ unassigned'[o] :
                        a.item # b.item
                 /\ \A a \in assigning'[o] : \A b \in assigning'[o] :
                        a.item = b.item => a = b
        <3>1. CASE o = t
            BY <1>4, <3>1
        <3>2. CASE o # t
            <4>1. t \in Others(o)
                BY <3>2 DEF Others
            <4>2. /\ \A r \in added[o] : \A s \in added[t] : ~Clash(r.def, s.def)
                  /\ \A a \in assigning[o] : \A b \in assigning[t] : a.item # b.item
                BY <4>1 DEF LockInv
            <4>3. \A r \in added[o] : r \notin added[t]
                BY <4>2, ClashLaws
            <4> QED
                BY <1>1, <1>4, <3>2, <4>2, <4>3 DEF FitInv
        <3> QED
            BY <3>1, <3>2
    <2>2. ASSUME NEW p \in Puts, pc'[p] = "inserting"
          PROVE  References(p)' = {}
        <3>1. p # t /\ p \in Txns /\ pc[p] = "inserting"
            BY <1>6, <2>2, TxnsApart
        <3>2. dropped[p] \cap added[t] = {} /\ dropped[p] \cap shared = {}
            BY <1>7, <3>1 DEF LockInv
        <3>3. \A a \in assigning[t] : a.row \notin dropped[p]
            BY <3>2
        <3> QED
            BY <1>1, <1>4, <3>1, <3>3 DEF References, FitInv
    <2> QED
        BY <2>1, <2>2 DEF FitInv
<1>12. SchemeIntact'
    <2>1. ASSUME NEW r \in rows', NEW s \in rows', r # s
          PROVE  ~Clash(r.def, s.def)
        BY <1>1, <2>1, ClashLaws DEF SchemeIntact, FitInv
    <2>2. ASSUME NEW a \in assigned', NEW b \in assigned', a.item = b.item
          PROVE  a = b
        BY <1>1, <2>2 DEF SchemeIntact, FitInv
    <2>3. ASSUME NEW a \in assigned'
          PROVE  a.row \in rows' /\ ~a.row.def.blend
        <3>1. CASE a \in assigning[t]
            BY <1>1, <1>8, <3>1 DEF WriteInv
        <3>2. CASE a \in assigned \ unassigned[t]
            BY <1>1, <3>2 DEF SchemeIntact, References
        <3> QED
            BY <1>1, <2>3, <3>1, <3>2
    <2> QED
        BY <2>1, <2>2, <2>3 DEF SchemeIntact
<1> QED
    BY <1>2, <1>3, <1>9, <1>10, <1>11, <1>12

-------------------------------------------------------------------------------
(* Steps that write nothing *)

\* What a step must respect when it moves pc, left, ids, seen or a payload only.
LEMMA QuietKeeps ==
    ASSUME SchemeInv, UNCHANGED <<committed, writes>>, TypeOK', PhaseInv',
           \A p \in Puts : payload'[p] = payload[p] \/ (added[p] = {} /\ assigning[p] = {}),
           \A p \in Puts : pc'[p] = "inserting" => pc[p] = "inserting" \/ References(p) = {},
           pc'[Sync] = "sharing" =>
                \A a \in assigning[Sync] : a.row \in left'[Sync] \cup shared
    PROVE  SchemeInv'
<1> USE DEF SchemeInv
<1>1. UNCHANGED <<rows, assigned, dropped, added, unassigned, assigning, shared>>
    BY DEF committed, writes
<1>2. WriteInv'
    <2>1. \A p \in Puts :
            /\ added'[p] \subseteq {Row(p, d) : d \in DOMAIN payload'[p]}
            /\ assigning'[p] \subseteq {a \in AssignmentsOf(p)' : a.row \in added'[p]}
        <3> SUFFICES ASSUME NEW p \in Puts
                     PROVE  /\ added'[p] \subseteq {Row(p, d) : d \in DOMAIN payload'[p]}
                            /\ assigning'[p] \subseteq
                                    {a \in AssignmentsOf(p)' : a.row \in added'[p]}
            OBVIOUS
        <3>1. CASE payload'[p] = payload[p]
            <4>1. AssignmentsOf(p)' = AssignmentsOf(p)
                BY <3>1 DEF AssignmentsOf
            <4> QED
                BY <1>1, <3>1, <4>1 DEF WriteInv
        <3>2. CASE added[p] = {} /\ assigning[p] = {}
            BY <1>1, <3>2
        <3> QED
            BY <3>1, <3>2
    <2> QED
        BY <1>1, <2>1 DEF WriteInv
<1>3. LockInv'
    BY <1>1 DEF LockInv, Others
<1>4. FitInv'
    <2>1. \A p \in Puts : pc'[p] = "inserting" => References(p)' = {}
        BY <1>1 DEF FitInv, References
    <2> QED
        BY <1>1, <2>1 DEF FitInv
<1>5. SchemeIntact'
    BY <1>1 DEF SchemeIntact
<1> QED
    BY <1>2, <1>3, <1>4, <1>5

\* A request moves to a label it is ready for.
LEMMA PutMoves ==
    ASSUME TypeOK, PhaseInv, NEW p \in Puts, NEW label \in Labels, Goto(p, label),
           UNCHANGED writes,
           \A o \in Txns : o # p => payload'[o] = payload[o] /\ left'[o] = left[o],
           label \notin {"idle", "assigning", "sharing"},
           label \in InTransaction => WellFormed(payload'[p]),
           label # "inserting" => added[p] = {} /\ assigning[p] = {},
           label \in {"new", "selecting"} => dropped[p] = {} /\ unassigned[p] = {},
           label = "unassigning" => left'[p] \subseteq Assignments,
           label = "dropping" => left'[p] \subseteq Rows
    PROVE  PhaseInv'
<1>1. \A o \in Txns : pc'[o] = IF o = p THEN label ELSE pc[o]
    BY DEF Goto, TypeOK
<1>2. UNCHANGED <<dropped, added, unassigned, assigning>>
    BY DEF writes
<1>3. ASSUME NEW q \in Puts
      PROVE  /\ pc'[q] \notin {"idle", "assigning", "sharing"}
             /\ pc'[q] \in InTransaction => WellFormed(payload'[q])
             /\ pc'[q] # "inserting" => added'[q] = {} /\ assigning'[q] = {}
             /\ pc'[q] \in {"new", "selecting"} => dropped'[q] = {} /\ unassigned'[q] = {}
             /\ pc'[q] = "unassigning" => left'[q] \subseteq Assignments
             /\ pc'[q] = "dropping" => left'[q] \subseteq Rows
    <2>1. CASE q = p
        BY <1>1, <1>2, <2>1, TxnsApart
    <2>2. CASE q # p
        BY <1>1, <1>2, <2>2, TxnsApart DEF PhaseInv
    <2> QED
        BY <2>1, <2>2
<1>4. /\ pc'[Sync] = pc[Sync] /\ left'[Sync] = left[Sync]
      /\ assigning'[Sync] = assigning[Sync]
    BY <1>1, <1>2, TxnsApart
<1> QED
    BY <1>3, <1>4 DEF PhaseInv

\* The reading steps of a PUT.
LEMMA ReadingKeeps ==
    ASSUME SchemeInv, NEW p \in Puts,
           \/ Validate(p) \/ SelectCategories(p) \/ DeleteAssignments(p)
           \/ DeleteCategories(p) \/ ReadCategories(p) \/ AnswerPut(p)
    PROVE  SchemeInv'
<1> USE DEF SchemeInv
<1>1. TypeOK'
    BY ReadingTyped
<1>2. /\ UNCHANGED <<committed, writes>>
      /\ UNCHANGED payload \/ Validate(p)
    BY DEF Validate, SelectCategories, DeleteAssignments, DeleteCategories,
           ReadCategories, AnswerPut
<1>3. /\ p \in Txns /\ p \in Owners /\ Sync \in Txns /\ Sync # p
      /\ \A t \in Txns : t \in Owners \/ t = Sync
    BY TxnsApart
<1>4. CASE Validate(p)
    <2>1. PICK s \in Payloads :
            /\ payload' = [payload EXCEPT ![p] = s]
            /\ (Goto(p, "selecting") /\ WellFormed(s)) \/ Goto(p, "rejected")
        BY <1>4 DEF Validate
    <2>2. /\ pc[p] = "new" /\ UNCHANGED left
          /\ added[p] = {} /\ assigning[p] = {} /\ dropped[p] = {} /\ unassigned[p] = {}
        BY <1>4 DEF Validate, PhaseInv
    <2>3. payload'[p] = s /\ \A o \in Txns : o # p => payload'[o] = payload[o]
        BY <1>3, <2>1 DEF TypeOK
    <2>4. PhaseInv'
        <3>1. CASE Goto(p, "selecting") /\ WellFormed(s)
            BY <1>2, <2>2, <2>3, <3>1, PutMoves DEF Labels, InTransaction
        <3>2. CASE Goto(p, "rejected")
            BY <1>2, <2>2, <2>3, <3>2, PutMoves DEF Labels, InTransaction
        <3> QED
            BY <2>1, <3>1, <3>2
    <2>5. \A t \in Txns : t # p => pc'[t] = pc[t]
        BY <2>1 DEF Goto, TypeOK
    <2>6. pc'[p] \in {"selecting", "rejected"}
        BY <1>3, <2>1 DEF Goto, TypeOK
    <2>7. \A q \in Puts : payload'[q] = payload[q] \/ (added[q] = {} /\ assigning[q] = {})
        BY <2>2, <2>3, TxnsApart
    <2>8. \A q \in Puts : pc'[q] = "inserting" => pc[q] = "inserting" \/ References(q) = {}
        BY <2>5, <2>6, TxnsApart
    <2>9. pc'[Sync] = "sharing" => \A a \in assigning[Sync] : a.row \in left'[Sync] \cup shared
        BY <1>3, <2>2, <2>5 DEF WriteInv
    <2> HIDE DEF SchemeInv
    <2> QED
        BY <1>1, <1>2, <2>4, <2>7, <2>8, <2>9, QuietKeeps
<1>5. CASE SelectCategories(p) \/ DeleteAssignments(p) \/ DeleteCategories(p)
            \/ ReadCategories(p) \/ AnswerPut(p)
    <2>1. PICK label \in {"inserting", "clearing", "unassigning", "dropping", "listing", "ok"} :
            /\ Goto(p, label)
            /\ label = "inserting" => SelectCategories(p)
            /\ label = "clearing" => SelectCategories(p)
            /\ label = "unassigning" => DeleteAssignments(p)
            /\ label = "dropping" => DeleteCategories(p)
        BY <1>5 DEF SelectCategories, DeleteAssignments, DeleteCategories, ReadCategories,
                    AnswerPut
    <2>2. UNCHANGED payload /\ \A o \in Txns : o # p => left'[o] = left[o]
        BY <1>5 DEF SelectCategories, DeleteAssignments, DeleteCategories, ReadCategories,
                    AnswerPut, TypeOK
    <2>3. label \in InTransaction => WellFormed(payload[p])
        BY <1>3, <2>1 DEF SelectCategories, DeleteAssignments, DeleteCategories, PhaseInv,
                          InTransaction
    <2>4. pc[p] # "inserting" /\ added[p] = {} /\ assigning[p] = {}
        BY <1>3, <1>5 DEF SelectCategories, DeleteAssignments, DeleteCategories,
                          ReadCategories, AnswerPut, PhaseInv
    <2>5. /\ label = "unassigning" => left'[p] \subseteq Assignments
          /\ label = "dropping" => left'[p] \subseteq Rows
        BY <1>3, <2>1 DEF DeleteAssignments, DeleteCategories, TypeOK
    <2>6. label = "inserting" => References(p) = {}
        BY <2>1 DEF SelectCategories, PhaseInv, References
    <2>7. PhaseInv'
        BY <1>2, <2>1, <2>2, <2>3, <2>4, <2>5, PutMoves DEF Labels, InTransaction
    <2>8. \A t \in Txns : pc'[t] = IF t = p THEN label ELSE pc[t]
        BY <2>1 DEF Goto, TypeOK
    <2>9. \A q \in Puts : pc'[q] = "inserting" => pc[q] = "inserting" \/ References(q) = {}
        BY <2>6, <2>8, TxnsApart
    <2>10. pc'[Sync] = "sharing" => \A a \in assigning[Sync] : a.row \in left'[Sync] \cup shared
        BY <1>3, <2>2, <2>8 DEF WriteInv
    <2> HIDE DEF SchemeInv
    <2> QED
        BY <1>1, <1>2, <2>2, <2>7, <2>9, <2>10, QuietKeeps
<1> QED
    BY <1>4, <1>5

LEMMA ReaderKeeps ==
    ASSUME SchemeInv, NEW g \in Readers, ReaderStep(g)
    PROVE  SchemeInv'
<1> USE DEF SchemeInv
<1>1. TypeOK' /\ g \notin Txns
    BY ReaderTyped, TxnsApart
<1>2. UNCHANGED <<committed, writes, payload, left>>
    BY DEF ReaderStep, ReadCategories, AnswerGradebook
<1>3. \A t \in Txns : pc'[t] = pc[t]
    BY <1>1 DEF ReaderStep, ReadCategories, AnswerGradebook, Goto, TypeOK
<1>4. PhaseInv'
    BY <1>2, <1>3, TxnsApart DEF PhaseInv, writes
<1>5. \A q \in Puts : pc'[q] = "inserting" => pc[q] = "inserting" \/ References(q) = {}
    BY <1>3, TxnsApart
<1>6. pc'[Sync] = "sharing" => \A a \in assigning[Sync] : a.row \in left'[Sync] \cup shared
    BY <1>2, <1>3, TxnsApart DEF WriteInv
<1> HIDE DEF SchemeInv
<1> QED
    BY <1>1, <1>2, <1>4, <1>5, <1>6, QuietKeeps

-------------------------------------------------------------------------------
(* The writing steps of a PUT *)

LEMMA DeleteAssignmentKeeps ==
    ASSUME SchemeInv, NEW p \in Puts, DeleteAssignment(p)
    PROVE  SchemeInv'
<1> USE DEF SchemeInv
<1>1. PICK a \in left[p] :
        /\ AssignmentHolders(p, a) = {}
        /\ unassigned' = [unassigned EXCEPT ![p] = @ \cup ({a} \cap assigned)]
        /\ left' = [left EXCEPT ![p] = @ \ {a}]
    BY DEF DeleteAssignment
<1>2. /\ pc[p] = "unassigning"
      /\ UNCHANGED <<rows, assigned, dropped, added, assigning, shared, pc, payload>>
    BY DEF DeleteAssignment, committed
<1>3. p \in Txns /\ Sync # p
    BY TxnsApart
<1>4. \A t \in Txns :
        /\ unassigned'[t] = IF t = p THEN unassigned[p] \cup ({a} \cap assigned)
                                     ELSE unassigned[t]
        /\ left'[t] = IF t = p THEN left[p] \ {a} ELSE left[t]
    BY <1>1, <1>3 DEF TypeOK
<1>5. TypeOK'
    BY WritingTyped
<1>6. PhaseInv'
    BY <1>2, <1>3, <1>4, TxnsApart DEF PhaseInv
<1>7. WriteInv'
    <2>1. \A q \in Puts : AssignmentsOf(q)' = AssignmentsOf(q)
        BY <1>2 DEF AssignmentsOf
    <2>2. \A t \in Txns : dropped'[t] \subseteq rows' /\ unassigned'[t] \subseteq assigned'
        BY <1>2, <1>4 DEF WriteInv
    <2>3. unassigned'[Sync] = {} /\ left'[Sync] = left[Sync]
        BY <1>3, <1>4, TxnsApart DEF WriteInv
    <2> QED
        BY <1>2, <2>1, <2>2, <2>3 DEF WriteInv
<1>8. LockInv'
    <2>1. \A o \in Others(p) : a \notin unassigned[o]
        BY <1>1 DEF AssignmentHolders
    <2>2. ASSUME NEW o \in Others(p), a \in assigned, NEW b \in assigning[o]
          PROVE  b.item # a.item
        BY <2>1, <2>2, TxnsApart, <1>3 DEF FitInv
    <2>3. \A t \in Txns : \A o \in Others(t) :
            /\ unassigned'[t] \cap unassigned'[o] = {}
            /\ \A b \in assigning[t] : \A c \in assigning[o] \cup unassigned'[o] :
                b.item # c.item
        <3> SUFFICES ASSUME NEW t \in Txns, NEW o \in Others(t)
                     PROVE  /\ unassigned'[t] \cap unassigned'[o] = {}
                            /\ \A b \in assigning[t] :
                                    \A c \in assigning[o] \cup unassigned'[o] :
                                        b.item # c.item
            OBVIOUS
        <3>1. o \in Txns /\ o # t /\ t \in Others(o)
            BY DEF Others
        <3>2. /\ unassigned[t] \cap unassigned[o] = {}
              /\ \A b \in assigning[t] : \A c \in assigning[o] \cup unassigned[o] :
                    b.item # c.item
            BY DEF LockInv
        <3>3. unassigned'[t] \cap unassigned'[o] = {}
            BY <1>4, <2>1, <3>1, <3>2
        <3>4. \A b \in assigning[t] : \A c \in unassigned'[o] : b.item # c.item
            BY <1>4, <2>2, <3>1, <3>2
        <3> QED
            BY <3>2, <3>3, <3>4
    <2> QED
        BY <1>2, <2>3 DEF LockInv, Others
<1>9. FitInv'
    <2>1. \A t \in Txns : unassigned[t] \subseteq unassigned'[t]
        BY <1>4
    <2>2. \A t \in Txns : \A b \in assigning[t] : \A c \in assigned \ unassigned'[t] :
            b.item # c.item
        BY <2>1 DEF FitInv
    <2>3. \A q \in Puts : pc[q] = "inserting" => References(q)' = {}
        BY <1>2, <2>1, TxnsApart DEF FitInv, References
    <2> QED
        BY <1>2, <2>2, <2>3 DEF FitInv
<1>10. SchemeIntact'
    BY <1>2 DEF SchemeIntact
<1> QED
    BY <1>5, <1>6, <1>7, <1>8, <1>9, <1>10

LEMMA DeleteCategoryKeeps ==
    ASSUME SchemeInv, NEW p \in Puts, DeleteCategory(p)
    PROVE  SchemeInv'
<1> USE DEF SchemeInv
<1>1. PICK r \in left[p] :
        /\ RowHolders(p, r) = {}
        /\ dropped' = [dropped EXCEPT ![p] = @ \cup ({r} \cap rows)]
        /\ left' = [left EXCEPT ![p] = @ \ {r}]
    BY DEF DeleteCategory
<1>2. /\ pc[p] = "dropping"
      /\ UNCHANGED <<rows, assigned, added, unassigned, assigning, shared, pc, payload>>
    BY DEF DeleteCategory, committed
<1>3. p \in Txns /\ Sync # p /\ Sync \in Others(p)
    BY TxnsApart DEF Others
<1>4. \A t \in Txns :
        /\ dropped'[t] = IF t = p THEN dropped[p] \cup ({r} \cap rows) ELSE dropped[t]
        /\ left'[t] = IF t = p THEN left[p] \ {r} ELSE left[t]
    BY <1>1, <1>3 DEF TypeOK
<1>5. TypeOK'
    BY WritingTyped
<1>6. PhaseInv'
    BY <1>2, <1>3, <1>4, TxnsApart DEF PhaseInv
<1>7. WriteInv'
    <2>1. \A q \in Puts : AssignmentsOf(q)' = AssignmentsOf(q)
        BY <1>2 DEF AssignmentsOf
    <2>2. \A t \in Txns : dropped'[t] \subseteq rows' /\ unassigned'[t] \subseteq assigned'
        BY <1>2, <1>4 DEF WriteInv
    <2>3. dropped'[Sync] = {} /\ left'[Sync] = left[Sync]
        BY <1>3, <1>4, TxnsApart DEF WriteInv
    <2> QED
        BY <1>2, <2>1, <2>2, <2>3 DEF WriteInv
<1>8. LockInv'
    <2>1. r \notin shared /\ \A o \in Others(p) : r \notin dropped[o]
        BY <1>1, <1>3 DEF RowHolders
    <2>2. ASSUME NEW o \in Others(p), r \in rows, NEW s \in added[o]
          PROVE  ~Clash(s.def, r.def)
        BY <2>1, <2>2, TxnsApart, <1>3 DEF FitInv
    <2>3. \A t \in Txns : dropped'[t] \cap shared = {}
        BY <1>4, <2>1 DEF LockInv
    <2>4. \A t \in Txns : \A o \in Others(t) :
            /\ dropped'[t] \cap dropped'[o] = {}
            /\ \A s \in added[t] : \A c \in added[o] \cup dropped'[o] : ~Clash(s.def, c.def)
        <3> SUFFICES ASSUME NEW t \in Txns, NEW o \in Others(t)
                     PROVE  /\ dropped'[t] \cap dropped'[o] = {}
                            /\ \A s \in added[t] : \A c \in added[o] \cup dropped'[o] :
                                    ~Clash(s.def, c.def)
            OBVIOUS
        <3>1. o \in Txns /\ o # t /\ t \in Others(o)
            BY DEF Others
        <3>2. /\ dropped[t] \cap dropped[o] = {}
              /\ \A s \in added[t] : \A c \in added[o] \cup dropped[o] :
                    ~Clash(s.def, c.def)
            BY DEF LockInv
        <3>3. dropped'[t] \cap dropped'[o] = {}
            BY <1>4, <2>1, <3>1, <3>2
        <3>4. \A s \in added[t] : \A c \in dropped'[o] : ~Clash(s.def, c.def)
            BY <1>4, <2>2, <3>1, <3>2
        <3> QED
            BY <3>2, <3>3, <3>4
    <2> QED
        BY <1>2, <2>3, <2>4 DEF LockInv, Others
<1>9. FitInv'
    <2>1. \A t \in Txns : dropped[t] \subseteq dropped'[t]
        BY <1>4
    <2>2. \A t \in Txns :
            /\ \A s \in added[t] : \A c \in (rows \ dropped'[t]) \cup added[t] :
                s # c => ~Clash(s.def, c.def)
            /\ \A s \in added[t] : s \notin rows \ dropped'[t]
        BY <2>1 DEF FitInv
    <2>3. \A q \in Puts : pc[q] = "inserting" => References(q)' = {}
        BY <1>2, <1>4, TxnsApart DEF FitInv, References
    <2> QED
        BY <1>2, <2>2, <2>3 DEF FitInv
<1>10. SchemeIntact'
    BY <1>2 DEF SchemeIntact
<1> QED
    BY <1>5, <1>6, <1>7, <1>8, <1>9, <1>10

LEMMA CheckReferencesKeeps ==
    ASSUME SchemeInv, NEW p \in Puts, CheckReferences(p)
    PROVE  SchemeInv'
<1> USE DEF SchemeInv
<1>1. CASE Fail(p)
    BY <1>1, FailKeeps, TxnsApart
<1>2. CASE ~Fail(p)
    <2>1. /\ pc[p] = "dropping" /\ References(p) = {} /\ Goto(p, "inserting")
          /\ UNCHANGED <<committed, writes, payload, left>>
        BY <1>2 DEF CheckReferences
    <2>2. TypeOK'
        BY WritingTyped
    <2>3. \A t \in Txns : pc'[t] = IF t = p THEN "inserting" ELSE pc[t]
        BY <2>1 DEF Goto, TypeOK
    <2>4. WellFormed(payload[p])
        BY <2>1 DEF PhaseInv, InTransaction
    <2>5. PhaseInv'
        BY <2>1, <2>4, PutMoves DEF Labels, InTransaction
    <2>6. \A q \in Puts : pc'[q] = "inserting" => pc[q] = "inserting" \/ References(q) = {}
        BY <2>1, <2>3, TxnsApart
    <2>7. pc'[Sync] = "sharing" => \A a \in assigning[Sync] : a.row \in left'[Sync] \cup shared
        BY <2>1, <2>3, TxnsApart DEF WriteInv
    <2> HIDE DEF SchemeInv
    <2> QED
        BY <2>1, <2>2, <2>5, <2>6, <2>7, QuietKeeps
<1> QED
    BY <1>1, <1>2

LEMMA InsertCategoryKeeps ==
    ASSUME SchemeInv, NEW p \in Puts, InsertCategory(p), ~Fail(p)
    PROVE  SchemeInv'
<1> USE DEF SchemeInv
<1>1. PICK d \in MissingDefs(p) :
        /\ UniqueHolders(p, d) = {}
        /\ \A r \in rows \ dropped[p] : ~UniqueClash(r.def, d)
        /\ added' = [added EXCEPT ![p] = @ \cup {Row(p, d)}]
    BY DEF InsertCategory
<1> DEFINE new == Row(p, d)
<1>2. /\ pc[p] = "inserting"
      /\ UNCHANGED <<rows, assigned, dropped, unassigned, assigning, shared, pc, payload, left>>
    BY DEF InsertCategory, committed
<1>3. p \in Txns /\ p \in Owners /\ Sync # p
    BY TxnsApart
<1>4. \A t \in Txns : added'[t] = IF t = p THEN added[p] \cup {new} ELSE added[t]
    BY <1>1, <1>3 DEF TypeOK
<1>5. TypeOK'
    BY WritingTyped
<1>6. IsScheme(payload[p]) /\ WellFormed(payload[p])
    BY <1>2, <1>3 DEF TypeOK, PhaseInv, InTransaction
<1>7. d \in DOMAIN payload[p] /\ d \in Defs /\ new.def = Stored(d)
    BY <1>6 DEF MissingDefs, IsScheme, Row
<1>8. \A c : (Clash(c, new.def) <=> Clash(c, d)) /\ (Clash(new.def, c) <=> Clash(d, c))
    BY <1>7, ClashStored
<1>9. \A o \in Others(p) : \A s \in added[o] \cup dropped[o] :
        ~Clash(s.def, new.def) /\ ~Clash(new.def, s.def)
    BY <1>1, <1>8, ClashLaws DEF UniqueHolders, UniqueClash
<1>10. \A s \in rows \ dropped[p] : s # new /\ ~Clash(s.def, new.def) /\ ~Clash(new.def, s.def)
    <2>1. \A s \in rows \ dropped[p] : ~Clash(s.def, new.def) /\ ~Clash(new.def, s.def)
        BY <1>1, <1>8, ClashLaws DEF UniqueClash
    <2> QED
        BY <2>1, ClashLaws
<1>11. \A s \in added[p] : s # new => ~Clash(s.def, new.def) /\ ~Clash(new.def, s.def)
    <2> SUFFICES ASSUME NEW s \in added[p], s # new
                 PROVE  ~Clash(s.def, new.def) /\ ~Clash(new.def, s.def)
        OBVIOUS
    <2>1. PICK e \in DOMAIN payload[p] : s = Row(p, e)
        BY DEF WriteInv
    <2> QED
        BY <1>3, <1>6, <1>7, <2>1, RowsWellFormed
<1>12. PhaseInv'
    BY <1>2, <1>4, TxnsApart DEF PhaseInv
<1>13. WriteInv'
    <2>1. \A q \in Puts : AssignmentsOf(q)' = AssignmentsOf(q)
        BY <1>2 DEF AssignmentsOf
    <2>2. \A q \in Puts :
            /\ added'[q] \subseteq {Row(q, e) : e \in DOMAIN payload[q]}
            /\ assigning'[q] \subseteq {a \in AssignmentsOf(q) : a.row \in added'[q]}
        BY <1>2, <1>4, <1>7, TxnsApart DEF WriteInv
    <2>3. added'[Sync] = {}
        BY <1>3, <1>4, TxnsApart DEF WriteInv
    <2> QED
        BY <1>2, <2>1, <2>2, <2>3 DEF WriteInv
<1>14. LockInv'
    <2>1. ASSUME NEW t \in Txns, NEW o \in Others(t), NEW r \in added'[t],
                 NEW s \in added'[o] \cup dropped[o]
          PROVE  ~Clash(r.def, s.def)
        <3>1. o \in Txns /\ o # t /\ t \in Others(o)
            BY DEF Others
        <3>2. CASE t = p
            <4>1. s \in added[o] \cup dropped[o] /\ (r = new \/ r \in added[p])
                BY <1>4, <2>1, <3>1, <3>2
            <4> QED
                BY <1>9, <3>1, <3>2, <4>1 DEF LockInv
        <3>3. CASE t # p
            <4>1. r \in added[t]
                BY <1>4, <3>3
            <4>2. CASE o = p /\ s = new
                BY <1>9, <3>1, <4>1, <4>2
            <4>3. CASE ~(o = p /\ s = new)
                BY <1>4, <3>1, <4>1, <4>3 DEF LockInv
            <4> QED
                BY <4>2, <4>3
        <3> QED
            BY <3>2, <3>3
    <2> QED
        BY <1>2, <2>1 DEF LockInv, Others
<1>15. FitInv'
    <2>1. ASSUME NEW t \in Txns
          PROVE  /\ \A r \in added'[t] : \A s \in (rows \ dropped[t]) \cup added'[t] :
                        r # s => ~Clash(r.def, s.def)
                 /\ \A r \in added'[t] : r \notin rows \ dropped[t]
        <3>1. CASE t = p
            BY <1>4, <1>10, <1>11, <3>1 DEF FitInv
        <3>2. CASE t # p
            BY <1>4, <3>2 DEF FitInv
        <3> QED
            BY <3>1, <3>2
    <2>2. \A q \in Puts : pc[q] = "inserting" => References(q)' = {}
        BY <1>2 DEF FitInv, References
    <2> QED
        BY <1>2, <2>1, <2>2 DEF FitInv
<1>16. SchemeIntact'
    BY <1>2 DEF SchemeIntact
<1> QED
    BY <1>5, <1>12, <1>13, <1>14, <1>15, <1>16

\* One more assignment a of t: a key that nobody else holds and that t finds
\* nowhere, in tables that are otherwise untouched.
LEMMA AssignedKeeps ==
    ASSUME SchemeInv, NEW t \in Txns, NEW a,
           ItemHolders(t, a.item) = {},
           \A b \in (assigned \ unassigned[t]) \cup assigning[t] :
                a.item = b.item => a = b /\ b \in assigning[t],
           assigning' = [assigning EXCEPT ![t] = @ \cup {a}],
           UNCHANGED <<rows, assigned, dropped, added, unassigned, shared, pc>>
    PROVE  LockInv' /\ FitInv'
<1> USE DEF SchemeInv
<1>1. \A o \in Txns : assigning'[o] = IF o = t THEN assigning[t] \cup {a} ELSE assigning[o]
    BY DEF TypeOK
<1>2. \A o \in Others(t) : \A b \in assigning[o] \cup unassigned[o] : b.item # a.item
    BY DEF ItemHolders
<1>3. LockInv'
    <2>1. ASSUME NEW q \in Txns, NEW o \in Others(q), NEW b \in assigning'[q],
                 NEW c \in assigning'[o] \cup unassigned[o]
          PROVE  b.item # c.item
        <3>1. o \in Txns /\ o # q /\ q \in Others(o)
            BY DEF Others
        <3>2. CASE q = t
            <4>1. c \in assigning[o] \cup unassigned[o] /\ (b = a \/ b \in assigning[t])
                BY <1>1, <2>1, <3>1, <3>2
            <4> QED
                BY <1>2, <3>1, <3>2, <4>1 DEF LockInv
        <3>3. CASE q # t
            <4>1. b \in assigning[q]
                BY <1>1, <3>3
            <4>2. CASE o = t /\ c = a
                BY <1>2, <3>1, <4>1, <4>2
            <4>3. CASE ~(o = t /\ c = a)
                BY <1>1, <3>1, <4>1, <4>3 DEF LockInv
            <4> QED
                BY <4>2, <4>3
        <3> QED
            BY <3>2, <3>3
    <2> QED
        BY <2>1 DEF LockInv, Others
<1>4. FitInv'
    <2>1. ASSUME NEW o \in Txns
          PROVE  /\ \A b \in assigning'[o] : \A c \in assigned \ unassigned[o] :
                        b.item # c.item
                 /\ \A b, c \in assigning'[o] : b.item = c.item => b = c
        <3>1. CASE o = t
            <4>1. \A c \in assigned \ unassigned[t] : c \notin assigning[t]
                BY DEF FitInv
            <4> QED
                BY <1>1, <3>1, <4>1 DEF FitInv
        <3>2. CASE o # t
            BY <1>1, <3>2 DEF FitInv
        <3> QED
            BY <3>1, <3>2
    <2>2. \A q \in Puts : pc[q] = "inserting" => References(q)' = {}
        BY DEF FitInv, References
    <2> QED
        BY <2>1, <2>2 DEF FitInv
<1> QED
    BY <1>3, <1>4

LEMMA InsertAssignmentKeeps ==
    ASSUME SchemeInv, NEW p \in Puts, InsertAssignment(p), ~Fail(p)
    PROVE  SchemeInv'
<1> USE DEF SchemeInv
<1>1. PICK a \in MissingAssignments(p) :
        /\ ItemHolders(p, a.item) = {}
        /\ \A b \in assigned \ unassigned[p] : b.item # a.item
        /\ assigning' = [assigning EXCEPT ![p] = @ \cup {a}]
    BY DEF InsertAssignment
<1>2. /\ pc[p] = "inserting"
      /\ UNCHANGED <<rows, assigned, dropped, added, unassigned, shared, pc, payload, left>>
    BY DEF InsertAssignment, committed
<1>3. p \in Txns /\ p \in Owners /\ Sync # p
    BY TxnsApart
<1>4. \A t \in Txns : assigning'[t] = IF t = p THEN assigning[p] \cup {a} ELSE assigning[t]
    BY <1>1, <1>3 DEF TypeOK
<1>5. TypeOK'
    BY WritingTyped
<1>6. a \in AssignmentsOf(p) /\ a.row \in added[p]
    BY <1>1 DEF MissingAssignments
<1>7. \A b \in assigning[p] : a.item = b.item => a = b
    <2>1. IsScheme(payload[p]) /\ WellFormed(payload[p])
        BY <1>2, <1>3 DEF TypeOK, PhaseInv, InTransaction
    <2>2. assigning[p] \subseteq AssignmentsOf(p)
        BY DEF WriteInv
    <2> QED
        BY <1>3, <1>6, <2>1, <2>2, AssignmentsWellFormed
<1>8. LockInv' /\ FitInv'
    <2>1. \A b \in (assigned \ unassigned[p]) \cup assigning[p] :
            a.item = b.item => a = b /\ b \in assigning[p]
        BY <1>1, <1>7
    <2> HIDE DEF SchemeInv
    <2> QED
        BY <1>1, <1>2, <1>3, <2>1, AssignedKeeps
<1>9. PhaseInv'
    BY <1>2, <1>4, TxnsApart DEF PhaseInv
<1>10. WriteInv'
    <2>1. \A q \in Puts : AssignmentsOf(q)' = AssignmentsOf(q)
        BY <1>2 DEF AssignmentsOf
    <2>2. \A q \in Puts : assigning'[q] \subseteq {b \in AssignmentsOf(q) : b.row \in added[q]}
        BY <1>4, <1>6, TxnsApart DEF WriteInv
    <2>3. assigning'[Sync] = assigning[Sync]
        BY <1>3, <1>4, TxnsApart
    <2> QED
        BY <1>2, <2>1, <2>2, <2>3 DEF WriteInv
<1>11. SchemeIntact'
    BY <1>2 DEF SchemeIntact
<1> QED
    BY <1>5, <1>8, <1>9, <1>10, <1>11

LEMMA CommitPutKeeps ==
    ASSUME SchemeInv, NEW p \in Puts, Commit(p)
    PROVE  SchemeInv'
<1> USE DEF SchemeInv
<1>1. p \in Txns /\ p \in Owners /\ Sync # p
    BY TxnsApart
<1>2. PICK label \in {"error", "answering"} : Goto(p, label)
    BY DEF Commit
<1>3. pc[p] = "inserting" /\ CommitWrites(p) /\ UNCHANGED <<payload, ids, seen, syncs>>
    BY DEF Commit
<1>4. References(p) = {}
    BY <1>3 DEF FitInv
<1>5. \A a \in assigning[p] : ~a.row.def.blend /\ a.row \in added[p] \cup shared
    <2>1. IsScheme(payload[p]) /\ WellFormed(payload[p])
        BY <1>1, <1>3 DEF TypeOK, PhaseInv, InTransaction
    <2> QED
        BY <1>1, <2>1, AssignmentsWellFormed DEF WriteInv
<1> HIDE DEF SchemeInv
<1> QED
    BY <1>1, <1>2, <1>3, <1>4, <1>5, CommitKeeps

-------------------------------------------------------------------------------
(* The steps of the grades sync *)

\* A step of the sync that writes nothing moves it to a label it is ready for.
LEMMA SyncMoves ==
    ASSUME SchemeInv, NEW label \in {"assigning", "sharing"}, Goto(Sync, label), TypeOK',
           UNCHANGED <<committed, writes, payload>>,
           \A t \in Txns : t # Sync => left'[t] = left[t],
           label = "assigning" => left'[Sync] \subseteq {a \in Assignments : ~a.row.def.blend},
           label = "sharing" => /\ left'[Sync] \subseteq Rows
                                /\ \A a \in assigning[Sync] : a.row \in left'[Sync]
    PROVE  SchemeInv'
<1> USE DEF SchemeInv
<1>1. \A t \in Txns : pc'[t] = IF t = Sync THEN label ELSE pc[t]
    BY DEF Goto, TypeOK
<1>2. PhaseInv'
    BY <1>1, TxnsApart DEF PhaseInv, writes
<1>3. \A q \in Puts : pc'[q] = "inserting" => pc[q] = "inserting" \/ References(q) = {}
    BY <1>1, TxnsApart
<1>4. pc'[Sync] = "sharing" => \A a \in assigning[Sync] : a.row \in left'[Sync] \cup shared
    BY <1>1, TxnsApart
<1> HIDE DEF SchemeInv
<1> QED
    BY <1>2, <1>3, <1>4, QuietKeeps

LEMMA SyncReadingKeeps ==
    ASSUME SchemeInv, StartAssigning \/ StartSharing
    PROVE  SchemeInv'
<1> USE DEF SchemeInv
<1>1. TypeOK'
    BY SyncTyped
<1>2. CASE StartAssigning
    <2>1. PICK batch \in SUBSET Items : left' = [left EXCEPT ![Sync] = Candidates(batch)]
        BY <1>2 DEF StartAssigning
    <2>2. Candidates(batch) \subseteq {a \in Assignments : ~a.row.def.blend}
        BY DEF Candidates, Assignments, TypeOK
    <2>3. /\ left'[Sync] \subseteq {a \in Assignments : ~a.row.def.blend}
          /\ \A t \in Txns : t # Sync => left'[t] = left[t]
        BY <2>1, <2>2, TxnsApart DEF TypeOK
    <2>4. Goto(Sync, "assigning") /\ UNCHANGED <<committed, writes, payload>>
        BY <1>2 DEF StartAssigning
    <2> HIDE DEF SchemeInv
    <2> QED
        BY <1>1, <2>3, <2>4, SyncMoves
<1>3. CASE StartSharing
    <2>1. /\ left' = [left EXCEPT ![Sync] = {a.row : a \in assigning[Sync]}]
          /\ Goto(Sync, "sharing") /\ UNCHANGED <<committed, writes, payload>>
        BY <1>3 DEF StartSharing
    <2>2. /\ left'[Sync] = {a.row : a \in assigning[Sync]}
          /\ \A t \in Txns : t # Sync => left'[t] = left[t]
        BY <2>1, TxnsApart DEF TypeOK
    <2>3. {a.row : a \in assigning[Sync]} \subseteq Rows
        BY TxnsApart DEF TypeOK, Assignments
    <2> HIDE DEF SchemeInv
    <2> QED
        BY <1>1, <2>1, <2>2, <2>3, SyncMoves
<1> QED
    BY <1>2, <1>3

LEMMA AutoAssignKeeps ==
    ASSUME SchemeInv, AutoAssign
    PROVE  SchemeInv'
<1> USE DEF SchemeInv
<1>1. PICK a \in left[Sync] :
        /\ ItemHolders(Sync, a.item) = {}
        /\ IF \E b \in assigned \cup assigning[Sync] : b.item = a.item
           THEN UNCHANGED assigning
           ELSE assigning' = [assigning EXCEPT ![Sync] = @ \cup {a}]
        /\ left' = [left EXCEPT ![Sync] = @ \ {a}]
    BY DEF AutoAssign
<1>2. /\ pc[Sync] = "assigning"
      /\ UNCHANGED <<rows, assigned, dropped, added, unassigned, shared, pc, payload>>
    BY DEF AutoAssign, committed
<1>3. TypeOK'
    BY SyncTyped
<1>4. a \in Assignments /\ ~a.row.def.blend
    BY <1>1, <1>2 DEF PhaseInv
<1>5. \A t \in Txns :
        /\ left'[t] = IF t = Sync THEN left[Sync] \ {a} ELSE left[t]
        /\ assigning'[t] \subseteq assigning[t] \cup (IF t = Sync THEN {a} ELSE {})
        /\ t # Sync => assigning'[t] = assigning[t]
    BY <1>1, TxnsApart DEF TypeOK
<1>6. PhaseInv'
    BY <1>2, <1>5, TxnsApart DEF PhaseInv
<1>7. WriteInv'
    <2>1. \A q \in Puts : AssignmentsOf(q)' = AssignmentsOf(q)
        BY <1>2 DEF AssignmentsOf
    <2>2. \A q \in Puts : assigning'[q] = assigning[q]
        BY <1>5, TxnsApart
    <2>3. \A b \in assigning'[Sync] : ~b.row.def.blend
        BY <1>4, <1>5, TxnsApart DEF WriteInv
    <2> QED
        BY <1>2, <2>1, <2>2, <2>3 DEF WriteInv
<1>8. LockInv' /\ FitInv'
    <2>1. CASE UNCHANGED assigning
        <3>1. \A q \in Puts : pc[q] = "inserting" => References(q)' = {}
            BY <1>2 DEF FitInv, References
        <3> QED
            BY <1>2, <2>1, <3>1 DEF LockInv, FitInv, Others
    <2>2. CASE ~UNCHANGED assigning
        <3>1. /\ \A b \in (assigned \ unassigned[Sync]) \cup assigning[Sync] : a.item # b.item
              /\ assigning' = [assigning EXCEPT ![Sync] = @ \cup {a}]
            BY <1>1, <2>2
        <3> HIDE DEF SchemeInv
        <3> QED
            BY <1>1, <1>2, <3>1, AssignedKeeps, TxnsApart
    <2> QED
        BY <2>1, <2>2
<1>9. SchemeIntact'
    BY <1>2 DEF SchemeIntact
<1> QED
    BY <1>3, <1>6, <1>7, <1>8, <1>9

LEMMA ShareCategoryKeeps ==
    ASSUME SchemeInv, ShareCategory, ~Fail(Sync)
    PROVE  SchemeInv'
<1> USE DEF SchemeInv
<1>1. PICK r \in left[Sync] :
        /\ RowHolders(Sync, r) = {} /\ r \in rows
        /\ shared' = shared \cup {r}
        /\ left' = [left EXCEPT ![Sync] = @ \ {r}]
    BY DEF ShareCategory
<1>2. /\ pc[Sync] = "sharing"
      /\ UNCHANGED <<rows, assigned, dropped, added, unassigned, assigning, pc, payload>>
    BY DEF ShareCategory, committed
<1>3. TypeOK'
    BY SyncTyped
<1>4. \A t \in Txns : left'[t] = IF t = Sync THEN left[Sync] \ {r} ELSE left[t]
    BY <1>1, TxnsApart DEF TypeOK
<1>5. PhaseInv'
    BY <1>2, <1>4, TxnsApart DEF PhaseInv
<1>6. WriteInv'
    <2>1. \A q \in Puts : AssignmentsOf(q)' = AssignmentsOf(q)
        BY <1>2 DEF AssignmentsOf
    <2>2. \A a \in assigning[Sync] : a.row \in left'[Sync] \cup shared'
        BY <1>1, <1>2, <1>4, TxnsApart DEF WriteInv
    <2> QED
        BY <1>1, <1>2, <2>1, <2>2 DEF WriteInv
<1>7. LockInv'
    <2>1. \A t \in Txns : r \notin dropped[t]
        BY <1>1 DEF RowHolders, Others, WriteInv
    <2> QED
        BY <1>1, <1>2, <2>1 DEF LockInv, Others
<1>8. FitInv'
    <2>1. \A q \in Puts : pc[q] = "inserting" => References(q)' = {}
        BY <1>2 DEF FitInv, References
    <2> QED
        BY <1>2, <2>1 DEF FitInv
<1>9. SchemeIntact'
    BY <1>2 DEF SchemeIntact
<1> QED
    BY <1>3, <1>5, <1>6, <1>7, <1>8, <1>9

LEMMA CommitSyncKeeps ==
    ASSUME SchemeInv, CommitSync
    PROVE  SchemeInv'
<1> USE DEF SchemeInv
<1>1. /\ pc[Sync] = "sharing" /\ left[Sync] = {} /\ CommitWrites(Sync)
      /\ Goto(Sync, "idle") /\ UNCHANGED <<payload, ids, seen, syncs>>
    BY DEF CommitSync
<1>2. References(Sync) = {}
    BY DEF References, WriteInv
<1>3. \A a \in assigning[Sync] : ~a.row.def.blend /\ a.row \in added[Sync] \cup shared
    BY <1>1 DEF WriteInv
<1> HIDE DEF SchemeInv
<1> QED
    BY <1>1, <1>2, <1>3, CommitKeeps, TxnsApart

-------------------------------------------------------------------------------
(* The theorems *)

LEMMA InitIntact == Init => SchemeInv
<1> SUFFICES ASSUME Init PROVE SchemeInv
    OBVIOUS
<1>1. PICK s \in Initials : payload = [p \in Owners |-> s]
    BY DEF Init
<1>2. /\ Seed \in Owners /\ payload[Seed] = s /\ IsScheme(payload[Seed])
      /\ DOMAIN s = {} \/ WellFormed(payload[Seed])
    BY <1>1, SchemeAssumption DEF Owners
<1>3. TypeOK
    BY InitTyped
<1>4. \A t \in Txns :
        /\ dropped[t] = {} /\ added[t] = {} /\ unassigned[t] = {} /\ assigning[t] = {}
        /\ left[t] = {} /\ pc[t] = IF t = Sync THEN "idle" ELSE "new"
    BY DEF Init
<1>5. PhaseInv
    BY <1>4, TxnsApart DEF PhaseInv, InTransaction
<1>6. WriteInv
    BY <1>4, TxnsApart DEF WriteInv, Init
<1>7. LockInv /\ FitInv
    BY <1>4, TxnsApart DEF LockInv, FitInv
<1>8. SchemeIntact
    <2>1. rows = {Row(Seed, d) : d \in DOMAIN s} /\ assigned = AssignmentsOf(Seed)
        BY <1>2 DEF Init
    <2>2. CASE DOMAIN s = {}
        <3>1. rows = {} /\ assigned = {}
            BY <1>2, <2>1, <2>2 DEF AssignmentsOf
        <3> QED
            BY <3>1 DEF SchemeIntact
    <2>3. CASE WellFormed(payload[Seed])
        <3>1. \A r, q \in rows : r # q => ~Clash(r.def, q.def)
            BY <1>2, <2>1, <2>3, RowsWellFormed
        <3>2. /\ \A a, b \in assigned : a.item = b.item => a = b
              /\ \A a \in assigned : ~a.row.def.blend
            BY <1>2, <2>1, <2>3, AssignmentsWellFormed
        <3>3. \A a \in assigned : a.row \in rows
            BY <1>2, <2>1 DEF AssignmentsOf
        <3> QED
            BY <3>1, <3>2, <3>3 DEF SchemeIntact
    <2> QED
        BY <1>2, <2>2, <2>3
<1> QED
    BY <1>3, <1>5, <1>6, <1>7, <1>8 DEF SchemeInv

LEMMA NextIntact == SchemeInv /\ [Next]_vars => SchemeInv'
<1> SUFFICES ASSUME SchemeInv, [Next]_vars
             PROVE  SchemeInv'
    OBVIOUS
<1>1. ASSUME NEW p \in Puts, Validate(p) \/ PutStep(p)
      PROVE  SchemeInv'
    <2>1. CASE Fail(p)
        BY <2>1, FailKeeps, TxnsApart
    <2>2. CASE ~Fail(p)
        BY <1>1, <2>2, ReadingKeeps, DeleteAssignmentKeeps, DeleteCategoryKeeps,
           CheckReferencesKeeps, InsertCategoryKeeps, InsertAssignmentKeeps, CommitPutKeeps
           DEF PutStep, Cancel
    <2> QED
        BY <2>1, <2>2
<1>2. CASE StartAssigning \/ SyncStep
    <2>1. CASE Fail(Sync)
        BY <2>1, FailKeeps, TxnsApart
    <2>2. CASE ~Fail(Sync)
        BY <1>2, <2>2, SyncReadingKeeps, AutoAssignKeeps, ShareCategoryKeeps, CommitSyncKeeps
           DEF SyncStep, Cancel
    <2> QED
        BY <2>1, <2>2
<1>3. ASSUME NEW t \in Txns, Fault(t)
      PROVE  SchemeInv'
    BY <1>3, FailKeeps DEF Fault
<1>4. ASSUME NEW g \in Readers, ReaderStep(g)
      PROVE  SchemeInv'
    BY <1>4, ReaderKeeps
<1>5. CASE UNCHANGED vars
    <2>1. TypeOK'
        BY <1>5, NextTyped DEF SchemeInv
    <2>2. PhaseInv'
        BY <1>5 DEF SchemeInv, PhaseInv, vars, committed, writes
    <2>3. \A q \in Puts : pc'[q] = "inserting" => pc[q] = "inserting" \/ References(q) = {}
        BY <1>5 DEF vars
    <2>4. pc'[Sync] = "sharing" =>
            \A a \in assigning[Sync] : a.row \in left'[Sync] \cup shared
        BY <1>5 DEF SchemeInv, WriteInv, vars
    <2>5. UNCHANGED <<committed, writes, payload>>
        BY <1>5 DEF vars
    <2> QED
        BY <2>1, <2>2, <2>3, <2>4, <2>5, QuietKeeps
<1> QED
    BY <1>1, <1>2, <1>3, <1>4, <1>5 DEF Next

LEMMA AlwaysSchemeInv == Spec => []SchemeInv
BY InitIntact, NextIntact, PTL DEF Spec

\* Tables, locks and the memory of every request keep their types.
THEOREM TypeCorrect == Spec => []TypeOK
<1>1. SchemeInv => TypeOK
    BY DEF SchemeInv
<1> QED
    BY <1>1, AlwaysSchemeInv, PTL

\* However many PUTs, syncs, failures, lost acknowledgements and deadlocks
\* overlap, the committed scheme never holds two clashing categories, an item
\* twice, an assignment without its category or one to the blend category.
THEOREM SchemeStaysIntact == Spec => []SchemeIntact
<1>1. SchemeInv => SchemeIntact
    BY DEF SchemeInv
<1> QED
    BY <1>1, AlwaysSchemeInv, PTL
===============================================================================
