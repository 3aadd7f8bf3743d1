--------------------------- MODULE SchemeWholeProofs ---------------------------
(***************************************************************************)
(* Theorems about EvaluationScheme: a PUT leaves its whole scheme behind   *)
(* or nothing of it, and the commit of the grades sync removes nothing.    *)
(***************************************************************************)
EXTENDS EvaluationSchemeProofs, FiniteSetTheorems

-------------------------------------------------------------------------------
(* The invariant *)

Mine(p) == {r \in rows : r.owner = p}
Placed(p) == {a \in assigned : a.row \in Mine(p)}

\* A request that has not committed.
Pending(p) == p # Seed /\ pc[p] \in InTransaction \cup {"new", "rejected"}

\* The body of WholeSchemes.
WholeScheme(p) ==
    \/ Mine(p) = {} /\ Placed(p) = {}
    \/ /\ Mine(p) = {Row(p, d) : d \in DOMAIN payload[p]}
       /\ AssignmentsOf(p) \subseteq Placed(p)
       /\ \A a \in Placed(p) \ AssignmentsOf(p) : a.row.def.mtype = TypeOf[a.item]
       /\ ~Pending(p)

\* The categories t deletes or is about to delete.
Doomed(t) == dropped[t] \cup (IF pc[t] = "dropping" THEN left[t] ELSE {})

\* The second DELETE takes all categories of an owner or none, and every
\* category whose assignments the first one took.
DropsWhole(t) ==
    pc[t] \in {"dropping", "inserting"} =>
        /\ \A r \in Doomed(t) : ~Pending(r.owner)
        /\ \A p \in Owners : Mine(p) \subseteq Doomed(t) \/ Mine(p) \cap Doomed(t) = {}
        /\ \A a \in unassigned[t] : a.row \in Doomed(t)

\* The sync places items by activity type only.
Matched(a) == a.row.def.mtype = TypeOf[a.item]
MatchInv ==
    /\ \A a \in assigning[Sync] : Matched(a)
    /\ pc[Sync] = "assigning" => \A a \in left[Sync] : Matched(a)

WholeInv ==
    /\ \A p \in Owners : WholeScheme(p)
    /\ \A t \in Puts : DropsWhole(t)
    /\ MatchInv

-------------------------------------------------------------------------------
(* What a step leaves alone *)

LEMMA WholeUnmoved ==
    ASSUME SchemeInv, UNCHANGED committed, NEW p \in Owners, WholeScheme(p),
           Pending(p)' => Pending(p),
           payload'[p] = payload[p] \/ Pending(p)
    PROVE  WholeScheme(p)'
<1>1. Mine(p)' = Mine(p) /\ Placed(p)' = Placed(p)
    BY DEF Mine, Placed, committed
<1>2. CASE Mine(p) = {} /\ Placed(p) = {}
    BY <1>1, <1>2 DEF WholeScheme
<1>3. CASE payload'[p] = payload[p]
    <2>1. AssignmentsOf(p)' = AssignmentsOf(p)
        BY <1>3 DEF AssignmentsOf
    <2> QED
        BY <1>1, <1>3, <2>1 DEF WholeScheme
<1> QED
    BY <1>2, <1>3 DEF WholeScheme

LEMMA DoomedType ==
    ASSUME SchemeInv, NEW t \in Puts
    PROVE  Doomed(t) \subseteq Rows /\ \A r \in Doomed(t) : r.owner \in Owners
BY TxnsApart DEF SchemeInv, TypeOK, PhaseInv, Doomed, Rows

LEMMA DropsUnmoved ==
    ASSUME SchemeInv, UNCHANGED committed, NEW t \in Puts, DropsWhole(t),
           \A p \in Owners : Pending(p)' => Pending(p),
           pc'[t] = pc[t], left'[t] = left[t], dropped'[t] = dropped[t],
           unassigned'[t] = unassigned[t]
    PROVE  DropsWhole(t)'
<1>1. Doomed(t)' = Doomed(t) /\ \A p \in Owners : Mine(p)' = Mine(p)
    BY DEF Doomed, Mine, committed
<1> QED
    BY <1>1, DoomedType DEF DropsWhole

\* A step of one PUT that commits nothing.
LEMMA PutKeepsWhole ==
    ASSUME SchemeInv, WholeInv, NEW p \in Puts, UNCHANGED committed,
           \A t \in Txns : t # p =>
                /\ pc'[t] = pc[t] /\ left'[t] = left[t] /\ dropped'[t] = dropped[t]
                /\ unassigned'[t] = unassigned[t] /\ assigning'[t] = assigning[t],
           \A q \in Owners : payload'[q] = payload[q] \/ (q = p /\ pc[p] = "new"),
           Pending(p)' => Pending(p), DropsWhole(p)'
    PROVE  WholeInv'
<1>1. \A q \in Owners : Pending(q)' => Pending(q)
    BY TxnsApart DEF Pending, Owners
<1>2. \A q \in Owners : WholeScheme(q)'
    <2>1. p # Seed
        BY OwnersAssumption
    <2>2. \A q \in Owners : payload'[q] = payload[q] \/ Pending(q)
        BY <2>1 DEF Pending
    <2> QED
        BY <1>1, <2>2, WholeUnmoved DEF WholeInv
<1>3. ASSUME NEW t \in Puts, t # p
      PROVE  DropsWhole(t)'
    <2>1. DropsWhole(t) /\ t \in Txns
        BY TxnsApart DEF WholeInv
    <2> QED
        BY <1>1, <1>3, <2>1, DropsUnmoved
<1>4. MatchInv'
    BY TxnsApart DEF WholeInv, MatchInv, Matched
<1> QED
    BY <1>2, <1>3, <1>4 DEF WholeInv

\* A step of the sync that commits nothing.
LEMMA SyncKeepsWhole ==
    ASSUME SchemeInv, WholeInv, UNCHANGED <<committed, payload>>,
           \A t \in Puts : /\ pc'[t] = pc[t] /\ left'[t] = left[t]
                           /\ dropped'[t] = dropped[t] /\ unassigned'[t] = unassigned[t],
           MatchInv'
    PROVE  WholeInv'
<1>1. \A q \in Owners : Pending(q)' => Pending(q)
    BY DEF Pending, Owners
<1>2. \A q \in Owners : WholeScheme(q)'
    BY <1>1, WholeUnmoved DEF WholeInv
<1>3. \A t \in Puts : DropsWhole(t)'
    BY <1>1, DropsUnmoved DEF WholeInv
<1> QED
    BY <1>2, <1>3 DEF WholeInv

-------------------------------------------------------------------------------
(* Steps that commit nothing *)

\* What a rollback leaves of the sync's work still matches.
LEMMA FailWhole ==
    ASSUME SchemeInv, WholeInv, NEW t \in Txns, Fail(t)
    PROVE  WholeInv'
<1>1. /\ TypeOK /\ EndTransaction(t) /\ UNCHANGED <<committed, payload>>
      /\ Goto(t, IF t = Sync THEN "idle" ELSE "error")
    BY DEF SchemeInv, Fail
<1>2. \A o \in Txns :
        /\ dropped'[o] = IF o = t THEN {} ELSE dropped[o]
        /\ unassigned'[o] = IF o = t THEN {} ELSE unassigned[o]
        /\ assigning'[o] = IF o = t THEN {} ELSE assigning[o]
        /\ left'[o] = IF o = t THEN {} ELSE left[o]
        /\ pc'[o] = IF o = t THEN IF t = Sync THEN "idle" ELSE "error" ELSE pc[o]
    BY <1>1, EndWrites DEF Goto, TypeOK
<1>3. CASE t \in Puts
    <2>1. t # Sync /\ pc'[t] = "error"
        BY <1>2, <1>3, TxnsApart
    <2>2. ~Pending(t)' /\ DropsWhole(t)'
        BY <2>1 DEF Pending, DropsWhole, InTransaction
    <2> QED
        BY <1>1, <1>2, <1>3, <2>2, PutKeepsWhole
<1>4. CASE t = Sync
    <2>1. MatchInv'
        BY <1>2, <1>4, TxnsApart DEF MatchInv, Matched
    <2>2. \A p \in Puts : p \in Txns /\ p # t
        BY <1>4, TxnsApart
    <2> QED
        BY <1>1, <1>2, <2>1, <2>2, SyncKeepsWhole
<1> QED
    BY <1>3, <1>4, TxnsApart

\* A statement of p that moves it, and reads.
LEMMA ReadingWhole ==
    ASSUME SchemeInv, WholeInv, NEW p \in Puts,
           \/ Validate(p) \/ SelectCategories(p) \/ DeleteAssignments(p)
           \/ DeleteCategories(p) \/ ReadCategories(p) \/ AnswerPut(p)
    PROVE  WholeInv'
<1> USE DEF SchemeInv
<1>1. p \in Txns /\ p \in Owners /\ TypeOK
    BY TxnsApart
<1>2. UNCHANGED <<committed, writes>>
    BY DEF Validate, SelectCategories, DeleteAssignments, DeleteCategories,
           ReadCategories, AnswerPut
<1>3. \A t \in Txns : t # p => pc'[t] = pc[t] /\ left'[t] = left[t]
    BY <1>1 DEF Validate, SelectCategories, DeleteAssignments, DeleteCategories,
                ReadCategories, AnswerPut, Goto, TypeOK
<1>4. \A q \in Owners : payload'[q] = payload[q] \/ (q = p /\ pc[p] = "new")
    BY <1>1 DEF Validate, SelectCategories, DeleteAssignments, DeleteCategories,
                ReadCategories, AnswerPut, TypeOK
<1>5. Pending(p)' => Pending(p)
    BY <1>1 DEF Validate, SelectCategories, DeleteAssignments, DeleteCategories,
                ReadCategories, AnswerPut, Goto, TypeOK, Pending, InTransaction
<1>6. DropsWhole(p)'
    <2>1. CASE DeleteCategories(p)
        <3>1. /\ pc'[p] = "dropping" /\ left'[p] = rows
              /\ dropped[p] \subseteq rows /\ unassigned[p] \subseteq assigned
            BY <1>1, <2>1 DEF DeleteCategories, Goto, TypeOK, WriteInv
        <3>2. Doomed(p)' = rows
            BY <1>2, <3>1 DEF Doomed, writes
        <3>3. \A r \in rows : ~Pending(r.owner)' /\ r.owner \in Owners
            <4>1. ASSUME NEW r \in rows
                  PROVE  r.owner \in Owners /\ ~Pending(r.owner)
                <5>1. r.owner \in Owners
                    BY <1>1 DEF TypeOK, Rows
                <5>2. r \in Mine(r.owner)
                    BY DEF Mine
                <5> QED
                    BY <5>1, <5>2 DEF WholeInv, WholeScheme
            <4>2. \A q \in Owners : Pending(q)' => Pending(q)
                BY <1>3, <1>5, TxnsApart DEF Pending, Owners
            <4> QED
                BY <4>1, <4>2
        <3>4. \A q \in Owners : Mine(q)' \subseteq rows
            BY <1>2 DEF Mine, committed
        <3>5. \A a \in unassigned'[p] : a.row \in rows
            BY <1>2, <3>1 DEF SchemeIntact, writes
        <3> QED
            BY <3>2, <3>3, <3>4, <3>5 DEF DropsWhole
    <2>2. CASE SelectCategories(p)
        <3>1. pc'[p] # "dropping" /\ dropped'[p] = {} /\ unassigned'[p] = {}
            BY <1>1, <1>2, <2>2 DEF SelectCategories, Goto, TypeOK, PhaseInv, writes
        <3> QED
            BY <3>1 DEF DropsWhole, Doomed
    <2>3. CASE Validate(p) \/ DeleteAssignments(p) \/ ReadCategories(p) \/ AnswerPut(p)
        <3>1. pc'[p] \notin {"dropping", "inserting"}
            BY <1>1, <2>3 DEF Validate, DeleteAssignments, ReadCategories, AnswerPut,
                              Goto, TypeOK
        <3> QED
            BY <3>1 DEF DropsWhole
    <2> QED
        BY <2>1, <2>2, <2>3
<1> HIDE DEF SchemeInv
<1> QED
    BY <1>2, <1>3, <1>4, <1>5, <1>6, PutKeepsWhole DEF writes

\* A statement of p that writes and does not commit.
LEMMA WritingWhole ==
    ASSUME SchemeInv, WholeInv, NEW p \in Puts, ~Fail(p),
           \/ DeleteAssignment(p) \/ DeleteCategory(p) \/ CheckReferences(p)
           \/ InsertCategory(p) \/ InsertAssignment(p)
    PROVE  WholeInv'
<1> USE DEF SchemeInv
<1>1. p \in Txns /\ p \in Owners /\ TypeOK /\ DropsWhole(p)
    BY TxnsApart DEF WholeInv
<1>2. UNCHANGED <<committed, payload>>
    BY DEF DeleteAssignment, DeleteCategory, CheckReferences, InsertCategory,
           InsertAssignment
<1>3. \A t \in Txns : t # p =>
        /\ pc'[t] = pc[t] /\ left'[t] = left[t] /\ dropped'[t] = dropped[t]
        /\ unassigned'[t] = unassigned[t] /\ assigning'[t] = assigning[t]
    BY <1>1 DEF DeleteAssignment, DeleteCategory, CheckReferences, InsertCategory,
                InsertAssignment, Goto, TypeOK, writes
<1>4. Pending(p)' => Pending(p)
    BY <1>1 DEF DeleteAssignment, DeleteCategory, CheckReferences, InsertCategory,
                InsertAssignment, Goto, TypeOK, Pending, InTransaction
<1>5. \A q \in Owners : /\ Pending(q)' => Pending(q)
                        /\ Mine(q)' = Mine(q)
    BY <1>2, <1>3, <1>4, TxnsApart DEF Pending, Owners, Mine, committed
<1>6. DropsWhole(p)'
    <2>1. CASE DeleteAssignment(p)
        BY <2>1 DEF DeleteAssignment, DropsWhole
    <2>2. CASE DeleteCategory(p)
        <3>1. PICK r \in left[p] :
                /\ dropped' = [dropped EXCEPT ![p] = @ \cup ({r} \cap rows)]
                /\ left' = [left EXCEPT ![p] = @ \ {r}]
            BY <2>2 DEF DeleteCategory
        <3>2. pc[p] = "dropping" /\ pc' = pc /\ unassigned' = unassigned
            BY <2>2 DEF DeleteCategory
        <3>3. /\ Doomed(p) = dropped[p] \cup left[p]
              /\ Doomed(p)' = dropped[p] \cup ({r} \cap rows) \cup (left[p] \ {r})
            BY <1>1, <3>1, <3>2 DEF Doomed, TypeOK
        <3>4. Doomed(p)' \subseteq Doomed(p) /\ \A s \in Doomed(p) \cap rows : s \in Doomed(p)'
            BY <3>3
        <3>5. \A s \in Doomed(p)' : ~Pending(s.owner)'
            BY <1>1, <1>5, <3>2, <3>4, DoomedType DEF DropsWhole
        <3>6. \A q \in Owners : Mine(q)' \subseteq Doomed(p)' \/ Mine(q)' \cap Doomed(p)' = {}
            <4>1. \A q \in Owners : Mine(q) \subseteq rows
                BY DEF Mine
            <4> QED
                BY <1>1, <1>5, <3>2, <3>4, <4>1 DEF DropsWhole
        <3>7. \A a \in unassigned'[p] : a.row \in Doomed(p)'
            <4>1. \A a \in unassigned[p] : a.row \in rows
                BY <1>1 DEF WriteInv, SchemeIntact
            <4> QED
                BY <1>1, <3>2, <3>4, <4>1 DEF DropsWhole
        <3> QED
            BY <3>5, <3>6, <3>7 DEF DropsWhole
    <2>3. CASE CheckReferences(p)
        <3>1. /\ pc[p] = "dropping" /\ left[p] = {} /\ pc'[p] = "inserting"
              /\ UNCHANGED <<writes, left>>
            BY <1>1, <2>3 DEF CheckReferences, Goto, TypeOK
        <3>2. Doomed(p)' = Doomed(p)
            BY <3>1 DEF Doomed, writes
        <3> QED
            BY <1>1, <1>5, <3>1, <3>2, DoomedType DEF DropsWhole, writes
    <2>4. CASE InsertCategory(p) \/ InsertAssignment(p)
        <3>1. UNCHANGED <<dropped, unassigned, pc, left>>
            BY <2>4 DEF InsertCategory, InsertAssignment
        <3> HIDE DEF SchemeInv
        <3> QED
            BY <1>1, <1>2, <1>5, <3>1, DropsUnmoved
    <2> QED
        BY <2>1, <2>2, <2>3, <2>4
<1> HIDE DEF SchemeInv
<1> QED
    BY <1>2, <1>3, <1>4, <1>6, PutKeepsWhole

\* The sync's SELECT returns items beside the category of their type.
LEMMA SyncReadingWhole ==
    ASSUME SchemeInv, WholeInv,
           ~Fail(Sync), StartAssigning \/ StartSharing \/ AutoAssign \/ ShareCategory
    PROVE  WholeInv'
<1>1. TypeOK /\ Sync \in Txns /\ \A t \in Puts : t # Sync /\ t \in Txns
    BY TxnsApart DEF SchemeInv
<1>2. UNCHANGED <<committed, payload, dropped, unassigned>>
    BY DEF StartAssigning, StartSharing, AutoAssign, ShareCategory, committed, writes
<1>3. \A t \in Puts : pc'[t] = pc[t] /\ left'[t] = left[t]
    BY <1>1 DEF StartAssigning, StartSharing, AutoAssign, ShareCategory, Goto, TypeOK
<1>4. MatchInv'
    <2>1. CASE StartAssigning
        <3>1. PICK batch \in SUBSET Items : left' = [left EXCEPT ![Sync] = Candidates(batch)]
            BY <2>1 DEF StartAssigning
        <3>2. \A a \in Candidates(batch) : Matched(a)
            BY DEF Candidates, Matched
        <3>3. left'[Sync] = Candidates(batch) /\ assigning' = assigning
            BY <1>1, <2>1, <3>1 DEF TypeOK, StartAssigning, writes
        <3> QED
            BY <3>2, <3>3 DEF WholeInv, MatchInv, Matched
    <2>2. CASE AutoAssign
        <3>1. PICK a \in left[Sync] :
                /\ assigning' \in {assigning, [assigning EXCEPT ![Sync] = @ \cup {a}]}
                /\ left' = [left EXCEPT ![Sync] = @ \ {a}]
            BY <2>2 DEF AutoAssign
        <3>2. pc[Sync] = "assigning"
            BY <2>2 DEF AutoAssign
        <3>3. /\ assigning'[Sync] \subseteq assigning[Sync] \cup {a}
              /\ left'[Sync] \subseteq left[Sync]
            BY <1>1, <3>1 DEF TypeOK
        <3> QED
            BY <3>1, <3>2, <3>3 DEF WholeInv, MatchInv, Matched
    <2>3. CASE StartSharing \/ ShareCategory
        <3>1. pc'[Sync] = "sharing" /\ assigning' = assigning
            BY <1>1, <2>3 DEF StartSharing, ShareCategory, Goto, TypeOK, writes
        <3> QED
            BY <3>1 DEF WholeInv, MatchInv, Matched
    <2> QED
        BY <2>1, <2>2, <2>3
<1> QED
    BY <1>2, <1>3, <1>4, SyncKeepsWhole

LEMMA ReaderWhole ==
    ASSUME SchemeInv, WholeInv, NEW g \in Readers, ReaderStep(g)
    PROVE  WholeInv'
<1>1. \A t \in Txns : pc'[t] = pc[t]
    BY TxnsApart DEF ReaderStep, ReadCategories, AnswerGradebook, Goto, SchemeInv, TypeOK
<1>2. UNCHANGED <<committed, writes, payload, left>>
    BY DEF ReaderStep, ReadCategories, AnswerGradebook
<1>3. MatchInv'
    BY <1>1, <1>2, TxnsApart DEF WholeInv, MatchInv, Matched, writes
<1> QED
    BY <1>1, <1>2, <1>3, TxnsApart, SyncKeepsWhole DEF writes

-------------------------------------------------------------------------------
(* Commits *)

\* The categories of t are there together, and those it deletes go together
\* with their assignments; what joins another owner's categories matches them.
LEMMA CommitKeepsWhole ==
    ASSUME SchemeInv, SchemeInv', WholeInv, NEW t \in Txns, CommitWrites(t),
           UNCHANGED payload,
           NEW label \in {"idle", "error", "answering"}, Goto(t, label),
           \A p \in Owners : Mine(p) \subseteq dropped[t] \/ Mine(p) \cap dropped[t] = {},
           \A a \in unassigned[t] : a.row \in dropped[t],
           t \in Puts =>
                /\ Pending(t)
                /\ added[t] = {Row(t, d) : d \in DOMAIN payload[t]}
                /\ assigning[t] = AssignmentsOf(t)
    PROVE  WholeInv'
<1> USE DEF SchemeInv
<1>1. /\ rows' = (rows \ dropped[t]) \cup added[t]
      /\ assigned' = (assigned \ unassigned[t]) \cup assigning[t]
      /\ TypeOK
    BY DEF CommitWrites
<1>2. \A o \in Txns :
        /\ dropped'[o] = IF o = t THEN {} ELSE dropped[o]
        /\ unassigned'[o] = IF o = t THEN {} ELSE unassigned[o]
        /\ assigning'[o] = IF o = t THEN {} ELSE assigning[o]
        /\ left'[o] = IF o = t THEN {} ELSE left[o]
        /\ pc'[o] = IF o = t THEN label ELSE pc[o]
    BY <1>1, EndWrites DEF CommitWrites, Goto, TypeOK
<1>3. \A p \in Owners : Pending(p)' => Pending(p) /\ p # t
    BY <1>2, TxnsApart DEF Pending, Owners, InTransaction
<1>4. \A r \in added[t] : t \in Puts /\ r.owner = t
    BY TxnsApart DEF WriteInv, Row
<1>5. \A p \in Owners : p # t => Mine(p)' = Mine(p) \ dropped[t]
    BY <1>1, <1>4 DEF Mine
<1>6. ASSUME NEW p \in Owners, p # t
      PROVE  WholeScheme(p)'
    <2>1. CASE Mine(p)' = {}
        BY <2>1 DEF Placed, WholeScheme
    <2>2. CASE Mine(p)' # {}
        <3>1. Mine(p)' = Mine(p) /\ Mine(p) \cap dropped[t] = {}
            BY <1>5, <1>6, <2>2
        <3>2. /\ Mine(p) = {Row(p, d) : d \in DOMAIN payload[p]}
              /\ AssignmentsOf(p) \subseteq Placed(p)
              /\ \A a \in Placed(p) \ AssignmentsOf(p) : Matched(a)
              /\ ~Pending(p)
            BY <2>2, <3>1 DEF WholeInv, WholeScheme, Matched
        <3>3. Placed(p) \subseteq Placed(p)'
            <4>1. \A a \in Placed(p) : a \notin unassigned[t]
                BY <3>1 DEF Placed
            <4> QED
                BY <1>1, <3>1, <4>1 DEF Placed
        <3>4. \A a \in Placed(p)' \ Placed(p) : Matched(a)
            <4>1. SUFFICES ASSUME NEW a \in Placed(p)', a \notin Placed(p)
                           PROVE  Matched(a)
                OBVIOUS
            <4>2. a \in assigning[t] /\ a.row \in Mine(p)
                BY <1>1, <3>1, <4>1 DEF Placed
            <4>3. a.row \notin added[t]
                BY <1>4, <1>6, <4>2 DEF Mine
            <4>4. t = Sync
                BY <4>2, <4>3, TxnsApart DEF WriteInv
            <4> QED
                BY <4>2, <4>4 DEF WholeInv, MatchInv
        <3>5. AssignmentsOf(p)' = AssignmentsOf(p)
            BY DEF AssignmentsOf
        <3> QED
            BY <1>3, <3>1, <3>2, <3>3, <3>4, <3>5 DEF WholeScheme, Matched
    <2> QED
        BY <2>1, <2>2
<1>7. ASSUME t \in Puts
      PROVE  /\ WholeScheme(t)'
             /\ Mine(t) = {} /\ Mine(t)' = added[t]
    <2>1. t \in Owners /\ Pending(t)
        BY <1>7, TxnsApart
    <2>2. Mine(t) = {}
        BY <2>1 DEF WholeInv, WholeScheme
    <2>3. Mine(t)' = added[t]
        BY <1>1, <1>4, <2>2 DEF Mine
    <2>4. \A a \in assigned : a.row \notin added[t]
        <3>1. \A r \in added[t] : r \notin rows
            BY <1>4, <2>2 DEF Mine
        <3> QED
            BY <3>1 DEF SchemeIntact
    <2>5. \A a \in AssignmentsOf(t) : a.row \in added[t]
        BY <1>7 DEF WriteInv
    <2>6. Placed(t)' = AssignmentsOf(t)
        BY <1>1, <1>7, <2>3, <2>4, <2>5 DEF Placed
    <2>7. AssignmentsOf(t)' = AssignmentsOf(t)
        BY DEF AssignmentsOf
    <2> QED
        BY <1>3, <1>7, <2>1, <2>2, <2>3, <2>6, <2>7 DEF WholeScheme
<1>8. ASSUME NEW o \in Puts
      PROVE  DropsWhole(o)'
    <2>1. CASE o = t
        BY <1>2, <2>1, TxnsApart DEF DropsWhole
    <2>2. CASE o # t
        <3>1. /\ o \in Txns /\ pc'[o] = pc[o] /\ unassigned'[o] = unassigned[o]
              /\ Doomed(o)' = Doomed(o) /\ DropsWhole(o)
            BY <1>2, <2>2, TxnsApart DEF Doomed, WholeInv
        <3>2. SUFFICES ASSUME pc[o] \in {"dropping", "inserting"}
                       PROVE  DropsWhole(o)'
            BY <3>1 DEF DropsWhole
        <3>3. \A r \in Doomed(o) : ~Pending(r.owner) /\ ~Pending(r.owner)'
            BY <1>3, <3>1, <3>2, DoomedType DEF DropsWhole
        <3>4. ASSUME NEW p \in Owners
              PROVE  Mine(p)' \subseteq Doomed(o) \/ Mine(p)' \cap Doomed(o) = {}
            <4>1. CASE p # t
                BY <1>5, <3>1, <3>2, <4>1 DEF DropsWhole
            <4>2. CASE p = t
                <5>1. t \in Puts
                    BY <4>2, OwnersAssumption DEF Owners, Txns
                <5>2. \A r \in Mine(t)' : Pending(r.owner)
                    BY <1>4, <1>7, <5>1
                <5> QED
                    BY <3>3, <4>2, <5>2
            <4> QED
                BY <4>1, <4>2
        <3> QED
            BY <3>1, <3>2, <3>3, <3>4 DEF DropsWhole
    <2> QED
        BY <2>1, <2>2
<1>9. MatchInv'
    BY <1>2, TxnsApart DEF WholeInv, MatchInv, Matched
<1>10. ASSUME NEW p \in Owners
       PROVE  WholeScheme(p)'
    <2>1. CASE p = t
        <3>1. t \in Puts
            BY <2>1, TxnsApart, OwnersAssumption DEF Owners
        <3> QED
            BY <1>7, <2>1, <3>1
    <2> QED
        BY <1>6, <2>1
<1> QED
    BY <1>8, <1>9, <1>10 DEF WholeInv

LEMMA CommitPutWhole ==
    ASSUME SchemeInv, WholeInv, NEW p \in Puts, Commit(p)
    PROVE  WholeInv'
<1>1. SchemeInv'
    BY CommitPutKeeps
<1>2. PICK label \in {"error", "answering"} : Goto(p, label)
    BY DEF Commit
<1>3. /\ p \in Txns /\ p # Seed /\ pc[p] = "inserting" /\ CommitWrites(p)
      /\ MissingDefs(p) = {} /\ MissingAssignments(p) = {} /\ UNCHANGED payload
    BY TxnsApart, OwnersAssumption DEF Commit
<1>4. Pending(p) /\ Doomed(p) = dropped[p] /\ DropsWhole(p)
    BY <1>3 DEF Pending, InTransaction, Doomed, WholeInv
<1>5. added[p] = {Row(p, d) : d \in DOMAIN payload[p]}
    BY <1>3 DEF MissingDefs, SchemeInv, WriteInv
<1>6. assigning[p] = AssignmentsOf(p)
    <2>1. \A a \in AssignmentsOf(p) : a.row \in added[p]
        BY <1>5 DEF AssignmentsOf
    <2> QED
        BY <1>3, <2>1 DEF MissingAssignments, SchemeInv, WriteInv
<1> QED
    BY <1>1, <1>2, <1>3, <1>4, <1>5, <1>6, CommitKeepsWhole DEF DropsWhole

LEMMA CommitSyncWhole ==
    ASSUME SchemeInv, WholeInv, CommitSync
    PROVE  WholeInv'
<1>1. SchemeInv'
    BY CommitSyncKeeps
<1>2. Goto(Sync, "idle") /\ CommitWrites(Sync) /\ UNCHANGED payload
    BY DEF CommitSync
<1>3. dropped[Sync] = {} /\ unassigned[Sync] = {} /\ Sync \in Txns /\ Sync \notin Puts
    BY TxnsApart DEF SchemeInv, WriteInv
<1> QED
    BY <1>1, <1>2, <1>3, CommitKeepsWhole

-------------------------------------------------------------------------------
(* The theorems *)

LEMMA InitWhole == Init => WholeInv
<1> SUFFICES ASSUME Init PROVE WholeInv
    OBVIOUS
<1>1. /\ rows = {Row(Seed, d) : d \in DOMAIN payload[Seed]}
      /\ assigned = AssignmentsOf(Seed)
    BY DEF Init
<1>2. \A p \in Txns : pc[p] \in {"new", "idle"} /\ assigning[p] = {} /\ left[p] = {}
    BY DEF Init
<1>3. \A r \in rows : r.owner = Seed
    BY <1>1 DEF Row
<1>4. \A a \in assigned : a.row \in rows
    BY <1>1 DEF AssignmentsOf
<1>5. ASSUME NEW p \in Owners
      PROVE  WholeScheme(p)
    <2>1. CASE p = Seed
        <3>1. Mine(Seed) = rows /\ Placed(Seed) = assigned
            BY <1>3, <1>4 DEF Mine, Placed
        <3> QED
            BY <1>1, <2>1, <3>1 DEF WholeScheme, Pending
    <2>2. CASE p # Seed
        BY <1>3, <2>2 DEF Mine, Placed, WholeScheme
    <2> QED
        BY <2>1, <2>2
<1>6. \A t \in Puts : DropsWhole(t)
    BY <1>2, TxnsApart DEF DropsWhole
<1>7. MatchInv
    BY <1>2, TxnsApart DEF MatchInv
<1> QED
    BY <1>5, <1>6, <1>7 DEF WholeInv

LEMMA NextWhole == SchemeInv /\ WholeInv /\ [Next]_vars => WholeInv'
<1> SUFFICES ASSUME SchemeInv, WholeInv, [Next]_vars
             PROVE  WholeInv'
    OBVIOUS
<1>1. ASSUME NEW p \in Puts, Validate(p) \/ PutStep(p)
      PROVE  WholeInv'
    <2>1. CASE Fail(p)
        BY <2>1, FailWhole, TxnsApart
    <2>2. CASE ~Fail(p)
        BY <1>1, <2>2, ReadingWhole, WritingWhole, CommitPutWhole DEF PutStep, Cancel
    <2> QED
        BY <2>1, <2>2
<1>2. CASE StartAssigning \/ SyncStep
    <2>1. CASE Fail(Sync)
        BY <2>1, FailWhole, TxnsApart
    <2>2. CASE ~Fail(Sync)
        BY <1>2, <2>2, SyncReadingWhole, CommitSyncWhole DEF SyncStep, Cancel
    <2> QED
        BY <2>1, <2>2
<1>3. ASSUME NEW t \in Txns, Fault(t)
      PROVE  WholeInv'
    BY <1>3, FailWhole DEF Fault
<1>4. ASSUME NEW g \in Readers, ReaderStep(g)
      PROVE  WholeInv'
    BY <1>4, ReaderWhole
<1>5. CASE UNCHANGED vars
    <2>1. UNCHANGED <<committed, payload, pc, left, dropped, unassigned, assigning>>
        BY <1>5 DEF vars, writes
    <2>2. MatchInv'
        BY <2>1 DEF WholeInv, MatchInv, Matched
    <2> QED
        BY <2>1, <2>2, SyncKeepsWhole
<1> QED
    BY <1>1, <1>2, <1>3, <1>4, <1>5 DEF Next

\* However many PUTs and syncs overlap, fail or lose their acknowledgement, the
\* categories of a request are all configured or none is, each with the items
\* of its payload and with others of its activity type only; a refused or
\* unfinished request has left nothing.
THEOREM SchemesStayWhole == Spec => []WholeSchemes
<1>1. Init => SchemeInv /\ WholeInv
    BY InitIntact, InitWhole
<1>2. (SchemeInv /\ WholeInv) /\ [Next]_vars => (SchemeInv /\ WholeInv)'
    BY NextIntact, NextWhole
<1>3. WholeInv => WholeSchemes
    <2>1. SUFFICES ASSUME WholeInv, NEW p \in Owners
                   PROVE  WholeScheme(p) <=>
                            LET mine == {r \in rows : r.owner = p}
                                items == {a \in assigned : a.row \in mine} IN
                            \/ mine = {} /\ items = {}
                            \/ /\ mine = {Row(p, d) : d \in DOMAIN payload[p]}
                               /\ AssignmentsOf(p) \subseteq items
                               /\ \A a \in items \ AssignmentsOf(p) :
                                    a.row.def.mtype = TypeOf[a.item]
                               /\ p # Seed => pc[p] \notin InTransaction \cup {"new", "rejected"}
        BY DEF WholeSchemes, WholeInv
    <2> QED
        BY DEF WholeScheme, Mine, Placed, Pending
<1> QED
    BY <1>1, <1>2, <1>3, PTL DEF Spec

\* The commit of the grades sync takes no assignment and no category away,
\* whatever administrators have done since its SELECT.
THEOREM SyncRespectsDecisions == Spec => SyncKeepsDecisions
<1>1. ASSUME SchemeInv, [Next]_vars, pc[Sync] = "sharing", pc'[Sync] = "idle"
      PROVE  assigned \subseteq assigned' /\ rows = rows'
    <2>1. TypeOK /\ dropped[Sync] = {} /\ added[Sync] = {} /\ unassigned[Sync] = {}
        BY <1>1 DEF SchemeInv, WriteInv
    <2>2. CASE CommitSync
        BY <2>1, <2>2 DEF CommitSync, CommitWrites
    <2>3. ASSUME NEW p \in Puts, Commit(p)
          PROVE  FALSE
        BY <1>1, <2>1, <2>3, TxnsApart DEF Commit, Goto, TypeOK
    <2>4. CASE UNCHANGED committed
        BY <2>4 DEF committed
    <2>5. CommitSync \/ (\E p \in Puts : Commit(p)) \/ UNCHANGED committed
        BY <1>1 DEF Next, PutStep, SyncStep, ReaderStep, Fault, Cancel, Fail, Validate,
                    SelectCategories, DeleteAssignments, DeleteAssignment,
                    DeleteCategories, DeleteCategory, CheckReferences, InsertCategory,
                    InsertAssignment, ReadCategories, AnswerPut, AnswerGradebook,
                    StartAssigning, AutoAssign, StartSharing, ShareCategory, vars
    <2> QED
        BY <2>2, <2>3, <2>4, <2>5
<1>2. SchemeInv /\ [Next]_vars =>
        [pc[Sync] = "sharing" /\ pc'[Sync] = "idle"
            => assigned \subseteq assigned' /\ rows = rows']_vars
    BY <1>1
<1> QED
    BY <1>2, AlwaysSchemeInv, PTL DEF Spec, SyncKeepsDecisions

-------------------------------------------------------------------------------
(* One administrator at a time: the invariant *)

OneAdministrator == \A p, q \in Active : p = q

RowsOf(p) == {Row(p, d) : d \in DOMAIN payload[p]}

\* A blend category of the course is one of the scheme that replaces it.
KeepsBlend(p) == Blends({r.def : r \in rows}) # {} => Blends(DOMAIN payload[p]) # {}

\* Nobody else replaces the categories while p does: its statements see the ones
\* it validated against, and its answer the ones it left.
PutSerial(p) ==
    /\ pc[p] \in InTransaction => payload[p] \in Payloads /\ KeepsBlend(p)
    /\ pc[p] \in {"dropping", "inserting"} => Doomed(p) = rows
    /\ pc[p] = "inserting" =>
        \A d \in DOMAIN payload[p] : Row(p, d) \in added[p] => Storable(d)
    /\ pc[p] \in {"answering", "listing"} =>
        rows = RowsOf(p) /\ AssignmentsOf(p) \subseteq assigned
    /\ pc[p] = "listing" => seen[p].rows = RowsOf(p)
    /\ pc[p] = "ok" => seen[p].rows = RowsOf(p) /\ AssignmentsOf(p) \subseteq seen[p].assigned

\* The owners whose scheme has been committed: their payload is settled.
Settled == {p \in Owners : ~Pending(p)}

\* One owner's scheme is configured, whole.
OneScheme == \E p \in Settled : rows = RowsOf(p) /\ AssignmentsOf(p) \subseteq assigned

\* What the two SELECTs of a gradebook have read are the schemes of p and of q.
ReadFrom(g, p, q) ==
    /\ seen[g].rows = RowsOf(p)
    /\ AssignmentsOf(q) \subseteq seen[g].assigned
    /\ {a.row : a \in seen[g].assigned} \subseteq RowsOf(q)
    /\ pc[g] = "ok" => p = q \/ seen[g].assigned = {}
    /\ pc[g] = "error" => p # q

ReaderSerial(g) ==
    /\ pc[g] \in {"new", "listing", "ok", "error"}
    /\ pc[g] = "listing" => \E p \in Settled : seen[g].rows = RowsOf(p)
    /\ pc[g] \in {"ok", "error"} => \E p, q \in Settled : ReadFrom(g, p, q)

SerialInv ==
    /\ OneAdministrator
    /\ OneScheme
    /\ \A p \in Puts : PutSerial(p)
    /\ \A g \in Readers : ReaderSerial(g)

-------------------------------------------------------------------------------
(* One administrator at a time: what a step leaves alone *)

\* The server starts a PUT only when no other is running.
LEMMA NobodyActive ==
    ASSUME MaxActive = 1, OneAdministrator, Cardinality(Active) < MaxActive
    PROVE  Active = {}
<1>1. SUFFICES ASSUME NEW p \in Active
               PROVE  FALSE
    OBVIOUS
<1>2. Active = {p}
    BY DEF OneAdministrator
<1>3. Cardinality({p}) = 1
    BY FS_Singleton
<1> QED
    BY <1>2, <1>3

LEMMA PutUnmoved ==
    ASSUME NEW q \in Puts, PutSerial(q),
           pc'[q] = pc[q], payload'[q] = payload[q], seen'[q] = seen[q],
           dropped'[q] = dropped[q], added'[q] = added[q], left'[q] = left[q],
           q \in Active => rows' = rows /\ assigned \subseteq assigned'
    PROVE  PutSerial(q)'
<1>1. RowsOf(q)' = RowsOf(q) /\ AssignmentsOf(q)' = AssignmentsOf(q)
    BY DEF RowsOf, AssignmentsOf
<1>2. CASE q \in Active
    <2>1. Doomed(q)' = Doomed(q) /\ KeepsBlend(q)' = KeepsBlend(q)
        BY <1>2 DEF Doomed, KeepsBlend
    <2> QED
        BY <1>1, <1>2, <2>1 DEF PutSerial
<1>3. CASE q \notin Active
    <2>1. pc[q] \notin InTransaction \cup {"answering", "listing"}
        BY <1>3 DEF Active
    <2> QED
        BY <1>1, <2>1 DEF PutSerial, InTransaction
<1> QED
    BY <1>2, <1>3

\* A settled owner stays settled and keeps its payload.
SettledKept == \A p \in Settled : p \in Settled' /\ payload'[p] = payload[p]

LEMMA SettledRows ==
    ASSUME SettledKept, NEW p \in Settled
    PROVE  RowsOf(p)' = RowsOf(p) /\ AssignmentsOf(p)' = AssignmentsOf(p)
BY DEF SettledKept, RowsOf, AssignmentsOf, Row

LEMMA ReaderUnmoved ==
    ASSUME SettledKept, NEW g \in Readers, ReaderSerial(g), pc'[g] = pc[g], seen'[g] = seen[g]
    PROVE  ReaderSerial(g)'
<1>1. CASE pc[g] = "listing"
    <2>1. PICK p \in Settled : seen[g].rows = RowsOf(p)
        BY <1>1 DEF ReaderSerial
    <2>2. p \in Settled' /\ seen'[g].rows = RowsOf(p)'
        BY <2>1, SettledRows DEF SettledKept
    <2> QED
        BY <1>1, <2>2 DEF ReaderSerial
<1>2. CASE pc[g] \in {"ok", "error"}
    <2>1. PICK p \in Settled, q \in Settled : ReadFrom(g, p, q)
        BY <1>2 DEF ReaderSerial
    <2>2. /\ p \in Settled' /\ RowsOf(p)' = RowsOf(p)
          /\ q \in Settled' /\ RowsOf(q)' = RowsOf(q) /\ AssignmentsOf(q)' = AssignmentsOf(q)
        BY SettledRows DEF SettledKept
    <2>3. ReadFrom(g, p, q)'
        BY <2>1, <2>2 DEF ReadFrom
    <2> QED
        BY <1>2, <2>2, <2>3 DEF ReaderSerial
<1>3. CASE pc[g] = "new"
    BY <1>3 DEF ReaderSerial
<1> QED
    BY <1>1, <1>2, <1>3 DEF ReaderSerial

LEMMA SchemeUnmoved ==
    ASSUME SettledKept, OneScheme, rows' = rows, assigned \subseteq assigned'
    PROVE  OneScheme'
<1>1. PICK p \in Settled : rows = RowsOf(p) /\ AssignmentsOf(p) \subseteq assigned
    BY DEF OneScheme
<1>2. p \in Settled' /\ RowsOf(p)' = RowsOf(p) /\ AssignmentsOf(p)' = AssignmentsOf(p)
    BY SettledRows DEF SettledKept
<1> QED
    BY <1>1, <1>2 DEF OneScheme

\* A step of p, alone among the PUTs.
LEMMA PutKeepsSerial ==
    ASSUME SchemeInv, SerialInv, NEW p \in Puts, PutSerial(p)',
           \A q \in Puts : q # p =>
                /\ pc'[q] = pc[q] /\ payload'[q] = payload[q] /\ seen'[q] = seen[q]
                /\ dropped'[q] = dropped[q] /\ added'[q] = added[q] /\ left'[q] = left[q],
           \A g \in Readers : pc'[g] = pc[g] /\ seen'[g] = seen[g],
           p \in Active' => p \in Active \/ Active = {},
           Pending(p)' => Pending(p),
           payload'[p] = payload[p] \/ Pending(p),
           payload'[Seed] = payload[Seed],
           UNCHANGED committed \/ (p \in Active /\ OneScheme')
    PROVE  SerialInv'
<1>1. OneAdministrator'
    <2>1. \A q \in Puts : q # p /\ q \in Active' => q \in Active
        BY DEF Active
    <2>2. Active' \subseteq Puts
        BY DEF Active
    <2> QED
        BY <2>1, <2>2 DEF SerialInv, OneAdministrator
<1>2. ASSUME NEW q \in Puts, q # p
      PROVE  PutSerial(q)'
    <2>1. q \in Active => UNCHANGED committed
        BY <1>2 DEF SerialInv, OneAdministrator
    <2> QED
        BY <1>2, <2>1, PutUnmoved DEF SerialInv, committed
<1>3. SettledKept
    BY DEF SettledKept, Settled, Pending, Owners
<1>4. \A g \in Readers : ReaderSerial(g)'
    BY <1>3, ReaderUnmoved DEF SerialInv
<1>5. OneScheme'
    BY <1>3, SchemeUnmoved DEF SerialInv, committed
<1> QED
    BY <1>1, <1>2, <1>4, <1>5 DEF SerialInv

\* A step of the sync or of a reader.
LEMMA OthersKeepSerial ==
    ASSUME SchemeInv, SerialInv, rows' = rows, assigned \subseteq assigned', UNCHANGED payload,
           \A q \in Puts :
                /\ pc'[q] = pc[q] /\ seen'[q] = seen[q]
                /\ dropped'[q] = dropped[q] /\ added'[q] = added[q] /\ left'[q] = left[q],
           \A g \in Readers : (pc'[g] = pc[g] /\ seen'[g] = seen[g]) \/ ReaderSerial(g)'
    PROVE  SerialInv'
<1>1. Active' = Active /\ OneAdministrator'
    BY DEF Active, SerialInv, OneAdministrator
<1>2. \A q \in Puts : PutSerial(q)'
    BY PutUnmoved DEF SerialInv
<1>3. SettledKept
    BY DEF SettledKept, Settled, Pending, Owners
<1>4. \A g \in Readers : ReaderSerial(g)'
    BY <1>3, ReaderUnmoved DEF SerialInv
<1>5. OneScheme'
    BY <1>3, SchemeUnmoved DEF SerialInv
<1> QED
    BY <1>1, <1>2, <1>4, <1>5 DEF SerialInv

-------------------------------------------------------------------------------
(* One administrator at a time: steps that commit nothing *)

LEMMA FailSerial ==
    ASSUME SchemeInv, SerialInv, NEW t \in Txns, Fail(t)
    PROVE  SerialInv'
<1>1. /\ TypeOK /\ EndTransaction(t) /\ UNCHANGED <<rows, assigned, payload, seen>>
      /\ Goto(t, IF t = Sync THEN "idle" ELSE "error")
    BY DEF SchemeInv, Fail, committed
<1>2. \A o \in Txns \cup Readers :
        pc'[o] = IF o = t THEN IF t = Sync THEN "idle" ELSE "error" ELSE pc[o]
    BY <1>1 DEF Goto, TypeOK
<1>3. \A o \in Txns : o # t =>
        dropped'[o] = dropped[o] /\ added'[o] = added[o] /\ left'[o] = left[o]
    BY <1>1, EndWrites
<1>4. \A g \in Readers : g # t
    BY TxnsApart
<1>5. CASE t \in Puts
    <2>1. pc'[t] = "error"
        BY <1>2, <1>5, TxnsApart
    <2>2. PutSerial(t)' /\ ~Pending(t)' /\ t \notin Active'
        BY <2>1 DEF PutSerial, Pending, Active, InTransaction
    <2> QED
        BY <1>1, <1>2, <1>3, <1>4, <1>5, <2>2, TxnsApart, PutKeepsSerial DEF committed
<1>6. CASE t = Sync
    BY <1>1, <1>2, <1>3, <1>4, <1>6, TxnsApart, OthersKeepSerial
<1> QED
    BY <1>5, <1>6, TxnsApart

\* A statement of p that moves it, and reads.
LEMMA ReadingSerial ==
    ASSUME MaxActive = 1, SchemeInv, SerialInv, NEW p \in Puts,
           \/ Validate(p) \/ SelectCategories(p) \/ DeleteAssignments(p)
           \/ DeleteCategories(p) \/ ReadCategories(p) \/ AnswerPut(p)
    PROVE  SerialInv'
<1> USE DEF SchemeInv
<1>1. p \in Txns /\ p \in Owners /\ TypeOK /\ PutSerial(p) /\ \A g \in Readers : g # p
    BY TxnsApart DEF SerialInv
<1>2. UNCHANGED <<committed, rows, assigned, writes, dropped, added>>
    BY DEF Validate, SelectCategories, DeleteAssignments, DeleteCategories,
           ReadCategories, AnswerPut, committed, writes
<1>3. \A q \in Puts : q # p =>
        /\ pc'[q] = pc[q] /\ payload'[q] = payload[q] /\ seen'[q] = seen[q]
        /\ dropped'[q] = dropped[q] /\ added'[q] = added[q] /\ left'[q] = left[q]
    BY <1>1, <1>2, TxnsApart
       DEF Validate, SelectCategories, DeleteAssignments, DeleteCategories,
           ReadCategories, AnswerPut, Goto, TypeOK
<1>4. \A g \in Readers : pc'[g] = pc[g] /\ seen'[g] = seen[g]
    BY <1>1, <1>2 DEF Validate, SelectCategories, DeleteAssignments, DeleteCategories,
                      ReadCategories, AnswerPut, Goto, TypeOK
<1>5. p \in Active' => p \in Active \/ Active = {}
    <2>1. CASE Validate(p)
        BY <2>1, NobodyActive DEF Validate, SerialInv
    <2>2. CASE ~Validate(p)
        BY <1>1, <2>2 DEF SelectCategories, DeleteAssignments, DeleteCategories,
                          ReadCategories, AnswerPut, Active, InTransaction
    <2> QED
        BY <2>1, <2>2
<1>6. Pending(p)' => Pending(p)
    BY <1>1 DEF Validate, SelectCategories, DeleteAssignments, DeleteCategories,
                ReadCategories, AnswerPut, Goto, TypeOK, Pending, InTransaction
<1>7. PutSerial(p)'
    <2>1. CASE Validate(p)
        <3>1. PICK s \in Payloads :
                /\ payload' = [payload EXCEPT ![p] = s]
                /\ \/ /\ Blends({r.def : r \in rows}) = {} \/ Blends(DOMAIN s) # {}
                      /\ Goto(p, "selecting")
                   \/ Goto(p, "rejected")
            BY <2>1 DEF Validate
        <3>2. payload'[p] = s
            BY <1>1, <3>1 DEF TypeOK
        <3>3. CASE /\ Blends({r.def : r \in rows}) = {} \/ Blends(DOMAIN s) # {}
                   /\ Goto(p, "selecting")
            <4>1. pc'[p] = "selecting" /\ KeepsBlend(p)'
                BY <1>1, <1>2, <3>2, <3>3 DEF Goto, TypeOK, KeepsBlend
            <4> QED
                BY <3>2, <4>1 DEF PutSerial
        <3>4. CASE Goto(p, "rejected")
            <4>1. pc'[p] = "rejected"
                BY <1>1, <3>4 DEF Goto, TypeOK
            <4> QED
                BY <4>1 DEF PutSerial, InTransaction
        <3> QED
            BY <3>1, <3>3, <3>4
    <2>2. CASE SelectCategories(p) \/ DeleteAssignments(p) \/ DeleteCategories(p)
        <3>1. payload' = payload /\ pc[p] \in InTransaction /\ pc'[p] \in InTransaction
            BY <1>1, <2>2 DEF SelectCategories, DeleteAssignments, DeleteCategories, Goto,
                              TypeOK, InTransaction
        <3>2. payload'[p] \in Payloads /\ KeepsBlend(p)'
            BY <1>1, <1>2, <3>1 DEF PutSerial, KeepsBlend
        <3>3. pc'[p] \in {"dropping", "inserting"} => Doomed(p)' = rows'
            <4>1. CASE SelectCategories(p)
                BY <1>1, <1>2, <4>1 DEF SelectCategories, Goto, TypeOK, PhaseInv, Doomed
            <4>2. CASE DeleteAssignments(p)
                BY <1>1, <4>2 DEF DeleteAssignments, Goto, TypeOK
            <4>3. CASE DeleteCategories(p)
                BY <1>1, <1>2, <4>3 DEF DeleteCategories, Goto, TypeOK, WriteInv, Doomed
            <4> QED
                BY <2>2, <4>1, <4>2, <4>3
        <3>4. added'[p] = {}
            BY <1>2, <2>2 DEF SelectCategories, DeleteAssignments, DeleteCategories, PhaseInv
        <3> QED
            BY <3>1, <3>2, <3>3, <3>4 DEF PutSerial, InTransaction
    <2>3. CASE ReadCategories(p)
        <3>1. pc[p] = "answering" /\ pc'[p] = "listing" /\ seen'[p].rows = rows
            BY <1>1, <2>3 DEF ReadCategories, Goto, TypeOK
        <3>2. RowsOf(p)' = RowsOf(p) /\ AssignmentsOf(p)' = AssignmentsOf(p)
            BY <2>3 DEF ReadCategories, RowsOf, AssignmentsOf, Row
        <3> QED
            BY <1>1, <1>2, <3>1, <3>2 DEF PutSerial, InTransaction
    <2>4. CASE AnswerPut(p)
        <3>1. /\ pc[p] = "listing" /\ pc'[p] = "ok"
              /\ seen'[p].rows = seen[p].rows
              /\ seen'[p].assigned = {a \in assigned : a.row \in seen[p].rows}
            BY <1>1, <2>4 DEF AnswerPut, Goto, TypeOK
        <3>2. RowsOf(p)' = RowsOf(p) /\ AssignmentsOf(p)' = AssignmentsOf(p)
            BY <2>4 DEF AnswerPut, RowsOf, AssignmentsOf, Row
        <3>3. \A a \in AssignmentsOf(p) : a.row \in RowsOf(p)
            BY DEF RowsOf, AssignmentsOf
        <3> QED
            BY <1>1, <3>1, <3>2, <3>3 DEF PutSerial, InTransaction
    <2> QED
        BY <2>1, <2>2, <2>3, <2>4
<1>8. /\ payload'[p] = payload[p] \/ Pending(p)
      /\ payload'[Seed] = payload[Seed]
    <2>1. Seed \in Owners /\ Seed # p
        BY OwnersAssumption DEF Owners
    <2>2. CASE Validate(p)
        <3>1. PICK s \in Payloads : payload' = [payload EXCEPT ![p] = s]
            BY <2>2 DEF Validate
        <3>2. pc[p] = "new" /\ payload'[Seed] = payload[Seed]
            BY <1>1, <2>1, <2>2, <3>1 DEF Validate, TypeOK
        <3> QED
            BY <3>2 DEF Pending, InTransaction
    <2>3. CASE ~Validate(p)
        <3>1. payload' = payload
            BY <2>3 DEF SelectCategories, DeleteAssignments, DeleteCategories,
                        ReadCategories, AnswerPut
        <3> QED
            BY <3>1
    <2> QED
        BY <2>2, <2>3
<1> HIDE DEF SchemeInv
<1> QED
    BY <1>2, <1>3, <1>4, <1>5, <1>6, <1>7, <1>8, PutKeepsSerial

\* A statement of p that writes and does not commit.
LEMMA WritingSerial ==
    ASSUME SchemeInv, SerialInv, NEW p \in Puts, ~Fail(p),
           \/ DeleteAssignment(p) \/ DeleteCategory(p) \/ CheckReferences(p)
           \/ InsertCategory(p) \/ InsertAssignment(p)
    PROVE  SerialInv'
<1> USE DEF SchemeInv
<1>1. p \in Txns /\ p \in Owners /\ TypeOK /\ PutSerial(p) /\ \A g \in Readers : g # p
    BY TxnsApart DEF SerialInv
<1>2. UNCHANGED <<committed, rows, assigned, payload, seen>>
    BY DEF DeleteAssignment, DeleteCategory, CheckReferences, InsertCategory,
           InsertAssignment, committed
<1>3. \A q \in Puts : q # p =>
        /\ pc'[q] = pc[q]
        /\ dropped'[q] = dropped[q] /\ added'[q] = added[q] /\ left'[q] = left[q]
    BY <1>1, TxnsApart
       DEF DeleteAssignment, DeleteCategory, CheckReferences, InsertCategory,
           InsertAssignment, Goto, TypeOK, writes
<1>4. \A g \in Readers : pc'[g] = pc[g]
    BY <1>1 DEF DeleteAssignment, DeleteCategory, CheckReferences, InsertCategory,
                InsertAssignment, Goto, TypeOK
<1>5. pc[p] \in InTransaction /\ pc'[p] \in InTransaction
    BY <1>1 DEF DeleteAssignment, DeleteCategory, CheckReferences, InsertCategory,
                InsertAssignment, Goto, TypeOK, InTransaction
<1>6. p \in Active /\ (Pending(p)' => Pending(p))
    BY <1>5 DEF Active, Pending
<1>7. payload'[p] \in Payloads /\ KeepsBlend(p)'
    BY <1>1, <1>2, <1>5 DEF PutSerial, KeepsBlend
<1>8. pc'[p] \in {"dropping", "inserting"} => Doomed(p)' = rows'
    <2>1. CASE DeleteAssignment(p)
        BY <2>1 DEF DeleteAssignment
    <2>2. CASE DeleteCategory(p)
        <3>1. PICK r \in left[p] :
                /\ dropped' = [dropped EXCEPT ![p] = @ \cup ({r} \cap rows)]
                /\ left' = [left EXCEPT ![p] = @ \ {r}]
            BY <2>2 DEF DeleteCategory
        <3>2. pc[p] = "dropping" /\ pc' = pc
            BY <2>2 DEF DeleteCategory
        <3>3. Doomed(p)' = dropped[p] \cup ({r} \cap rows) \cup (left[p] \ {r})
            BY <1>1, <3>1, <3>2 DEF Doomed, TypeOK
        <3>4. dropped[p] \cup left[p] = rows
            BY <1>1, <3>2 DEF PutSerial, Doomed
        <3> QED
            BY <1>2, <3>3, <3>4
    <2>3. CASE CheckReferences(p)
        <3>1. /\ pc[p] = "dropping" /\ left[p] = {} /\ pc'[p] = "inserting"
              /\ UNCHANGED <<writes, left>>
            BY <1>1, <2>3 DEF CheckReferences, Goto, TypeOK
        <3> QED
            BY <1>1, <1>2, <3>1 DEF PutSerial, Doomed, writes
    <2>4. CASE InsertCategory(p) \/ InsertAssignment(p)
        <3>1. UNCHANGED <<dropped, pc, left>>
            BY <2>4 DEF InsertCategory, InsertAssignment
        <3> QED
            BY <1>1, <1>2, <3>1 DEF PutSerial, Doomed
    <2> QED
        BY <2>1, <2>2, <2>3, <2>4
<1>9. ASSUME pc'[p] = "inserting", NEW d \in DOMAIN payload[p], Row(p, d) \in added'[p]
      PROVE  Storable(d)
    <2>1. CASE pc[p] = "inserting" /\ Row(p, d) \in added[p]
        BY <1>1, <2>1 DEF PutSerial
    <2>2. CASE InsertCategory(p) /\ Row(p, d) \notin added[p]
        <3>1. PICK e \in MissingDefs(p) :
                Storable(e) /\ added' = [added EXCEPT ![p] = @ \cup {Row(p, e)}]
            BY <2>2 DEF InsertCategory
        <3>2. Row(p, d) = Row(p, e)
            BY <1>1, <1>9, <2>2, <3>1 DEF TypeOK
        <3>3. Stored(d) = Stored(e)
            BY <3>2 DEF Row
        <3> QED
            BY <3>1, <3>3 DEF Storable
    <2>3. CASE ~InsertCategory(p) /\ pc[p] = "inserting"
        <3>1. added' = added
            BY <2>3 DEF DeleteAssignment, DeleteCategory, CheckReferences, InsertAssignment
        <3> QED
            BY <1>9, <2>1, <2>3, <3>1
    <2>4. CASE pc[p] # "inserting"
        <3>1. added[p] = {} /\ added' = added
            BY <2>4 DEF DeleteAssignment, DeleteCategory, CheckReferences, InsertCategory,
                        InsertAssignment, PhaseInv, writes
        <3> QED
            BY <1>9, <3>1
    <2> QED
        BY <2>1, <2>2, <2>3, <2>4
<1>10. PutSerial(p)'
    <2>1. \A d \in DOMAIN payload'[p] : Row(p, d)' = Row(p, d)
        BY DEF Row
    <2> QED
        BY <1>2, <1>5, <1>7, <1>8, <1>9, <2>1 DEF PutSerial, InTransaction
<1> HIDE DEF SchemeInv
<1> QED
    BY <1>2, <1>3, <1>4, <1>6, <1>10, PutKeepsSerial

\* The sync changes neither a category nor anything a PUT has read.
LEMMA SyncSerial ==
    ASSUME SchemeInv, SerialInv, ~Fail(Sync),
           StartAssigning \/ StartSharing \/ AutoAssign \/ ShareCategory \/ CommitSync
    PROVE  SerialInv'
<1>1. TypeOK /\ \A a \in Puts \cup Readers : a # Sync /\ a \in Txns \cup Readers
    BY TxnsApart DEF SchemeInv
<1>2. rows' = rows /\ assigned \subseteq assigned'
    BY DEF StartAssigning, StartSharing, AutoAssign, ShareCategory, CommitSync,
           CommitWrites, SchemeInv, WriteInv, committed
<1>3. \A a \in Puts \cup Readers : pc'[a] = pc[a]
    BY <1>1 DEF StartAssigning, StartSharing, AutoAssign, ShareCategory, CommitSync,
                Goto, TypeOK
<1>4. \A q \in Puts : dropped'[q] = dropped[q] /\ added'[q] = added[q] /\ left'[q] = left[q]
    <2>1. CASE CommitSync
        BY <1>1, <2>1, TxnsApart, EndWrites DEF CommitSync, CommitWrites
    <2>2. CASE ~CommitSync
        <3>1. dropped' = dropped /\ added' = added
            BY <2>2 DEF StartAssigning, StartSharing, AutoAssign, ShareCategory, writes
        <3>2. \A q \in Puts : left'[q] = left[q]
            BY <1>1, <2>2, TxnsApart
               DEF StartAssigning, StartSharing, AutoAssign, ShareCategory, TypeOK
        <3> QED
            BY <3>1, <3>2
    <2> QED
        BY <2>1, <2>2
<1>5. UNCHANGED <<payload, seen>>
    BY DEF StartAssigning, StartSharing, AutoAssign, ShareCategory, CommitSync
<1> QED
    BY <1>2, <1>3, <1>4, <1>5, OthersKeepSerial

\* The assignments refer to the categories committed with them.
LEMMA ReaderStepSerial ==
    ASSUME SchemeInv, WholeInv, SerialInv, NEW g \in Readers, ReaderStep(g)
    PROVE  SerialInv'
<1>1. /\ TypeOK /\ g \notin Puts /\ Puts \subseteq Txns
      /\ ReaderSerial(g)
    BY TxnsApart DEF SchemeInv, SerialInv
<1>2. UNCHANGED <<committed, rows, assigned, writes, dropped, added, payload, left>>
    BY DEF ReaderStep, ReadCategories, AnswerGradebook, committed, writes
<1>3. \A a \in Puts \cup Readers : a # g => pc'[a] = pc[a] /\ seen'[a] = seen[a]
    BY <1>1 DEF ReaderStep, ReadCategories, AnswerGradebook, Goto, TypeOK
<1>4. ReaderSerial(g)'
    <2>1. PICK q \in Settled : rows = RowsOf(q) /\ AssignmentsOf(q) \subseteq assigned
        BY DEF SerialInv, OneScheme
    <2>2. SettledKept
        BY <1>1, <1>2, <1>3 DEF SettledKept, Settled, Pending, Owners
    <2>3. q \in Settled' /\ RowsOf(q)' = RowsOf(q) /\ AssignmentsOf(q)' = AssignmentsOf(q)
        BY <2>2, SettledRows DEF SettledKept
    <2>4. CASE ReadCategories(g)
        <3>1. pc'[g] = "listing" /\ seen'[g].rows = rows
            BY <1>1, <2>4 DEF ReadCategories, Goto, TypeOK
        <3> QED
            BY <2>1, <2>3, <3>1 DEF ReaderSerial
    <2>5. CASE AnswerGradebook(g)
        <3>1. /\ pc[g] = "listing"
              /\ pc'[g] = IF \A a \in assigned : a.row \in seen[g].rows THEN "ok" ELSE "error"
              /\ seen'[g].rows = seen[g].rows /\ seen'[g].assigned = assigned
            BY <1>1, <2>5 DEF AnswerGradebook, Goto, TypeOK
        <3>2. PICK p \in Settled : seen[g].rows = RowsOf(p)
            BY <1>1, <3>1 DEF ReaderSerial
        <3>3. p \in Settled' /\ RowsOf(p)' = RowsOf(p)
            BY <2>2, SettledRows DEF SettledKept
        <3>4. \A a \in assigned : a.row \in RowsOf(q)
            BY <2>1 DEF SchemeInv, SchemeIntact
        <3>5. pc'[g] = "ok" => p = q \/ assigned = {}
            <4>1. ASSUME NEW a \in assigned, pc'[g] = "ok"
                  PROVE  p = q
                <5>1. a.row \in RowsOf(p) /\ a.row \in RowsOf(q)
                    BY <3>1, <3>2, <3>4, <4>1
                <5> QED
                    BY <5>1 DEF RowsOf, Row
            <4> QED
                BY <4>1
        <3>6. pc'[g] = "error" => p # q
            BY <3>1, <3>2, <3>4
        <3>7. ReadFrom(g, p, q)'
            BY <2>1, <2>3, <3>1, <3>2, <3>3, <3>4, <3>5, <3>6 DEF ReadFrom
        <3> QED
            BY <2>3, <3>1, <3>3, <3>7 DEF ReaderSerial
    <2> QED
        BY <2>4, <2>5 DEF ReaderStep
<1> QED
    BY <1>1, <1>2, <1>3, <1>4, OthersKeepSerial

-------------------------------------------------------------------------------
(* One administrator at a time: the commit of a PUT *)

\* What is committed is the payload, and nothing of the scheme before it.
LEMMA CommitReplaces ==
    ASSUME SchemeInv, SerialInv, NEW p \in Puts, Commit(p)
    PROVE  /\ rows' = RowsOf(p) /\ assigned' = AssignmentsOf(p)
           /\ \A d \in DOMAIN payload[p] : Storable(d)
<1> USE DEF SchemeInv
<1>1. /\ p \in Txns /\ pc[p] = "inserting" /\ CommitWrites(p) /\ PutSerial(p)
      /\ MissingDefs(p) = {} /\ MissingAssignments(p) = {}
    BY TxnsApart DEF Commit, SerialInv
<1>2. added[p] = RowsOf(p)
    BY <1>1 DEF MissingDefs, WriteInv, RowsOf
<1>3. assigning[p] = AssignmentsOf(p)
    <2>1. \A a \in AssignmentsOf(p) : a.row \in added[p]
        BY <1>2 DEF AssignmentsOf, RowsOf
    <2> QED
        BY <1>1, <2>1 DEF MissingAssignments, WriteInv
<1>4. dropped[p] = rows
    BY <1>1 DEF PutSerial, Doomed
<1>5. assigned \ unassigned[p] = {}
    BY <1>1, <1>4 DEF FitInv, References, SchemeIntact
<1>6. rows' = RowsOf(p) /\ assigned' = AssignmentsOf(p)
    BY <1>1, <1>2, <1>3, <1>4, <1>5 DEF CommitWrites
<1>7. \A d \in DOMAIN payload[p] : Storable(d)
    BY <1>1, <1>2 DEF PutSerial, RowsOf
<1> QED
    BY <1>6, <1>7

LEMMA CommitSerial ==
    ASSUME SchemeInv, SerialInv, NEW p \in Puts, Commit(p)
    PROVE  SerialInv'
<1>1. PICK label \in {"error", "answering"} : Goto(p, label)
    BY DEF Commit
<1>2. /\ p \in Txns /\ p # Seed /\ pc[p] = "inserting" /\ CommitWrites(p) /\ TypeOK
      /\ UNCHANGED <<payload, seen>> /\ \A g \in Readers : g # p
    BY TxnsApart, OwnersAssumption DEF Commit, SchemeInv
<1>3. p \in Active /\ Pending(p)
    BY <1>2 DEF Active, Pending, InTransaction
<1>4. pc'[p] = label /\ \A a \in Puts \cup Readers : a # p => pc'[a] = pc[a]
    BY <1>1, <1>2, TxnsApart DEF Goto, TypeOK
<1>5. rows' = RowsOf(p) /\ assigned' = AssignmentsOf(p)
    BY CommitReplaces
<1>6. PutSerial(p)'
    <2>1. RowsOf(p)' = RowsOf(p) /\ AssignmentsOf(p)' = AssignmentsOf(p)
        BY <1>2 DEF RowsOf, AssignmentsOf, Row
    <2> QED
        BY <1>4, <1>5, <2>1 DEF PutSerial, InTransaction
<1>7. ~Pending(p)'
    BY <1>4 DEF Pending, InTransaction
<1>8. OneScheme'
    <2>1. p \in Settled' /\ RowsOf(p)' = RowsOf(p) /\ AssignmentsOf(p)' = AssignmentsOf(p)
        BY <1>2, <1>7 DEF Settled, Owners, RowsOf, AssignmentsOf, Row
    <2> QED
        BY <1>5, <2>1 DEF OneScheme
<1>9. \A q \in Puts : q # p =>
        dropped'[q] = dropped[q] /\ added'[q] = added[q] /\ left'[q] = left[q]
    BY <1>2, TxnsApart, EndWrites DEF CommitWrites
<1> QED
    BY <1>2, <1>3, <1>4, <1>6, <1>7, <1>8, <1>9, PutKeepsSerial

-------------------------------------------------------------------------------
(* One administrator at a time: the theorems *)

LEMMA InitSerial == Init => SerialInv
<1> SUFFICES ASSUME Init PROVE SerialInv
    OBVIOUS
<1>1. \A a \in Puts \cup Readers : pc[a] = "new"
    BY TxnsApart DEF Init
<1>2. Active = {}
    BY <1>1 DEF Active, InTransaction
<1>3. \A p \in Puts : PutSerial(p)
    BY <1>1 DEF PutSerial, InTransaction
<1>4. \A g \in Readers : ReaderSerial(g)
    BY <1>1 DEF ReaderSerial
<1>5. Seed \in Settled /\ rows = RowsOf(Seed) /\ assigned = AssignmentsOf(Seed)
    BY DEF Init, Settled, Owners, Pending, RowsOf
<1> QED
    BY <1>2, <1>3, <1>4, <1>5 DEF SerialInv, OneAdministrator, OneScheme

LEMMA NextSerial ==
    MaxActive = 1 /\ SchemeInv /\ WholeInv /\ SerialInv /\ [Next]_vars => SerialInv'
<1> SUFFICES ASSUME MaxActive = 1, SchemeInv, WholeInv, SerialInv, [Next]_vars
             PROVE  SerialInv'
    OBVIOUS
<1>1. ASSUME NEW p \in Puts, Validate(p) \/ PutStep(p)
      PROVE  SerialInv'
    <2>1. CASE Fail(p)
        BY <2>1, FailSerial, TxnsApart
    <2>2. CASE ~Fail(p)
        BY <1>1, <2>2, ReadingSerial, WritingSerial, CommitSerial DEF PutStep, Cancel
    <2> QED
        BY <2>1, <2>2
<1>2. CASE StartAssigning \/ SyncStep
    <2>1. CASE Fail(Sync)
        BY <2>1, FailSerial, TxnsApart
    <2>2. CASE ~Fail(Sync)
        BY <1>2, <2>2, SyncSerial DEF SyncStep, Cancel
    <2> QED
        BY <2>1, <2>2
<1>3. ASSUME NEW t \in Txns, Fault(t)
      PROVE  SerialInv'
    BY <1>3, FailSerial DEF Fault
<1>4. ASSUME NEW g \in Readers, ReaderStep(g)
      PROVE  SerialInv'
    BY <1>4, ReaderStepSerial
<1>5. CASE UNCHANGED vars
    BY <1>5, OthersKeepSerial DEF vars, committed, writes
<1> QED
    BY <1>1, <1>2, <1>3, <1>4, <1>5 DEF Next

LEMMA AlwaysSerialInv ==
    ASSUME MaxActive = 1
    PROVE  Spec => [](SchemeInv /\ WholeInv /\ SerialInv)
<1> DEFINE Inv == SchemeInv /\ WholeInv /\ SerialInv
<1>1. Init => Inv
    BY InitIntact, InitWhole, InitSerial
<1>2. Inv /\ [Next]_vars => Inv'
    BY NextIntact, NextWhole, NextSerial
<1> QED
    BY <1>1, <1>2, PTL DEF Spec

\* With one administrator at a time, the answer to a PUT shows the categories
\* and the assignments of its payload, although it is read after the commit and
\* the sync commits between its SELECTs.
THEOREM AnswersShowPayload ==
    ASSUME MaxActive = 1
    PROVE  Spec => []AnswerShowsPayload
<1>1. SerialInv => AnswerShowsPayload
    BY DEF SerialInv, PutSerial, RowsOf, AnswerShowsPayload
<1> QED
    BY <1>1, AlwaysSerialInv, PTL

\* With one administrator at a time, whatever PUTs and syncs commit between the
\* SELECTs of a gradebook, each of them reads one whole scheme; an answer that
\* shows items shows the categories and every item of one and the same scheme.
THEOREM GradebooksReadWholeSchemes ==
    ASSUME MaxActive = 1
    PROVE  Spec => []GradebookReadsWholeSchemes
<1>1. SerialInv => GradebookReadsWholeSchemes
    <2> SUFFICES ASSUME SerialInv, NEW g \in Readers, pc[g] \in {"ok", "error"}
                 PROVE  \E p, q \in Owners :
                            /\ seen[g].rows = RowsOf(p)
                            /\ AssignmentsOf(q) \subseteq seen[g].assigned
                            /\ {a.row : a \in seen[g].assigned} \subseteq RowsOf(q)
                            /\ pc[g] = "ok" => p = q \/ seen[g].assigned = {}
                            /\ pc[g] = "error" => p # q
        BY DEF GradebookReadsWholeSchemes, RowsOf
    <2>1. PICK p \in Settled, q \in Settled : ReadFrom(g, p, q)
        BY DEF SerialInv, ReaderSerial
    <2> QED
        BY <2>1 DEF ReadFrom, Settled
<1> QED
    BY <1>1, AlwaysSerialInv, PTL

-------------------------------------------------------------------------------
(* One administrator at a time: the promise *)

\* The definitions and the pairs an observer of the promise sees.
DefsShown == {r.def : r \in rows}
Shown(assignments) == {[item |-> a.item, def |-> a.row.def] : a \in assignments}

\* The promise judges a scheme by the rules the code applies.
LEMMA PromiseRules ==
    ASSUME NEW s
    PROVE  /\ Promise!WellFormed(s) <=> WellFormed(s)
           /\ Promise!Blends(s) = Blends(s)
           /\ \A d : (Promise!Storable(d) <=> Storable(d)) /\ Promise!Stored(d) = Stored(d)
<1>1. Promise!Weight(DOMAIN s) = Weight(DOMAIN s)
    BY DEF Weight, Promise!Weight, MapThenSumSet, Promise!MapThenSumSet,
           MapThenFoldSet, Promise!MapThenFoldSet
<1>2. \A d, e : Promise!Clash(d, e) <=> Clash(d, e)
    BY DEF Clash, Promise!Clash
<1>3. \A t : Promise!Blends(t) = Blends(t)
    BY DEF Blends, Promise!Blends
<1>4. \A d : Promise!Stored(d) = Stored(d)
    BY DEF Stored, Promise!Stored, Rounded, Promise!Rounded
<1>5. \A d : Promise!Storable(d) <=> Storable(d)
    BY DEF Storable, Promise!Storable, Whole, Promise!Whole, Stored, Promise!Stored,
           Rounded, Promise!Rounded
<1>6. Promise!WellFormed(s) <=> WellFormed(s)
    BY <1>1, <1>2, <1>3 DEF WellFormed, Promise!WellFormed, Whole, Promise!Whole
<1> QED
    BY <1>3, <1>4, <1>5, <1>6

\* The rows a request inserts show its payload.
LEMMA PayloadShown ==
    ASSUME NEW p \in Owners
    PROVE  /\ {r.def : r \in RowsOf(p)} = Promise!Categories(payload[p])
           /\ Shown(AssignmentsOf(p)) = Promise!Assignments(payload[p])
<1>1. \A d : Row(p, d).def = Promise!Stored(d)
    BY PromiseRules DEF Row
<1>2. {r.def : r \in RowsOf(p)} = Promise!Categories(payload[p])
    BY <1>1 DEF RowsOf, Promise!Categories
<1>3. Shown(AssignmentsOf(p)) \subseteq Promise!Assignments(payload[p])
    <2>1. SUFFICES ASSUME NEW d \in DOMAIN payload[p], NEW i \in payload[p][d]
                   PROVE  [item |-> i, def |-> Row(p, d).def] \in Promise!Assignments(payload[p])
        BY DEF Shown, AssignmentsOf
    <2> QED
        BY <1>1 DEF Promise!Assignments
<1>4. Promise!Assignments(payload[p]) \subseteq Shown(AssignmentsOf(p))
    <2>1. SUFFICES ASSUME NEW d \in DOMAIN payload[p], NEW i \in payload[p][d]
                   PROVE  [item |-> i, def |-> Promise!Stored(d)] \in Shown(AssignmentsOf(p))
        BY DEF Promise!Assignments
    <2> DEFINE a == [item |-> i, row |-> Row(p, d)]
    <2>2. a \in AssignmentsOf(p)
        BY DEF AssignmentsOf
    <2>3. a.item = i /\ a.row.def = Promise!Stored(d)
        BY <1>1
    <2> HIDE DEF a
    <2> QED
        BY <2>2, <2>3 DEF Shown
<1> QED
    BY <1>2, <1>3, <1>4

LEMMA InitPromised == Init => Promise!Init
<1> SUFFICES ASSUME Init PROVE Promise!Init
    OBVIOUS
<1>1. PICK s \in Initials : payload = [p \in Owners |-> s]
    BY DEF Init
<1>2. Seed \in Owners /\ payload[Seed] = s
    BY <1>1 DEF Owners
<1>3. rows = RowsOf(Seed) /\ assigned = AssignmentsOf(Seed)
    BY DEF Init, RowsOf
<1>4. {r.def : r \in rows} = Promise!Categories(s) /\ Shown(assigned) = Promise!Assignments(s)
    BY <1>2, <1>3, PayloadShown
<1> QED
    BY <1>4 DEF Promise!Init, Shown

LEMMA CommitPromised ==
    ASSUME SchemeInv, SerialInv, NEW p \in Puts, Commit(p)
    PROVE  Promise!Next
<1>1. /\ p \in Owners /\ pc[p] = "inserting" /\ PutSerial(p)
      /\ WellFormed(payload[p])
    BY TxnsApart DEF Commit, SerialInv, SchemeInv, PhaseInv, InTransaction
<1>2. payload[p] \in Payloads /\ KeepsBlend(p)
    BY <1>1 DEF PutSerial, InTransaction
<1>3. /\ {r.def : r \in rows'} = Promise!Categories(payload[p])
      /\ Shown(assigned') = Promise!Assignments(payload[p])
      /\ \A d \in DOMAIN payload[p] : Storable(d)
    BY <1>1, CommitReplaces, PayloadShown
<1>4. Promise!Replace(payload[p])
    BY <1>1, <1>2, <1>3, PromiseRules DEF Promise!Replace, KeepsBlend, Shown
<1> QED
    BY <1>2, <1>4 DEF Promise!Next, Promise!Replace

LEMMA SyncPromised ==
    ASSUME SchemeInv, WholeInv, CommitSync
    PROVE  Promise!Next
<1> DEFINE pairs == Shown(assigning[Sync])
<1>1. /\ TypeOK /\ Sync \in Txns /\ pc[Sync] = "sharing" /\ left[Sync] = {}
      /\ dropped[Sync] = {} /\ added[Sync] = {} /\ unassigned[Sync] = {}
    BY TxnsApart DEF CommitSync, SchemeInv, WriteInv
<1>2. rows' = rows /\ assigned' = assigned \cup assigning[Sync]
    BY <1>1 DEF CommitSync, CommitWrites
<1>3. \A a \in assigning[Sync] :
        /\ a.item \in Items /\ a.row \in rows /\ ~a.row.def.blend
        /\ a.row.def.mtype = TypeOf[a.item]
        /\ \A b \in assigned \cup assigning[Sync] : b.item = a.item => b = a
    <2>1. SUFFICES ASSUME NEW a \in assigning[Sync]
                   PROVE  /\ a.item \in Items /\ a.row \in rows /\ ~a.row.def.blend
                          /\ a.row.def.mtype = TypeOf[a.item]
                          /\ \A b \in assigned \cup assigning[Sync] :
                                b.item = a.item => b = a
        OBVIOUS
    <2>2. a.item \in Items /\ a.row \in rows /\ ~a.row.def.blend
        BY <1>1 DEF TypeOK, Assignments, SchemeInv, WriteInv
    <2>3. a.row.def.mtype = TypeOf[a.item]
        BY DEF WholeInv, MatchInv, Matched
    <2>4. \A b \in assigned \cup assigning[Sync] : b.item = a.item => b = a
        BY <1>1 DEF SchemeInv, FitInv
    <2> QED
        BY <2>2, <2>3, <2>4
<1>4. pairs \subseteq [item : Items, def : {r.def : r \in rows}]
    BY <1>3 DEF Shown
<1>5. Shown(assigned') = Shown(assigned) \cup pairs
    BY <1>2 DEF Shown
<1>6. ASSUME NEW a \in pairs
      PROVE  /\ a.def \in {r.def : r \in rows} /\ ~a.def.blend /\ a.def.mtype = TypeOf[a.item]
             /\ \A b \in Shown(assigned) \cup pairs : b.item = a.item => b = a
    <2>1. PICK x \in assigning[Sync] : a = [item |-> x.item, def |-> x.row.def]
        BY <1>6 DEF Shown
    <2>2. ASSUME NEW b \in Shown(assigned) \cup pairs, b.item = a.item
          PROVE  b = a
        <3>1. PICK y \in assigned \cup assigning[Sync] :
                b = [item |-> y.item, def |-> y.row.def]
            BY <2>2 DEF Shown
        <3>2. y = x
            BY <1>3, <2>1, <2>2, <3>1
        <3> QED
            BY <2>1, <3>1, <3>2
    <2> QED
        BY <1>3, <2>1, <2>2
<1>7. Promise!AutoAssign(pairs)
    BY <1>2, <1>5, <1>6 DEF Promise!AutoAssign, Shown
<1> QED
    BY <1>4, <1>7 DEF Promise!Next, Promise!AutoAssign

\* With one administrator at a time, every PUT is at its commit one replacement
\* of the whole scheme by a well-formed one that keeps the course's
\* attendance/participation category, every sync one addition, and nothing else
\* is visible: the transactions implement the promise.
THEOREM TransactionsKeepPromise ==
    ASSUME MaxActive = 1
    PROVE  Spec => ReplacedAtomically
<1>1. ASSUME SchemeInv, WholeInv, SerialInv, [Next]_vars
      PROVE  [Promise!Next]_(Promise!vars)
    <2>1. CASE UNCHANGED committed
        BY <2>1 DEF committed, Promise!vars
    <2>2. CommitSync \/ (\E p \in Puts : Commit(p)) \/ UNCHANGED committed
        BY <1>1 DEF Next, PutStep, SyncStep, ReaderStep, Fault, Cancel, Fail, Validate,
                    SelectCategories, DeleteAssignments, DeleteAssignment,
                    DeleteCategories, DeleteCategory, CheckReferences, InsertCategory,
                    InsertAssignment, ReadCategories, AnswerPut, AnswerGradebook,
                    StartAssigning, AutoAssign, StartSharing, ShareCategory, vars
    <2> QED
        BY <1>1, <2>1, <2>2, CommitPromised, SyncPromised
<1>2. Init => Promise!Init
    BY InitPromised
<1> QED
    BY <1>1, <1>2, AlwaysSerialInv, PTL DEF Spec, ReplacedAtomically, Promise!Spec
===============================================================================
