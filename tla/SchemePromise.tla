----------------------------- MODULE SchemePromise -----------------------------
(***************************************************************************)
(* What the platform promises about a course's evaluation scheme: an       *)
(* administrator replaces it whole by a well-formed one that keeps the     *)
(* attendance/participation category, and the Moodle grades sync only adds *)
(* assignments of unassigned items to the category configured for their    *)
(* activity type.  Transactions, locks and statements are not visible.     *)
(***************************************************************************)
EXTENDS SchemeRules

CONSTANTS
    Payloads,  \* the schemes an administrator sends
    Initials   \* the schemes that may be configured at the start

VARIABLES
    defs,      \* the course's categories
    assigned   \* the pairs of an item and the category it is assigned to

vars == <<defs, assigned>>

Categories(scheme) == {Stored(d) : d \in DOMAIN scheme}
Assignments(scheme) ==
    UNION {{[item |-> i, def |-> Stored(d)] : i \in scheme[d]} : d \in DOMAIN scheme}

Init ==
    \E scheme \in Initials :
        defs = Categories(scheme) /\ assigned = Assignments(scheme)

Replace(scheme) ==
    /\ WellFormed(scheme) /\ \A d \in DOMAIN scheme : Storable(d)
    /\ Blends(defs) # {} => Blends(DOMAIN scheme) # {}
    /\ defs' = Categories(scheme)
    /\ assigned' = Assignments(scheme)

AutoAssign(pairs) ==
    /\ \A a \in pairs :
        /\ a.def \in defs /\ ~a.def.blend /\ a.def.mtype = TypeOf[a.item]
        /\ \A b \in assigned \cup pairs : b.item = a.item => b = a
    /\ assigned' = assigned \cup pairs
    /\ UNCHANGED defs

Next ==
    \/ \E scheme \in Payloads : Replace(scheme)
    \/ \E pairs \in SUBSET [item : Items, def : defs] : AutoAssign(pairs)

Spec == Init /\ [][Next]_vars
===============================================================================
