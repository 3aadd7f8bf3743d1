------------------------------ MODULE SchemeRules ------------------------------
(***************************************************************************)
(* What makes an evaluation scheme legal: the rules that                   *)
(* _validate_evaluation_scheme (app/services/evaluation_service.py) applies *)
(* to a PUT payload.  A scheme is a function from its category definitions *)
(* to the grade items assigned to each.                                    *)
(***************************************************************************)
EXTENDS Integers, FiniteSets, FiniteSetsExt

CONSTANTS
    Items,    \* the course's grade items
    TypeOf,   \* the Moodle activity type of an item
    Defs,     \* the category definitions payloads are made of
    None      \* no Moodle activity type

\* A category definition is a record of name, order, weight, blend and mtype.
\* weight is in thousandths of a percent, because a payload may carry more
\* than two decimals; blend says calculation_type is ATTENDANCE_PARTICIPATION
\* and not GRADE_ITEMS; mtype is moodle_activity_type, None when it is NULL.
ASSUME DefsAssumption ==
    Defs \subseteq [name : STRING, order : Int, weight : Int, blend : BOOLEAN,
                    mtype : {None} \cup STRING]

Whole == 100000

Weight(defs) == MapThenSumSet(LAMBDA d : d.weight, defs)

\* weight_percent is NUMERIC(5,2): the database rounds it, half away from zero.
Rounded(weight) ==
    IF weight >= 0 THEN 10 * ((weight + 5) \div 10) ELSE -10 * ((5 - weight) \div 10)

\* The row the database keeps for a definition.
Stored(d) == [d EXCEPT !.weight = Rounded(@)]

\* CHECK (weight_percent >= 0), CHECK (weight_percent <= 100).
Storable(d) == Stored(d).weight \in 0..Whole

Blends(defs) == {d \in defs : d.blend}

\* Two categories one course cannot have.
Clash(d, e) ==
    \/ d.name = e.name
    \/ d.order = e.order
    \/ d.mtype # None /\ d.mtype = e.mtype
    \/ d.blend /\ e.blend

\* The checks that look at the payload only.
WellFormed(scheme) ==
    LET defs == DOMAIN scheme IN
    /\ Weight(defs) = Whole
    /\ \A d, e \in defs :
        d # e => ~Clash(d, e) /\ scheme[d] \cap scheme[e] = {}
    /\ \A d \in Blends(defs) : d.mtype = None /\ scheme[d] = {}
===============================================================================
