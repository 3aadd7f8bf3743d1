---------------------------- MODULE MCParticipation ----------------------------
(* At most MaxStarted commands and requests on one student, for TLC. *)
EXTENDS Participation, FiniteSets, Integers, TLC

CONSTANT MaxStarted

Budget ==
    Cardinality({c \in Commands : cmd[c].pc # "new"})
        + Cardinality({r \in Requests : req[r].pc # "new"}) <= MaxStarted

Symmetry ==
    {p @@ q : p \in Permutations(Commands), q \in Permutations(Requests)}
===============================================================================
