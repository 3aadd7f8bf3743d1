------------------------------ MODULE SyncLedger ------------------------------
(***************************************************************************)
(* What one ingestion pipeline promises to whoever reads the platform's    *)
(* database: a list of runs, a watermark naming the batch the academic     *)
(* data reflects, and the academic data itself.  All three pipelines       *)
(* (Moodle, grades, Attendance) are meant to keep this promise; a detailed *)
(* specification shows that it does by instantiating this module with its  *)
(* own tables.  The worker, its phases, RAW, staging and the merge         *)
(* transaction are not visible here.                                       *)
(***************************************************************************)
EXTENDS Naturals

CONSTANTS
    MaxRuns,   \* bound: runs started in one behaviour, a natural number
    Contents   \* the values the academic data can take

VARIABLES
    status,     \* integration.sync_runs.status, by run
    watermark,  \* integration.sync_state: last merged batch, 0 when none
    content     \* the academic tables and the source mappings

vars == <<status, watermark, content>>

RunIds == 1..MaxRuns

Init ==
    /\ status = [r \in RunIds |-> "NONE"]
    /\ watermark = 0
    /\ content \in Contents

\* A run may act only while no later run has been started.
Latest(r) == status[r] # "NONE" /\ \A q \in RunIds : q > r => status[q] = "NONE"

Begin(r) ==
    /\ status[r] = "NONE"
    /\ \A q \in RunIds : q < r => status[q] # "NONE"
    /\ status' = [status EXCEPT ![r] = "RUNNING"]
    /\ UNCHANGED <<watermark, content>>

\* The merge commits: data, watermark and SUCCESS become visible together.
Merge(r) ==
    /\ Latest(r)
    /\ status[r] = "RUNNING"
    /\ status' = [status EXCEPT ![r] = "SUCCESS"]
    /\ watermark' = r
    /\ content' \in Contents

\* The run gives up: nothing but its own row changes.
Fail(r) ==
    /\ Latest(r)
    /\ status[r] = "RUNNING"
    /\ status' = [status EXCEPT ![r] = "FAILED"]
    /\ UNCHANGED <<watermark, content>>

\* The merge of r did commit but its acknowledgement was lost, so the worker
\* records the newest merged batch as FAILED.
Disown(r) ==
    /\ Latest(r)
    /\ status[r] = "SUCCESS"
    /\ watermark = r
    /\ status' = [status EXCEPT ![r] = "FAILED"]
    /\ UNCHANGED <<watermark, content>>

Next == \E r \in RunIds : Begin(r) \/ Merge(r) \/ Fail(r) \/ Disown(r)

Spec == Init /\ [][Next]_vars
===============================================================================
