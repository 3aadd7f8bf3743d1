------------------------------ MODULE SyncIssues ------------------------------
(***************************************************************************)
(* integration.sync_issues, as app/integration/issues.py writes it: one    *)
(* row per inconsistency (the source row that could not be merged), opened *)
(* again and again while it lasts, resolved when it is gone, never         *)
(* deleted.  Both functions run inside the merge transaction of the        *)
(* pipeline that calls them.                                               *)
(***************************************************************************)

\* "NONE": no row.
IssueStates == {"NONE", "OPEN", "RESOLVED"}

NoIssues(keys) == [k \in keys |-> "NONE"]

\* open_issue: INSERT ... ON CONFLICT DO UPDATE SET status = 'OPEN', whatever
\* the status of the row.
Opened(issues, k) == [issues EXCEPT ![k] = "OPEN"]

\* resolve_issue: UPDATE ... WHERE status = 'OPEN'; no row, no effect.
Resolved(issues, k) ==
    [issues EXCEPT ![k] = IF @ = "OPEN" THEN "RESOLVED" ELSE @]
===============================================================================
