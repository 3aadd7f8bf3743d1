CONSTANTS
    None = None
    t1 = t1
    t2 = t2
    r1 = r1
    r2 = r2
    day = day
    Students = {s1, s2}
    Numbers <- MCNumbers
    Pupils = {t1, t2}
    Accounts <- MCAccounts
    Clean <- MCClean
    Sessions = {day}
    SessionForms <- MCSessionForms
    SessionContents <- MCSessionContents
    Records = {r1, r2}
    Times = {"am", "pm"}
    Snapshots <- MCSnapshots
    MaxRuns = 2
SYMMETRY StudentSymmetry
SPECIFICATION Spec
CHECK_DEADLOCK FALSE
INVARIANTS
    NothingLost
    IssuesTrackMappings
    RefusalNeedsReplacement
PROPERTIES
    HistoryKept
    LedgerPromise
