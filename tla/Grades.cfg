CONSTANTS
    None = None
    Ungraded = Ungraded
    u1 = u1
    u2 = u2
    essay = essay
    g1 = g1
    g2 = g2
    g3 = g3
    nobody = nobody
    Users = {u1, u2}
    Students = {s1, s2}
    Items = {essay}
    ItemForms <- MCItemForms
    ItemContents <- MCItemContents
    Clean <- MCClean
    Grades = {g1, g2, g3, nobody}
    ItemOf <- MCItemOf
    UserOf <- MCUserOf
    Values = {Ungraded, 0, 8}
    Snapshots <- MCSnapshots
    MaxRuns = 2
SYMMETRY StudentSymmetry
SPECIFICATION Spec
CHECK_DEADLOCK FALSE
INVARIANTS
    NothingLost
    IssuesTrackGrades
    RefusalNeedsReplacement
PROPERTIES
    OnlyShownMerged
    LedgerPromise
