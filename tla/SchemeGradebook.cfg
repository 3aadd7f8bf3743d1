CONSTANTS
    None = None
    essay = essay
    quiz = quiz
    p1 = p1
    p2 = p2
    p3 = p3
    Seed = Seed
    Sync = Sync
    Items <- MCItems
    TypeOf <- MCTypeOf
    Defs <- MCDefs
    Puts = {p1, p2}
    Readers = {g}
    Payloads <- SerialPayloads
    Initials <- SerialInitials
    MaxActive = 1
    MaxSyncs = 0
SPECIFICATION Spec
CHECK_DEADLOCK FALSE
INVARIANTS
    GradebookAnswers
