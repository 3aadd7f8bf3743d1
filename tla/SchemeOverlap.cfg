CONSTANTS
    None = None
    essay = essay
    quiz = quiz
    p1 = p1
    p2 = p2
    p3 = p3
    Seed = Seed
    Sync = Sync
    Items <- MCItems
    TypeOf <- MCTypeOf
    Defs <- MCDefs
    Puts = {p1, p2}
    Readers = {}
    Payloads <- ConcurrentPayloads
    Initials <- ConcurrentInitials
    MaxActive = 2
    MaxSyncs = 1
SPECIFICATION Spec
CHECK_DEADLOCK FALSE
INVARIANTS
    OneSchemeOnly
