CONSTANTS
    None = None
    Commands = {k1, k2, k3}
    Students = {s1}
    Courses = {c1}
    Requests = {r1, r2, r3}
    Enrolled = {s1}
    MaxStarted = 4
CONSTRAINT Budget
SYMMETRY Symmetry
SPECIFICATION ParticipationSpec
CHECK_DEADLOCK FALSE
INVARIANTS
    OneActiveKey
    WaitsAreShort
    RevokedStaysOut
    ObservationsAddUp
    AnswersAreUpToDate
PROPERTIES
    NeverLockedOut
