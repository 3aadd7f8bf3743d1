CONSTANTS
    None = None
    s1 = s1
    quiz = quiz
    essay = essay
    d1 = d1
    d2 = d2
    Items = {quiz, essay}
    Students = {s1}
    Defs <- MCDefs
    Payloads <- MCPayloads
    GradeValues = {None, 0, 1, 5}
    MaxGrades = {0, 3, 8}
    Sessions = {d1, d2}
    Slots = {1, 2}
    Readers = {r1}
    Courses <- MCCourses
    MaxCommits = 2
SPECIFICATION Spec
CHECK_DEADLOCK FALSE
INVARIANTS
    QuietAnswers
    AnswersFit
    AttendanceAboveNeedsRace
    FiguresRight
PROPERTIES
    BetterGradeNeverLowers
