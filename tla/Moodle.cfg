CONSTANTS
    None = None
    u1 = u1
    u2 = u2
    Users = {u1, u2}
    StudentIds = {s1, s2}
    Enrollments <- MCEnrollments
    UserOf <- MCUserOf
    Profiles <- MCProfiles
    RawAccount <- MCRawAccount
    Contents <- MCContents
    Clean <- MCClean
    AccountOf <- MCAccountOf
    CourseProfiles <- MCCourseProfiles
    CourseContents <- MCCourseContents
    CleanCourse <- MCCleanCourse
    Snapshots <- MCSnapshots
    MaxRuns = 3
SPECIFICATION FairSpec
CHECK_DEADLOCK FALSE
INVARIANTS
    TypeOK
    NoDanglingLookup
    CountersAddUp
    ConflictNeedsReuse
    AcademicConsistent
    WatermarkMirrored
    Idempotent
    BatchTrail
PROPERTIES
    RunsFinish
    NothingForgotten
    LedgerPromise
    DirectoryPromise
