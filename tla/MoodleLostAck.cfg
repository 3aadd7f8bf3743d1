CONSTANTS
    None = None
    u1 = u1
    u2 = u2
    Users = {u1, u2}
    StudentIds = {s1, s2}
    Enrollments <- MCEnrollments
    UserOf <- MCUserOf
    Profiles <- MCProfiles
    RawAccount <- MCRawAccount
    Contents <- MCContents
    Clean <- MCClean
    AccountOf <- MCAccountOf
    CourseProfiles <- MCCourseProfiles
    CourseContents <- MCCourseContents
    CleanCourse <- MCCleanCourse
    Snapshots <- MCSnapshots
    MaxRuns = 2
SPECIFICATION Spec
CHECK_DEADLOCK FALSE
INVARIANTS
    FailedRunLeavesWatermark
