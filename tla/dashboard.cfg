SPECIFICATION Spec
CONSTANTS
    ann = ann
    ben = ben
    ra = ra
    rb = rb
    p = p
    r1 = r1
    r2 = r2
    All = All
    Runs = {r1, r2}
    Pupils = {p}
    Rooms = {ra, rb}
    Teachers = {ann, ben}
    Workers = {w1}
    PupilOf <- MCPupilOf
    WeekOf <- MCWeekOf
    TeacherOf <- MCTeacherOf
    Homes <- MCHomes
    Visits <- MCVisits
    LastWeek = 2
    MaxEvents = 1
    Lifetime = 2
INVARIANTS
    TypeOK
    PagesAreTheTeachersOwn
    PagesMissOnlyRecentRuns
    CompactionShows
