SPECIFICATION Spec
CONSTANTS
    p = p
    q = q
    ra = ra
    rb = rb
    ann = ann
    ben = ben
    None = None
    Absent = Absent
    AllBacks = {"AllBackX"}
    LongestGame = 7
    ClipCeiling = 5
    Payloads <- MCPayloads
    Arrivals <- MCArrivals
    Home <- MCHome
    TeacherOf <- MCTeacherOf
    LastWeek = 2
    MaxMoves = 1
    MaxFailures = 0
    Flushers = {f1, f2}
    BatchSize = 2
    BucketSize = 1
    DaysApart = 35
SYMMETRY Symmetry
INVARIANT
    RowsGiveWay
CHECK_DEADLOCK FALSE
