SPECIFICATION Spec
CONSTANTS
    low = low
    high = high
    kim = kim
    Runs = {"a1", "a2", "a3", "b"}
    Pairs = {low, high}
    PairOf <- MCPairOf
    StudentOf <- MCStudentOf
    Arrivals <- MCArrivals
    Flushers = {f1, f2}
    Rebuilders = {r1}
    BucketSize = 2
    BatchSize = 2
    MaxWeek = 2
    MaxAborts = 1
SYMMETRY FlusherSymmetry
INVARIANTS
    TypeOK
    CountedOnce
    CanonicalUnlessRaced
PROPERTY
    OwnWeekKept
