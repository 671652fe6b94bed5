SPECIFICATION Spec
CONSTANTS
    r1 = r1
    r2 = r2
    s1 = s1
    s2 = s2
    NoRun = NoRun
    Runs = {r1, r2}
    Students = {s1, s2}
    StudentOf <- MCStudentOf
    Dated = {r1}
    Oversized = {}
    Removable = {s2}
    Workers = {w1}
    Flushers = {f1, f2}
    BatchSize = 2
    MaxRetries = 2
    FaultKinds = {"redis", "db", "reply", "crash"}
    MaxFaults = 2
    MaxRequests = 2
INVARIANTS
    TypeOK
    Accounting
    TotalsMatchRows
PROPERTY
    LedgerSpec
    FallbackIsHandedOver
