SPECIFICATION FairSpec
CONSTANTS
    r1 = r1
    r2 = r2
    s1 = s1
    s2 = s2
    NoRun = NoRun
    Runs = {r1, r2}
    Students = {s1, s2}
    StudentOf <- MCStudentOf
    Dated = {}
    Oversized = {}
    Removable = {}
    Workers = {w1}
    Flushers = {f1}
    BatchSize = 2
    MaxRetries = 2
    FaultKinds = {"redis", "db", "reply", "crash"}
    MaxFaults = 2
    MaxRequests = 3
PROPERTIES
    AckedGetsRecorded
    PendingGetsDrained
