SPECIFICATION FairSpec
CONSTANTS
    a1 = a1
    a2 = a2
    b1 = b1
    ann = ann
    bob = bob
    ana = ana
    boris = boris
    Runs = {a1, a2, b1}
    Week = {a1, a2, b1}
    Late = {a2}
    Teachers = {ana, boris}
    Students = {ann, bob}
    StudentOf <- MCStudentOf
    Home <- MCHome
    PairOf <- MCPairOf
    Commands = {c1}
    Modes = {"week", "sequential", "parallel", "teacher", "rebuild", "archive"}
    MaxWorkers = 2
    PipeHolds = 3
    Overwrite = FALSE
    FaultKinds = {"archive", "slice", "command"}
    MaxFaults = 1
    MaxCommands = 2
    MaxMoves = 1
INVARIANTS
    TypeOK
    ReplayAvailable
    RunRollupsComplete
    CompactedIsDone
PROPERTY
    DeletedIsSafe
    CommandEnds
CHECK_DEADLOCK FALSE
