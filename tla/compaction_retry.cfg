SPECIFICATION Spec
CONSTANTS
    a1 = a1
    a2 = a2
    b1 = b1
    ann = ann
    bob = bob
    ana = ana
    boris = boris
    Runs = {a1, b1}
    Week = {a1, b1}
    Late = {}
    Teachers = {ana, boris}
    Students = {ann, bob}
    StudentOf <- MCStudentOf
    Home <- MCHome
    PairOf <- MCPairOf
    Commands = {c1}
    Modes = {"sequential"}
    MaxWorkers = 2
    PipeHolds = 3
    Overwrite = FALSE
    FaultKinds = {"archive"}
    MaxFaults = 1
    MaxCommands = 2
    MaxMoves = 0
INVARIANT
    TurnRollupsComplete
CHECK_DEADLOCK FALSE
